---- MODULE HexaSources ----
(***************************************************************************)
(* The sources of a HexaShard project, the pins grounded in them and the   *)
(* retrieval over them (src/src/hexashard/store.py, pins.py, retrieval.py, *)
(* and the operations of project.py that change them).                     *)
(*                                                                         *)
(* A source file is written by the operation that changes it; pins and the *)
(* other files only when the project is saved, which bulk() postpones.     *)
(***************************************************************************)
EXTENDS Integers, Sequences, FiniteSets, SequencesExt

CONSTANTS Keys, Values, MaxSources, MaxPins, MaxOps,
          RetrievalBudget, MaxFragments,
          Declared   \* what the sources the project starts with declare

VARIABLES srcs,      \* the source records, by number
          pins,      \* the PinStore in memory, by number
          pinFile,   \* pins.jsonl
          indexed,   \* sources the retriever has fragments of
          bulk,      \* inside Project.bulk()
          torn,      \* a crash interrupted a supersession
          ops

hsVars == <<srcs, pins, pinFile, indexed, bulk, torn, ops>>

None == 0
SourceStatus == {"CURRENT", "DRAFT", "UNVERIFIED", "SUPERSEDED"}
AuthorityRank == [CURRENT |-> 3, DRAFT |-> 2, UNVERIFIED |-> 1, SUPERSEDED |-> 0]

---------------------------------------------------------------------------
\* SourceStore._ancestors and current_chain_head: both walks stop at a
\* source they have seen, so a walk visits each source at most once.
WalkBack(S, s) ==
  LET at[n \in 0..Len(S)] ==
        IF n = 0 THEN S[s].of ELSE IF at[n - 1] = None THEN None ELSE S[at[n - 1]].of
  IN {at[n] : n \in 0..Len(S)} \ {None}

ChainHead(S, s) ==
  LET at[n \in 0..Len(S)] ==
        IF n = 0 THEN s
        ELSE LET c == at[n - 1]
             IN IF S[c].by = None \/ (\E m \in 0..(n - 2) : at[m] = c) THEN c ELSE S[c].by
  IN at[Len(S)]

\* SourceStore.supersede: the two records it persists, in this order.
OldRecord(r, new) == [r EXCEPT !.status = "SUPERSEDED", !.by = new]
NewRecord(r, old) == [r EXCEPT !.status = "CURRENT", !.of = old, !.by = None]

Live(p) == p.status # "SUPERSEDED"
LivePins(P) == {i \in DOMAIN P : Live(P[i])}

\* pins.resolve: the status of a pin read from the source it cites.
Resolve(S, p) ==
  IF p.ref = None THEN "BROKEN"
  ELSE CASE S[p.ref].status = "CURRENT" -> "ACTIVE"
         [] S[p.ref].status = "SUPERSEDED" -> "STALE"
         [] OTHER -> "NEEDS_REVIEW"

\* pins.reconcile, for one pin.
Reconciled(S, p) ==
  LET seenAs == Resolve(S, p)
      head == ChainHead(S, p.ref)
  IN IF ~Live(p) \/ seenAs = "ACTIVE" THEN p
     ELSE IF seenAs = "BROKEN" \/ head = p.ref THEN [p EXCEPT !.status = seenAs]
     ELSE IF S[head].key = p.key /\ S[head].status = "CURRENT"
          THEN [p EXCEPT !.ref = head, !.val = S[head].val, !.status = "ACTIVE"]
          ELSE [p EXCEPT !.ref = head, !.status = "NEEDS_REVIEW"]

Reconcile(S, P) == [i \in DOMAIN P |-> Reconciled(S, P[i])]

\* PinStore.add: the live pin of the key is superseded by the new one.
AddPin(P, key, val, ref) ==
  Append([i \in DOMAIN P |-> IF P[i].key = key /\ Live(P[i])
                             THEN [P[i] EXCEPT !.status = "SUPERSEDED"] ELSE P[i]],
         [key |-> key, val |-> val, ref |-> ref, status |-> "ACTIVE", set |-> val])

---------------------------------------------------------------------------
\* Retriever.retrieve: fragments of the candidate sources that match, ranked
\* by authority and score, until the budget or the limit is met.
Candidates(S, statuses) == {s \in DOMAIN S : S[s].status \in statuses}
Ranked(S, matches, score) ==
  SortSeq(SelectSeq([s \in DOMAIN S |-> s], LAMBDA s : s \in matches), LAMBDA a, b :
    \/ AuthorityRank[S[a].status] > AuthorityRank[S[b].status]
    \/ AuthorityRank[S[a].status] = AuthorityRank[S[b].status]
       /\ (score[a] > score[b] \/ (score[a] = score[b] /\ a < b)))

\* Tokens of the first k fragments: a source that declares v is v long.
CostOf(S, r, k) == FoldSeq(LAMBDA s, acc : acc + S[s].val, 0, SubSeq(r, 1, k))

\* _ambiguities: every claim in scope with several CURRENT sources, in scope
\* themselves or not.
Ambiguities(S, matches) ==
  {c \in {S[s].key : s \in matches} :
     Cardinality({s \in DOMAIN S : S[s].key = c /\ S[s].status = "CURRENT"}) > 1}

Retrieve(S, statuses, query, score) ==
  LET matches == Candidates(S, statuses) \cap query \cap indexed
      r == Ranked(S, matches, score)
      fits(k) == k <= MaxFragments /\ (CostOf(S, r, k) <= RetrievalBudget \/ k <= 1)
      n == CHOOSE k \in 0..Len(r) : fits(k) /\ (k = Len(r) \/ ~fits(k + 1))
                                     /\ \A j \in 0..k : fits(j)
  IN [fragments |-> SubSeq(r, 1, n),
      truncated |-> n < Len(r),
      over |-> CostOf(S, r, n) > RetrievalBudget,
      ambiguous |-> Ambiguities(S, matches)]

---------------------------------------------------------------------------
\* Project._persist and _reindex, both postponed inside bulk().
Persist(P) == pinFile' = IF bulk THEN pinFile ELSE P
Reindex(S) == indexed' = IF bulk THEN indexed ELSE DOMAIN S
Op == ops < MaxOps /\ ops' = ops + 1

NewSource(key, val, status) ==
  [status |-> status, of |-> None, by |-> None, key |-> key, val |-> val]

HSInit ==
  /\ srcs = [i \in DOMAIN Declared |-> NewSource(Declared[i][1], Declared[i][2], "CURRENT")]
  /\ indexed = DOMAIN Declared /\ pins = <<>> /\ pinFile = <<>>
  /\ bulk = FALSE /\ torn = FALSE /\ ops = 0

\* Project.add_source
AddSource(key, val, status) ==
  /\ Op /\ Len(srcs) < MaxSources
  /\ srcs' = Append(srcs, NewSource(key, val, status))
  /\ Reindex(srcs') /\ Persist(pins)
  /\ UNCHANGED <<pins, bulk, torn>>

\* Project.pin
Pin(key, val, ref) ==
  /\ Op /\ Len(pins) < MaxPins
  /\ ref \in {None} \cup DOMAIN srcs
  /\ pins' = AddPin(pins, key, val, ref)
  /\ Persist(pins')
  /\ UNCHANGED <<srcs, indexed, bulk, torn>>

\* SourceStore.set_status
SetStatus(s, status) ==
  /\ Op /\ s \in DOMAIN srcs /\ srcs[s].status # "SUPERSEDED"
  /\ srcs' = [srcs EXCEPT ![s].status = status]
  /\ UNCHANGED <<pins, pinFile, indexed, bulk, torn>>

Supersedes(old, new) ==
  old \in DOMAIN srcs /\ new \in DOMAIN srcs /\ old # new /\ new \notin WalkBack(srcs, old)

Superseded(old, new) ==
  [srcs EXCEPT ![old] = OldRecord(@, new), ![new] = NewRecord(@, old)]

\* Project.supersede, with and without reconcile_pins.
Supersede(old, new, reconcile) ==
  /\ Op /\ Supersedes(old, new)
  /\ srcs' = Superseded(old, new)
  /\ Reindex(srcs')
  /\ pins' = IF reconcile THEN Reconcile(srcs', pins) ELSE pins
  /\ Persist(pins')
  /\ UNCHANGED <<bulk, torn>>

\* The process dies between the two source files, or after both and before
\* the pins are saved; the next Project.open reads what is on disk.
SupersedeCrash(old, new, both) ==
  /\ Op /\ Supersedes(old, new)
  /\ srcs' = IF both THEN Superseded(old, new) ELSE [srcs EXCEPT ![old] = OldRecord(@, new)]
  /\ torn' = (torn \/ ~both)
  /\ pins' = pinFile /\ bulk' = FALSE /\ indexed' = DOMAIN srcs'
  /\ UNCHANGED pinFile

\* Project.reconcile_pins
ReconcilePins ==
  /\ Op /\ pins' = Reconcile(srcs, pins) /\ Persist(pins')
  /\ UNCHANGED <<srcs, indexed, bulk, torn>>

\* Project.bulk
EnterBulk == ~bulk /\ bulk' = TRUE /\ UNCHANGED <<srcs, pins, pinFile, indexed, torn, ops>>
LeaveBulk ==
  /\ bulk /\ bulk' = FALSE
  /\ indexed' = DOMAIN srcs /\ pinFile' = pins
  /\ UNCHANGED <<srcs, pins, torn, ops>>

Crash ==
  /\ pins # pinFile
  /\ pins' = pinFile /\ indexed' = DOMAIN srcs /\ bulk' = FALSE
  /\ UNCHANGED <<srcs, pinFile, torn, ops>>

HSNext ==
  \/ \E k \in Keys, v \in Values, s \in {"CURRENT", "DRAFT"} : AddSource(k, v, s)
  \/ \E k \in Keys, v \in Values, r \in 0..MaxSources : Pin(k, v, r)
  \/ \E s \in 1..MaxSources : SetStatus(s, "UNVERIFIED")
  \/ \E o, n \in 1..MaxSources :
       \/ \E r \in BOOLEAN : Supersede(o, n, r)
       \/ \E b \in BOOLEAN : SupersedeCrash(o, n, b)
  \/ ReconcilePins \/ EnterBulk \/ LeaveBulk \/ Crash

HSSpec == HSInit /\ [][HSNext]_hsVars

---------------------------------------------------------------------------
TypeOK ==
  /\ \A s \in DOMAIN srcs : srcs[s].status \in SourceStatus
                            /\ {srcs[s].of, srcs[s].by} \subseteq 0..Len(srcs)
  /\ \A i \in DOMAIN pins : pins[i].ref \in 0..Len(srcs)
  /\ indexed \subseteq DOMAIN srcs

\* Authority is never undefined: whatever is superseded, and re-promoted,
\* following superseded_by from any source ends in one that is not superseded
\* (unless a crash tore a supersession in two).
AuthorityDefined ==
  ~torn => \A s \in DOMAIN srcs : srcs[ChainHead(srcs, s)].status # "SUPERSEDED"

\* No key has two live pins, and a live pin says what its author set or what a
\* source declares for exactly that key: reconciliation invents no value, and
\* a pin it leaves ACTIVE agrees with the source it cites.
PinsHonest ==
  \A i \in LivePins(pins) :
    /\ \A j \in LivePins(pins) : pins[i].key = pins[j].key => i = j
    /\ pins[i].val = pins[i].set
       \/ \E s \in DOMAIN srcs : /\ srcs[s].key = pins[i].key /\ srcs[s].val = pins[i].val
                                 /\ pins[i].status = "ACTIVE" => s = pins[i].ref

\* What a query returns, for every query and either order of scores: a superseded or
\* draft source only when asked for, a budget exceeded by a first fragment
\* alone, and a claim two CURRENT sources make always reported, even when the
\* budget or the query leaves one of them out.  (Pins play no part in it: it
\* is evaluated where there are none.)
RetrievalSound ==
  pins = <<>> =>
  \A query \in SUBSET DOMAIN srcs, dir \in {1, -1}, st \in {{"CURRENT"}, SourceStatus} :
    LET r == Retrieve(srcs, st, query, [s \in DOMAIN srcs |-> dir * s])
        got == {r.fragments[i] : i \in DOMAIN r.fragments}
    IN /\ \A s \in got : srcs[s].status \in st
       /\ r.over => Len(r.fragments) = 1
       /\ (got # {} /\ (\E s \in query \cap indexed : srcs[s].status = "CURRENT"))
            => srcs[r.fragments[1]].status = "CURRENT"
       /\ \A a \in query \cap indexed \cap Candidates(srcs, st), b \in DOMAIN srcs :
            (a # b /\ srcs[a].key = srcs[b].key /\ srcs[a].status = "CURRENT"
               /\ srcs[b].status = "CURRENT") => srcs[a].key \in r.ambiguous
====
