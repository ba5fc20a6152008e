---- MODULE Swarm ----
(***************************************************************************)
(* The swarm ledger of PRL: agents append records of a run to one shard    *)
(* (src/src/prl/swarm/types.py, store/dsm_commit.py) and project_run       *)
(* replays them (src/src/prl/swarm/replay.py).  Nothing derived is stored. *)
(***************************************************************************)
EXTENDS Integers, Sequences, FiniteSets

CONSTANTS Run,           \* the run that is replayed
          SwarmInputs,   \* the records agents try to append to its shard
          MaxLog

VARIABLES swLog,      \* the shard, in authoritative order
          swAnswer    \* what the last commit returned

swVars == <<swLog, swAnswer>>

NoRef == "none"
Kinds == {"run", "task", "work", "review", "decision", "conflict"}

\* One shape for the six models.  ref: what a decision supersedes, a review
\* reviews, or the resolution of a conflict; bases: the evidence and parent
\* of a decision, the competing refs of a conflict, the required checks of a
\* work; claimed: its claimed checks; word: status, verdict or state.
SwarmRecord(r) ==
  /\ r.kind \in Kinds /\ r.run # NoRef
  /\ r.kind = "conflict" => /\ Cardinality(r.bases) >= 2
                            /\ r.word = "resolved" => r.ref # NoRef

---------------------------------------------------------------------------
\* _validate_swarm_draft: the envelope must say what the record says.
Faults == {"none", "source", "version", "action", "session", "kind"}

\* Fault seed: the record inside the envelope is not looked at.
ValidDraft_EnvelopeOnly(r, fault) == fault = "none"
ValidDraft(r, fault) == fault = "none" /\ SwarmRecord(r)
CommitSwarmEntry(r, fault) ==
  /\ Len(swLog) < MaxLog
  /\ IF ValidDraft(r, fault)
     THEN swLog' = Append(swLog, r) /\ swAnswer' = "committed"
     ELSE swAnswer' = "refused" /\ UNCHANGED swLog

---------------------------------------------------------------------------
\* project_run(records, swarm_run_id = Run).
InRun(L) == SelectSeq(L, LAMBDA r : r.run = Run)
At(L, kind) == {i \in DOMAIN L : L[i].kind = kind}
Ids(L, kind) == {L[i].id : i \in At(L, kind)}

\* The latest record of a line wins.
Latest(L, kind, id) ==
  L[CHOOSE i \in At(L, kind) : L[i].id = id /\ \A j \in At(L, kind) : L[j].id = id => j <= i]

Works(L) == {Latest(L, "work", id) : id \in Ids(L, "work")}
Reviews(L) == {Latest(L, "review", id) : id \in Ids(L, "review")}
Known(L) == {Run} \cup UNION {Ids(L, k) : k \in Kinds \ {"run"}}

\* _derive_decision_standings: the supersessions the closed matrix admits,
\* by the index of the receipt that declares them.
Declares(L) ==
  {i \in At(L, "decision") : L[i].ref \notin {NoRef, L[i].id} /\ L[i].ref \in Ids(L, "decision")}

Supersessors(L, d) == {L[i].id : i \in {j \in Declares(L) : L[j].ref = d}}

\* supersedes_of keeps one target per line: the one declared_edges met last.
FirstDeclared(L, t) ==
  CHOOSE i \in Declares(L) : L[i].ref = t /\ \A j \in Declares(L) : L[j].ref = t => i <= j

SupersedesOf(L) ==
  [s \in {L[i].id : i \in Declares(L)} |->
     LET targets == {L[i].ref : i \in {j \in Declares(L) : L[j].id = s}}
     IN CHOOSE t \in targets :
          \A u \in targets : FirstDeclared(L, u) <= FirstDeclared(L, t)]

\* The members of the loops of a partial function are its fixed sets.
InCycle(L) ==
  LET F == SupersedesOf(L) IN UNION {C \in SUBSET DOMAIN F : {F[n] : n \in C} = C}

Ambiguous(L, d) ==
  LET S == Supersessors(L, d)
  IN \/ Cardinality(S) > 1
     \/ S # {} /\ (S \cup {d}) \cap InCycle(L) # {}

\* The last supersessor in the log, which is the only one when not ambiguous.
SupersededBy(L, d) ==
  IF Supersessors(L, d) = {} \/ Ambiguous(L, d) THEN NoRef
  ELSE L[CHOOSE i \in Declares(L) : L[i].ref = d /\ \A j \in Declares(L) : L[j].ref = d => j <= i].id

Standing(L, d) ==
  [status |-> Latest(L, "decision", d).word, by |-> SupersededBy(L, d),
   ambiguous |-> Ambiguous(L, d)]

ReviewSignal(verdicts) ==
  CASE verdicts = {} -> "none"
    [] {"approve", "reject"} \subseteq verdicts -> "divergent"
    [] "approve" \in verdicts -> "positive"
    [] "reject" \in verdicts -> "negative"
    [] OTHER -> "unpolarized"

\* _coverage: the required checks nobody claimed.
Missing(w) == w.bases \ w.claimed

\* _task_of: a record of a task the run has no node for is an orphan.
Orphans(L) ==
  {r.id : r \in {x \in Works(L) \cup {L[i] : i \in At(L, "decision")} :
                  x.task # NoRef /\ x.task \notin Ids(L, "task")}}

TaskWorks(L, t) == {w \in Works(L) : w.task = t}
TaskReviews(L, t) ==
  {v \in Reviews(L) : v.ref = t \/ v.ref \in {w.id : w \in TaskWorks(L, t)}}

TaskView(L, t) ==
  [status |-> Latest(L, "task", t).word,
   work |-> CASE TaskWorks(L, t) = {} -> "no_work_claimed"
              [] TaskReviews(L, t) # {} -> "work_reviewed"
              [] OTHER -> "work_claimed",
   signal |-> ReviewSignal({v.word : v \in TaskReviews(L, t)})]

\* Every diagnostic, as its kind and the record it names.
Diagnostics(L0) ==
  LET L == InRun(L0)
      D == {L[i] : i \in At(L, "decision")}
      stale == {d \in Ids(L, "decision") : SupersededBy(L, d) # NoRef}
  IN    {<<"cross_run_record", L0[i].id>> : i \in {j \in DOMAIN L0 : L0[j].run # Run}}
   \cup {<<"self_supersession", d.id>> : d \in {e \in D : e.ref = e.id}}
   \cup {<<"missing_reference", d.id>> : d \in {e \in D : e.ref # NoRef /\ e.ref \notin Known(L)}}
   \cup {<<"supersession_type_mismatch", d.id>> :
            d \in {e \in D : e.ref \in Known(L) \ Ids(L, "decision")}}
   \cup {<<"supersession_cycle", d>> : d \in InCycle(L)}
   \cup {<<"concurrent_supersession", d>> :
            d \in {e \in Ids(L, "decision") : Cardinality(Supersessors(L, e)) > 1}}
   \cup {<<"review_of_unknown_ref", v.id>> : v \in {x \in Reviews(L) : x.ref \notin Known(L)}}
   \cup {<<"reviews_divergent", v.ref>> : v \in {x \in Reviews(L) :
            ReviewSignal({y.word : y \in {z \in Reviews(L) : z.ref = x.ref}}) = "divergent"}}
   \cup {<<"required_checks_uncovered", w.id>> : w \in {x \in Works(L) : Missing(x) # {}}}
   \cup {<<"decision_on_superseded", d.id>> :
            d \in {e \in D : (e.bases \cap stale) \ {e.ref} # {}}}
   \cup {<<"conflict_unresolved", c>> : c \in {x \in Ids(L, "conflict") :
            Latest(L, "conflict", x).word # "resolved"}}
   \cup {<<"task_unknown", r>> : r \in Orphans(L)}

\* What a reader of the run gets.
ProjectRun(L0) ==
  LET L == InRun(L0)
  IN [tasks |-> [t \in Ids(L, "task") |-> TaskView(L, t)],
      decisions |-> [d \in Ids(L, "decision") |-> Standing(L, d)],
      works |-> Works(L), reviews |-> Reviews(L),
      orphans |-> Orphans(L), diagnostics |-> Diagnostics(L0)]

SwInit == swLog = <<>> /\ swAnswer = "none"
SwNext == \E r \in SwarmInputs, fault \in Faults : CommitSwarmEntry(r, fault)
SwSpec == SwInit /\ [][SwNext]_swVars

---------------------------------------------------------------------------
SwTypeOK == /\ \A i \in DOMAIN swLog : SwarmRecord(swLog[i])
            /\ Len(swLog) <= MaxLog /\ swAnswer \in {"none", "committed", "refused"}

OneTargetEach(L) ==
  \A i, j \in Declares(L) : L[i].id = L[j].id => L[i].ref = L[j].ref

\* When every decision line supersedes at most one other, the lines that
\* replay reports as superseded never lead back to themselves, and every line
\* whose successor is withheld is explained by a loop or by rival successors
\* (replay.py, _derive_decision_standings).
SupersessionSound ==
  LET L == InRun(swLog)
      replaced == {d \in Ids(L, "decision") : SupersededBy(L, d) # NoRef}
  IN OneTargetEach(L) =>
       /\ \A C \in SUBSET replaced : {SupersededBy(L, d) : d \in C} = C => C = {}
       /\ \A d \in Ids(L, "decision") : Ambiguous(L, d) =>
            \E k \in {"supersession_cycle", "concurrent_supersession"} :
               \E e \in Supersessors(L, d) \cup {d} : <<k, e>> \in Diagnostics(swLog)

\* Agents append concurrently and the ledger fixes one order: replay must not
\* let that accident decide.  Exchanging two neighbouring records of different
\* lines leaves every reading of the run as it was, under the same proviso
\* (replay.py, project_run).
OrderOfAgentsIrrelevant ==
  OneTargetEach(InRun(swLog)) =>
    \A i \in 1..(Len(swLog) - 1) :
      swLog[i].id # swLog[i + 1].id =>
        ProjectRun([swLog EXCEPT ![i] = swLog[i + 1], ![i + 1] = swLog[i]]) = ProjectRun(swLog)
====
