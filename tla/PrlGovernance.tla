---- MODULE PrlGovernance ----
(***************************************************************************)
(* The consultation shard of PRL: acts are appended by agents, by people   *)
(* who resolve claims and by imports of a chat export, and every standing  *)
(* is derived by replaying them (src/src/prl/query, collectors, ingest.py, *)
(* projections).  Nothing derived is stored.                               *)
(***************************************************************************)
EXTENDS Integers, Sequences, FiniteSets, SequencesExt, FiniteSetsExt

CONSTANTS Consults,        \* consultations made: <<subject, mode, agent, org>>
          Resolutions,     \* resolutions made: <<claim, decision, agent, org>>
          Conversations,   \* the export: a sequence of <<subject, roles of its turns>>
          MaxActs, MaxTime, MaxBuilds, MaxRuns

VARIABLES acts,      \* the shard prl_consultations, in append order
          pclock,    \* utc_now_ms, which stands still between quick acts
          import,    \* the import under way
          table,     \* the acts of the sqlite projection, in ord order
          builds

prlVars == <<acts, pclock, import, table, builds>>

Unknown == ""          \* an act from before agents and orgs were recorded
Decisions == {"accepted", "rejected", "superseded", "withdrawn"}
Act == [action |-> "prl.session", claim |-> 0, subject |-> Unknown, mode |-> "none",
        decision |-> "none", agent |-> Unknown, org |-> Unknown, ts |-> 0, run |-> 0,
        counts |-> <<>>]

---------------------------------------------------------------------------
\* Reading.  A bucket of the action index is filled newest first and then
\* sorted by time, so acts of one millisecond come in reverse order.
Bucket(A, action) ==
  SortSeq(SelectSeq([i \in DOMAIN A |-> i], LAMBDA i : A[i].action = action),
          LAMBDA i, j : A[i].ts < A[j].ts \/ (A[i].ts = A[j].ts /\ i > j))

Records(A, action) == LET b == Bucket(A, action) IN [n \in DOMAIN b |-> A[b[n]]]

\* StandingQuery._resolutions_for and the one-pass StandingIndex.
ResolutionsOf(A, claim) ==
  SelectSeq(Records(A, "prl.resolution"), LAMBDA r : r.claim = claim)

\* ConsultationQuery.list: the entries in the order of the shard, newest first.
Consultations(A) == Reverse(SelectSeq(A, LAMBDA a : a.action = "prl.consultation"))

\* detect_conflict: two authors who disagree, or one that nobody recorded.
DetectConflict(R) ==
  LET by(d) == {R[n].agent : n \in {m \in DOMAIN R : R[m].decision = d}}
      a == by("accepted")
      r == by("rejected")
  IN /\ a # {} /\ r # {}
     /\ \/ \E x \in a \ {Unknown}, y \in r \ {Unknown} : x # y
        \/ Unknown \in a \cup r

\* derive_standing: the latest resolution wins; a conflict is beside it.
DeriveStanding(R) ==
  IF R = <<>> THEN [raw |-> "proposed", conflict |-> FALSE]
  ELSE [raw |-> Last(R).decision, conflict |-> DetectConflict(R)]

GovernedStanding(s) == IF s.conflict THEN "contested" ELSE s.raw
StandingOf(A, claim) == DeriveStanding(ResolutionsOf(A, claim))

\* standings_of_subject: one line per claim, derive_object_standing over them.
ClaimsOf(A, subject) ==
  {a.claim : a \in {x \in ToSet(Consultations(A)) : x.subject = subject}}

Coherence(A, subject) ==
  LET D == {StandingOf(A, c).raw : c \in ClaimsOf(A, subject)} \cap {"accepted", "rejected"}
  IN CASE D = {} -> "unsettled" [] Cardinality(D) = 2 -> "divergent" [] OTHER -> "aligned"

HasConflict(A, subject) == \E c \in ClaimsOf(A, subject) : StandingOf(A, c).conflict

\* Fault seed: claims that were settled differently are not looked at.
ObjectStanding_NoDivergence(A, subject) ==
  IF HasConflict(A, subject) THEN "contested"
  ELSE IF Coherence(A, subject) = "unsettled" THEN "proposed"
  ELSE CHOOSE s \in {StandingOf(A, c).raw : c \in ClaimsOf(A, subject)} :
         s \in {"accepted", "rejected"}

ObjectStanding(A, subject) ==
  IF HasConflict(A, subject) \/ Coherence(A, subject) = "divergent" THEN "contested"
  ELSE IF Coherence(A, subject) = "unsettled" THEN "proposed"
  ELSE CHOOSE s \in {StandingOf(A, c).raw : c \in ClaimsOf(A, subject)} :
         s \in {"accepted", "rejected"}

\* GovernanceQuery.governance_of_subject.
SubjectGovernance(A, subject) ==
  CASE Coherence(A, subject) = "divergent" -> "divergent"
    [] HasConflict(A, subject) -> "contested"
    [] OTHER -> "clear"

\* KnowledgeObjectQuery.discover_objects: one row per subject, and its page.
OwningOrg(A, subject) ==
  LET mine == SelectSeq(Records(A, "prl.consultation"), LAMBDA a : a.subject = subject)
  IN IF mine = <<>> THEN Unknown ELSE mine[1].org

LastAct(A, subject) ==
  Last(SelectSeq(Records(A, "prl.consultation"), LAMBDA a : a.subject = subject))

Discover(A) ==
  {[subject |-> s, standing |-> ObjectStanding(A, s), coherence |-> Coherence(A, s),
    governance |-> SubjectGovernance(A, s), claims |-> Cardinality(ClaimsOf(A, s)),
    conflict |-> HasConflict(A, s), org |-> OwningOrg(A, s), agent |-> LastAct(A, s).agent] :
   s \in {a.subject : a \in ToSet(Consultations(A))}}

\* The page of an object: what it shows as the decision, and its history.
CurrentDecision(A, subject) ==
  LET P == {c \in ClaimsOf(A, subject) :
              \E a \in ToSet(Consultations(A)) : a.claim = c /\ a.mode = "proposal"}
      at(w) == {c \in P : GovernedStanding(StandingOf(A, c)) = w}
  IN CASE ObjectStanding(A, subject) = "contested" -> {}
       [] at("accepted") # {} -> at("accepted")
       [] ObjectStanding(A, subject) = "rejected" -> at("rejected")
       [] OTHER -> {}

Timeline(A, subject) ==
  LET mine == SelectSeq(Records(A, "prl.consultation"), LAMBDA a : a.subject = subject)
      thread(a) == IF a.mode = "proposal" THEN <<a>> \o ResolutionsOf(A, a.claim) ELSE <<a>>
  IN FlattenSeq([n \in DOMAIN mine |-> thread(mine[n])])

\* AgentOrgQuery: a resolution reaches its subject through the claim.
SubjectOfClaim(A, claim) ==
  LET mine == SelectSeq(Records(A, "prl.consultation"), LAMBDA a : a.claim = claim)
  IN IF mine = <<>> THEN Unknown ELSE Last(mine).subject

\* Acts without an agent are listed under "unknown".
AgentKeys(agent) == IF agent = "unknown" THEN {Unknown, "unknown"} ELSE {agent}
AgentActs(A, agent) == {a \in ToSet(A) : a.agent \in AgentKeys(agent)}
AgentView(A, agent) ==
  [proposed |-> {a.subject : a \in {x \in AgentActs(A, agent) : x.mode = "proposal"}},
   observed |-> {a.subject : a \in {x \in AgentActs(A, agent) : x.mode = "observation"}},
   resolved |-> {<<a.decision, SubjectOfClaim(A, a.claim)>> :
                   a \in {x \in AgentActs(A, agent) : /\ x.action = "prl.resolution"
                                                      /\ SubjectOfClaim(A, x.claim) # Unknown}},
   orgs |-> {a.org : a \in {x \in AgentActs(A, agent) : x.action # "prl.session"}} \ {Unknown}]

Touches(A, org) ==
  {IF a.action = "prl.resolution" THEN SubjectOfClaim(A, a.claim) ELSE a.subject :
     a \in {x \in ToSet(A) : x.org = org}} \ {Unknown}

OrgView(A, org) ==
  LET owned == {s \in {a.subject : a \in ToSet(Consultations(A))} : OwningOrg(A, s) = org}
  IN [owned |-> owned, touched |-> Touches(A, org) \ owned]

---------------------------------------------------------------------------
\* Writing: PRLStore.commit_act, one append per act.
NewClaim == 1 + Max({0} \cup {acts[i].claim : i \in DOMAIN acts})
Commit(a) == Len(acts) < MaxActs /\ acts' = Append(acts, [a EXCEPT !.ts = pclock])

\* ConsultationAdapter.to_act; agents of old acts are unknown.
ToAct(subject, mode, agent, org, run) ==
  [Act EXCEPT !.action = "prl.consultation", !.claim = NewClaim, !.subject = subject,
              !.mode = mode, !.agent = agent, !.org = org, !.run = run]

Consult(subject, mode, agent, org) ==
  /\ Commit(ToAct(subject, mode, agent, org, 0)) /\ UNCHANGED <<pclock, import, table, builds>>

\* make_resolution: it names a claim, which need not be on the chain.
MakeResolution(claim, decision, agent, org) ==
  [Act EXCEPT !.action = "prl.resolution", !.claim = claim, !.decision = decision,
              !.agent = agent, !.org = org]

Resolve(claim, decision, agent, org) ==
  /\ Commit(MakeResolution(claim, decision, agent, org)) /\ UNCHANGED <<pclock, import, table, builds>>

\* import_chatgpt: the turns of each conversation, its boundary act, and the
\* manifest with the counts after the last one.  A run that stops half-way
\* leaves what it wrote; running it again writes all of it again.
Idle == [on |-> FALSE, run |-> 0, conv |-> 1, turn |-> 1, turns |-> 0, bounds |-> 0, subj |-> {}]
StartImport ==
  /\ ~import.on /\ import.run < MaxRuns
  /\ import' = [Idle EXCEPT !.on = TRUE, !.run = import.run + 1]
  /\ UNCHANGED <<acts, pclock, table, builds>>

ImportTurn ==
  LET conv == Conversations[import.conv]
  IN /\ import.on /\ import.conv <= Len(Conversations) /\ import.turn <= Len(conv[2])
     /\ Commit(ToAct(conv[1], "observation", conv[2][import.turn], Unknown, import.run))
     /\ import' = [import EXCEPT !.turn = @ + 1, !.turns = @ + 1, !.subj = @ \cup {conv[1]}]
     /\ UNCHANGED <<pclock, table, builds>>

ImportBoundary ==
  LET conv == Conversations[import.conv]
  IN /\ import.on /\ import.conv <= Len(Conversations) /\ import.turn > Len(conv[2])
     /\ IF conv[2] = <<>>     \* a conversation without turns is passed over
        THEN /\ import' = [import EXCEPT !.conv = @ + 1, !.turn = 1] /\ UNCHANGED acts
        ELSE /\ Commit([Act EXCEPT !.run = import.run])
             /\ import' = [import EXCEPT !.conv = @ + 1, !.turn = 1, !.bounds = @ + 1]
     /\ UNCHANGED <<pclock, table, builds>>

Counts(i) == <<Cardinality(i.subj), i.turns, i.bounds>>
ImportManifest ==
  /\ import.on /\ import.conv > Len(Conversations)
  /\ Commit([Act EXCEPT !.run = import.run, !.counts = Counts(import)])
  /\ import' = [Idle EXCEPT !.run = import.run]
  /\ UNCHANGED <<pclock, table, builds>>

ImportCrash ==
  /\ import.on /\ import' = [Idle EXCEPT !.run = import.run]
  /\ UNCHANGED <<acts, pclock, table, builds>>

\* build_sqlite_projection: one transaction, in the order of the buckets.
BuildProjection ==
  /\ builds < MaxBuilds /\ builds' = builds + 1
  /\ table' = Records(acts, "prl.consultation") \o Records(acts, "prl.resolution")
  /\ UNCHANGED <<acts, pclock, import>>

\* SqliteProjection.navigate_action reads a bucket back by ord.
TableRecords(action) == SelectSeq(table, LAMBDA a : a.action = action)

PClock == pclock < MaxTime /\ pclock' = pclock + 1 /\ UNCHANGED <<acts, import, table, builds>>

PrlInit == acts = <<>> /\ pclock = 1 /\ import = Idle /\ table = <<>> /\ builds = 0
PrlNext ==
  \/ \E c \in Consults : Consult(c[1], c[2], c[3], c[4])
  \/ \E r \in Resolutions : Resolve(r[1], r[2], r[3], r[4])
  \/ StartImport \/ ImportTurn \/ ImportBoundary \/ ImportManifest \/ ImportCrash
  \/ BuildProjection \/ PClock

PrlSpec == PrlInit /\ [][PrlNext]_prlVars

---------------------------------------------------------------------------
PrlTypeOK ==
  /\ Len(acts) <= MaxActs /\ pclock \in 1..MaxTime
  /\ \A i \in DOMAIN acts : DOMAIN acts[i] = DOMAIN Act
                            /\ acts[i].decision \in Decisions \cup {"none"}
  /\ import.on \in BOOLEAN /\ import.conv \in 1..(Len(Conversations) + 1)
  /\ Len(table) <= MaxActs /\ builds \in 0..MaxBuilds

\* The readings of one subject never contradict each other: an object is
\* contested exactly when its governance is not clear, it shows a decision
\* only when it is not contested, an accepted object has no claim whose last
\* resolution rejects it, and an act whose org is known belongs to the object
\* as owner or visitor (subject_read.py, governance_read.py,
\* knowledge_object.py, agent_org_read.py).
ReadingsAgree ==
  \A row \in Discover(acts) :
    /\ row.standing = "contested" <=> row.governance # "clear"
    /\ row.standing = "contested" => CurrentDecision(acts, row.subject) = {}
    /\ \A s \in {"accepted", "rejected"} : row.standing = s =>
         \A c \in ClaimsOf(acts, row.subject) :
            StandingOf(acts, c).raw \notin {"accepted", "rejected"} \ {s}
    /\ \A o \in Touches(acts, row.org) :
         o \in OrgView(acts, row.org).owned \cup OrgView(acts, row.org).touched

\* The manifest of an import counts exactly the turn and boundary acts its
\* run has in the log, however other acts interleave with the run (ingest.py,
\* import_chatgpt).
ManifestTrue ==
  \A i \in DOMAIN acts : acts[i].counts # <<>> =>
    LET run == {j \in DOMAIN acts : acts[j].run = acts[i].run /\ j # i}
        turns == {j \in run : acts[j].action = "prl.consultation"}
    IN acts[i].counts = <<Cardinality({acts[j].subject : j \in turns}),
                          Cardinality(turns), Cardinality(run \ turns)>>

\* The projection answers as the log did when it was built: each bucket read
\* back is the bucket of some prefix of the log (sqlite_projection.py).
ProjectionIsAPast ==
  \E n \in 0..Len(acts) :
    \A action \in {"prl.consultation", "prl.resolution"} :
      TableRecords(action) = Records(SubSeq(acts, 1, n), action)
====
