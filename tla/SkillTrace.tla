----------------------------- MODULE SkillTrace -----------------------------
(***************************************************************************)
(* The skill trace of eval/: records of a JSONL file are retrieved for a   *)
(* scope (retrieval.py), composed into a trace that keeps validated rules, *)
(* candidate rules, cases and required checks apart, and the trace is      *)
(* scored (execution.py).  A trace may be edited between composition and   *)
(* scoring: it is a JSON value that travels through the provider.          *)
(*                                                                         *)
(* A record keeps what the code tells apart: its id (the sort key, which   *)
(* the file does not keep unique), the scope it belongs to, its kind and   *)
(* epistemic status, whether it carries a candidate rule update, and the   *)
(* checks it requires.  A scope stands for (user_id, domain, skill_id).    *)
(***************************************************************************)
EXTENDS Integers, SequencesExt, FiniteSets

CONSTANTS Scopes, Ids, Checks, MaxRecords

VARIABLES file,    \* the records in file order
          trace,   \* the composed trace, or NoTrace
          score    \* the scorer's result, or NoScore

stVars == <<file, trace, score>>

Statuses == {"validated_rule", "candidate_rule", "open"}

\* update: one of skill_rule_updates has status "candidate".
Record == [id: Ids, scope: Scopes, type: {"rule", "case"}, status: Statuses,
           update: BOOLEAN, checks: SUBSET Checks]

NoTrace == [scope |-> "none"]
NoScore == [points |-> -1, penalties |-> {}]
Points == [low |-> 5, medium |-> 15, high |-> 30]

----------------------------------------------------------------------------
\* Retrieval.
IsValidatedRule(r) == r.type = "rule" /\ r.status = "validated_rule"
IsCandidateRule(r) == r.status = "candidate_rule" \/ r.update

SortedById(s) == SortSeq(s, LAMBDA a, b: a.id < b.id)

Matched(s, scope) == SortedById(SelectSeq(s, LAMBDA r: r.scope = scope))

RetrieveSkillContext(s, scope) ==
    LET found == Matched(s, scope) IN
    [scope |-> scope,
     checks |-> UNION {r.checks : r \in ToSet(found)},
     validated |-> SelectSeq(found, IsValidatedRule),
     candidates |-> SelectSeq(found, IsCandidateRule),
     cases |-> SelectSeq(found, LAMBDA r: r.type = "case")]

----------------------------------------------------------------------------
\* Composition: known is the set of checks some known input covers.
ComposeRequiredChecks(checks, known) ==
    {[check |-> c, status |-> IF c \in known THEN "covered" ELSE "missing"] :
        c \in checks}

RuleItems(rules, status, applied) ==
    [i \in DOMAIN rules |-> [id |-> rules[i].id, scope |-> rules[i].scope,
                             marked |-> status, applied |-> applied]]

ComposeSkillTrace(ctx, known) ==
    LET items == ComposeRequiredChecks(ctx.checks, known)
        missing == {i.check : i \in {j \in items : j.status = "missing"}}
    IN  [scope |-> ctx.scope, ctx |-> ctx, items |-> items,
         missing |-> missing, warned |-> missing,
         applied |-> RuleItems(SortedById(ctx.validated), "validated_rule", TRUE),
         candidates |-> RuleItems(SortedById(ctx.candidates), "candidate_rule", FALSE),
         cases |-> RuleItems(SortedById(ctx.cases), "case", FALSE),
         decision |-> "not_produced", edits |-> {}]

----------------------------------------------------------------------------
\* Scoring: one penalty per offending item, <<code, severity, item>>.
ScoreScope(t) ==
    {<<"wrong_scope", "high", "trace">> : s \in {t.scope} \ {t.ctx.scope}}

ScoreRequiredChecks(t) ==
    {<<"required_check_not_in_trace", "high", c>> :
        c \in t.ctx.checks \ {i.check : i \in t.items}}
    \cup {<<"invalid_required_check_status", "medium", i.check>> :
        i \in {j \in t.items : j.status \notin {"covered", "missing"}}}
    \cup {<<"missing_check_not_listed", "high", i.check>> :
        i \in {j \in t.items : j.status = "missing" /\ j.check \notin t.missing}}
    \cup {<<"missing_check_without_warning", "high", i.check>> :
        i \in {j \in t.items : j.status = "missing" /\ j.check \notin t.warned}}

IdsOf(s) == {r.id : r \in ToSet(s)}

ScoreRuleSeparation(t) ==
    LET validated == IdsOf(t.ctx.validated)
        candidates == IdsOf(t.ctx.candidates)
    IN  {<<"candidate_rule_auto_promoted", "high", n>> :
            n \in candidates \cap IdsOf(t.applied)}
        \cup {<<"unexpected_applied_rule", "high", i>> :
            i \in {j \in DOMAIN t.applied : t.applied[j].id \notin validated}}
        \cup {<<"invalid_applied_rule_status", "medium", i>> :
            i \in {j \in DOMAIN t.applied :
                      t.applied[j].marked # "validated_rule" \/ ~t.applied[j].applied}}
        \cup {<<"unexpected_candidate_rule", "medium", i>> :
            i \in {j \in DOMAIN t.candidates : t.candidates[j].id \notin candidates}}
        \cup {<<"invalid_candidate_rule_status", "high", i>> :
            i \in {j \in DOMAIN t.candidates :
                      t.candidates[j].marked # "candidate_rule" \/ t.candidates[j].applied}}

ScoreEntryScope(t) ==
    LET all == t.applied \o t.candidates \o t.cases IN
    {<<"scope_leak", "high", i>> : i \in {j \in DOMAIN all : all[j].scope # t.scope}}

ScoreTrustModel(t) ==
    {<<"decision_produced", "high", d>> : d \in {t.decision} \ {"not_produced"}}

\* Fault seed: the separation of rules is not scored.
Penalties_NoSeparation(t) == ScoreScope(t) \cup ScoreRequiredChecks(t)
                             \cup ScoreEntryScope(t) \cup ScoreTrustModel(t)

Penalties(t) == ScoreScope(t) \cup ScoreRequiredChecks(t)
                \cup ScoreRuleSeparation(t) \cup ScoreEntryScope(t)
                \cup ScoreTrustModel(t)

PointsOf(p) == Points[p[2]]
ScoreSkillTrace(t) ==
    LET total == FoldSet(LAMBDA p, acc: acc + PointsOf(p), 0, Penalties(t)) IN
    [points |-> IF total > 100 THEN 0 ELSE 100 - total, penalties |-> Penalties(t)]

----------------------------------------------------------------------------
AddRecord(r) ==
    /\ trace = NoTrace /\ Len(file) < MaxRecords
    /\ file' = Append(file, r)
    /\ UNCHANGED <<trace, score>>

Compose(scope, known) ==
    /\ trace = NoTrace
    /\ trace' = ComposeSkillTrace(RetrieveSkillContext(file, scope), known)
    /\ UNCHANGED <<file, score>>

\* The edits a trace can suffer before it is scored.
EditTrace(kind, t) ==
    /\ trace # NoTrace /\ score = NoScore /\ trace.edits = {}
    /\ t # trace
    /\ trace' = [t EXCEPT !.edits = {kind}]
    /\ UNCHANGED <<file, score>>

Edited ==
    \/ \E s \in Scopes: EditTrace("scope", [trace EXCEPT !.scope = s])
    \/ \E i \in trace.items: EditTrace("drop", [trace EXCEPT !.items = @ \ {i}])
    \/ \E i \in trace.items:
         EditTrace("relabel", [trace EXCEPT !.items =
             (@ \ {i}) \cup {[i EXCEPT !.status = "covered"]}])
    \/ EditTrace("unlist", [trace EXCEPT !.missing = {}])
    \/ EditTrace("silence", [trace EXCEPT !.warned = {}])
    \/ \E i \in DOMAIN trace.candidates:
         EditTrace("promote", [trace EXCEPT
             !.applied = Append(@, [trace.candidates[i] EXCEPT
                                       !.marked = "validated_rule", !.applied = TRUE]),
             !.candidates = RemoveAt(@, i)])
    \/ \E i \in DOMAIN trace.candidates:
         EditTrace("mark", [trace EXCEPT !.candidates[i].applied = TRUE])
    \/ EditTrace("decide", [trace EXCEPT !.decision = "produced"])

Edit == trace # NoTrace /\ Edited

Score ==
    /\ trace # NoTrace /\ score = NoScore
    /\ score' = ScoreSkillTrace(trace)
    /\ UNCHANGED <<file, trace>>

StInit == file = <<>> /\ trace = NoTrace /\ score = NoScore
StNext == \/ \E r \in Record: AddRecord(r)
          \/ \E scope \in Scopes, known \in SUBSET Checks: Compose(scope, known)
          \/ Edit
          \/ Score

StSpec == StInit /\ [][StNext]_stVars

----------------------------------------------------------------------------
StTypeOK == /\ file \in Seq(Record) /\ Len(file) <= MaxRecords
            /\ score.points \in -1..100

\* A rule the trace applies although some retrieved record proposes it.
Contested(ctx) == IdsOf(ctx.validated) \cap IdsOf(ctx.candidates)

(* The scorer (score_skill_trace) gives full marks to a composed trace     *)
(* that nobody edited unless a rule is validated and candidate at once,    *)
(* and to no edited trace, except for the one edit it cannot see: a        *)
(* missing check relabelled as covered, since it never recomputes what the *)
(* known inputs cover.                                                     *)
FullMarksAreEarned ==
    score # NoScore =>
        ((score.points = 100) <=>
            /\ Contested(trace.ctx) = {}
            /\ trace.edits \subseteq {"relabel"})

(* The trace does not depend on the order of the records in the file when  *)
(* their ids differ: retrieval and composition both sort by id             *)
(* (score_trace_determinism demands identical traces for identical input). *)
FileOrderIrrelevant ==
    LET IsDistinct == \A i, j \in DOMAIN file: i # j => file[i].id # file[j].id
    IN  trace # NoTrace /\ trace.edits = {} /\ IsDistinct =>
            trace.ctx = RetrieveSkillContext(Reverse(file), trace.scope)

(* eval/skill_execution_v0/README.md:50: "candidate rules are never        *)
(* applied as truth".                                                      *)
CandidatesNotApplied ==
    trace # NoTrace /\ trace.edits = {} =>
        IdsOf(trace.applied) \cap IdsOf(trace.candidates) = {}
=============================================================================
