--------------------------- MODULE ProposalGateway ---------------------------
(***************************************************************************)
(* Agent memory and its two writers: the agent proposal gateway            *)
(* (tools/agent_proposal_gateway_v0) and the skill trace adapter           *)
(* (eval/skill_trace_memory_v0).  Both write one decision as a chain of    *)
(* memory records, one storage append each, every record naming the hashes *)
(* of the records it rests on; a reader explains a decision by following   *)
(* these hashes to a depth (dsm/memory/agent_memory.py).                   *)
(*                                                                         *)
(* The shard is the sequence of its records and a record's hash is its     *)
(* position.  A structured proposal is abstracted to what the validator    *)
(* looks at; the texts around it to the proposal they contain, if any.     *)
(***************************************************************************)
EXTENDS Integers, SequencesExt, FiniteSets

CONSTANTS Gateways,    \* processes writing to the one shard
          Checks,      \* required checks of a context
          Bodies,      \* structured proposals a live provider may return
          ReadLimit,   \* newest entries explain_decision reads (100000 in the code)
          MaxRuns, MaxCrashes, MaxOther,
          MaxSwitches  \* times the writing process may change

VARIABLES shard,     \* the memory records, oldest first
          runs,      \* runs[g]: what process g holds in memory
          turn,      \* who appended last, and how often that changed
          started, crashes

pgVars == <<shard, runs, turn, started, crashes>>

\* A structured proposal: sub, some contract field has content; claimed and
\* surfaced checks; limits, limitations are given; promoted, a candidate rule
\* is presented as validated; foreign, another scope is named; low coverage.
EmptyBody == [sub |-> FALSE, claimed |-> {}, surfaced |-> {}, limits |-> FALSE,
              promoted |-> FALSE, foreign |-> FALSE, low |-> FALSE]

MaybeBodies == Bodies \cup {EmptyBody}

----------------------------------------------------------------------------
(* The records of one decision, in writing order: role, kind, depends_on.  *)
Spec(role, kind, deps) == [role |-> role, kind |-> kind, deps |-> deps]

ProposalRecords ==
    << Spec("proposal_metadata", "fact", {}),
       Spec("provider", "fact", {"proposal_metadata"}),
       Spec("proposal_scope", "fact", {"proposal_metadata"}),
       Spec("raw_output", "fact", {"provider", "proposal_scope"}),
       Spec("structured_output", "inference", {"raw_output"}),
       Spec("candidate_content", "hypothesis", {"structured_output"}),
       Spec("validation", "inference", {"proposal_metadata", "provider",
                                        "structured_output", "candidate_content"}),
       Spec("decision_anchor", "decision", {"validation"}) >>

TraceRecords ==
    << Spec("trace_scope", "fact", {}),
       Spec("required_checks", "fact", {"trace_scope"}),
       Spec("missing_checks", "inference", {"required_checks"}),
       Spec("applied_validated_rules", "fact", {"trace_scope"}),
       Spec("candidate_rules", "hypothesis", {"trace_scope"}),
       Spec("supporting_cases", "fact", {"trace_scope"}),
       Spec("warnings", "fact", {"missing_checks"}),
       Spec("trust_model", "fact", {"trace_scope"}),
       Spec("execution_scaffold", "inference",
            {"required_checks", "missing_checks", "applied_validated_rules",
             "candidate_rules", "supporting_cases", "warnings", "trust_model"}),
       Spec("decision_scaffold", "decision", {"execution_scaffold"}) >>

Records(plan) == IF plan = "proposal" THEN ProposalRecords ELSE TraceRecords
RolesOf(plan) == {r.role : r \in ToSet(Records(plan))}

NoRun == [plan |-> "none"]

----------------------------------------------------------------------------
(* Providers.  An answer: the structured output, the texts that may hold   *)
(* one (raw_output first), whether the text over-promises, and whether the *)
(* agent supplied a status of its own.                                     *)
Answer(structured, texts, overText, supplied) ==
    [structured |-> structured, texts |-> texts, overText |-> overText, supplied |-> supplied]

Scenarios == {"golden", "over_promise", "candidate_promotion", "missing_required_check",
              "unknown_claimed_check", "cross_user_leak", "low_coverage", "agent_status",
              "agent_status_over_promise"}

\* The mock claims the covered checks and lists the others as limitations.
Golden(required, covered) ==
    [EmptyBody EXCEPT !.sub = TRUE, !.limits = TRUE,
                      !.claimed = covered, !.surfaced = required \ covered]

MockBody(scenario, required, covered) ==
    LET golden == Golden(required, covered) IN
    CASE scenario = "candidate_promotion" -> [golden EXCEPT !.promoted = TRUE]
      [] scenario = "missing_required_check" ->
            [golden EXCEPT !.surfaced = {},
                           !.claimed = required \ (IF required = {} THEN {}
                                                   ELSE {CHOOSE c \in required : TRUE})]
      [] scenario = "unknown_claimed_check" ->
            [golden EXCEPT !.claimed = @ \cup {"unregistered_check"}]
      [] scenario = "cross_user_leak" -> [golden EXCEPT !.foreign = TRUE]
      [] scenario = "low_coverage" ->
            [golden EXCEPT !.claimed = required, !.surfaced = {}, !.limits = FALSE, !.low = TRUE]
      [] OTHER -> golden

MockAnswer(scenario, required, covered) ==
    Answer(MockBody(scenario, required, covered), <<>>,
           scenario \in {"over_promise", "agent_status_over_promise"},
           scenario \in {"agent_status", "agent_status_over_promise"})

\* A live answer that is a JSON object may carry anything; one that is not
\* leaves only its text, with an empty structured output.
LiveAnswers ==
    {Answer(s, <<raw, narrative>>, over, supplied) :
        s \in MaybeBodies, raw, narrative \in MaybeBodies, over, supplied \in BOOLEAN}
    \cup {Answer(EmptyBody, <<raw, raw>>, over, FALSE) : raw \in MaybeBodies, over \in BOOLEAN}

----------------------------------------------------------------------------
(* Normalisation and validation.                                           *)
\* The first candidate text that holds a substantive object wins; the
\* provider's structured_output wins over all of them.
Normalize(structured, texts) ==
    LET good == {i \in DOMAIN texts : texts[i].sub} IN
    IF structured.sub \/ good = {} THEN structured
    ELSE texts[CHOOSE i \in good : \A j \in good : i <= j]

\* overpromise and markers are looked for in raw_output and in the normalised
\* proposal, promotion and scope only in the latter.
HardIssues(body, required, overText) ==
    (IF overText THEN {"overpromise_wording"} ELSE {})
    \cup (IF body.promoted THEN {"candidate_rule_promotion"} ELSE {})
    \cup (IF body.foreign THEN {"scope_leak"} ELSE {})
    \cup (IF required \subseteq body.claimed \cup body.surfaced THEN {}
          ELSE {"required_check_not_covered_or_surfaced"})

Warnings(body, required, supplied) ==
    (IF supplied THEN {"agent_supplied_status_ignored"} ELSE {})
    \cup (IF body.claimed \subseteq required THEN {} ELSE {"claimed_check_outside_required"})
    \cup (IF body.limits THEN {} ELSE {"missing_limitations"})
    \cup (IF body.low THEN {"low_coverage"} ELSE {})

Status(hard, warnings) ==
    CASE hard # {} -> "rejected_by_validator"
      [] hard = {} /\ warnings # {} -> "needs_human_review"
      [] OTHER -> "accepted_for_audit"

----------------------------------------------------------------------------
(* Writing.                                                                *)
Free(g) == runs[g] = NoRun /\ started < MaxRuns

Start(g, plan, status) ==
    /\ started' = started + 1
    /\ runs' = [runs EXCEPT ![g] = [plan |-> plan, run |-> started + 1, status |-> status, at |-> << >>]]
    /\ UNCHANGED <<shard, turn, crashes>>

\* Validation, and the start of persist_agent_proposal_to_memory.
Validated(g, required, ans) ==
    LET body == Normalize(ans.structured, ans.texts)
        hard == HardIssues(body, required, ans.overText)
    IN  Start(g, "proposal", Status(hard, Warnings(body, required, ans.supplied)))

ProposeMock(g) ==
    /\ Free(g)
    /\ \E required \in SUBSET Checks, scenario \in Scenarios:
         \E covered \in SUBSET required:
            Validated(g, required, MockAnswer(scenario, required, covered))

ProposeLive(g) ==
    /\ Free(g)
    /\ \E required \in SUBSET Checks, ans \in LiveAnswers: Validated(g, required, ans)

\* persist_skill_trace_to_agent_memory; _validate_trace raises on any other trace.
PersistTrace(g) == Free(g) /\ Start(g, "trace", "not_produced")

\* The hashes of the roles this process has written (entries_by_role).
DependsOn(g, spec) ==
    {runs[g].at[i] : i \in {j \in DOMAIN runs[g].at :
                                Records(runs[g].plan)[j].role \in spec.deps}}

\* Bound: the appends are interleaved with at most MaxSwitches changes of writer.
TakesTurn(g) ==
    /\ turn.last # g => turn.switches < MaxSwitches
    /\ turn' = IF turn.last = g THEN turn ELSE [last |-> g, switches |-> turn.switches + 1]

WriteRecord(g) ==
    /\ runs[g] # NoRun
    /\ Len(runs[g].at) < Len(Records(runs[g].plan))
    /\ LET spec == Records(runs[g].plan)[Len(runs[g].at) + 1] IN
       shard' = Append(shard, [run |-> runs[g].run, role |-> spec.role, kind |-> spec.kind,
                               status |-> runs[g].status, deps |-> DependsOn(g, spec)])
    /\ runs' = [runs EXCEPT ![g].at = Append(@, Len(shard) + 1)]
    /\ TakesTurn(g)
    /\ UNCHANGED <<started, crashes>>

Anchors == {p \in DOMAIN shard : shard[p].role \in {"decision_anchor", "decision_scaffold"}}

\* record_fact and its like, called by any other user of the memory shard,
\* here to build on a decision.
RecordMemory(kind) ==
    /\ Cardinality({p \in DOMAIN shard : shard[p].run = 0}) < MaxOther
    /\ \E p \in Anchors:
        shard' = Append(shard, [run |-> 0, role |-> "other", kind |-> kind,
                                status |-> "none", deps |-> {p}])
    /\ TakesTurn("other")
    /\ UNCHANGED <<runs, started, crashes>>

Crash(g) ==
    /\ runs[g] # NoRun /\ crashes < MaxCrashes
    /\ runs' = [runs EXCEPT ![g] = NoRun]
    /\ crashes' = crashes + 1
    /\ UNCHANGED <<shard, turn, started>>

----------------------------------------------------------------------------
(* Explaining.  Read: the positions the reader sees.                       *)
Read == {p \in DOMAIN shard : p > Len(shard) - ReadLimit}

DepsOf(ps) == UNION {shard[p].deps : p \in ps}

\* What the reader resolves round by round; a round that resolves nothing ends it.
Rounds(d, depth) ==
    FoldLeft(LAMBDA rounds, n: Append(rounds, DepsOf(Last(rounds)) \cap Read),
             <<shard[d].deps \cap Read>>, [n \in 1..(depth - 1) |-> n])

\* depth_limit_reached of the adapter's contract: expanded are the keys of
\* dependency_map, the records whose own dependencies were resolved.
Unexplored(d, supporting, expanded) ==
    {p \in supporting : shard[p].deps # {} /\ p \notin expanded}

\* explain_decision for a decision the reader sees; it raises for any other.
Explanation(d, depth) ==
    LET rounds == Rounds(d, depth)
        supporting == UNION ToSet(rounds)
        expanded == UNION ToSet(Front(rounds))
    IN  [supporting |-> supporting,
         missing |-> (shard[d].deps \cup DepsOf(expanded)) \ Read,
         unexplored |-> Unexplored(d, supporting, expanded)]

\* The end of persist_...: the own decision is explained at max_depth 3, and
\* the result goes to the caller.
Finish(g) ==
    /\ runs[g] # NoRun
    /\ Len(runs[g].at) = Len(Records(runs[g].plan))
    /\ runs' = [runs EXCEPT ![g] = NoRun]
    /\ UNCHANGED <<shard, turn, started, crashes>>

PgInit ==
    /\ shard = <<>> /\ runs = [g \in Gateways |-> NoRun]
    /\ turn = [last |-> "none", switches |-> 0] /\ started = 0 /\ crashes = 0

PgNext ==
    \/ \E g \in Gateways: \/ ProposeMock(g) \/ ProposeLive(g) \/ PersistTrace(g)
                          \/ WriteRecord(g)
                          \/ Crash(g) \/ Finish(g)
    \/ \E kind \in {"fact", "decision"}: RecordMemory(kind)

PgSpec == PgInit /\ [][PgNext]_pgVars

----------------------------------------------------------------------------
PgTypeOK ==
    /\ \A p \in DOMAIN shard : /\ shard[p].deps \subseteq 1..(p - 1)
                               /\ shard[p].run \in 0..started
    /\ \A g \in Gateways : runs[g] # NoRun => runs[g].at \in Seq(DOMAIN shard)

\* All records a record rests on, found in one pass from the newest down.
Rests(d) ==
    FoldLeft(LAMBDA acc, q: IF q \in acc THEN acc \cup shard[q].deps ELSE acc,
             {d}, [i \in 1..d |-> d + 1 - i]) \ {d}

(* A decision in the shard is never half recorded: whatever the crashes    *)
(* and the interleaving of two writers, it rests on one record of each     *)
(* other role of its plan, all written by the same run with one status     *)
(* (the loops of persist_agent_proposal_to_memory and                      *)
(* persist_skill_trace_to_agent_memory write the decision last and take    *)
(* the hashes from their own entries_by_role).                             *)
AuditAnchorsWhole ==
    \A d \in Anchors :
        LET plan == IF shard[d].role = "decision_anchor" THEN "proposal" ELSE "trace" IN
        /\ {shard[p].role : p \in Rests(d)} = RolesOf(plan) \ {shard[d].role}
        /\ Cardinality(Rests(d)) = Len(Records(plan)) - 1
        /\ \A p \in Rests(d) : shard[p].run = shard[d].run /\ shard[p].status = shard[d].status

(* Whenever a decision is explained, to whatever depth, an explanation that *)
(* reports nothing missing and nothing unexplored is the whole of what the  *)
(* decision rests on, and it never names anything else (explain_decision    *)
(* and the adapter's _memory_explain_warnings).                             *)
SilenceIsComplete ==
    \A d \in {p \in Read : shard[p].kind = "decision"}, depth \in {2, 3} :
        LET told == Explanation(d, depth) IN
        /\ told.supporting \subseteq Rests(d)
        /\ told.missing = {} /\ told.unexplored = {} => told.supporting = Rests(d)

=============================================================================
