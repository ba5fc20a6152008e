----------------------------- MODULE SkillStats -----------------------------
(***************************************************************************)
(* Skills and their statistics: the registry filled from JSON libraries    *)
(* and asked by the router, the two append-only logs of uses and outcomes, *)
(* the transition graph built once from the usage log (skills/), and the   *)
(* ANS engine, which loads both logs and computes performances,            *)
(* transitions and recommendations (ans/).                                 *)
(*                                                                         *)
(* A success rate is counted in 1/Unit, Unit being divisible by every      *)
(* number of outcomes up to MaxOutcomes.                                   *)
(***************************************************************************)
EXTENDS Integers, SequencesExt, FiniteSets

CONSTANTS Skills, Words,
          Files,        \* library files: [id, described, triggers]
          ReadLimit,    \* newest events the graph is built from (1000)
          MaxUses, MaxOutcomes, MaxClock, MaxSteps

VARIABLES registry,   \* registered skills, in order
          loaded,     \* the ingestion report: files found and skills loaded
          usage,      \* skills_usage.jsonl: [skill, time], or torn lines
          outcomes,   \* skills_success.jsonl: [skill, ok]
          clock,
          graph,      \* SkillGraph: built, and its edges
          engine,     \* ANSEngine: loaded events and cached analyses
          advice,     \* what recommend_workflows returned last
          steps

ssVars == <<registry, loaded, usage, outcomes, clock, graph, engine, advice, steps>>
logVars == <<usage, outcomes, clock>>

Unit == 12
Torn == [skill |-> "", time |-> 0]
NoGraph == [built |-> FALSE, edges |-> <<>>, seen |-> 0]
NoAdvice == [raised |-> FALSE, chains |-> <<>>]
Fresh == [uses |-> <<>>, outs |-> <<>>, perf |-> <<>>, trans |-> <<>>]

Step == steps < MaxSteps /\ steps' = steps + 1

----------------------------------------------------------------------------
(* Registry, ingestion and routing.                                        *)
Registered(id) == \E s \in ToSet(registry) : s.id = id

\* One file of ingest_from_directory: it is loaded unless a field is missing
\* or register raises for an id it has.
IngestFile(f) ==
    /\ Step
    /\ LET ok == f.id # "" /\ f.described /\ ~Registered(f.id) IN
       /\ registry' = IF ok THEN Append(registry, [id |-> f.id, triggers |-> f.triggers])
                      ELSE registry
       /\ loaded' = [files |-> loaded.files + 1, skills |-> loaded.skills + (IF ok THEN 1 ELSE 0)]
    /\ UNCHANGED <<usage, outcomes, clock, graph, engine, advice>>

\* The first skill, in registration order, with a trigger in the task.
Route(task) ==
    LET hits == {i \in DOMAIN registry : registry[i].triggers \cap task # {}} IN
    IF hits = {} THEN "" ELSE registry[CHOOSE i \in hits : \A j \in hits : i <= j].id

----------------------------------------------------------------------------
(* The logs.                                                               *)
\* log_usage for the routed skill; the clock need not move between two uses.
LogUsage(id) ==
    /\ Len(usage) < MaxUses
    /\ clock' \in {c \in {clock, clock + 1} : c <= MaxClock}
    /\ usage' = Append(usage, [skill |-> id, time |-> clock'])
    /\ UNCHANGED <<registry, loaded, outcomes, graph, engine, advice, steps>>

UseSkill(task) == Route(task) # "" /\ LogUsage(Route(task))

\* A writer that stops in the middle leaves a line no reader can parse.
TearLine ==
    /\ Len(usage) < MaxUses /\ Torn \notin ToSet(usage)
    /\ usage' = Append(usage, Torn)
    /\ UNCHANGED <<registry, loaded, outcomes, clock, graph, engine, advice, steps>>

LogSuccess(id, ok) ==
    /\ Len(outcomes) < MaxOutcomes
    /\ outcomes' = Append(outcomes, [skill |-> id, ok |-> ok])
    /\ UNCHANGED <<registry, loaded, usage, clock, graph, engine, advice, steps>>

Readable(log) == SelectSeq(log, LAMBDA e: e.skill # "")

\* The newest readable events, newest first.
GetRecentUsage(limit) ==
    LET events == Reverse(Readable(usage)) IN
    IF Len(events) <= limit THEN events ELSE SubSeq(events, 1, limit)

GetSuccessStats(id) ==
    LET ok == Len(SelectSeq(outcomes, LAMBDA e: e.skill = id /\ e.ok))
        all == Len(SelectSeq(outcomes, LAMBDA e: e.skill = id))
    IN  [count |-> all, rate |-> IF all = 0 THEN 0 ELSE (Unit * ok) \div all]

----------------------------------------------------------------------------
(* The transition graph, built at the first question and never again.      *)
\* The steps from one skill to another one in a list of events.
Transitions(events) ==
    LET moves == {i \in 2..Len(events) : events[i].skill # events[i - 1].skill} IN
    [p \in Skills \X Skills |->
        Cardinality({i \in moves : p = <<events[i - 1].skill, events[i].skill>>})]

\* Python's sort is stable: events of the same time stay newest first.
ByTime(events) ==
    LET Place(i) == Cardinality({j \in DOMAIN events :
                        events[j].time < events[i].time
                        \/ (events[j].time = events[i].time /\ j <= i)})
    IN  [n \in DOMAIN events |-> events[CHOOSE i \in DOMAIN events : Place(i) = n]]

BuildGraph ==
    /\ Step /\ ~graph.built
    /\ graph' = [built |-> TRUE, edges |-> Transitions(ByTime(GetRecentUsage(ReadLimit))),
                 seen |-> Len(usage)]
    /\ UNCHANGED <<registry, loaded, usage, outcomes, clock, engine, advice>>

\* get_path_suggestions: the next skills, most frequent first.
PathSuggestions(id) == {t \in Skills : graph.built /\ graph.edges[<<id, t>>] > 0}

----------------------------------------------------------------------------
(* The ANS engine.                                                         *)
FirstSeen(s) == FoldLeft(LAMBDA acc, x: IF x \in ToSet(acc) THEN acc ELSE Append(acc, x), <<>>, s)
SkillOf(s) == [i \in DOMAIN s |-> s[i].skill]

\* Fault seed: a smoothed rate that is not a rate any more.
Rate_Smoothed(good, bad) ==
    IF good + bad = 0 THEN 0 ELSE (Unit * (good + 1)) \div (good + bad)

Rate(good, bad) == IF good + bad = 0 THEN 0 ELSE (Unit * good) \div (good + bad)

\* One row per skill, in the order in which the two logs first name it.
ComputeSkillPerformance(uses, outs) ==
    LET order == FirstSeen(SkillOf(uses) \o SkillOf(outs))
        Row(id) ==
            LET good == Len(SelectSeq(outs, LAMBDA e: e.skill = id /\ e.ok))
                bad == Len(SelectSeq(outs, LAMBDA e: e.skill = id /\ ~e.ok))
            IN  [skill |-> id, uses |-> Len(SelectSeq(uses, LAMBDA e: e.skill = id)),
                 good |-> good, bad |-> bad,
                 rate |-> Rate(good, bad)]
    IN  [i \in DOMAIN order |-> Row(order[i])]

RateOf(perf, id) == IF \E r \in ToSet(perf) : r.skill = id
                    THEN (CHOOSE r \in ToSet(perf) : r.skill = id).rate ELSE 0

\* One row per observed transition, in the order of first observation; its
\* rate is the rate of the skill it leads to.
ComputeTransitionPerformance(uses, outs) ==
    LET perf == ComputeSkillPerformance(uses, outs)
        moves == SelectSeq([i \in DOMAIN uses |-> i],
                           LAMBDA i: i > 1 /\ uses[i].skill # uses[i - 1].skill)
        pairs == FirstSeen([n \in DOMAIN moves |->
                               <<uses[moves[n] - 1].skill, uses[moves[n]].skill>>])
    IN  [i \in DOMAIN pairs |-> [from |-> pairs[i][1], to |-> pairs[i][2],
                                 count |-> Transitions(uses)[pairs[i]],
                                 rate |-> RateOf(perf, pairs[i][2])]]

\* load replaces the events and leaves the cached analyses alone.
Load ==
    /\ Step
    /\ engine' = [engine EXCEPT !.uses = Readable(usage), !.outs = outcomes]
    /\ UNCHANGED <<registry, loaded, usage, outcomes, clock, graph, advice>>

\* Both reports compute an analysis only if they have none.
Analysed(e) ==
    [e EXCEPT !.perf = IF @ = <<>> THEN ComputeSkillPerformance(e.uses, e.outs) ELSE @,
              !.trans = IF @ = <<>> THEN ComputeTransitionPerformance(e.uses, e.outs) ELSE @]

GenerateReport ==
    /\ Step
    /\ engine' = Analysed(engine)
    /\ UNCHANGED <<registry, loaded, usage, outcomes, clock, graph, advice>>

\* rank_top_skills: by rate, then by use.
RankTopSkills(e) ==
    SetToSortSeq(DOMAIN e.perf, LAMBDA a, b:
        LET p == e.perf[a]  q == e.perf[b] IN
        \/ p.rate > q.rate
        \/ p.rate = q.rate /\ p.uses > q.uses
        \/ p.rate = q.rate /\ p.uses = q.uses /\ a < b)

Outgoing(e, id) == SelectSeq(e.trans, LAMBDA t: t.from = id)
Prefix3(s) == IF Len(s) <= 3 THEN s ELSE SubSeq(s, 1, 3)

\* The transitions recommend_workflows looks at, in its order.
Visits(e) == FlattenSeq([i \in DOMAIN e.perf |-> Prefix3(Outgoing(e, e.perf[i].skill))])

\* The first visit reads next_trans, which is bound only if a transition
\* leads on from the skill it reaches.
Raises(e) == Visits(e) # <<>> /\ Outgoing(e, Visits(e)[1].to) = <<>>

\* From a skill the transition with the best rate, then the most frequent one.
BestNext(e, id) ==
    LET out == Outgoing(e, id)
        Better(a, b) == \/ out[a].rate > out[b].rate
                        \/ out[a].rate = out[b].rate /\ out[a].count > out[b].count
                        \/ out[a].rate = out[b].rate /\ out[a].count = out[b].count /\ a <= b
    IN  out[CHOOSE a \in DOMAIN out : \A b \in DOMAIN out : Better(a, b)].to

\* Every workflow has two skills: the length recorded for a chain is always 2.
Chains(e) ==
    FlattenSeq([i \in DOMAIN e.perf |->
        IF Outgoing(e, e.perf[i].skill) = <<>> THEN <<>>
        ELSE <<<<e.perf[i].skill, BestNext(e, e.perf[i].skill)>>>>])

\* generate_recommendation_report, or recommend_workflows after it.
RecommendWorkflows ==
    /\ Step
    /\ LET e == Analysed(engine) IN
       /\ engine' = e
       /\ advice' = IF Raises(e) THEN [raised |-> TRUE, chains |-> <<>>]
                    ELSE [raised |-> FALSE, chains |-> Chains(e)]
    /\ UNCHANGED <<registry, loaded, usage, outcomes, clock, graph>>

\* detect_weak_skills.
WeakSkills(e) == {i \in DOMAIN e.perf : 10 * e.perf[i].rate < 7 * Unit /\ e.perf[i].bad > 0}

SsInit ==
    /\ registry = <<>> /\ loaded = [files |-> 0, skills |-> 0]
    /\ usage = <<>> /\ outcomes = <<>> /\ clock = 0
    /\ graph = NoGraph /\ engine = Fresh /\ advice = NoAdvice /\ steps = 0

SsNext ==
    \/ \E f \in Files : IngestFile(f)
    \/ \E task \in SUBSET Words : UseSkill(task)
    \/ \E id \in Skills : LogUsage(id)
    \/ \E id \in Skills, ok \in BOOLEAN : LogSuccess(id, ok)
    \/ TearLine
    \/ BuildGraph \/ Load \/ GenerateReport \/ RecommendWorkflows

SsSpec == SsInit /\ [][SsNext]_ssVars

----------------------------------------------------------------------------
SsTypeOK ==
    /\ loaded.skills = Len(registry) /\ loaded.skills <= loaded.files
    /\ \A i \in DOMAIN engine.perf : engine.perf[i].rate \in 0..Unit
    /\ clock \in 0..MaxClock

(* The graph of skills/ and the transitions of ans/ count the same steps   *)
(* of one usage log, although the first reads it backwards, sorts by time  *)
(* and skips what it cannot parse, and the second follows the file; they   *)
(* may only differ where two uses carry one timestamp, or where the log is *)
(* longer than the graph's window.                                         *)
GraphAgreesWithEngine ==
    LET events == Readable(SubSeq(usage, 1, graph.seen)) IN
    /\ graph.built
    /\ Len(events) <= ReadLimit
    /\ \A i, j \in DOMAIN events : i # j => events[i].time # events[j].time
    => /\ graph.edges = Transitions(events)
       /\ \A id \in Skills : PathSuggestions(id) = {t \in Skills : Transitions(events)[<<id, t>>] > 0}

(* The success logger and the engine derive the same rates from one log,   *)
(* and no skill that detect_weak_skills reports is ranked above one with   *)
(* a better rate by rank_top_skills.                                       *)
RatesAgree ==
    LET e == [Fresh EXCEPT !.perf = ComputeSkillPerformance(Readable(usage), outcomes)]
        ranked == RankTopSkills(e)
    IN  /\ \A id \in Skills : RateOf(e.perf, id) = GetSuccessStats(id).rate
        /\ \A m, n \in DOMAIN ranked :
              m < n /\ ranked[m] \in WeakSkills(e) => 10 * e.perf[ranked[n]].rate < 7 * Unit

(* A recommended workflow only takes steps that occur in the log, though   *)
(* the engine's analyses are older than its events and the log goes on     *)
(* growing; and it never starts and ends with the same skill.              *)
WorkflowsObserved ==
    \A c \in ToSet(advice.chains) :
        /\ c[1] # c[2]
        /\ Transitions(Readable(usage))[c] > 0

(* ans_engine.py:373 "Returns: List of workflow recommendations": the      *)
(* recommendations are returned for every pair of logs.                    *)
WorkflowsReturned == ~advice.raised
=============================================================================
