---- MODULE MCProjectMemory ----
(***************************************************************************)
(* The project memories, each on a small instance of its own: a HexaShard  *)
(* project and its sources, the swarm log, the governance records of the   *)
(* PRL and the chat exports it imports.  They share no state, so a         *)
(* behaviour runs one of them, named by part, and the others keep their    *)
(* initial state.                                                          *)
(***************************************************************************)
EXTENDS Integers, Sequences, FiniteSets

VARIABLE part  \* the service this behaviour runs
VARIABLES disk, session, seen, opened, said, turns, commands
hexaVars == <<disk, session, seen, opened, said, turns, commands>>
VARIABLES srcs, pins, pinFile, indexed, bulk, torn, ops
sourcesVars == <<srcs, pins, pinFile, indexed, bulk, torn, ops>>
VARIABLES swLog, swAnswer
swarmVars == <<swLog, swAnswer>>
VARIABLES acts, pclock, import, table, builds
prlVars == <<acts, pclock, import, table, builds>>
VARIABLE export

SwarmLine(kind, run, id, word, task, ref, bases, claimed) ==
  [kind |-> kind, run |-> run, id |-> id, word |-> word, task |-> task, ref |-> ref,
   bases |-> bases, claimed |-> claimed]
\* Decisions that supersede each other, also in a loop, a foreign run, a task
\* with two versions of its work, its reviews and a conflict.
SwarmLines ==
  {SwarmLine("decision", "r1", p[1], "accepted", "none", p[2], {}, {}) :
       p \in {<<"d1", "d2">>, <<"d2", "d3">>, <<"d3", "d1">>, <<"d3", "d2">>, <<"d2", "none">>}}
  \cup {SwarmLine("decision", "r1", "d1", "proposed", "t1", "t1", {"d2"}, {}),
        SwarmLine("decision", "r2", "d2", "proposed", "t1", "d2", {}, {}),
        SwarmLine("task", "r1", "t1", "accepted", "none", "none", {}, {}),
        SwarmLine("work", "r1", "w1", "none", "t1", "none", {"c"}, {}),
        SwarmLine("work", "r1", "w1", "none", "none", "none", {"c"}, {"c"}),
        SwarmLine("review", "r1", "v1", "approve", "none", "w1", {}, {}),
        SwarmLine("review", "r1", "v2", "reject", "none", "w1", {}, {}),
        SwarmLine("conflict", "r1", "x1", "resolved", "none", "none", {"d1", "d2"}, {})}
\* One subject, claims of two organisations, decisions that agree and that do
\* not, and two conversations of the same subject, one empty.
PrlConsults == {<<"s1", "proposal", "a", "o1">>, <<"s1", "observation", "", "o2">>}
PrlResolutions ==
  {<<1, "accepted", "a", "o1">>, <<2, "rejected", "", "o1">>, <<1, "rejected", "b", "">>}
PrlConversations == << <<"s1", <<"user">> >>, <<"s1", <<>> >> >>
\* A branch point, text and images with and without a time, what is left out.
ChatNodes == {<<"anchor", 0>>, <<"text", 2>>, <<"image", 0>>, <<"hidden", 1>>, <<"blank", 1>>}

Hexa == INSTANCE HexaContext WITH Hexes <- {"h1"}, Questions <- {"q1"},
    Pins <- {"p1", "p2"}, Critical <- {"p1"}, Decisions <- {"d1"}, Budget <- 3,
    ModelBudget <- 1, RotateAt <- 3, HeadParts <- 1, KeepHints <- 1,
    MaxHandoffRefs <- 1, SharedUse <- FALSE, Crashes <- TRUE, MaxTurns <- 2,
    MaxParts <- 2, MaxCommands <- 3
Sources == INSTANCE HexaSources WITH Keys <- {"k1", "k2"}, Values <- {1, 2},
    MaxSources <- 4, MaxPins <- 2, MaxOps <- 3, RetrievalBudget <- 3, MaxFragments <- 2,
    Declared <- << <<"k1", 1>>, <<"k1", 2>>, <<"k2", 1>> >>
Swarms == INSTANCE Swarm WITH Run <- "r1", MaxLog <- 4, SwarmInputs <- SwarmLines
Prl == INSTANCE PrlGovernance WITH Consults <- PrlConsults,
    Resolutions <- PrlResolutions, MaxBuilds <- 1, MaxRuns <- 1,
    Conversations <- PrlConversations, MaxActs <- 4, MaxTime <- 2
Chat == INSTANCE ChatExport WITH ConvIds <- {0, 2}, NodeData <- ChatNodes,
    MaxNodes <- 3, MaxSize <- 5

Parts == {"hexa", "sources", "swarm", "prl", "chat"}
\* A service that does not run has one of its initial states.
Init ==
  /\ part \in Parts
  /\ Hexa!HexaInit
  /\ Sources!HSInit
  /\ Swarms!SwInit
  /\ Prl!PrlInit
  /\ Chat!CxInit
Next ==
  \/ part = "hexa" /\ Hexa!HexaNext /\ UNCHANGED <<part, sourcesVars, swarmVars, prlVars, export>>
  \/ part = "sources" /\ Sources!HSNext /\ UNCHANGED <<part, hexaVars, swarmVars, prlVars, export>>
  \/ part = "swarm" /\ Swarms!SwNext /\ UNCHANGED <<part, hexaVars, sourcesVars, prlVars, export>>
  \/ part = "prl" /\ Prl!PrlNext /\ UNCHANGED <<part, hexaVars, sourcesVars, swarmVars, export>>
  \/ part = "chat" /\ Chat!CxNext /\ UNCHANGED <<part, hexaVars, sourcesVars, swarmVars, prlVars>>
Spec == Init /\ [][Next]_<<part, hexaVars, sourcesVars, swarmVars, prlVars, export>>

\* Every service keeps its state within the types its module declares.
TypesOK ==
  /\ part = "hexa" => Hexa!TypeOK
  /\ part = "sources" => Sources!TypeOK
  /\ part = "swarm" => Swarms!SwTypeOK
  /\ part = "prl" => Prl!PrlTypeOK
  /\ part = "chat" => Chat!CxTypeOK

\* HexaShard (hexashard/, hexashard_adapter/): nothing a saved state ever held
\* becomes unreachable and no open question is lost, whatever is compacted,
\* rotated, rolled back or interrupted; a saved state names no missing summary;
\* every superseded source leads to one that is not; live pins are honest; and
\* a query reports every ambiguity it met.
HexaMemoryKept ==
  /\ part = "hexa" => /\ Hexa!NothingUnreachable /\ Hexa!OpenQuestionsKept
                      /\ Hexa!SummaryHexExists
  /\ part = "sources" => /\ Sources!AuthorityDefined /\ Sources!PinsHonest
                         /\ Sources!RetrievalSound

\* Swarm and PRL (prl/): superseded decisions never form a loop that replay
\* takes for settled, and the order in which agents happened to append decides
\* nothing; the readings of one subject agree with each other, the manifest of
\* an import counts its own run, and the projection answers as the log once did;
\* and of an export whose conversations have ids of their own every message is
\* kept, on the branch it belongs to, or counted as left out.
GovernanceSound ==
  /\ part = "swarm" => Swarms!SupersessionSound /\ Swarms!OrderOfAgentsIrrelevant
  /\ part = "prl" => Prl!ReadingsAgree /\ Prl!ManifestTrue /\ Prl!ProjectionIsAPast
  /\ part = "chat" => Chat!EveryMessageAccounted

====
