---- MODULE MCAgentServices ----
(***************************************************************************)
(* The services around the agents, each on a small instance of its own:    *)
(* signing keys, identity records, tasks and receipts exchanged between    *)
(* agents, policy audits, lanes and digests, recall with the context built *)
(* from it, the dashboard over the mesh's event log, and the evidence      *)
(* about skills: traces, telemetry and the proposal gateway.  They share   *)
(* no state, so a behaviour runs one of them, named by part, and the       *)
(* others keep their initial state.                                        *)
(***************************************************************************)
EXTENDS Integers, Sequences, FiniteSets

\* The constants of AgentKeys, IdentityRecords, TaskExchange, PolicyAudit and
\* LaneDigests; the other services are instantiated below.
CONSTANTS Signers, MaxKeys, MaxKeyOps, MaxKeyCrashes,
          Procs, Owners, Skills, DeepTtl, MaxEvents, MaxTime, MaxRestarts,
          Workers, Tasks, GarbledFields, MaxDispatches, MaxEntries, MaxReceipts, MaxStored,
          Shards, Actions, Sessions, Rules, MaxLog, MaxReports,
          LaneAgents, Window, Levels, DistillMax, EntryCost, DigestCost, TierCost,
          MaxLane, MaxNow, MaxDigests, MaxFailed, MaxMerges

\* signing.py writes its files without a lock: one process at a time.
ASSUME OneSigner == \A p, q \in Signers : p = q

\* The receipt hash covers the count; the dispatch of a receipt is covered by
\* nothing (exchange.py:29-40), so the wire is trusted with it.
ASSUME CoveredFields == GarbledFields \subseteq {"count", "sig"}

\* The shards are a list, an action has a name, the sessions are finitely many,
\* and a policy has its five rules, a limit being a number.
ASSUME AuditedShards == Shards \in Seq({Shards[i] : i \in DOMAIN Shards})
ASSUME NamedActions == "" \notin Actions
ASSUME FiniteSessions == IsFiniteSet(Sessions)
ASSUME PolicyRecords ==
  \A p \in Rules : /\ p = [allow |-> p.allow, deny |-> p.deny, sources |-> p.sources,
                           max |-> p.max, shards |-> p.shards]
                   /\ p.max \in Int

\* There is a lane, an index holds a number of entries, and a digest covers a
\* number of moments.
ASSUME SomeLane == LaneAgents \in Seq({LaneAgents[i] : i \in DOMAIN LaneAgents}) /\ LaneAgents # <<>>
ASSUME LaneSizes == Window \in Nat /\ \A l \in 1..Len(Levels) : Levels[l].delta \in Nat

VARIABLE part  \* the service this behaviour runs
VARIABLES seed, pub, hist, proc, keys, revoked, signed, kops, kcrashes
keysVars == <<seed, pub, hist, proc, keys, revoked, signed, kops, kcrashes>>
VARIABLES rlog, ridx, deep, told, ilog, version, past, itime, restarts
identityVars == <<rlog, ridx, deep, told, ilog, version, past, itime, restarts>>
VARIABLES dispatched, work, issuing, wire, received, accepted, attested
exchangeVars == <<dispatched, work, issuing, wire, received, accepted, attested>>
VARIABLES alog, audit, reports
policyVars == <<alog, audit, reports>>
VARIABLES lane, mine, lidx, lanes, merges, digests, distilled, roll, lnow, failed
lanesVars == <<lane, mine, lidx, lanes, merges, digests, distilled, roll, lnow, failed>>
VARIABLES log, damaged, now, job, result
recallVars == <<log, damaged, now, job, result>>
VARIABLES events, keyOf, known, tasks, made, refused, drestarts
dashboardVars == <<events, keyOf, known, tasks, made, refused, drestarts>>
VARIABLES file, trace, score
tracesVars == <<file, trace, score>>
VARIABLES registry, loaded, usage, outcomes, clock, graph, engine, advice, steps
statsVars == <<registry, loaded, usage, outcomes, clock, graph, engine, advice, steps>>
VARIABLES shard, runs, turn, started, crashes
gatewayVars == <<shard, runs, turn, started, crashes>>

PolicyShards == <<"s1", "s2">>
PolicyRules ==
  {[allow |-> {"*"}, deny |-> {"a1"}, sources |-> {"known"}, max |-> 1, shards |-> {"*"}],
   [allow |-> {"a1"}, deny |-> {}, sources |-> {"*"}, max |-> -1, shards |-> {"s1"}]}
LaneNames == <<"a", "b">>
TierCosts == <<1, 2, 4>>
DigestLevels == <<[align |-> 1, delta |-> 1], [align |-> 2, delta |-> 3]>>
SkillFiles == {[id |-> "a", described |-> TRUE, triggers |-> {"w"}],
               [id |-> "b", described |-> TRUE, triggers |-> {"w"}],
               [id |-> "b", described |-> FALSE, triggers |-> {}]}
GatewayBodies ==
  {[sub |-> TRUE, claimed |-> {"c1"}, surfaced |-> {}, limits |-> TRUE, promoted |-> FALSE,
    foreign |-> FALSE, low |-> FALSE],
   [sub |-> FALSE, claimed |-> {}, surfaced |-> {"c1"}, limits |-> FALSE, promoted |-> TRUE,
    foreign |-> TRUE, low |-> TRUE]}

Keys == INSTANCE AgentKeys
Identity == INSTANCE IdentityRecords
Exchange == INSTANCE TaskExchange
Policy == INSTANCE PolicyAudit
Lanes == INSTANCE LaneDigests
Recall == INSTANCE RecallContext WITH Shards <- <<"a", "b">>, RSessions <- {"s1"},
    Types <- {"historical_decision", "outdated_possibility"}, Query <- {"x"},
    MaxResults <- 2, Caps <- {1, 3}, BaseTokens <- 2, ItemTokens <- 1, MaxEntries <- 2,
    Times <- {1, 5}
Dashboard == INSTANCE MeshDashboard WITH DAgents <- {"a1", "a2"}, DKeys <- {"k1", "k2"},
    MaxEvents <- 4, MaxRefused <- 1, MaxRestarts <- 1, restarts <- drestarts
Traces == INSTANCE SkillTrace WITH Scopes <- {"s1"}, Ids <- {1, 2}, Checks <- {"c1"},
    MaxRecords <- 2
Stats == INSTANCE SkillStats WITH Skills <- {"a", "b"}, Words <- {"w"},
    Files <- SkillFiles, ReadLimit <- 3, MaxUses <- 3, MaxOutcomes <- 1, MaxClock <- 2,
    MaxSteps <- 2
Gateway == INSTANCE ProposalGateway WITH Gateways <- {"g1", "g2"}, Checks <- {"c1"},
    Bodies <- GatewayBodies, ReadLimit <- 9, MaxRuns <- 2, MaxCrashes <- 1,
    MaxOther <- 1, MaxSwitches <- 2

Parts == {"keys", "identity", "exchange", "policy", "lanes", "recall", "dashboard", "traces", "stats", "gateway"}
\* A service that does not run has one of its initial states.
Init ==
  /\ part \in Parts
  /\ Keys!AkInit /\ (part # "keys" => seed = Keys!NoSeed)
  /\ Identity!IrInit
  /\ Exchange!TxInit
  /\ Policy!PaInit
  /\ Lanes!LdInit
  /\ Recall!RcInit
  /\ Dashboard!MdInit
  /\ Traces!StInit
  /\ Stats!SsInit
  /\ Gateway!PgInit
Next ==
  \/ part = "keys" /\ Keys!AkNext /\ UNCHANGED <<part, identityVars, exchangeVars,
        policyVars, lanesVars, recallVars, dashboardVars, tracesVars, statsVars,
        gatewayVars>>
  \/ part = "identity" /\ Identity!IrNext /\ UNCHANGED <<part, keysVars, exchangeVars,
        policyVars, lanesVars, recallVars, dashboardVars, tracesVars, statsVars,
        gatewayVars>>
  \/ part = "exchange" /\ Exchange!TxNext /\ UNCHANGED <<part, keysVars, identityVars,
        policyVars, lanesVars, recallVars, dashboardVars, tracesVars, statsVars,
        gatewayVars>>
  \/ part = "policy" /\ Policy!PaNext /\ UNCHANGED <<part, keysVars, identityVars,
        exchangeVars, lanesVars, recallVars, dashboardVars, tracesVars, statsVars,
        gatewayVars>>
  \/ part = "lanes" /\ Lanes!LdNext /\ UNCHANGED <<part, keysVars, identityVars,
        exchangeVars, policyVars, recallVars, dashboardVars, tracesVars, statsVars,
        gatewayVars>>
  \/ part = "recall" /\ Recall!RcNext /\ UNCHANGED <<part, keysVars, identityVars,
        exchangeVars, policyVars, lanesVars, dashboardVars, tracesVars, statsVars,
        gatewayVars>>
  \/ part = "dashboard" /\ Dashboard!MdNext /\ UNCHANGED <<part, keysVars, identityVars,
        exchangeVars, policyVars, lanesVars, recallVars, tracesVars, statsVars,
        gatewayVars>>
  \/ part = "traces" /\ Traces!StNext /\ UNCHANGED <<part, keysVars, identityVars,
        exchangeVars, policyVars, lanesVars, recallVars, dashboardVars, statsVars,
        gatewayVars>>
  \/ part = "stats" /\ Stats!SsNext /\ UNCHANGED <<part, keysVars, identityVars,
        exchangeVars, policyVars, lanesVars, recallVars, dashboardVars, tracesVars,
        gatewayVars>>
  \/ part = "gateway" /\ Gateway!PgNext /\ UNCHANGED <<part, keysVars, identityVars,
        exchangeVars, policyVars, lanesVars, recallVars, dashboardVars, tracesVars,
        statsVars>>
Spec == Init /\ [][Next]_<<part, keysVars, identityVars, exchangeVars, policyVars,
         lanesVars, recallVars, dashboardVars, tracesVars, statsVars, gatewayVars>>

\* Every service keeps its state within the types its module declares.
TypesOK ==
  /\ part = "keys" => Keys!AkTypeOK
  /\ part = "identity" => Identity!IrTypeOK
  /\ part = "exchange" => Exchange!TxTypeOK
  /\ part = "policy" => Policy!PaTypeOK
  /\ part = "lanes" => Lanes!LdTypeOK
  /\ part = "recall" => Recall!RcTypeOK
  /\ part = "dashboard" => Dashboard!MdTypeOK
  /\ part = "traces" => Traces!StTypeOK
  /\ part = "stats" => Stats!SsTypeOK
  /\ part = "gateway" => Gateway!PgTypeOK

\* Keys and identity (signing.py, identity/): a revoked key stays revoked on
\* disk and never signs again, through crashes in the middle of a rotation, and
\* the history always verifies; a process that revoked an agent gives it no
\* trust; and what an agent was at a past moment never changes.
KeysAndIdentity ==
  /\ part = "keys" => Keys!RevocationHolds /\ Keys!HistoryVerifies
  /\ part = "identity" => Identity!OwnRevocationHolds /\ Identity!PastIsFixed

\* Exchange and audit (exchange.py, causal.py, policy_adapter.py, audit.py): a
\* receipt accepted for a dispatch is about an entry logged for it, however
\* receipts were delayed, repeated or garbled; its tip is not older than its
\* count; and an intact report that says COMPLIANT is right about what it read.
ExchangeSound ==
  /\ part = "exchange" => Exchange!AcceptedIsAnswer /\ Exchange!TipCoversCount
  /\ part = "policy" => Policy!CompliantIsTrue

\* Lanes and digests (lanes.py, collective.py): a merge covers all its process
\* had pushed, and once no roll is due every entry the process pushed is in a
\* digest of each level whose window is over.
DigestsComplete ==
  part = "lanes" => Lanes!MergesCoverOwnWork /\ Lanes!OwnWorkDigested

\* Recall (recall/search.py, provenance/, context/builder.py): an answer claims
\* integrity only for shards that verified when they were read, a verified
\* claim comes from such a shard, and the context is trimmed section by section
\* in the documented order, while the log grows and files are damaged; and the
\* unified read of the lanes (lanes.py) is the newest of what they all hold.
RecallSound ==
  /\ part = "recall" => /\ Recall!ProvenanceHonest /\ Recall!ClaimsSound
                        /\ Recall!ContextTrimmedInOrder
  /\ part = "lanes" => Lanes!UnifiedReadNewest

\* Dashboard (agent-mesh/dashboard/readers.py): the list, the detail page and
\* the comparison page count the same tasks, results and agents of a mission,
\* whatever writes were refused and however often the server restarted.
ViewsAgree == part = "dashboard" => Dashboard!ViewsAgree

\* Skill evidence (tools/, eval/, skills/, ans/): full marks go only to traces
\* nobody edited, in whatever order the records were read; a decision in the
\* gateway's shard is never half recorded and an explanation without warnings is
\* complete; and the two telemetry readers agree on rates and transitions.
SkillEvidence ==
  /\ part = "traces" => Traces!FullMarksAreEarned /\ Traces!FileOrderIrrelevant
  /\ part = "gateway" => Gateway!AuditAnchorsWhole /\ Gateway!SilenceIsComplete
  /\ part = "stats" => /\ Stats!GraphAgreesWithEngine /\ Stats!WorkflowsObserved
                       /\ Stats!RatesAgree

====
