---- MODULE MCStorageServices ----
(***************************************************************************)
(* The services around the shards, each on a small instance of its own:    *)
(* anchoring on the chain and its payload, the life cycle of a shard with  *)
(* its cold archives, the read relay and the block layer, the index copies *)
(* of agents, traces, the session tracker, the security baseline,          *)
(* artifacts and the coverage of a memory index.  They share no state, so  *)
(* a behaviour runs one of them, named by part, and the others keep their  *)
(* initial state.                                                          *)
(***************************************************************************)
EXTENDS Integers, Sequences, FiniteSets

CONSTANTS MaxPolls, Ttl, MaxTime, MaxDelay, MaxSubmits, MaxCalls   \* of AnchorFlow
CONSTANTS Managers, RetainEntries, MaxIds, MaxLen, MaxFaults, MaxKept, MaxLcOps
                                                       \* of ShardLifecycle
CONSTANTS Layers, Critical, MaxApi, TokenLife, MaxVersion, MaxTokens, MaxAge, MaxAsks
                                                       \* of SecurityBaseline
CONSTANTS Storers, Contents, LogEntries, MaxStores, MaxCrashes   \* of ArtifactStore
CONSTANTS Agents, Files, MaxLogged, MaxBuilds          \* of AgentIndex
CONSTANTS Trackers, MaxSessions, MaxBeats, MaxKills    \* of SessionTracker

\* Neither lifecycle.py nor artifacts.py takes a lock: a registry of transitions
\* has one ShardLifecycle at a time and an artifact directory one process that
\* stores, each of which may die and be started again.
ASSUME OneManager == \A m, n \in Managers : m = n
ASSUME OneStorer == \A p, q \in Storers : p = q

\* A verdict lives for an epoch of its regime, which takes some time.
ASSUME Lifetimes == Ttl \in [{"andromeda", "supernova"} -> Nat \ {0}] /\ MaxDelay \in Nat

\* An index has at least one file.
ASSUME SomeFiles == Files \in Nat \ {0}

VARIABLE part  \* the service this behaviour runs
VARIABLES network, anow, tx, sdkSchema, anchor, entries, watch, foreign, acache, disk,
          verdict, aasked, submits, acalls
anchorVars == <<network, anow, tx, sdkSchema, anchor, entries, watch, foreign, acache,
                disk, verdict, aasked, submits, acalls>>
VARIABLES intent, data
codecVars == <<intent, data>>
VARIABLES shard, pin, registry, cache, sealing, seals, sjob, cold, ejob, rjob, witness,
          nextId, faults, lcOps
lifeVars == <<shard, pin, registry, cache, sealing, seals, sjob, cold, ejob, rjob,
              witness, nextId, faults, lcOps>>
VARIABLES rlog, rclock, mem, files, job, since, buffer, blocks, acked, crashes
relayVars == <<rlog, rclock, mem, files, job, since, buffer, blocks, acked, crashes>>
VARIABLES tfile, last, life, created, damage
traceVars == <<tfile, last, life, created, damage>>
VARIABLES content, git, base, policy, token, now, made, asks, at, granted, backed,
          asked, events, api
securityVars == <<content, git, base, policy, token, now, made, asks, at, granted,
                  backed, asked, events, api>>
VARIABLES bin, meta, doing, kept, calls, falls
artifactsVars == <<bin, meta, doing, kept, calls, falls>>
VARIABLES counted, indexing, coverage
coverageVars == <<counted, indexing, coverage>>
VARIABLES sfile, held, step, locker, said, started, beats, kills, overlap
trackerVars == <<sfile, held, step, locker, said, started, beats, kills, overlap>>
VARIABLES logged, idx, cached, work, raced, builds
copyVars == <<logged, idx, cached, work, raced, builds>>

RegimeTtl == [andromeda |-> 2, supernova |-> 1]
RelayEntries == {<<"x", "s1", "a", "act">>, <<"y", "s2", "b", "none">>}

Anchor == INSTANCE AnchorFlow WITH now <- anow, cache <- acache, asked <- aasked, calls <- acalls
Codec == INSTANCE AnchorCodec WITH Magic <- <<3>>, ShardMax <- 2, HashBytes <- 1,
    NonceBytes <- 2, IdBytes <- 1, Base <- 4
Life == INSTANCE ShardLifecycle
Relay == INSTANCE ReadRelay WITH RShards <- <<"x", "y">>, REntries <- RelayEntries,
    BatchSize <- 2, BlockSize <- 2, MaxEntries <- 3, MaxClock <- 2, MaxCrashes <- 1
Trace == INSTANCE TraceReplay WITH Writers <- {"w1", "w2"}, TSessions <- {"s1", "s2"},
    Contents <- {"plain", "accented", "untyped"}, MaxWrites <- 3, MaxRestarts <- 1,
    MaxDamage <- 1
Security == INSTANCE SecurityBaseline WITH acked <- backed
Artifacts == INSTANCE ArtifactStore
Coverage == INSTANCE MemoryCoverage WITH CShards <- {"s1", "s2"},
    BlockSizes <- {1, 99, 20000, 100000}, ReadLimit <- 100000, MaxGaps <- 500,
    MaxBlocks <- 3, blocks <- counted
Tracker == INSTANCE SessionTracker
Copies == INSTANCE AgentIndex

Parts == {"anchor", "codec", "life", "relay", "trace", "security", "artifacts", "coverage",
          "tracker", "copies"}
\* A service that does not run has one of its initial states.
Init ==
  /\ part \in Parts
  /\ Anchor!Init /\ (part # "anchor" => network.regime = "andromeda" /\ sdkSchema = "dual")
  /\ Codec!Init
  /\ Life!LcInit
  /\ Relay!RRInit
  /\ Trace!TrInit
  /\ Security!SbInit /\ (part # "security" => policy)
  /\ Artifacts!AsInit
  /\ Coverage!McInit
  /\ Tracker!StInit
  /\ Copies!AiInit
Next ==
  \/ part = "anchor" /\ Anchor!Next /\ UNCHANGED <<part, codecVars, lifeVars, relayVars,
        traceVars, securityVars, artifactsVars, coverageVars, trackerVars, copyVars>>
  \/ part = "codec" /\ Codec!Next /\ UNCHANGED <<part, anchorVars, lifeVars, relayVars,
        traceVars, securityVars, artifactsVars, coverageVars, trackerVars, copyVars>>
  \/ part = "life" /\ Life!LcNext /\ UNCHANGED <<part, anchorVars, codecVars, relayVars,
        traceVars, securityVars, artifactsVars, coverageVars, trackerVars, copyVars>>
  \/ part = "relay" /\ Relay!RRNext /\ UNCHANGED <<part, anchorVars, codecVars, lifeVars,
        traceVars, securityVars, artifactsVars, coverageVars, trackerVars, copyVars>>
  \/ part = "trace" /\ Trace!TrNext /\ UNCHANGED <<part, anchorVars, codecVars, lifeVars,
        relayVars, securityVars, artifactsVars, coverageVars, trackerVars, copyVars>>
  \/ part = "security" /\ Security!SbNext /\ UNCHANGED <<part, anchorVars, codecVars, lifeVars,
        relayVars, traceVars, artifactsVars, coverageVars, trackerVars, copyVars>>
  \/ part = "artifacts" /\ Artifacts!AsNext /\ UNCHANGED <<part, anchorVars, codecVars, lifeVars,
        relayVars, traceVars, securityVars, coverageVars, trackerVars, copyVars>>
  \/ part = "coverage" /\ Coverage!McNext /\ UNCHANGED <<part, anchorVars, codecVars, lifeVars,
        relayVars, traceVars, securityVars, artifactsVars, trackerVars, copyVars>>
  \/ part = "tracker" /\ Tracker!StNext /\ UNCHANGED <<part, anchorVars, codecVars, lifeVars,
        relayVars, traceVars, securityVars, artifactsVars, coverageVars, copyVars>>
  \/ part = "copies" /\ Copies!AiNext /\ UNCHANGED <<part, anchorVars, codecVars, lifeVars,
        relayVars, traceVars, securityVars, artifactsVars, coverageVars, trackerVars>>
Spec == Init /\ [][Next]_<<part, anchorVars, codecVars, lifeVars, relayVars, traceVars,
         securityVars, artifactsVars, coverageVars, trackerVars, copyVars>>

\* Every service keeps its state within the types its module declares.
TypesOK ==
  /\ part = "anchor" => Anchor!TypeOK
  /\ part = "life" => Life!LcTypeOK
  /\ part = "relay" => Relay!RRTypeOK
  /\ part = "trace" => Trace!TrTypeOK
  /\ part = "security" => Security!SbTypeOK
  /\ part = "artifacts" => Artifacts!AsTypeOK
  /\ part = "coverage" => Coverage!McTypeOK
  /\ part = "tracker" => Tracker!StTypeOK
  /\ part = "copies" => Copies!AiTypeOK

\* Anchoring (multiversx/): the audit of the logged entries says what became of
\* the transaction, over timeouts, resubmissions and broken watches; and a regime
\* verdict that is not a fallback was true a bounded time ago.
AnchoringSound ==
  part = "anchor" => Anchor!AuditTellsOutcome /\ Anchor!RegimeEvidence

\* Life cycle and artifacts (lifecycle.py, seal.py, cold_storage.py, witness.py,
\* artifacts.py): the registry of transitions is one legal path over crashes; an
\* undisturbed restore gives back the archived chain hash for hash and passes
\* its seal and witness; and an artifact that store() has returned is readable
\* and verifies, also after a call that died between its two files.
ArchivesSound ==
  /\ part = "life" => Life!LegalRegistry /\ Life!ArchivesWhole
  /\ part = "artifacts" => Artifacts!StoredIsReadable

\* Reads (rr/, block_layer/, coverage.py, agent.py, core/session.py, multiversx/
\* payload): an index
\* built while the shards grow lacks no entry that was there when the build
\* began; a copy of it filled while nobody replaced a file is served only as
\* long as it is what the files hold; the block layer gives back what it
\* acknowledged, in order, but for less than a block per crash; a memory called
\* fully covered misses at most one entry in 20000; the state of the session
\* tracker loads unless a process was killed or two saves overlapped; and the
\* payload of an anchor decodes to the intent it was made from, while any other
\* is refused or is itself the encoding of what it decodes to.
ReadsComplete ==
  /\ part = "relay" => Relay!NothingMissed /\ Relay!BlocksKeepEntries
  /\ part = "copies" => Copies!UndisturbedCopyCurrent
  /\ part = "tracker" => Tracker!StateFileKept
  /\ part = "coverage" => Coverage!FullMeansNearlyAll
  /\ part = "codec" => Codec!RoundTrip

\* Replay (core/tracing.py, core/replay.py): a strict replay that says OK is of
\* the first records one writer created, none missing between and none edited;
\* and a session that had a writer to itself and was left alone replays OK,
\* whatever happened to the lines of the others.
ReplayTrusted ==
  part = "trace" => Trace!StrictOkIsAuthentic /\ Trace!OwnWriterReplaysOk

\* Security (core/security.py): every override of the write protection used up
\* a token of its own, however many processes look at the token file; and the
\* baseline of a critical file is a version first seen or acknowledged.
BaselineGuarded ==
  part = "security" => Security!TokensSingleUse /\ Security!BaselineAcknowledged

====
