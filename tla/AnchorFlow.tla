---------------------------- MODULE AnchorFlow ----------------------------
(* One anchor of a shard on the MultiversX chain: the state machine of the anchor, the  *)
(* polling watcher that feeds it, the audit of its entries, and the detection of the    *)
(* network's regime with its cache.                                                     *)
(*                                                                                      *)
(* Under andromeda a transaction is executed by the block that includes it, under       *)
(* supernova by a later one.  The chain, the gateway and the caller that drives the     *)
(* state machine are external: the caller watches after a submission, and sends the     *)
(* timeout and reject events while no watch runs.  An entry stands for its type, which  *)
(* is the state it leads to.                                                            *)
EXTENDS Integers, Sequences

CONSTANTS
    MaxPolls,     \* MinimalPollingWatcher._max_polls
    Ttl,          \* Ttl[regime]: the rounds of an epoch times their duration
    MaxTime,      \* bound: ticks of the clock
    MaxDelay,     \* bound: ticks a request to the gateway may take
    MaxSubmits,   \* bound: submissions of the anchor
    MaxCalls      \* bound: calls of the regime detector

VARIABLES
    network,    \* the chain: its regime, and since when it is in that regime
    now,        \* the clock
    tx,         \* the submitted transaction, on the chain
    sdkSchema,  \* flags.sdk_schema
    anchor,     \* AnchorState
    entries,    \* the entries emitted for the anchor
    watch,      \* the watch call in progress
    foreign,    \* ghost: the watcher read another transaction's result as the anchor's
    cache,      \* RegimeCache._in_memory, Unread before it was loaded
    disk,       \* the cache file
    verdict,    \* the last verdict of the detector
    asked,      \* ghost: when it was given
    submits, calls

chainVars  == <<network, now, tx>>
anchorVars == <<anchor, entries, watch, foreign>>
regimeVars == <<cache, disk, verdict, asked>>
vars == <<chainVars, sdkSchema, anchorVars, regimeVars, submits, calls>>

Regimes == {"andromeda", "supernova"}
States == {"intent_logged", "submitted", "included", "settled", "failed", "rejected",
           "timed_out", "stuck"}

\* The classes of entries a transition logs, by their entry_type.
EntryTypes == States \ {"intent_logged"}
NoVerdict == [regime |-> "none", source |-> "none", captured |-> 0, cached |-> 0]
Unread == [NoVerdict EXCEPT !.source = "unread"]
NoTx == [phase |-> "none", fate |-> "open", path |-> "none"]
NoWatch == [pc |-> "off", polls |-> 0, status |-> "pending"]

Init ==
    /\ network \in [regime : Regimes, since : {0}]
    /\ now = 0 /\ tx = NoTx
    /\ sdkSchema \in {"legacy_only", "dual", "new_only"}
    /\ anchor = "intent_logged" /\ entries = <<>> /\ watch = NoWatch /\ foreign = FALSE
    /\ cache = Unread /\ disk = NoVerdict /\ verdict = NoVerdict /\ asked = 0
    /\ submits = 0 /\ calls = 0

----------------------------------------------------------------------------
(* The chain *)

Tick ==
    /\ now < MaxTime /\ now' = now + 1
    /\ \/ network' = network
       \/ network.regime = "andromeda" /\ network' = [regime |-> "supernova", since |-> now']
    /\ UNCHANGED <<tx, sdkSchema, anchorVars, regimeVars, submits, calls>>

\* A block takes the transaction in; under andromeda it also executes it.
Include ==
    /\ tx.phase = "pool"
    /\ \E fate \in {"success", "fail"} :
         tx' = IF network.regime = "andromeda"
               THEN [phase |-> "executed", fate |-> fate, path |-> "andromeda"]
               ELSE [phase |-> "included", fate |-> "open", path |-> "supernova"]
    /\ UNCHANGED <<network, now, sdkSchema, anchorVars, regimeVars, submits, calls>>

Execute ==
    /\ tx.phase = "included"
    /\ \E fate \in {"success", "fail"} : tx' = [tx EXCEPT !.phase = "executed", !.fate = fate]
    /\ UNCHANGED <<network, now, sdkSchema, anchorVars, regimeVars, submits, calls>>

----------------------------------------------------------------------------
(* The state machine *)

\* _DISPATCH
Dispatch ==
    { <<"intent_logged", "submit", "submitted">>, <<"timed_out", "submit", "submitted">>,
      <<"submitted", "include", "included">>, <<"submitted", "reject", "rejected">>,
      <<"submitted", "t1_timeout", "timed_out">>, <<"submitted", "stuck_timeout", "stuck">>,
      <<"included", "exec_success", "settled">>, <<"included", "exec_fail", "failed">>,
      <<"included", "t3_timeout", "timed_out">>, <<"included", "stuck_timeout", "stuck">> }

\* next_state: the successors, none where InvalidTransition is raised.
NextState(state, event, regime) ==
    {t[3] : t \in {d \in Dispatch :
        d[1] = state /\ d[2] = event
        /\ ~(event = "t3_timeout" /\ regime = "andromeda")}}

\* The caller hands an event to next_state and logs the entry it returns.
Emit(event) ==
    \E s \in NextState(anchor, event, verdict.regime) :
        anchor' = s /\ entries' = Append(entries, s)

\* verify_anchor_chain
VerifyAnchorChain(chain) ==
    LET has(kind) == \E i \in DOMAIN chain : chain[i] = kind
    IN  IF has("failed") \/ has("rejected") THEN "execution_failed"
        ELSE IF has("settled") THEN "ok"
        ELSE IF has("included") \/ has("timed_out") \/ has("stuck") THEN "pending"
        ELSE "not_found"

----------------------------------------------------------------------------
(* The regime detector *)

\* _CachedVerdict.is_fresh
IsFresh(v) == v # NoVerdict /\ now - v.cached < Ttl[v.regime]

\* RegimeCache._load_from_disk, once per process.
Loaded == IF cache = Unread THEN disk ELSE cache

\* What a fetch that takes d ticks yields; detect_regime, with the round duration abstracted.
Fetched(d) == [regime |-> network.regime, source |-> "network_config",
               captured |-> now, cached |-> now + d]

\* RegimeCache.put: memory first, then the file, whose failure is only logged.
Put(v) == cache' = v /\ disk' \in {v, disk}

\* Neither the network nor the cache helped: the older verdict, or supernova.
Fallback ==
    IF Loaded # NoVerdict THEN [Loaded EXCEPT !.source = "cache"]
    ELSE [regime |-> "supernova", source |-> "fail_closed_default",
          captured |-> now, cached |-> now]

\* RegimeDetector.current
Current ==
    \/ /\ IsFresh(Loaded)
       /\ verdict' = Loaded /\ cache' = Loaded /\ asked' = now
       /\ UNCHANGED <<disk, now, network>>
    \/ /\ ~IsFresh(Loaded)
       /\ \E d \in 0 .. MaxDelay :
            now + d <= MaxTime /\ now' = now + d /\ Put(Fetched(d)) /\ verdict' = Fetched(d)
       /\ asked' = now' /\ UNCHANGED network
    \/ /\ ~IsFresh(Loaded)
       /\ verdict' = Fallback /\ cache' = Loaded /\ asked' = now
       /\ UNCHANGED <<disk, now, network>>

\* RegimeDetector.refresh; a strict refresh that fails raises and changes nothing.
Refresh ==
    /\ calls < MaxCalls /\ calls' = calls + 1
    /\ \/ Put(Fetched(0)) /\ verdict' = Fetched(0) /\ asked' = now
       \/ verdict' = Fallback /\ cache' = Loaded /\ asked' = now /\ UNCHANGED disk
    /\ UNCHANGED <<chainVars, sdkSchema, anchorVars, submits>>

\* RegimeDetector.on_epoch_transition, when the epoch differs from the cached one.
OnEpochTransition ==
    /\ calls < MaxCalls /\ calls' = calls + 1
    /\ Put(Fetched(0))
    /\ UNCHANGED <<chainVars, sdkSchema, anchorVars, verdict, asked, submits>>

\* RegimeCache.invalidate; the file may stay behind.
Invalidate ==
    /\ calls < MaxCalls /\ calls' = calls + 1
    /\ cache' = NoVerdict /\ disk' \in {NoVerdict, disk}
    /\ UNCHANGED <<chainVars, sdkSchema, anchorVars, verdict, asked, submits>>

\* The process ends; its memory and a watch in progress are lost.
Restart ==
    /\ calls < MaxCalls /\ calls' = calls + 1
    /\ cache' = Unread /\ watch' = NoWatch
    /\ UNCHANGED <<chainVars, sdkSchema, anchor, entries, foreign, disk, verdict, asked,
                   submits>>

----------------------------------------------------------------------------
(* The caller and the watcher *)

\* The caller asks for the regime and submits, for the first time or after a timeout.
Submit ==
    /\ watch.pc = "off" /\ submits < MaxSubmits /\ submits' = submits + 1
    /\ anchor \in {"intent_logged", "timed_out"}
    /\ Emit("submit") /\ Current
    /\ tx' = [NoTx EXCEPT !.phase = "pool"]
    /\ UNCHANGED <<sdkSchema, watch, foreign, calls>>

\* Events of the caller: the gateway rejects, or the caller loses patience.
CallerEvent(event) ==
    /\ watch.pc = "off"
    /\ event = "reject" => tx.phase = "pool"
    /\ Emit(event)
    /\ tx' = IF event = "reject" THEN NoTx ELSE tx
    /\ UNCHANGED <<network, now, sdkSchema, watch, foreign, regimeVars, submits, calls>>

WatchStart ==
    /\ watch.pc = "off" /\ anchor \in {"submitted", "included"}
    /\ watch' = [NoWatch EXCEPT !.pc = "inclusion"]
    /\ UNCHANGED <<chainVars, sdkSchema, anchor, entries, foreign, regimeVars, submits, calls>>

\* DualSchemaReader: the path is given by the block, and the configuration may forbid it.
Forbidden(path) ==
    \/ path = "supernova" /\ sdkSchema = "legacy_only"
    \/ path = "andromeda" /\ sdkSchema = "new_only"

\* _read_andromeda
ReadAndromeda == IF tx.fate = "fail" THEN "fail" ELSE "success"

\* _read_supernova: the counts of the settling block, which holds other transactions too.
FailSignals(others) == others = "failed" \/ (tx.phase = "executed" /\ tx.fate = "fail")
ClassifyNonFail(others) ==
    IF others = "executed" \/ (tx.phase = "executed" /\ tx.fate = "success")
    THEN "success" ELSE "pending"

ReadSupernova(others) == IF FailSignals(others) THEN "fail" ELSE ClassifyNonFail(others)

\* Fault seed: the loop runs once more.
LastPoll_OneLate == watch.polls = MaxPolls

\* range(max_polls) is used up: the watcher gives up and yields nothing more.
LastPoll == watch.polls + 1 = MaxPolls

\* _poll_until_included, the first yield, and the path the watcher goes on with.
PollInclusion ==
    /\ watch.pc = "inclusion"
    /\ IF tx.phase \in {"included", "executed"}
       THEN IF Forbidden(tx.path) \/ NextState(anchor, "include", verdict.regime) = {}
            THEN watch' = NoWatch /\ UNCHANGED <<anchor, entries>>
            ELSE /\ Emit("include")
                 /\ watch' = IF tx.path = "andromeda"
                             THEN [pc |-> "terminal", polls |-> 0, status |-> ReadAndromeda]
                             ELSE [NoWatch EXCEPT !.pc = "settling"]
       ELSE /\ watch' = IF LastPoll THEN NoWatch
                        ELSE [watch EXCEPT !.polls = @ + 1]
            /\ UNCHANGED <<anchor, entries>>
    /\ UNCHANGED <<chainVars, sdkSchema, foreign, regimeVars, submits, calls>>

\* The loop over the settling block; others is what that block says of other transactions.
PollSettling(others) ==
    /\ watch.pc = "settling"
    /\ LET status == ReadSupernova(others)
       IN  /\ watch' = IF status # "pending"
                       THEN [pc |-> "terminal", polls |-> 0, status |-> status]
                       ELSE IF LastPoll THEN NoWatch
                       ELSE [watch EXCEPT !.polls = @ + 1]
           /\ foreign' = (foreign \/ (status # "pending" /\ status # ReadSupernova("none")))
    /\ UNCHANGED <<chainVars, sdkSchema, anchor, entries, regimeVars, submits, calls>>

\* Fault seed: a failure is reported like any other outcome.
TerminalEvent_AlwaysSuccess(status) == "exec_success"

\* _build_terminal_event
TerminalEvent(status) == IF status = "fail" THEN "exec_fail" ELSE "exec_success"

\* The second yield.
Terminal ==
    /\ watch.pc = "terminal"
    /\ Emit(TerminalEvent(watch.status))
    /\ watch' = NoWatch
    /\ UNCHANGED <<chainVars, sdkSchema, foreign, regimeVars, submits, calls>>

\* A request fails (raise_for_status, a block that does not exist yet) and ends the watch.
WatchFails ==
    /\ watch.pc \in {"inclusion", "settling"}
    /\ watch' = NoWatch
    /\ UNCHANGED <<chainVars, sdkSchema, anchor, entries, foreign, regimeVars, submits, calls>>

Next ==
    \/ Tick \/ Include \/ Execute
    \/ Refresh \/ OnEpochTransition \/ Invalidate \/ Restart
    \/ Submit \/ WatchStart \/ PollInclusion \/ Terminal \/ WatchFails
    \/ \E others \in {"none", "executed", "failed"} : PollSettling(others)
    \/ \E event \in {"reject", "t1_timeout", "t3_timeout", "stuck_timeout"} : CallerEvent(event)

Spec == Init /\ [][Next]_vars

----------------------------------------------------------------------------
(* Properties *)

Verdicts == [regime : Regimes \cup {"none"}, captured : Nat, cached : Nat,
             source : {"none", "network_config", "cache", "fail_closed_default"}]

\* Type correctness of the chain, the anchor, the watch and the caches.
TypeOK ==
    /\ network.regime \in Regimes /\ now \in 0 .. MaxTime
    /\ tx.phase \in {"none", "pool", "included", "executed"}
    /\ anchor \in States /\ entries \in Seq(EntryTypes)
    /\ watch.pc \in {"off", "inclusion", "settling", "terminal"} /\ watch.polls \in 0 .. MaxPolls - 1
    /\ cache \in Verdicts \cup {Unread} /\ disk \in Verdicts /\ verdict \in Verdicts

\* The audit of the logged entries says what became of the transaction, over timeouts,
\* resubmissions and watches that broke off.  It reports ok only for one that was executed
\* successfully and a failure after inclusion only for one that was not, unless the watcher
\* read the counts of another transaction in the settling block; and the entries never hold
\* two outcomes.
AuditTellsOutcome ==
    /\ VerifyAnchorChain(entries) = "ok" => tx.fate = "success" \/ foreign
    /\ anchor = "failed" => tx.fate = "fail" \/ foreign
    /\ VerifyAnchorChain(entries) = "ok" <=> anchor = "settled"
    /\ VerifyAnchorChain(entries) = "execution_failed" <=> anchor \in {"failed", "rejected"}

\* A verdict the detector does not mark as a fallback was true less than one lifetime and
\* one request ago, also when it comes from the memory or the file of an earlier process;
\* andromeda, whose looser rules accept an inclusion as settled, is never invented.
RegimeEvidence ==
    LET held(t) == IF t < network.since THEN "andromeda" ELSE network.regime
    IN  /\ verdict.source = "network_config" =>
             /\ held(verdict.captured) = verdict.regime
             /\ asked - verdict.captured < Ttl[verdict.regime] + MaxDelay
        /\ verdict.regime = "andromeda" => held(verdict.captured) = "andromeda"
============================================================================
