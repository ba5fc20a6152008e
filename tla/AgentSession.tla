---------------------------- MODULE AgentSession ----------------------------
(***************************************************************************)
(* Agent processes that share a data directory: the sessions and the       *)
(* intent/result log of SessionGraph (session/session_graph.py), the       *)
(* budget and cooldowns of SessionLimitsManager                            *)
(* (session/session_limits_manager.py) and the commitments of AnchorLog    *)
(* (anchor.py), driven by DarylAgent.start, end, snapshot, intend and      *)
(* confirm (agent.py).                                                     *)
(*                                                                         *)
(* The "sessions" shard is a sequence: Storage.append adds one entry at    *)
(* its end, or raises, in which case the entry may be on disk all the same *)
(* (ShardStore shows both).  Sessions and intents are numbered.  Each step *)
(* is one access to a file that other processes use.                       *)
(***************************************************************************)
EXTENDS Integers, Sequences, FiniteSets

CONSTANTS
    Procs,         \* agent processes
    Budget,        \* DAILY_ACTION_BUDGET
    Cooldown,      \* ACTION_COOLDOWN
    PollCooldown,  \* HOME_POLL_COOLDOWN
    DayLength,     \* clock units in a day
    Window,        \* the limit of find_orphaned_intents
    MaxTime,       \* bound: the clock
    MaxCalls,      \* bound: calls of the agents' methods
    MaxFaults      \* bound: OSErrors and killed processes

ASSUME SessionAssumption ==
    /\ Budget \in Nat /\ Cooldown \in Nat /\ PollCooldown \in Nat /\ DayLength \in Nat \ {0}
    /\ Window \in Nat /\ MaxCalls \in Nat /\ MaxFaults \in Nat
    /\ MaxTime \in Nat /\ PollCooldown < MaxTime

VARIABLES
    wal,        \* the sessions shard
    anchor,     \* anchor_log.jsonl
    limits,     \* session_limits.json
    now,        \* the clock
    proc,       \* the state of each process
    sessions, intents,  \* ids handed out so far
    calls,              \* calls made so far
    unframed,   \* ghost: sessions whose session_start or session_end append raised
    killed,     \* ghost: sessions whose process was killed
    faults

counters == <<sessions, intents, calls>>
vars == <<wal, anchor, limits, now, proc, counters, unframed, killed, faults>>

None == 0
Day(time) == time \div DayLength

----------------------------------------------------------------------------
(* State *)

\* An entry of the shard; of its timestamp, the day of a result.
EntryOf(type, session, intent) ==
    [type |-> type, session |-> session, intent |-> intent,
     day |-> IF type = "result" THEN Day(now) ELSE 0]

Record(type, intent, commitment) ==
    [type |-> type, intent |-> intent, commitment |-> commitment, at |-> now]

\* What _load_state returns when there is no file, or one that is not JSON.
DefaultState == [last_action |-> 0, count |-> 0, date |-> 0, last_poll |-> 0]

\* A process.  session is current_session_id; intent, mark and copy are the locals of the
\* call in progress; held are the intent ids its caller has and did not confirm;
\* pending is the key set of _pending_commitments.
Fresh == [session |-> None, pc |-> "idle", intent |-> None, mark |-> "none",
          copy |-> DefaultState, held |-> {}, pending |-> {}]

Init ==
    /\ wal = <<>> /\ anchor = <<>>
    /\ limits = DefaultState
    /\ now = 1 + PollCooldown  \* the epoch, 0, is long ago
    /\ proc = [p \in Procs |-> Fresh]
    /\ sessions = 0 /\ intents = 0 /\ calls = 0
    /\ unframed = {} /\ killed = {}
    /\ faults = 0

\* Storage.append returns ...
Stored(e) == wal' = Append(wal, e) /\ UNCHANGED faults

\* ... or raises OSError, before or after the line is on disk.
Raised(e) ==
    /\ faults < MaxFaults
    /\ faults' = faults + 1
    /\ wal' \in {wal, Append(wal, e)}

\* AnchorLog._append_record raises OSError, before or after its write.
AnchorRaised(r) ==
    /\ faults < MaxFaults
    /\ faults' = faults + 1
    /\ anchor' \in {anchor, Append(anchor, r)}

At(p, pc) == proc[p].pc = pc
Update(p, fields) == proc' = [proc EXCEPT ![p] = fields]

\* The agent of process p calls a method.
Called(p) == At(p, "idle") /\ calls < MaxCalls /\ calls' = calls + 1

----------------------------------------------------------------------------
(* Sessions *)

\* start_session with a session still open closes it first.  When that append raises,
\* the old session is dropped all the same by what follows.
AutoClose(p) ==
    /\ Called(p) /\ proc[p].session # None
    /\ LET e == EntryOf("end", proc[p].session, None)
       IN  \/ Stored(e) /\ UNCHANGED unframed
           \/ Raised(e) /\ unframed' = unframed \cup {proc[p].session}
    /\ Update(p, [proc[p] EXCEPT !.session = None, !.pc = "begin"])
    /\ UNCHANGED <<anchor, limits, now, sessions, intents, killed>>

\* start_session takes a new id before it appends, and keeps it when that raises.
BeginSession(p) ==
    /\ \/ At(p, "begin") /\ UNCHANGED calls
       \/ Called(p) /\ proc[p].session = None
    /\ sessions' = sessions + 1
    /\ LET e == EntryOf("start", sessions + 1, None)
       IN  \/ Stored(e) /\ UNCHANGED unframed
           \/ Raised(e) /\ unframed' = unframed \cup {sessions + 1}
    /\ Update(p, [proc[p] EXCEPT !.session = sessions + 1, !.pc = "idle"])
    /\ UNCHANGED <<anchor, limits, now, intents, killed>>

\* Fault seed: the session stays current after its end was recorded.
EndSession_StaysCurrent(p) ==
    /\ Called(p) /\ proc[p].session # None
    /\ Stored(EntryOf("end", proc[p].session, None))
    /\ UNCHANGED <<anchor, limits, now, proc, sessions, intents, unframed, killed>>

\* end_session: when the append raises, the session stays current.
EndSession(p) ==
    /\ Called(p) /\ proc[p].session # None
    /\ LET e == EntryOf("end", proc[p].session, None)
       IN  \/ /\ Stored(e)
              /\ Update(p, [proc[p] EXCEPT !.session = None])
              /\ UNCHANGED unframed
           \/ /\ Raised(e)
              /\ unframed' = unframed \cup {proc[p].session}
              /\ UNCHANGED proc
    /\ UNCHANGED <<anchor, limits, now, sessions, intents, killed>>

\* record_snapshot asks can_poll_home first, and marks the poll as skipped on a refusal.
SnapshotCheck(p) ==
    /\ Called(p) /\ proc[p].session # None
    /\ IF limits.last_poll + PollCooldown - now <= 0
       THEN Update(p, [proc[p] EXCEPT !.pc = "snapshot"])
       ELSE Update(p, [proc[p] EXCEPT !.pc = "load", !.mark = "skipped"])
    /\ UNCHANGED <<wal, anchor, limits, now, sessions, intents, unframed, killed, faults>>

SnapshotAppend(p) ==
    /\ At(p, "snapshot")
    /\ LET e == EntryOf("snapshot", proc[p].session, None)
       IN  \/ Stored(e) /\ Update(p, [proc[p] EXCEPT !.pc = "load", !.mark = "polled"])
           \/ Raised(e) /\ Update(p, [proc[p] EXCEPT !.pc = "idle"])
    /\ UNCHANGED <<anchor, limits, now, counters, unframed, killed>>

----------------------------------------------------------------------------
(* Intents *)

\* can_execute_action: no cooldown, and budget left today.
CanExecute ==
    /\ limits.last_action = 0 \/ limits.last_action + Cooldown - now <= 0
    /\ Budget - (IF limits.date = Day(now) THEN limits.count ELSE 0) > 0

\* DarylAgent.intend, SessionGraph.execute_action: the limits are asked first.
IntendCheck(p) ==
    /\ Called(p) /\ proc[p].session # None
    /\ IF CanExecute
       THEN /\ intents' = intents + 1
            /\ Update(p, [proc[p] EXCEPT !.pc = "intent", !.intent = intents + 1])
       ELSE /\ Update(p, [proc[p] EXCEPT !.pc = "load", !.mark = "skipped"])
            /\ UNCHANGED intents
    /\ UNCHANGED <<wal, anchor, limits, now, sessions, unframed, killed, faults>>

\* The intent is appended.  When that raises the caller gets no id.
IntendAppend(p) ==
    /\ At(p, "intent")
    /\ LET e == EntryOf("intent", proc[p].session, proc[p].intent)
       IN  \/ Stored(e) /\ Update(p, [proc[p] EXCEPT !.pc = "pre"])
           \/ Raised(e) /\ Update(p, [proc[p] EXCEPT !.pc = "idle", !.intent = None])
    /\ UNCHANGED <<anchor, limits, now, counters, unframed, killed>>

\* pre_commit records the commitment; an OSError is passed over.  intend returns the id.
PreCommit(p) ==
    /\ At(p, "pre")
    /\ LET i == proc[p].intent
           returned == [proc[p] EXCEPT !.pc = "idle", !.intent = None, !.held = @ \cup {i}]
       IN  \/ /\ anchor' = Append(anchor, Record("pre", i, i))
              /\ Update(p, [returned EXCEPT !.pending = @ \cup {i}])
              /\ UNCHANGED faults
           \/ /\ AnchorRaised(Record("pre", i, i))
              /\ Update(p, returned)
    /\ UNCHANGED <<wal, limits, now, counters, unframed, killed>>

----------------------------------------------------------------------------
(* Results *)

\* The newest entries, as Storage.read returns them.
Recent == {k \in DOMAIN wal : k > Len(wal) - Window}

\* find_orphaned_intents: intents without a result, among the newest entries.
Orphans ==
    {wal[k].intent : k \in {k \in Recent : wal[k].type = "intent"}}
    \ {wal[k].intent : k \in {k \in Recent : wal[k].type = "result"}}

\* The intents a running process created or is confirming.
InHand == UNION {proc[q].held \cup {proc[q].intent} : q \in Procs}

\* Fault seed: the last commitment made is taken for the one of this intent.
PostCommit_LastPending(p, i) ==
    /\ Called(p) /\ i \in proc[p].held
    /\ LET pending == proc[p].pending
           commitment == IF pending = {} THEN None
                         ELSE CHOOSE c \in pending : \A d \in pending : d <= c
       IN  /\ anchor' = Append(anchor, Record("post", i, commitment))
           /\ Update(p, [proc[p] EXCEPT !.pc = "result", !.intent = i, !.pending = @ \ {commitment}])
    /\ UNCHANGED <<wal, limits, now, sessions, intents, unframed, killed, faults>>

\* DarylAgent.confirm takes the commitment out of the pending ones and records the result
\* in the anchor log, before SessionGraph is asked.  A caller confirms what it holds, or an
\* orphaned intent that no running process is at work on.
PostCommit(p, i) ==
    /\ Called(p)
    /\ i \in proc[p].held \/ i \in Orphans \ InHand
    /\ LET commitment == IF i \in proc[p].pending THEN i ELSE None
       IN  \/ anchor' = Append(anchor, Record("post", i, commitment)) /\ UNCHANGED faults
           \/ AnchorRaised(Record("post", i, commitment))
    /\ Update(p, [proc[p] EXCEPT !.pc = "result", !.intent = i, !.pending = @ \ {i}])
    /\ UNCHANGED <<wal, limits, now, sessions, intents, unframed, killed>>

\* Fault seed: no session is asked for.
ConfirmAction_NoSessionCheck(p) ==
    /\ At(p, "result")
    /\ Stored(EntryOf("result", proc[p].session, proc[p].intent))
    /\ Update(p, [proc[p] EXCEPT !.pc = "load", !.mark = "executed", !.intent = None,
                                 !.held = @ \ {proc[p].intent}])
    /\ UNCHANGED <<anchor, limits, now, counters, unframed, killed>>

\* Fault seed: the action is marked as executed whether or not its result was stored.
ConfirmAction_MarksAlways(p) ==
    /\ At(p, "result")
    /\ LET e == EntryOf("result", proc[p].session, proc[p].intent)
       IN  proc[p].session # None /\ (Stored(e) \/ Raised(e))
    /\ Update(p, [proc[p] EXCEPT !.pc = "load", !.mark = "executed", !.intent = None])
    /\ UNCHANGED <<anchor, limits, now, counters, unframed, killed>>

\* confirm_action appends the result, if a session is open.  When it is not, or the append
\* raises, the caller gets None and may confirm again.
ConfirmAction(p) ==
    /\ At(p, "result")
    /\ LET i == proc[p].intent
           e == EntryOf("result", proc[p].session, i)
           failed == [proc[p] EXCEPT !.pc = "idle", !.intent = None]
       IN  IF proc[p].session = None
           THEN Update(p, failed) /\ UNCHANGED <<wal, faults>>
           ELSE \/ /\ Stored(e)
                   /\ Update(p, [failed EXCEPT !.pc = "load", !.mark = "executed",
                                               !.held = @ \ {i}])
                \/ Raised(e) /\ Update(p, failed)
    /\ UNCHANGED <<anchor, limits, now, counters, unframed, killed>>

----------------------------------------------------------------------------
(* SessionLimitsManager: every mark_ method loads the file, changes it and saves it *)

MarkLoad(p) ==
    /\ At(p, "load")
    /\ Update(p, [proc[p] EXCEPT !.pc = "save", !.copy = limits])
    /\ UNCHANGED <<wal, anchor, limits, now, counters, unframed, killed, faults>>

\* mark_action_executed, mark_home_polled and the two mark_..._skipped.
Marked(state, mark) ==
    IF mark = "executed"
    THEN [state EXCEPT !.last_action = now, !.date = Day(now),
                       !.count = IF state.date = Day(now) THEN @ + 1 ELSE 1]
    ELSE IF mark = "polled" THEN [state EXCEPT !.last_poll = now]
    ELSE state

\* The process as the mark_ method returns.
Saved(p) == [proc[p] EXCEPT !.pc = "idle", !.mark = "none", !.copy = DefaultState]

\* _save_state: a temporary file renamed over the old one.  Updates made since the load
\* are lost.  A failure to save is passed over.
MarkSave(p) ==
    /\ At(p, "save")
    /\ \/ limits' = Marked(proc[p].copy, proc[p].mark) /\ UNCHANGED faults
       \/ faults < MaxFaults /\ faults' = faults + 1 /\ UNCHANGED limits
    /\ Update(p, Saved(p))
    /\ UNCHANGED <<wal, anchor, now, counters, unframed, killed>>

\* The temporary file has one name: when q writes it too, p may rename a file that is empty
\* or holds parts of both, and q, if it was done writing, has nothing left to rename.
SavesCollide(p, q) ==
    /\ p # q /\ At(p, "save") /\ At(q, "save")
    /\ limits' = DefaultState
    /\ proc' \in {[proc EXCEPT ![p] = Saved(p)], [proc EXCEPT ![p] = Saved(p), ![q] = Saved(q)]}
    /\ UNCHANGED <<wal, anchor, now, counters, unframed, killed, faults>>

----------------------------------------------------------------------------
(* The environment *)

\* The process is killed; its successor starts with no session and no commitments.
Crash(p) ==
    /\ faults < MaxFaults
    /\ proc[p] # Fresh
    /\ faults' = faults + 1
    /\ killed' = killed \cup {proc[p].session}
    /\ Update(p, Fresh)
    /\ UNCHANGED <<wal, anchor, limits, now, counters, unframed>>

Tick ==
    /\ now < MaxTime
    /\ now' = now + 1
    /\ UNCHANGED <<wal, anchor, limits, proc, counters, unframed, killed, faults>>

Next ==
    \/ \E p \in Procs :
         \/ AutoClose(p) \/ BeginSession(p) \/ EndSession(p)
         \/ SnapshotCheck(p) \/ SnapshotAppend(p)
         \/ IntendCheck(p) \/ IntendAppend(p) \/ PreCommit(p)
         \/ \E i \in 1 .. intents : PostCommit(p, i)
         \/ ConfirmAction(p) \/ MarkLoad(p) \/ MarkSave(p) \/ Crash(p)
         \/ \E q \in Procs : SavesCollide(p, q)
    \/ Tick

Spec == Init /\ [][Next]_vars

----------------------------------------------------------------------------
(* Readers *)

\* verify_commitment: the last pre_commit and the last post_commit of the intent.
VerifyCommitment(i) ==
    LET of(type) == {k \in DOMAIN anchor : anchor[k].type = type /\ anchor[k].intent = i}
        last(type) == anchor[CHOOSE k \in of(type) : \A j \in of(type) : j <= k]
    IN  IF of("pre") = {} \/ of("post") = {} THEN "INCOMPLETE"
        ELSE IF last("post").at < last("pre").at THEN "SEQUENCE_VIOLATION"
        ELSE IF /\ last("post").commitment # None
                /\ last("post").commitment # last("pre").commitment THEN "HASH_MISMATCH"
        ELSE "VERIFIED"

----------------------------------------------------------------------------
(* Properties *)

Entries == [type : {"start", "end", "snapshot", "intent", "result"},
            session : 1 .. MaxCalls, intent : 0 .. MaxCalls, day : Nat]

Records == [type : {"pre", "post"}, intent : 1 .. MaxCalls, commitment : 0 .. MaxCalls,
            at : Nat]

Limits == [last_action : Nat, count : Nat, date : Nat, last_poll : Nat]

Processes ==
    [session : 0 .. MaxCalls,
     pc : {"idle", "begin", "snapshot", "intent", "pre", "result", "load", "save"},
     intent : 0 .. MaxCalls, mark : {"none", "executed", "polled", "skipped"},
     copy : Limits, held : SUBSET (1 .. MaxCalls), pending : SUBSET (1 .. MaxCalls)]

\* Type correctness of the files and of the processes.
TypeOK ==
    /\ wal \in Seq(Entries) /\ anchor \in Seq(Records)
    /\ limits \in Limits /\ now \in 1 .. MaxTime
    /\ proc \in [Procs -> Processes]
    /\ sessions \in 0 .. MaxCalls /\ intents \in 0 .. MaxCalls
    /\ calls \in 0 .. MaxCalls
    /\ unframed \subseteq 1 .. MaxCalls /\ killed \subseteq 0 .. MaxCalls
    /\ faults \in 0 .. MaxFaults

\* The anchor log accuses no honest agent, whatever is retried, fails or restarts: no
\* commitment is reported as violated, and one reported as VERIFIED has its intent in the
\* sessions shard.
AnchorsHonest ==
    \A i \in 1 .. MaxCalls :
        /\ VerifyCommitment(i) \in {"INCOMPLETE", "VERIFIED"}
        /\ VerifyCommitment(i) = "VERIFIED" =>
             \E k \in DOMAIN wal : wal[k].type = "intent" /\ wal[k].intent = i

\* An intent that find_orphaned_intents reports has no result anywhere in the shard,
\* although it reads only the newest entries.
OrphansAreReal ==
    \A i \in Orphans : \A k \in DOMAIN wal : ~(wal[k].type = "result" /\ wal[k].intent = i)

\* Neither the anchor log nor the search for orphans accuses an agent of what it did not do
\* (anchor.py, session_graph.py).
CommitmentsHonest == AnchorsHonest /\ OrphansAreReal

\* The entries of a session lie between its session_start and its session_end, unless the
\* append of one of the two raised.
EntriesFramed ==
    \A k \in DOMAIN wal : wal[k].session \notin unframed =>
        /\ \E j \in 1 .. k : wal[j].type = "start" /\ wal[j].session = wal[k].session
        /\ \A j \in 1 .. k - 1 : ~(wal[j].type = "end" /\ wal[j].session = wal[k].session)

\* A session without a session_end is the current session of a running process, or its
\* process was killed, or an append of its frame raised.
SessionsClosed ==
    \A k \in DOMAIN wal : wal[k].type = "start" =>
        \/ wal[k].session \in unframed \cup killed
        \/ \E p \in Procs : proc[p].session = wal[k].session
        \/ \E j \in DOMAIN wal : wal[j].type = "end" /\ wal[j].session = wal[k].session

\* Sessions are recorded whole: framed, and closed unless they are still running or broke
\* off in a way that is known (session_graph.py).
SessionsFramed == EntriesFramed /\ SessionsClosed

Results == {k \in DOMAIN wal : wal[k].type = "result"}

\* The budget is charged for actions only: however the updates of the limits file overtake
\* and overwrite each other, it never counts more actions than there are results on disk.
BudgetChargedByResults == limits.count <= Cardinality(Results)

\* No more actions a day than the budget.
DailyBudget ==
    \A d \in 0 .. Day(now) : Cardinality({k \in Results : wal[k].day = d}) <= Budget
=============================================================================
