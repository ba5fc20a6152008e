------------------------ MODULE AgentSessionProofs ------------------------
(* Theorems about AgentSession, for every set of processes and every        *)
(* budget, cooldown, window and bound.                                      *)
EXTENDS AgentSession, OrderLemmas

----------------------------------------------------------------------------
(* The inductive invariant *)

\* The processes that closed a session to begin another.
Beginning == {p \in Procs : proc[p].pc = "begin"}

\* Every id handed out, and every session still to begin, is one of the calls.
CallInv ==
    /\ IsFiniteSet(Beginning)
    /\ sessions + intents + Cardinality(Beginning) <= calls

\* Every id in use was handed out.
IdInv ==
    /\ \A k \in DOMAIN wal : wal[k].session <= sessions /\ wal[k].intent <= intents
    /\ \A k \in DOMAIN anchor : anchor[k].intent <= intents
    /\ \A p \in Procs : proc[p].session <= sessions /\ proc[p].intent <= intents
    /\ \A p \in Procs : \A i \in proc[p].held : i <= intents

\* A process at work in its session has one; one that is about to begin has none.
ControlInv ==
    \A p \in Procs :
        /\ proc[p].pc \in {"snapshot", "intent", "pre"} => proc[p].session # None
        /\ proc[p].pc = "begin" => proc[p].session = None
        /\ proc[p].pc \in {"intent", "pre", "result"} => proc[p].intent # None

\* A process that has not yet given away the id of its intent.
Creating(p) == proc[p].pc \in {"intent", "pre"}

HasIntent(i) == \E k \in DOMAIN wal : wal[k].type = "intent" /\ wal[k].intent = i

\* An intent that is being created is known to its process only: nobody holds it or
\* confirms it, and there is neither a record nor a result of it.
IntentInv ==
    \A p \in Procs : Creating(p) =>
        /\ \A q \in Procs : proc[p].intent \notin proc[q].held
        /\ \A q \in Procs : q # p => proc[q].intent # proc[p].intent
        /\ \A k \in DOMAIN anchor : anchor[k].intent # proc[p].intent
        /\ \A k \in DOMAIN wal : wal[k].type = "result" => wal[k].intent # proc[p].intent
        /\ proc[p].pc = "pre" => HasIntent(proc[p].intent)

\* The anchor log is in the order of time; the commitment of an intent precedes its
\* results, names the intent, and the intent is in the sessions shard.
AnchorInv ==
    /\ \A k \in DOMAIN anchor :
         /\ anchor[k].at <= now
         /\ anchor[k].type = "post" => anchor[k].commitment \in {None, anchor[k].intent}
         /\ anchor[k].type = "pre" => /\ anchor[k].commitment = anchor[k].intent
                                      /\ HasIntent(anchor[k].intent)
    /\ \A j, k \in DOMAIN anchor :
         /\ j <= k => anchor[j].at <= anchor[k].at
         /\ anchor[j].intent = anchor[k].intent /\ anchor[j].type = "pre"
              /\ anchor[k].type = "post" => j < k

\* The results of an intent come after it.
ResultInv ==
    \A j, k \in DOMAIN wal :
        wal[j].type = "intent" /\ wal[k].type = "result" /\ wal[j].intent = wal[k].intent
        => j < k

\* A session belongs to one process; its start is on disk and its end is not.
FrameInv ==
    /\ \A p, q \in Procs :
         proc[p].session # None /\ proc[p].session = proc[q].session => p = q
    /\ \A p \in Procs : proc[p].session \notin unframed \cup {None} =>
         /\ \E k \in DOMAIN wal : wal[k].type = "start" /\ wal[k].session = proc[p].session
         /\ \A k \in DOMAIN wal : ~(wal[k].type = "end" /\ wal[k].session = proc[p].session)

\* The processes whose result is on disk and not yet in the limits file.
Charging == {p \in Procs : proc[p].mark = "executed"}

\* The limits file, and every copy of it that may be saved, leaves room for the results
\* that are still to be charged.
BudgetInv ==
    /\ IsFiniteSet(Charging)
    /\ limits.count + Cardinality(Charging) <= Cardinality(Results)
    /\ \A p \in Procs : proc[p].copy.count + Cardinality(Charging) <= Cardinality(Results)

SessionInv ==
    /\ TypeOK /\ CallInv /\ IdInv /\ ControlInv /\ IntentInv /\ AnchorInv /\ ResultInv
    /\ FrameInv /\ SessionsFramed /\ BudgetInv

----------------------------------------------------------------------------
(* Files and processes *)

\* A day number is a natural number.
LEMMA DayType ==
    ASSUME NEW t \in Nat
    PROVE  Day(t) \in Nat
BY SessionAssumption DEF Day

\* A file grows at its end or not at all.
LEMMA Grows ==
    ASSUME NEW S, NEW s \in Seq(S), NEW e \in S, NEW t, t \in {s, Append(s, e)}
    PROVE  /\ t \in Seq(S) /\ Len(s) \in Nat /\ DOMAIN s = 1 .. Len(s)
           /\ \A k \in DOMAIN s : k \in DOMAIN t /\ t[k] = s[k]
           /\ \A k \in DOMAIN t : k \in DOMAIN s \/ (k = Len(s) + 1 /\ t[k] = e)
           /\ t = Append(s, e) => Len(s) + 1 \in DOMAIN t /\ t[Len(s) + 1] = e
<1>1. CASE t = s
  <2>1. Append(s, e) # s
    <3>1. Len(Append(s, e)) = Len(s) + 1 /\ Len(s) \in Nat
      OBVIOUS
    <3>2. QED
      BY <3>1
  <2>2. QED
    BY <1>1, <2>1
<1>2. CASE t = Append(s, e)
  <2>1. t \in Seq(S) /\ Len(s) \in Nat /\ DOMAIN s = 1 .. Len(s)
    BY <1>2
  <2>2. DOMAIN t = 1 .. Len(s) + 1 /\ t[Len(s) + 1] = e
    BY <1>2
  <2>3. \A k \in 1 .. Len(s) : t[k] = s[k]
    BY <1>2
  <2>4. \A k \in 1 .. Len(s) + 1 : k \in 1 .. Len(s) \/ k = Len(s) + 1
    BY <2>1
  <2>5. \A k \in 1 .. Len(s) : k \in 1 .. Len(s) + 1
    BY <2>1
  <2>6. Len(s) + 1 \in 1 .. Len(s) + 1
    BY <2>1
  <2>7. QED
    BY <2>1, <2>2, <2>3, <2>4, <2>5, <2>6, Zenon
<1>3. QED
  BY <1>1, <1>2

\* An entry of an open session.
LEMMA EntryType ==
    ASSUME TypeOK, NEW type \in {"start", "end", "snapshot", "intent", "result"},
           NEW s \in 1 .. MaxCalls, NEW i \in 0 .. MaxCalls
    PROVE  /\ EntryOf(type, s, i) \in Entries /\ EntryOf(type, s, i).type = type
           /\ EntryOf(type, s, i).session = s /\ EntryOf(type, s, i).intent = i
<1>1. Day(now) \in Nat
  BY DayType, SessionAssumption, SMTT(30) DEF TypeOK
<1>2. QED
  BY <1>1 DEF EntryOf, Entries

\* A record of the anchor log.
LEMMA RecordType ==
    ASSUME TypeOK, NEW type \in {"pre", "post"}, NEW i \in 1 .. MaxCalls,
           NEW c \in 0 .. MaxCalls
    PROVE  /\ Record(type, i, c) \in Records /\ Record(type, i, c).type = type
           /\ Record(type, i, c).intent = i /\ Record(type, i, c).commitment = c
           /\ Record(type, i, c).at = now
<1>1. now \in Nat
  BY SessionAssumption DEF TypeOK
<1>2. QED
  BY <1>1 DEF Record, Records

\* A step of one process.
LEMMA Updated ==
    ASSUME TypeOK, NEW p \in Procs, NEW r \in Processes, Update(p, r)
    PROVE  /\ proc' \in [Procs -> Processes] /\ proc'[p] = r
           /\ \A q \in Procs : q # p => proc'[q] = proc[q]
BY DEF Update, TypeOK

\* What an update of the limits file makes of it.
LEMMA MarkedType ==
    ASSUME TypeOK, NEW state \in Limits, NEW mark
    PROVE  /\ Marked(state, mark) \in Limits
           /\ mark # "executed" => Marked(state, mark).count = state.count
           /\ Marked(state, mark).count <= state.count + 1
           /\ state.count \in Nat
<1>1. now \in Nat /\ Day(now) \in Nat
  BY DayType, SessionAssumption, SMTT(30) DEF TypeOK
<1>2. CASE mark = "executed"
  <2> DEFINE n == IF state.date = Day(now) THEN state.count + 1 ELSE 1
  <2>1. Marked(state, mark) = [state EXCEPT !.last_action = now, !.date = Day(now), !.count = n]
    BY <1>2 DEF Marked, Limits
  <2>2. n \in Nat /\ n <= state.count + 1 /\ state.count \in Nat
    BY DEF Limits
  <2> HIDE DEF n
  <2>3. QED
    BY <1>1, <1>2, <2>1, <2>2 DEF Limits
<1>3. CASE mark = "polled"
  BY <1>1, <1>3 DEF Marked, Limits
<1>4. CASE mark # "executed" /\ mark # "polled"
  BY <1>4 DEF Marked, Limits
<1>5. QED
  BY <1>2, <1>3, <1>4

----------------------------------------------------------------------------
(* The steps, by what they do to sessions and intents *)

\* The entries a process may append inside its session.
WorkEntry(p, e) ==
    /\ e.session = proc[p].session
    /\ \/ e.type = "snapshot" /\ e.intent = None
       \/ e.type = "intent" /\ proc[p].pc = "intent" /\ e.intent = proc[p].intent
       \/ e.type = "result" /\ proc[p].pc = "result" /\ e.intent = proc[p].intent

\* A process goes on in the call it is in, or ends it.
WorkMove(q) ==
    /\ proc'[q].session = proc[q].session
    /\ proc'[q].held \subseteq proc[q].held
    /\ proc'[q].intent \in {proc[q].intent, None}
    /\ \/ proc'[q].pc = proc[q].pc /\ proc'[q].intent = proc[q].intent
       \/ proc'[q].pc \in {"idle", "load", "save"}
       \/ proc'[q].pc = "snapshot" /\ proc[q].session # None
       \/ /\ proc[q].pc = "intent" /\ proc'[q].pc = "pre"
          /\ proc'[q].intent = proc[q].intent
          /\ HasIntent(proc[q].intent)'

\* A step inside a call: no session begins or ends, and no id is handed out.
Works ==
    /\ proc' \in [Procs -> Processes]
    /\ \A q \in Procs : WorkMove(q)
    /\ \/ wal' = wal
       \/ \E p \in Procs, e \in Entries : WorkEntry(p, e) /\ wal' = Append(wal, e)
    /\ UNCHANGED <<anchor, now, sessions, intents, unframed, killed>>
    /\ calls' \in {calls, calls + 1} /\ calls' \in 0 .. MaxCalls
    /\ limits' \in Limits /\ faults' \in 0 .. MaxFaults

\* A session ends, or the append of its end raises.
Closes(p) ==
    /\ proc[p].session # None /\ proc[p].pc = "idle" /\ calls < MaxCalls /\ calls' = calls + 1
    /\ proc' \in [Procs -> Processes] /\ \A q \in Procs : q # p => proc'[q] = proc[q]
    /\ proc'[p].held = proc[p].held /\ proc'[p].intent = proc[p].intent
    /\ proc'[p].mark = proc[p].mark /\ proc'[p].copy = proc[p].copy
    /\ proc'[p].pc \in {"idle", "begin"} /\ proc'[p].session \in {proc[p].session, None}
    /\ proc'[p].pc = "begin" => proc'[p].session = None
    /\ \E e \in Entries :
         /\ e.type = "end" /\ e.session = proc[p].session /\ e.intent = None
         /\ \/ wal' = Append(wal, e) /\ unframed' = unframed /\ proc'[p].session = None
            \/ /\ wal' \in {wal, Append(wal, e)}
               /\ unframed' = unframed \cup {proc[p].session}
    /\ UNCHANGED <<anchor, limits, now, sessions, intents, killed>>
    /\ faults' \in 0 .. MaxFaults

\* SessionGraph.start_session with a session open, and end_session.
LEMMA ClosesStep ==
    ASSUME TypeOK, NEW p \in Procs, AutoClose(p) \/ EndSession(p)
    PROVE  Closes(p)
<1> USE SessionAssumption
<1> DEFINE e == EntryOf("end", proc[p].session, None)
           a == [proc[p] EXCEPT !.session = None, !.pc = "begin"]
           b == [proc[p] EXCEPT !.session = None]
<1>1. /\ proc[p] \in Processes /\ proc[p].session # None /\ proc[p].pc = "idle"
      /\ calls < MaxCalls /\ calls' = calls + 1 /\ proc \in [Procs -> Processes]
  BY DEF TypeOK, AutoClose, EndSession, Called, At
<1>2. e \in Entries /\ e.type = "end" /\ e.session = proc[p].session /\ e.intent = None
  <2>1. proc[p].session \in 1 .. MaxCalls /\ None \in 0 .. MaxCalls
    BY <1>1 DEF Processes, None
  <2>2. QED
    BY <2>1, EntryType
<1>3. /\ a \in Processes /\ a.session = None /\ a.pc = "begin" /\ a.held = proc[p].held
      /\ a.intent = proc[p].intent /\ a.mark = proc[p].mark /\ a.copy = proc[p].copy
      /\ b \in Processes /\ b.session = None /\ b.pc = "idle" /\ b.held = proc[p].held
      /\ b.intent = proc[p].intent /\ b.mark = proc[p].mark /\ b.copy = proc[p].copy
  <2>1. None \in 0 .. MaxCalls
    BY DEF None
  <2>2. a \in Processes /\ b \in Processes
    BY <1>1, <2>1 DEF Processes
  <2>3. /\ a.session = None /\ a.pc = "begin" /\ a.held = proc[p].held
        /\ a.intent = proc[p].intent /\ a.mark = proc[p].mark /\ a.copy = proc[p].copy
    BY <1>1 DEF Processes
  <2>4. /\ b.session = None /\ b.pc = proc[p].pc /\ b.held = proc[p].held
        /\ b.intent = proc[p].intent /\ b.mark = proc[p].mark /\ b.copy = proc[p].copy
    BY <1>1 DEF Processes
  <2>5. QED
    BY <1>1, <2>2, <2>3, <2>4
<1>4. UNCHANGED <<anchor, limits, now, sessions, intents, killed>>
  BY DEF AutoClose, EndSession
<1>5. faults \in 0 .. MaxFaults
  BY DEF TypeOK
<1>6. CASE AutoClose(p)
  <2>1. /\ Update(p, a)
        /\ \/ Stored(e) /\ unframed' = unframed
           \/ Raised(e) /\ unframed' = unframed \cup {proc[p].session}
    BY <1>6 DEF AutoClose
  <2> HIDE DEF a, e
  <2>2. /\ proc' \in [Procs -> Processes] /\ proc'[p] = a
        /\ \A q \in Procs : q # p => proc'[q] = proc[q]
    BY <1>3, <2>1, Updated
  <2>3. faults' \in 0 .. MaxFaults
    BY <1>5, <2>1 DEF Stored, Raised
  <2>4. \/ wal' = Append(wal, e) /\ unframed' = unframed
        \/ /\ wal' \in {wal, Append(wal, e)}
           /\ unframed' = unframed \cup {proc[p].session}
    BY <2>1 DEF Stored, Raised
  <2>5. proc'[p].session = None
    BY <1>3, <2>2
  <2>6. QED
    BY <1>1, <1>2, <1>3, <1>4, <2>2, <2>3, <2>4, <2>5 DEF Closes
<1>7. CASE EndSession(p)
  <2>1. \/ Stored(e) /\ Update(p, b) /\ unframed' = unframed
        \/ Raised(e) /\ unframed' = unframed \cup {proc[p].session} /\ proc' = proc
    BY <1>7 DEF EndSession
  <2> HIDE DEF b, e
  <2>2. faults' \in 0 .. MaxFaults
    BY <1>5, <2>1 DEF Stored, Raised
  <2>3. CASE Stored(e) /\ Update(p, b) /\ unframed' = unframed
    <3>1. /\ proc' \in [Procs -> Processes] /\ proc'[p] = b
          /\ \A q \in Procs : q # p => proc'[q] = proc[q]
      BY <1>3, <2>3, Updated
    <3>2. wal' = Append(wal, e)
      BY <2>3 DEF Stored
    <3>3. QED
      BY <1>1, <1>2, <1>3, <1>4, <2>2, <2>3, <3>1, <3>2 DEF Closes
  <2>4. CASE Raised(e) /\ unframed' = unframed \cup {proc[p].session} /\ proc' = proc
    <3>1. wal' \in {wal, Append(wal, e)}
      BY <2>4 DEF Raised
    <3>2. QED
      BY <1>1, <1>2, <1>4, <2>2, <2>4, <3>1 DEF Closes
  <2>5. QED
    BY <2>1, <2>3, <2>4
<1>8. QED
  BY <1>6, <1>7

\* One process moves inside its call and the others stay.
LEMMA OneWorks ==
    ASSUME TypeOK, NEW p \in Procs, NEW r \in Processes, Update(p, r),
           r.session = proc[p].session, r.held \subseteq proc[p].held,
           r.intent \in {proc[p].intent, None},
           \/ r.pc \in {"idle", "load", "save"}
           \/ r.pc = "snapshot" /\ proc[p].session # None
           \/ /\ proc[p].pc = "intent" /\ r.pc = "pre" /\ r.intent = proc[p].intent
              /\ HasIntent(proc[p].intent)'
    PROVE  proc' \in [Procs -> Processes] /\ \A q \in Procs : WorkMove(q)
<1>1. /\ proc' \in [Procs -> Processes] /\ proc'[p] = r
      /\ \A q \in Procs : q # p => proc'[q] = proc[q]
  BY Updated
<1>2. WorkMove(p)
  BY <1>1 DEF WorkMove
<1>3. \A q \in Procs : q # p => WorkMove(q)
  BY <1>1 DEF WorkMove
<1>4. QED
  BY <1>1, <1>2, <1>3

\* record_snapshot, can_poll_home and a refused execute_action.
LEMMA SnapshotWorks ==
    ASSUME TypeOK, ControlInv, NEW p \in Procs,
           \/ SnapshotCheck(p) \/ SnapshotAppend(p)
           \/ IntendCheck(p) /\ ~CanExecute
    PROVE  Works
<1> USE SessionAssumption
<1> DEFINE e == EntryOf("snapshot", proc[p].session, None)
           a == [proc[p] EXCEPT !.pc = "snapshot"]
           b == [proc[p] EXCEPT !.pc = "load", !.mark = "skipped"]
           c == [proc[p] EXCEPT !.pc = "load", !.mark = "polled"]
           d == [proc[p] EXCEPT !.pc = "idle"]
           Keeps(r) == r.session = proc[p].session /\ r.held = proc[p].held
                       /\ r.intent = proc[p].intent
<1>1. proc[p] \in Processes /\ faults \in 0 .. MaxFaults /\ limits \in Limits
      /\ calls \in 0 .. MaxCalls
  BY DEF TypeOK
<1>2. /\ a \in Processes /\ Keeps(a) /\ a.pc = "snapshot"
      /\ b \in Processes /\ Keeps(b) /\ b.pc = "load"
      /\ c \in Processes /\ Keeps(c) /\ c.pc = "load"
      /\ d \in Processes /\ Keeps(d) /\ d.pc = "idle"
  BY <1>1 DEF Processes
<1>3. /\ UNCHANGED <<anchor, now, sessions, intents, unframed, killed>>
      /\ UNCHANGED limits
      /\ calls' \in {calls, calls + 1} /\ calls' \in 0 .. MaxCalls
  BY <1>1 DEF SnapshotCheck, SnapshotAppend, IntendCheck, Called, counters
<1>4. CASE SnapshotCheck(p) \/ (IntendCheck(p) /\ ~CanExecute)
  <2>1. /\ Update(p, a) \/ Update(p, b)
        /\ wal' = wal /\ faults' = faults
    BY <1>4 DEF SnapshotCheck, IntendCheck
  <2>2. proc[p].session # None
    BY <1>4 DEF SnapshotCheck, IntendCheck
  <2> HIDE DEF a, b
  <2>3. proc' \in [Procs -> Processes] /\ \A q \in Procs : WorkMove(q)
    BY <1>2, <2>1, <2>2, OneWorks
  <2>4. QED
    BY <1>1, <1>3, <2>1, <2>3 DEF Works
<1>5. CASE SnapshotAppend(p)
  <2>1. /\ proc[p].pc = "snapshot"
        /\ (Stored(e) /\ Update(p, c)) \/ (Raised(e) /\ Update(p, d))
    BY <1>5 DEF SnapshotAppend, At
  <2>2. proc[p].session \in 1 .. MaxCalls /\ None \in 0 .. MaxCalls
    BY <1>1, <2>1 DEF ControlInv, Processes, None
  <2>3. /\ e \in Entries /\ e.type = "snapshot" /\ e.session = proc[p].session
        /\ e.intent = None
    BY <2>2, EntryType
  <2> HIDE DEF c, d, e
  <2>4. proc' \in [Procs -> Processes] /\ \A q \in Procs : WorkMove(q)
    BY <1>2, <2>1, OneWorks
  <2>5. wal' \in {wal, Append(wal, e)} /\ faults' \in 0 .. MaxFaults
    BY <1>1, <2>1 DEF Stored, Raised
  <2>6. WorkEntry(p, e)
    BY <2>3 DEF WorkEntry
  <2>7. wal' = wal \/ \E q \in Procs, x \in Entries : WorkEntry(q, x) /\ wal' = Append(wal, x)
    BY <2>3, <2>5, <2>6
  <2>8. QED
    BY <1>1, <1>3, <2>4, <2>5, <2>7 DEF Works
<1>6. QED
  BY <1>4, <1>5

\* execute_action appends the intent.
LEMMA IntendWorks ==
    ASSUME TypeOK, ControlInv, NEW p \in Procs, IntendAppend(p)
    PROVE  Works
<1> USE SessionAssumption
<1> DEFINE e == EntryOf("intent", proc[p].session, proc[p].intent)
           a == [proc[p] EXCEPT !.pc = "pre"]
           b == [proc[p] EXCEPT !.pc = "idle", !.intent = None]
<1>1. /\ proc[p] \in Processes /\ faults \in 0 .. MaxFaults /\ limits \in Limits
      /\ calls \in 0 .. MaxCalls /\ wal \in Seq(Entries)
  BY DEF TypeOK
<1>2. /\ proc[p].pc = "intent"
      /\ (Stored(e) /\ Update(p, a)) \/ (Raised(e) /\ Update(p, b))
      /\ UNCHANGED <<anchor, now, sessions, intents, unframed, killed, calls, limits>>
  BY DEF IntendAppend, At, counters
<1>3. proc[p].session \in 1 .. MaxCalls /\ proc[p].intent \in 1 .. MaxCalls
  BY <1>1, <1>2, SMTT(30) DEF ControlInv, Processes, None
<1>4. /\ e \in Entries /\ e.type = "intent" /\ e.session = proc[p].session
      /\ e.intent = proc[p].intent
  <2>1. proc[p].intent \in 0 .. MaxCalls
    BY <1>1 DEF Processes
  <2>2. QED
    BY <1>3, <2>1, EntryType, SMTT(30)
<1>5. /\ a \in Processes /\ a.session = proc[p].session /\ a.held = proc[p].held
      /\ a.intent = proc[p].intent /\ a.pc = "pre"
  BY <1>1 DEF Processes
<1>6. /\ b \in Processes /\ b.session = proc[p].session /\ b.held = proc[p].held
      /\ b.intent = None /\ b.pc = "idle"
  <2>1. None \in 0 .. MaxCalls
    BY DEF None
  <2>2. QED
    BY <1>1, <2>1 DEF Processes
<1>7. wal' \in {wal, Append(wal, e)} /\ faults' \in 0 .. MaxFaults
  BY <1>1, <1>2, SMTT(30) DEF Stored, Raised
<1> HIDE DEF a, b, e
<1>8. WorkEntry(p, e)
  BY <1>2, <1>4 DEF WorkEntry
<1>9. proc' \in [Procs -> Processes] /\ \A q \in Procs : WorkMove(q)
  <2>1. CASE Stored(e) /\ Update(p, a)
    <3>1. Len(wal) + 1 \in DOMAIN wal' /\ wal'[Len(wal) + 1] = e
      <4>1. wal' = Append(wal, e)
        BY <2>1 DEF Stored
      <4>2. QED
        BY <1>1, <1>4, <1>7, <4>1, Grows
    <3>2. HasIntent(proc[p].intent)'
      <4>1. wal'[Len(wal) + 1].type = "intent" /\ wal'[Len(wal) + 1].intent = proc[p].intent
        BY <1>4, <3>1
      <4>2. proc'[p].intent = proc[p].intent
        BY <1>5, <2>1, Updated
      <4>3. QED
        BY <3>1, <4>1, <4>2 DEF HasIntent
    <3>3. QED
      BY <1>2, <1>5, <2>1, <3>2, OneWorks
  <2>2. CASE Raised(e) /\ Update(p, b)
    BY <1>6, <2>2, OneWorks
  <2>3. QED
    BY <1>2, <2>1, <2>2
<1>10. wal' = wal \/ \E q \in Procs, x \in Entries : WorkEntry(q, x) /\ wal' = Append(wal, x)
  BY <1>4, <1>7, <1>8
<1>11. QED
  BY <1>1, <1>2, <1>7, <1>9, <1>10 DEF Works

\* confirm_action.
LEMMA ConfirmWorks ==
    ASSUME TypeOK, ControlInv, NEW p \in Procs, ConfirmAction(p)
    PROVE  Works
<1> USE SessionAssumption
<1> DEFINE i == proc[p].intent
           e == EntryOf("result", proc[p].session, i)
           a == [proc[p] EXCEPT !.pc = "idle", !.intent = None]
           b == [a EXCEPT !.pc = "load", !.mark = "executed", !.held = @ \ {i}]
<1>1. /\ proc[p] \in Processes /\ faults \in 0 .. MaxFaults /\ limits \in Limits
      /\ calls \in 0 .. MaxCalls /\ wal \in Seq(Entries)
  BY DEF TypeOK
<1>2. /\ proc[p].pc = "result"
      /\ \/ proc[p].session = None /\ Update(p, a) /\ wal' = wal /\ faults' = faults
         \/ proc[p].session # None /\ Stored(e) /\ Update(p, b)
         \/ proc[p].session # None /\ Raised(e) /\ Update(p, a)
      /\ UNCHANGED <<anchor, now, sessions, intents, unframed, killed, calls, limits>>
  BY DEF ConfirmAction, At, counters
<1>3. /\ a \in Processes /\ a.session = proc[p].session /\ a.held = proc[p].held
      /\ a.intent = None /\ a.pc = "idle"
  <2>1. None \in 0 .. MaxCalls
    BY DEF None
  <2>2. QED
    BY <1>1, <2>1 DEF Processes
<1>4. /\ b \in Processes /\ b.session = proc[p].session /\ b.held \subseteq proc[p].held
      /\ b.intent = None /\ b.pc = "load"
  <2> HIDE DEF a, i
  <2>1. b \in Processes /\ b.session = a.session /\ b.held = a.held \ {i}
        /\ b.intent = a.intent /\ b.pc = "load"
    BY <1>3 DEF Processes
  <2>2. QED
    BY <1>3, <2>1
<1>5. proc[p].session # None => e \in Entries /\ WorkEntry(p, e)
  <2>1. ASSUME proc[p].session # None PROVE e \in Entries /\ WorkEntry(p, e)
    <3>1. proc[p].session \in 1 .. MaxCalls /\ i \in 0 .. MaxCalls
      BY <1>1, <2>1 DEF Processes, None
    <3>2. e \in Entries /\ e.type = "result" /\ e.session = proc[p].session /\ e.intent = i
      BY <3>1, EntryType
    <3> HIDE DEF e
    <3>3. QED
      BY <1>2, <3>2 DEF WorkEntry
  <2>2. QED
    BY <2>1
<1> HIDE DEF a, b, e
<1>6. proc' \in [Procs -> Processes] /\ \A q \in Procs : WorkMove(q)
  BY <1>2, <1>3, <1>4, OneWorks
<1>7. wal' = wal \/ \E q \in Procs, x \in Entries : WorkEntry(q, x) /\ wal' = Append(wal, x)
  BY <1>2, <1>5 DEF Stored, Raised
<1>8. faults' \in 0 .. MaxFaults
  BY <1>1, <1>2 DEF Stored, Raised
<1>9. QED
  BY <1>1, <1>2, <1>6, <1>7, <1>8 DEF Works

\* The mark_ methods of SessionLimitsManager.
LEMMA MarkWorks ==
    ASSUME TypeOK, ControlInv, NEW p \in Procs,
           MarkLoad(p) \/ MarkSave(p) \/ \E q \in Procs : SavesCollide(p, q)
    PROVE  Works
<1> USE SessionAssumption
<1> DEFINE a == [proc[p] EXCEPT !.pc = "save", !.copy = limits]
<1>1. /\ \A q \in Procs : proc[q] \in Processes
      /\ faults \in 0 .. MaxFaults /\ limits \in Limits /\ calls \in 0 .. MaxCalls
      /\ proc \in [Procs -> Processes]
  BY DEF TypeOK
<1>2. DefaultState \in Limits
  BY DEF DefaultState, Limits
<1>3. /\ a \in Processes /\ a.session = proc[p].session /\ a.held = proc[p].held
      /\ a.intent = proc[p].intent /\ a.pc = "save"
  BY <1>1 DEF Processes
<1>4. ASSUME NEW q \in Procs
      PROVE  /\ Saved(q) \in Processes /\ Saved(q).session = proc[q].session
             /\ Saved(q).held = proc[q].held /\ Saved(q).intent = proc[q].intent
             /\ Saved(q).pc = "idle"
  <2>1. proc[q] \in Processes
    BY <1>1, <1>4
  <2>2. QED
    BY <1>2, <2>1 DEF Processes, Saved
<1>5. UNCHANGED <<wal, anchor, now, sessions, intents, unframed, killed, calls>>
  BY DEF MarkLoad, MarkSave, SavesCollide, counters
<1>6. CASE MarkLoad(p)
  <2>1. Update(p, a) /\ UNCHANGED <<limits, faults>>
    BY <1>6 DEF MarkLoad
  <2> HIDE DEF a
  <2>2. proc' \in [Procs -> Processes] /\ \A q \in Procs : WorkMove(q)
    BY <1>3, <2>1, OneWorks
  <2>3. QED
    BY <1>1, <1>5, <2>1, <2>2 DEF Works
<1>7. CASE MarkSave(p)
  <2>1. Update(p, Saved(p))
    BY <1>7 DEF MarkSave
  <2>2. proc' \in [Procs -> Processes] /\ \A q \in Procs : WorkMove(q)
    BY <1>4, <2>1, OneWorks
  <2>3. proc[p].copy \in Limits
    BY <1>1 DEF Processes
  <2>4. Marked(proc[p].copy, proc[p].mark) \in Limits
    BY <2>3, MarkedType
  <2>5. limits' \in Limits /\ faults' \in 0 .. MaxFaults
    BY <1>1, <1>7, <2>4 DEF MarkSave
  <2>6. QED
    BY <1>1, <1>5, <2>2, <2>5 DEF Works
<1>8. ASSUME NEW q \in Procs, SavesCollide(p, q) PROVE Works
  <2>1. /\ limits' \in Limits /\ faults' = faults
        /\ proc' \in {[proc EXCEPT ![p] = Saved(p)],
                      [proc EXCEPT ![p] = Saved(p), ![q] = Saved(q)]}
    BY <1>2, <1>8 DEF SavesCollide
  <2>2. /\ proc' \in [Procs -> Processes]
        /\ \A x \in Procs : proc'[x] = proc[x] \/ proc'[x] = Saved(x)
    BY <1>1, <1>4, <1>8, <2>1
  <2>3. \A x \in Procs : WorkMove(x)
    BY <1>4, <2>2 DEF WorkMove
  <2>4. QED
    BY <1>1, <1>5, <2>1, <2>2, <2>3 DEF Works
<1>9. QED
  BY <1>6, <1>7, <1>8

\* start_session hands out an id and appends its start.
Begins(p) ==
    /\ proc[p].session = None /\ proc[p].pc \in {"begin", "idle"}
    /\ \/ proc[p].pc = "begin" /\ calls' = calls
       \/ proc[p].pc = "idle" /\ calls < MaxCalls /\ calls' = calls + 1
    /\ sessions' = sessions + 1 /\ sessions + 1 \in 1 .. MaxCalls
    /\ proc' \in [Procs -> Processes] /\ \A q \in Procs : q # p => proc'[q] = proc[q]
    /\ proc'[p].session = sessions + 1 /\ proc'[p].pc = "idle"
    /\ proc'[p].held = proc[p].held /\ proc'[p].intent = proc[p].intent
    /\ proc'[p].mark = proc[p].mark /\ proc'[p].copy = proc[p].copy
    /\ \E e \in Entries :
         /\ e.type = "start" /\ e.session = sessions + 1 /\ e.intent = None
         /\ \/ wal' = Append(wal, e) /\ unframed' = unframed
            \/ wal' \in {wal, Append(wal, e)} /\ unframed' = unframed \cup {sessions + 1}
    /\ UNCHANGED <<anchor, limits, now, intents, killed>>
    /\ faults' \in 0 .. MaxFaults

\* execute_action hands out the id of an intent.
Grants(p) ==
    /\ proc[p].session # None /\ proc[p].pc = "idle" /\ calls < MaxCalls /\ calls' = calls + 1
    /\ intents' = intents + 1 /\ intents + 1 \in 1 .. MaxCalls
    /\ proc' \in [Procs -> Processes] /\ \A q \in Procs : q # p => proc'[q] = proc[q]
    /\ proc'[p].session = proc[p].session /\ proc'[p].pc = "intent"
    /\ proc'[p].held = proc[p].held /\ proc'[p].intent = intents + 1
    /\ proc'[p].mark = proc[p].mark /\ proc'[p].copy = proc[p].copy
    /\ UNCHANGED <<wal, anchor, limits, now, sessions, unframed, killed, faults>>

\* What the anchor log is given for an intent i.
Anchors(type, i, commitment) ==
    \E r \in Records :
        /\ r.type = type /\ r.intent = i /\ r.commitment = commitment /\ r.at = now
        /\ anchor' \in {anchor, Append(anchor, r)}

\* pre_commit, and intend returns the id.
Commits(p) ==
    /\ proc[p].pc = "pre"
    /\ proc' \in [Procs -> Processes] /\ \A q \in Procs : q # p => proc'[q] = proc[q]
    /\ proc'[p].session = proc[p].session /\ proc'[p].pc = "idle"
    /\ proc'[p].held = proc[p].held \cup {proc[p].intent} /\ proc'[p].intent = None
    /\ proc'[p].mark = proc[p].mark /\ proc'[p].copy = proc[p].copy
    /\ Anchors("pre", proc[p].intent, proc[p].intent)
    /\ UNCHANGED <<wal, limits, now, counters, unframed, killed>>
    /\ faults' \in 0 .. MaxFaults

\* post_commit of an intent.
Confirms(p, i) ==
    /\ proc[p].pc = "idle" /\ calls < MaxCalls /\ calls' = calls + 1
    /\ i \in proc[p].held \/ i \in Orphans \ InHand
    /\ proc' \in [Procs -> Processes] /\ \A q \in Procs : q # p => proc'[q] = proc[q]
    /\ proc'[p].session = proc[p].session /\ proc'[p].pc = "result"
    /\ proc'[p].held = proc[p].held /\ proc'[p].intent = i
    /\ proc'[p].mark = proc[p].mark /\ proc'[p].copy = proc[p].copy
    /\ \E c \in {i, None} : Anchors("post", i, c)
    /\ UNCHANGED <<wal, limits, now, sessions, intents, unframed, killed>>
    /\ faults' \in 0 .. MaxFaults

\* The process is killed.
Dies(p) ==
    /\ proc' \in [Procs -> Processes] /\ \A q \in Procs : q # p => proc'[q] = proc[q]
    /\ proc'[p] = Fresh
    /\ killed' = killed \cup {proc[p].session}
    /\ UNCHANGED <<wal, anchor, limits, now, counters, unframed>>
    /\ faults' \in 0 .. MaxFaults

\* There is an id left for every call.
LEMMA IdLeft ==
    ASSUME TypeOK, CallInv
    PROVE  /\ calls < MaxCalls => sessions + 1 \in 1 .. MaxCalls /\ intents + 1 \in 1 .. MaxCalls
           /\ \A p \in Procs : proc[p].pc = "begin" => sessions + 1 \in 1 .. MaxCalls
<1> USE SessionAssumption
<1>1. /\ sessions \in Nat /\ intents \in Nat /\ calls \in Nat /\ calls <= MaxCalls
      /\ Cardinality(Beginning) \in Nat
      /\ sessions + intents + Cardinality(Beginning) <= calls
  BY FS_CardinalityType DEF TypeOK, CallInv
<1>2. ASSUME NEW p \in Procs, proc[p].pc = "begin"
      PROVE  sessions + 1 \in 1 .. MaxCalls
  <2>1. p \in Beginning
    BY <1>2 DEF Beginning
  <2>2. Cardinality(Beginning) # 0
    BY <2>1, FS_EmptySet DEF CallInv
  <2>3. QED
    BY <1>1, <2>2
<1>3. QED
  BY <1>1, <1>2

\* start_session without a session open.
LEMMA BeginsStep ==
    ASSUME TypeOK, CallInv, ControlInv, NEW p \in Procs, BeginSession(p)
    PROVE  Begins(p)
<1> USE SessionAssumption
<1> DEFINE e == EntryOf("start", sessions + 1, None)
           a == [proc[p] EXCEPT !.session = sessions + 1, !.pc = "idle"]
<1>1. proc[p] \in Processes /\ faults \in 0 .. MaxFaults
  BY DEF TypeOK
<1>2. /\ \/ proc[p].pc = "begin" /\ calls' = calls
         \/ proc[p].pc = "idle" /\ calls < MaxCalls /\ calls' = calls + 1
      /\ proc[p].session = None /\ sessions' = sessions + 1 /\ Update(p, a)
      /\ \/ Stored(e) /\ unframed' = unframed
         \/ Raised(e) /\ unframed' = unframed \cup {sessions + 1}
      /\ UNCHANGED <<anchor, limits, now, intents, killed>>
  BY DEF BeginSession, At, Called, ControlInv
<1>3. sessions + 1 \in 1 .. MaxCalls /\ sessions + 1 \in 0 .. MaxCalls
      /\ None \in 0 .. MaxCalls
  <2>1. sessions + 1 \in 1 .. MaxCalls
    BY <1>2, IdLeft
  <2>2. QED
    BY <2>1 DEF None
<1>4. e \in Entries /\ e.type = "start" /\ e.session = sessions + 1 /\ e.intent = None
  BY <1>3, EntryType
<1>5. /\ a \in Processes /\ a.session = sessions + 1 /\ a.pc = "idle"
      /\ a.held = proc[p].held /\ a.intent = proc[p].intent
      /\ a.mark = proc[p].mark /\ a.copy = proc[p].copy
  BY <1>1, <1>3 DEF Processes
<1> HIDE DEF a, e
<1>6. /\ proc' \in [Procs -> Processes] /\ proc'[p] = a
      /\ \A q \in Procs : q # p => proc'[q] = proc[q]
  BY <1>2, <1>5, Updated
<1>7. /\ \/ wal' = Append(wal, e) /\ unframed' = unframed
         \/ wal' \in {wal, Append(wal, e)} /\ unframed' = unframed \cup {sessions + 1}
      /\ faults' \in 0 .. MaxFaults
  BY <1>1, <1>2 DEF Stored, Raised
<1>8. \E x \in Entries :
        /\ x.type = "start" /\ x.session = sessions + 1 /\ x.intent = None
        /\ \/ wal' = Append(wal, x) /\ unframed' = unframed
           \/ wal' \in {wal, Append(wal, x)} /\ unframed' = unframed \cup {sessions + 1}
  BY <1>4, <1>7
<1>9. QED
  BY <1>2, <1>3, <1>5, <1>6, <1>7, <1>8 DEF Begins

\* execute_action, when the limits allow it.
LEMMA GrantsStep ==
    ASSUME TypeOK, CallInv, NEW p \in Procs, IntendCheck(p), CanExecute
    PROVE  Grants(p)
<1> USE SessionAssumption
<1> DEFINE a == [proc[p] EXCEPT !.pc = "intent", !.intent = intents + 1]
<1>1. proc[p] \in Processes
  BY DEF TypeOK
<1>2. /\ proc[p].session # None /\ proc[p].pc = "idle" /\ calls < MaxCalls
      /\ calls' = calls + 1 /\ intents' = intents + 1 /\ Update(p, a)
      /\ UNCHANGED <<wal, anchor, limits, now, sessions, unframed, killed, faults>>
  BY DEF IntendCheck, Called, At
<1>3. intents + 1 \in 1 .. MaxCalls /\ intents + 1 \in 0 .. MaxCalls
  BY <1>2, IdLeft
<1>4. /\ a \in Processes /\ a.session = proc[p].session /\ a.pc = "intent"
      /\ a.held = proc[p].held /\ a.intent = intents + 1
      /\ a.mark = proc[p].mark /\ a.copy = proc[p].copy
  BY <1>1, <1>3 DEF Processes
<1> HIDE DEF a
<1>5. /\ proc' \in [Procs -> Processes] /\ proc'[p] = a
      /\ \A q \in Procs : q # p => proc'[q] = proc[q]
  BY <1>2, <1>4, Updated
<1>6. QED
  BY <1>2, <1>3, <1>4, <1>5 DEF Grants

\* AnchorLog.pre_commit in DarylAgent.intend.
LEMMA CommitsStep ==
    ASSUME TypeOK, ControlInv, NEW p \in Procs, PreCommit(p)
    PROVE  Commits(p)
<1> USE SessionAssumption
<1> DEFINE i == proc[p].intent
           r == Record("pre", i, i)
           a == [proc[p] EXCEPT !.pc = "idle", !.intent = None, !.held = @ \cup {i}]
           b == [a EXCEPT !.pending = @ \cup {i}]
<1>1. proc[p] \in Processes /\ faults \in 0 .. MaxFaults
  BY DEF TypeOK
<1>2. /\ proc[p].pc = "pre" /\ UNCHANGED <<wal, limits, now, counters, unframed, killed>>
      /\ \/ anchor' = Append(anchor, r) /\ Update(p, b) /\ faults' = faults
         \/ AnchorRaised(r) /\ Update(p, a)
  BY DEF PreCommit, At
<1>3. i \in 1 .. MaxCalls /\ i \in 0 .. MaxCalls /\ None \in 0 .. MaxCalls
  BY <1>1, <1>2 DEF ControlInv, Processes, None
<1>4. r \in Records /\ r.type = "pre" /\ r.intent = i /\ r.commitment = i /\ r.at = now
  BY <1>3, RecordType
<1>5. /\ a \in Processes /\ a.session = proc[p].session /\ a.pc = "idle"
      /\ a.held = proc[p].held \cup {i} /\ a.intent = None
      /\ a.mark = proc[p].mark /\ a.copy = proc[p].copy
  <2> HIDE DEF i
  <2>1. proc[p].held \cup {i} \in SUBSET (1 .. MaxCalls)
    BY <1>1, <1>3 DEF Processes
  <2>2. QED
    BY <1>1, <1>3, <2>1 DEF Processes
<1>6. /\ b \in Processes /\ b.session = proc[p].session /\ b.pc = "idle"
      /\ b.held = proc[p].held \cup {i} /\ b.intent = None
      /\ b.mark = proc[p].mark /\ b.copy = proc[p].copy
  <2> HIDE DEF i, a
  <2>1. a.pending \cup {i} \in SUBSET (1 .. MaxCalls)
    BY <1>3, <1>5 DEF Processes
  <2>2. QED
    BY <1>5, <2>1 DEF Processes
<1> HIDE DEF a, b, r
<1>7. /\ proc' \in [Procs -> Processes] /\ proc'[p] \in {a, b}
      /\ \A q \in Procs : q # p => proc'[q] = proc[q]
  BY <1>2, <1>5, <1>6, Updated
<1>8. anchor' \in {anchor, Append(anchor, r)} /\ faults' \in 0 .. MaxFaults
  BY <1>1, <1>2 DEF AnchorRaised
<1>9. Anchors("pre", i, i)
  BY <1>4, <1>8 DEF Anchors
<1>10. QED
  BY <1>2, <1>5, <1>6, <1>7, <1>8, <1>9 DEF Commits

\* AnchorLog.post_commit in DarylAgent.confirm.
LEMMA ConfirmsStep ==
    ASSUME TypeOK, NEW p \in Procs, NEW i \in 1 .. intents, PostCommit(p, i)
    PROVE  Confirms(p, i)
<1> USE SessionAssumption
<1> DEFINE c == IF i \in proc[p].pending THEN i ELSE None
           r == Record("post", i, c)
           a == [proc[p] EXCEPT !.pc = "result", !.intent = i, !.pending = @ \ {i}]
<1>1. proc[p] \in Processes /\ faults \in 0 .. MaxFaults /\ intents \in 0 .. MaxCalls
  BY DEF TypeOK
<1>2. /\ proc[p].pc = "idle" /\ calls < MaxCalls /\ calls' = calls + 1
      /\ i \in proc[p].held \/ i \in Orphans \ InHand
      /\ UNCHANGED <<wal, limits, now, sessions, intents, unframed, killed>>
      /\ Update(p, a)
      /\ \/ anchor' = Append(anchor, r) /\ faults' = faults
         \/ AnchorRaised(r)
  BY DEF PostCommit, At, Called
<1>3. i \in 1 .. MaxCalls /\ i \in 0 .. MaxCalls /\ c \in 0 .. MaxCalls /\ c \in {i, None}
  BY <1>1 DEF None
<1> HIDE DEF c
<1>4. r \in Records /\ r.type = "post" /\ r.intent = i /\ r.commitment = c /\ r.at = now
  BY <1>3, RecordType
<1>5. /\ a \in Processes /\ a.session = proc[p].session /\ a.pc = "result"
      /\ a.held = proc[p].held /\ a.intent = i
      /\ a.mark = proc[p].mark /\ a.copy = proc[p].copy
  <2>1. proc[p].pending \ {i} \in SUBSET (1 .. MaxCalls)
    BY <1>1 DEF Processes
  <2>2. QED
    BY <1>1, <1>3, <2>1 DEF Processes
<1> HIDE DEF a, r
<1>6. /\ proc' \in [Procs -> Processes] /\ proc'[p] = a
      /\ \A q \in Procs : q # p => proc'[q] = proc[q]
  BY <1>2, <1>5, Updated
<1>7. anchor' \in {anchor, Append(anchor, r)} /\ faults' \in 0 .. MaxFaults
  BY <1>1, <1>2 DEF AnchorRaised
<1>8. \E x \in {i, None} : Anchors("post", i, x)
  BY <1>3, <1>4, <1>7 DEF Anchors
<1>9. QED
  BY <1>2, <1>5, <1>6, <1>7, <1>8 DEF Confirms

\* A killed process leaves no local state.
LEMMA DiesStep ==
    ASSUME TypeOK, NEW p \in Procs, Crash(p)
    PROVE  Dies(p)
<1> USE SessionAssumption
<1>1. /\ faults < MaxFaults /\ faults' = faults + 1 /\ Update(p, Fresh)
      /\ killed' = killed \cup {proc[p].session}
      /\ UNCHANGED <<wal, anchor, limits, now, counters, unframed>>
  BY DEF Crash
<1>2. Fresh \in Processes
  BY DEF Fresh, Processes, DefaultState, Limits, None
<1>3. /\ proc' \in [Procs -> Processes] /\ proc'[p] = Fresh
      /\ \A q \in Procs : q # p => proc'[q] = proc[q]
  BY <1>1, <1>2, Updated
<1>4. faults' \in 0 .. MaxFaults
  BY <1>1 DEF TypeOK
<1>5. QED
  BY <1>1, <1>3, <1>4 DEF Dies

\* Every step is one of these, or the clock's.
LEMMA Shapes ==
    ASSUME TypeOK, CallInv, ControlInv, Next
    PROVE  \/ Works \/ Tick
           \/ \E p \in Procs : Closes(p) \/ Begins(p) \/ Grants(p) \/ Commits(p) \/ Dies(p)
           \/ \E p \in Procs, i \in 1 .. intents : Confirms(p, i)
<1>1. ASSUME NEW p \in Procs, IntendCheck(p) PROVE Works \/ Grants(p)
  BY <1>1, SnapshotWorks, GrantsStep
<1>2. ASSUME NEW p \in Procs,
             \/ SnapshotCheck(p) \/ SnapshotAppend(p) \/ IntendAppend(p) \/ ConfirmAction(p)
             \/ MarkLoad(p) \/ MarkSave(p) \/ \E q \in Procs : SavesCollide(p, q)
      PROVE  Works
  BY <1>2, SnapshotWorks, IntendWorks, ConfirmWorks, MarkWorks
<1>3. ASSUME NEW p \in Procs,
             AutoClose(p) \/ EndSession(p) \/ BeginSession(p) \/ PreCommit(p) \/ Crash(p)
      PROVE  Closes(p) \/ Begins(p) \/ Commits(p) \/ Dies(p)
  BY <1>3, ClosesStep, BeginsStep, CommitsStep, DiesStep
<1>4. ASSUME NEW p \in Procs, NEW i \in 1 .. intents, PostCommit(p, i)
      PROVE  Confirms(p, i)
  BY <1>4, ConfirmsStep
<1>5. QED
  BY <1>1, <1>2, <1>3, <1>4, Zenon DEF Next

----------------------------------------------------------------------------
(* Types, ids and control *)

\* The two files grow at their end by an entry, or stay.
LEMMA FilesGrow ==
    ASSUME TypeOK
    PROVE  /\ Len(wal) \in Nat /\ DOMAIN wal = 1 .. Len(wal)
           /\ Len(anchor) \in Nat /\ DOMAIN anchor = 1 .. Len(anchor)
           /\ \A e \in Entries : wal' \in {wal, Append(wal, e)} =>
                /\ wal' \in Seq(Entries)
                /\ \A k \in DOMAIN wal : k \in DOMAIN wal' /\ wal'[k] = wal[k]
                /\ \A k \in DOMAIN wal' : k \in DOMAIN wal \/ (k = Len(wal) + 1 /\ wal'[k] = e)
                /\ wal' = Append(wal, e) =>
                     Len(wal) + 1 \in DOMAIN wal' /\ wal'[Len(wal) + 1] = e
           /\ \A r \in Records : anchor' \in {anchor, Append(anchor, r)} =>
                /\ anchor' \in Seq(Records)
                /\ \A k \in DOMAIN anchor : k \in DOMAIN anchor' /\ anchor'[k] = anchor[k]
                /\ \A k \in DOMAIN anchor' :
                     k \in DOMAIN anchor \/ (k = Len(anchor) + 1 /\ anchor'[k] = r)
<1>1. wal \in Seq(Entries) /\ anchor \in Seq(Records)
  BY DEF TypeOK
<1>2. /\ Len(wal) \in Nat /\ DOMAIN wal = 1 .. Len(wal)
      /\ Len(anchor) \in Nat /\ DOMAIN anchor = 1 .. Len(anchor)
  BY <1>1
<1>3. ASSUME NEW e \in Entries, wal' \in {wal, Append(wal, e)}
      PROVE  /\ wal' \in Seq(Entries)
             /\ \A k \in DOMAIN wal : k \in DOMAIN wal' /\ wal'[k] = wal[k]
             /\ \A k \in DOMAIN wal' : k \in DOMAIN wal \/ (k = Len(wal) + 1 /\ wal'[k] = e)
             /\ wal' = Append(wal, e) =>
                  Len(wal) + 1 \in DOMAIN wal' /\ wal'[Len(wal) + 1] = e
  BY <1>1, <1>3, Grows
<1>4. ASSUME NEW r \in Records, anchor' \in {anchor, Append(anchor, r)}
      PROVE  /\ anchor' \in Seq(Records)
             /\ \A k \in DOMAIN anchor : k \in DOMAIN anchor' /\ anchor'[k] = anchor[k]
             /\ \A k \in DOMAIN anchor' :
                  k \in DOMAIN anchor \/ (k = Len(anchor) + 1 /\ anchor'[k] = r)
  BY <1>1, <1>4, Grows
<1>5. QED
  BY <1>2, <1>3, <1>4, Zenon

\* The types are kept.
LEMMA TypeStep ==
    ASSUME TypeOK, CallInv, ControlInv, [Next]_vars
    PROVE  TypeOK'
<1> USE SessionAssumption
<1>1. /\ wal \in Seq(Entries) /\ anchor \in Seq(Records) /\ limits \in Limits
      /\ now \in 1 .. MaxTime /\ proc \in [Procs -> Processes]
      /\ sessions \in 0 .. MaxCalls /\ intents \in 0 .. MaxCalls /\ calls \in 0 .. MaxCalls
      /\ unframed \subseteq 1 .. MaxCalls /\ killed \subseteq 0 .. MaxCalls
      /\ faults \in 0 .. MaxFaults
  BY DEF TypeOK
<1>2. CASE Works
  <2>1. wal' \in Seq(Entries)
    BY <1>1, <1>2, FilesGrow DEF Works
  <2>2. QED
    BY <1>1, <1>2, <2>1 DEF Works, TypeOK
<1>3. ASSUME NEW p \in Procs, Closes(p) PROVE TypeOK'
  <2>1. proc[p] \in Processes /\ proc[p].session # None
    BY <1>1, <1>3 DEF Closes
  <2>2. proc[p].session \in 1 .. MaxCalls
    BY <2>1 DEF Processes, None
  <2>3. unframed' \subseteq 1 .. MaxCalls
    BY <1>1, <1>3, <2>2 DEF Closes
  <2>4. wal' \in Seq(Entries)
    BY <1>3, FilesGrow DEF Closes
  <2>5. calls' \in 0 .. MaxCalls
    BY <1>1, <1>3 DEF Closes
  <2>6. QED
    BY <1>1, <1>3, <2>3, <2>4, <2>5 DEF Closes, TypeOK
<1>4. ASSUME NEW p \in Procs, Begins(p) PROVE TypeOK'
  <2>1. unframed' \subseteq 1 .. MaxCalls /\ sessions' \in 0 .. MaxCalls
        /\ calls' \in 0 .. MaxCalls
    <3>1. sessions' = sessions + 1 /\ sessions + 1 \in 1 .. MaxCalls
          /\ unframed' \in {unframed, unframed \cup {sessions + 1}}
      BY <1>4 DEF Begins
    <3>2. calls' = calls \/ (calls < MaxCalls /\ calls' = calls + 1)
      BY <1>4 DEF Begins
    <3>3. calls' \in 0 .. MaxCalls
      BY <1>1, <3>2
    <3>4. QED
      BY <1>1, <3>1, <3>3
  <2>2. wal' \in Seq(Entries)
    BY <1>4, FilesGrow DEF Begins
  <2>3. QED
    BY <1>1, <1>4, <2>1, <2>2 DEF Begins, TypeOK
<1>5. ASSUME NEW p \in Procs, Grants(p) PROVE TypeOK'
  <2>1. intents' \in 0 .. MaxCalls /\ calls' \in 0 .. MaxCalls
    BY <1>1, <1>5 DEF Grants
  <2>2. QED
    BY <1>1, <1>5, <2>1 DEF Grants, TypeOK
<1>6. ASSUME NEW p \in Procs, Commits(p) PROVE TypeOK'
  <2>1. anchor' \in Seq(Records)
    BY <1>6, FilesGrow, Zenon DEF Commits, Anchors
  <2>2. QED
    BY <1>1, <1>6, <2>1 DEF Commits, TypeOK, counters
<1>7. ASSUME NEW p \in Procs, NEW i \in 1 .. intents, Confirms(p, i) PROVE TypeOK'
  <2>1. anchor' \in Seq(Records)
    BY <1>7, FilesGrow, Zenon DEF Confirms, Anchors
  <2>2. calls' \in 0 .. MaxCalls
    BY <1>1, <1>7 DEF Confirms
  <2>3. QED
    BY <1>1, <1>7, <2>1, <2>2 DEF Confirms, TypeOK
<1>8. ASSUME NEW p \in Procs, Dies(p) PROVE TypeOK'
  <2>1. proc[p].session \in 0 .. MaxCalls
    BY <1>1, <1>8 DEF Processes
  <2>2. killed' \subseteq 0 .. MaxCalls
    BY <1>1, <1>8, <2>1 DEF Dies
  <2>3. QED
    BY <1>1, <1>8, <2>2 DEF Dies, TypeOK, counters
<1>9. CASE Tick
  <2>1. now' \in 1 .. MaxTime
    BY <1>1, <1>9 DEF Tick
  <2>2. QED
    BY <1>1, <1>9, <2>1 DEF Tick, TypeOK, counters
<1>10. CASE UNCHANGED vars
  BY <1>10 DEF vars, counters, TypeOK
<1>11. QED
  BY <1>2, <1>3, <1>4, <1>5, <1>6, <1>7, <1>8, <1>9, <1>10, Shapes, Zenon

\* Ids are counted by the calls.
LEMMA CallStep ==
    ASSUME TypeOK, CallInv, ControlInv, [Next]_vars
    PROVE  CallInv'
<1> USE SessionAssumption
<1>1. /\ sessions \in Nat /\ intents \in Nat /\ calls \in Nat /\ IsFiniteSet(Beginning)
      /\ Cardinality(Beginning) \in Nat
      /\ sessions + intents + Cardinality(Beginning) <= calls
  BY FS_CardinalityType DEF TypeOK, CallInv
<1>2. ASSUME Beginning' \subseteq Beginning,
             sessions' + intents' + Cardinality(Beginning) <= calls',
             sessions' \in Nat, intents' \in Nat, calls' \in Nat
      PROVE  CallInv'
  <2>1. Beginning' \in SUBSET Beginning
    BY <1>2
  <2>2. IsFiniteSet(Beginning') /\ Cardinality(Beginning') <= Cardinality(Beginning)
    BY <1>1, <2>1, FS_Subset
  <2>3. Cardinality(Beginning') \in Nat
    BY <2>2, FS_CardinalityType
  <2>4. QED
    BY <1>1, <1>2, <2>2, <2>3 DEF CallInv
<1>3. CASE Works
  <2>1. \A q \in Procs : proc'[q].pc = "begin" => proc[q].pc = "begin"
    BY <1>3 DEF Works, WorkMove
  <2>2. Beginning' \subseteq Beginning
    BY <2>1 DEF Beginning
  <2>3. UNCHANGED <<sessions, intents>> /\ calls' \in {calls, calls + 1}
    BY <1>3 DEF Works
  <2>4. QED
    BY <1>1, <1>2, <2>2, <2>3
<1>4. ASSUME NEW p \in Procs, Closes(p) PROVE CallInv'
  <2>1. /\ \A q \in Procs : q # p => proc'[q] = proc[q]
        /\ UNCHANGED <<sessions, intents>> /\ calls' = calls + 1
    BY <1>4 DEF Closes
  <2>2. Beginning' \in SUBSET (Beginning \cup {p})
    BY <2>1 DEF Beginning
  <2>3. /\ IsFiniteSet(Beginning \cup {p}) /\ Cardinality(Beginning \cup {p}) \in Nat
        /\ Cardinality(Beginning \cup {p}) <= Cardinality(Beginning) + 1
    BY <1>1, AddOne
  <2>4. /\ IsFiniteSet(Beginning')
        /\ Cardinality(Beginning') <= Cardinality(Beginning \cup {p})
    BY <2>2, <2>3, FS_Subset
  <2>5. Cardinality(Beginning') \in Nat
    BY <2>4, FS_CardinalityType
  <2>6. QED
    BY <1>1, <2>1, <2>3, <2>4, <2>5 DEF CallInv
<1>5. ASSUME NEW p \in Procs, Begins(p) PROVE CallInv'
  <2>1. /\ \A q \in Procs : q # p => proc'[q] = proc[q]
        /\ proc'[p].pc = "idle" /\ sessions' = sessions + 1 /\ intents' = intents
        /\ \/ proc[p].pc = "begin" /\ calls' = calls
           \/ proc[p].pc = "idle" /\ calls' = calls + 1
    BY <1>5 DEF Begins
  <2>2. CASE proc[p].pc = "idle" /\ calls' = calls + 1
    <3>1. Beginning' \subseteq Beginning
      BY <2>1 DEF Beginning
    <3>2. QED
      BY <1>1, <1>2, <2>1, <2>2, <3>1
  <2>3. CASE proc[p].pc = "begin" /\ calls' = calls
    <3>1. Beginning' = Beginning \ {p} /\ p \in Beginning
      BY <1>5, <2>1, <2>3 DEF Beginning
    <3>2. /\ IsFiniteSet(Beginning \ {p})
          /\ Cardinality(Beginning \ {p}) = Cardinality(Beginning) - 1
      BY <1>1, <3>1, FS_RemoveElement
    <3>3. QED
      BY <1>1, <2>1, <2>3, <3>1, <3>2 DEF CallInv
  <2>4. QED
    BY <2>1, <2>2, <2>3
<1>6. ASSUME NEW p \in Procs, Grants(p) PROVE CallInv'
  <2>1. /\ \A q \in Procs : q # p => proc'[q] = proc[q]
        /\ proc'[p].pc = "intent" /\ sessions' = sessions /\ intents' = intents + 1
        /\ calls' = calls + 1
    BY <1>6 DEF Grants
  <2>2. Beginning' \subseteq Beginning
    BY <2>1 DEF Beginning
  <2>3. QED
    BY <1>1, <1>2, <2>1, <2>2
<1>7. ASSUME NEW p \in Procs, Commits(p) \/ Dies(p) PROVE CallInv'
  <2>1. /\ \A q \in Procs : q # p => proc'[q] = proc[q]
        /\ proc'[p].pc = "idle" /\ UNCHANGED <<sessions, intents, calls>>
    BY <1>7 DEF Commits, Dies, Fresh, counters
  <2>2. Beginning' \subseteq Beginning
    BY <2>1 DEF Beginning
  <2>3. QED
    BY <1>1, <1>2, <2>1, <2>2
<1>8. ASSUME NEW p \in Procs, NEW i \in 1 .. intents, Confirms(p, i) PROVE CallInv'
  <2>1. /\ \A q \in Procs : q # p => proc'[q] = proc[q]
        /\ proc'[p].pc = "result" /\ UNCHANGED <<sessions, intents>> /\ calls' = calls + 1
    BY <1>8 DEF Confirms
  <2>2. Beginning' \subseteq Beginning
    BY <2>1 DEF Beginning
  <2>3. QED
    BY <1>1, <1>2, <2>1, <2>2
<1>9. CASE Tick \/ UNCHANGED vars
  <2>1. UNCHANGED <<sessions, intents, calls, proc>>
    BY <1>9 DEF Tick, vars, counters
  <2>2. Beginning' = Beginning
    BY <2>1 DEF Beginning
  <2>3. QED
    BY <1>1, <2>1, <2>2 DEF CallInv
<1>10. QED
  BY <1>3, <1>4, <1>5, <1>6, <1>7, <1>8, <1>9, Shapes, Zenon

\* Fields of a process.
LEMMA ProcFields ==
    ASSUME TypeOK, NEW q \in Procs
    PROVE  /\ proc[q] \in Processes /\ proc[q].session \in Nat /\ proc[q].intent \in Nat
           /\ proc[q].held \subseteq Nat /\ proc[q].copy \in Limits /\ proc[q].copy.count \in Nat
           /\ sessions \in Nat /\ intents \in Nat /\ None \in Nat /\ now \in Nat
<1> USE SessionAssumption
<1>1. proc[q] \in Processes
  BY DEF TypeOK
<1>2. /\ proc[q].session \in 0 .. MaxCalls /\ proc[q].intent \in 0 .. MaxCalls
      /\ proc[q].held \subseteq 1 .. MaxCalls /\ proc[q].copy \in Limits
  BY <1>1 DEF Processes
<1>3. proc[q].copy.count \in Nat
  BY <1>2 DEF Limits
<1>4. proc[q].session \in Nat /\ proc[q].intent \in Nat /\ proc[q].held \subseteq Nat
  BY <1>2
<1>5. sessions \in Nat /\ intents \in Nat /\ None \in Nat /\ now \in Nat
  BY DEF TypeOK, None
<1>6. QED
  BY <1>1, <1>2, <1>3, <1>4, <1>5

\* Fields of an entry and of a record.
LEMMA FileFields ==
    ASSUME TypeOK
    PROVE  /\ \A k \in DOMAIN wal : wal[k] \in Entries /\ wal[k].session \in Nat
                                     /\ wal[k].intent \in Nat
           /\ \A k \in DOMAIN anchor : anchor[k] \in Records /\ anchor[k].intent \in Nat
                                        /\ anchor[k].at \in Nat
<1>1. /\ \A k \in DOMAIN wal : wal[k] \in Entries
      /\ \A k \in DOMAIN anchor : anchor[k] \in Records
  BY DEF TypeOK
<1>2. \A e \in Entries : e.session \in Nat /\ e.intent \in Nat
  BY SessionAssumption DEF Entries
<1>3. \A r \in Records : r.intent \in Nat /\ r.at \in Nat
  BY SessionAssumption DEF Records
<1>4. QED
  BY <1>1, <1>2, <1>3

\* Ids in use stay among the ids handed out, and the calls keep their sessions.
LEMMA IdStep ==
    ASSUME TypeOK, CallInv, ControlInv, IdInv, [Next]_vars
    PROVE  IdInv' /\ ControlInv'
<1> DEFINE WalIds == \A k \in DOMAIN wal : wal[k].session <= sessions /\ wal[k].intent <= intents
           AnchorIds == \A k \in DOMAIN anchor : anchor[k].intent <= intents
           ProcIds(q) == /\ proc[q].session <= sessions /\ proc[q].intent <= intents
                         /\ \A i \in proc[q].held : i <= intents
           Control(q) ==
             /\ proc[q].pc \in {"snapshot", "intent", "pre"} => proc[q].session # None
             /\ proc[q].pc = "begin" => proc[q].session = None
             /\ proc[q].pc \in {"intent", "pre", "result"} => proc[q].intent # None
<1>1. /\ WalIds /\ AnchorIds
      /\ \A q \in Procs : ProcIds(q) /\ Control(q)
  BY DEF IdInv, ControlInv
<1>2. /\ sessions \in Nat /\ intents \in Nat /\ None = 0
  BY SessionAssumption DEF TypeOK, None
<1>3. ASSUME WalIds', AnchorIds', \A q \in Procs : ProcIds(q)' /\ Control(q)'
      PROVE  IdInv' /\ ControlInv'
  BY <1>3 DEF IdInv, ControlInv
<1>4. CASE Works
  <2>1. UNCHANGED <<anchor, sessions, intents>> /\ \A q \in Procs : WorkMove(q)
    BY <1>4 DEF Works
  <2>2. AnchorIds'
    BY <1>1, <2>1
  <2>3. WalIds'
    <3>1. CASE wal' = wal
      BY <1>1, <2>1, <3>1
    <3>2. ASSUME NEW p \in Procs, NEW e \in Entries, WorkEntry(p, e), wal' = Append(wal, e)
          PROVE  WalIds'
      <4>1. e.session <= sessions /\ e.intent <= intents
        BY <1>1, <1>2, <3>2 DEF WorkEntry
      <4>2. /\ \A k \in DOMAIN wal : wal'[k] = wal[k]
            /\ \A k \in DOMAIN wal' : k \in DOMAIN wal \/ wal'[k] = e
        BY <3>2, FilesGrow, Zenon
      <4>3. QED
        BY <1>1, <2>1, <4>1, <4>2
    <3>3. QED
      BY <1>4, <3>1, <3>2 DEF Works
  <2>4. ASSUME NEW q \in Procs PROVE ProcIds(q)' /\ Control(q)'
    <3>1. /\ WorkMove(q) /\ ProcIds(q) /\ Control(q)
      BY <1>1, <2>1, <2>4
    <3>2. ProcIds(q)'
      BY <1>2, <2>1, <3>1 DEF WorkMove
    <3>3. Control(q)'
      BY <3>1 DEF WorkMove
    <3>4. QED
      BY <3>2, <3>3
  <2>5. QED
    BY <1>3, <2>2, <2>3, <2>4
<1>5. ASSUME NEW p \in Procs, Closes(p) PROVE IdInv' /\ ControlInv'
  <2>1. UNCHANGED <<anchor, sessions, intents>>
    BY <1>5 DEF Closes
  <2>2. AnchorIds'
    BY <1>1, <2>1
  <2>3. WalIds'
    <3>1. PICK e \in Entries : /\ e.session = proc[p].session /\ e.intent = None
                               /\ wal' \in {wal, Append(wal, e)}
      BY <1>5 DEF Closes
    <3>2. e.session <= sessions /\ e.intent <= intents
      BY <1>1, <1>2, <1>5, <3>1
    <3>3. /\ \A k \in DOMAIN wal : wal'[k] = wal[k]
          /\ \A k \in DOMAIN wal' : k \in DOMAIN wal \/ wal'[k] = e
      BY <3>1, FilesGrow
    <3>4. QED
      BY <1>1, <2>1, <3>2, <3>3
  <2>4. ProcIds(p)' /\ Control(p)'
    <3>1. ProcIds(p) /\ Control(p)
      BY <1>1, <1>5
    <3>2. /\ proc'[p].held = proc[p].held /\ proc'[p].intent = proc[p].intent
          /\ proc'[p].session \in {proc[p].session, None} /\ proc'[p].pc \in {"idle", "begin"}
          /\ proc'[p].pc = "begin" => proc'[p].session = None
      BY <1>5 DEF Closes
    <3>3. QED
      BY <1>2, <2>1, <3>1, <3>2
  <2>5. \A q \in Procs : q # p => proc'[q] = proc[q]
    BY <1>5 DEF Closes
  <2>6. \A q \in Procs : ProcIds(q)' /\ Control(q)'
    BY <1>1, <2>1, <2>4, <2>5
  <2>7. QED
    BY <1>3, <2>2, <2>3, <2>6
<1>6. ASSUME NEW p \in Procs, Begins(p) PROVE IdInv' /\ ControlInv'
  <2>1. UNCHANGED <<anchor, intents>> /\ sessions' = sessions + 1
    BY <1>6 DEF Begins
  <2>2. AnchorIds'
    BY <1>1, <2>1
  <2>3. WalIds'
    <3>1. PICK e \in Entries : /\ e.session = sessions + 1 /\ e.intent = None
                               /\ wal' \in {wal, Append(wal, e)}
      BY <1>6 DEF Begins
    <3>2. e.session <= sessions + 1 /\ e.intent <= intents
      BY <1>2, <3>1
    <3>3. /\ \A k \in DOMAIN wal : wal'[k] = wal[k]
          /\ \A k \in DOMAIN wal' : k \in DOMAIN wal \/ wal'[k] = e
      BY <3>1, FilesGrow
    <3>4. \A k \in DOMAIN wal : wal[k].session <= sessions + 1 /\ wal[k].intent <= intents
      BY <1>1, <1>2, FileFields
    <3>5. QED
      BY <2>1, <3>2, <3>3, <3>4
  <2>4. ProcIds(p)' /\ Control(p)'
    <3>1. ProcIds(p) /\ Control(p)
      BY <1>1, <1>6
    <3>2. /\ proc'[p].held = proc[p].held /\ proc'[p].intent = proc[p].intent
          /\ proc'[p].session = sessions + 1 /\ proc'[p].pc = "idle"
      BY <1>6 DEF Begins
    <3>3. QED
      BY <1>2, <2>1, <3>1, <3>2
  <2>5. \A q \in Procs : q # p => proc'[q] = proc[q]
    BY <1>6 DEF Begins
  <2>6. ASSUME NEW q \in Procs, q # p PROVE ProcIds(q)' /\ Control(q)'
    <3>1. proc[q].session <= sessions + 1
      BY <1>1, <1>2, <2>6, ProcFields
    <3>2. QED
      BY <1>1, <2>1, <2>5, <2>6, <3>1
  <2>7. QED
    BY <1>3, <2>2, <2>3, <2>4, <2>6
<1>7. ASSUME NEW p \in Procs, Grants(p) PROVE IdInv' /\ ControlInv'
  <2>1. UNCHANGED <<wal, anchor, sessions>> /\ intents' = intents + 1
    BY <1>7 DEF Grants
  <2>2. /\ \A k \in DOMAIN wal : wal[k].session <= sessions /\ wal[k].intent <= intents + 1
        /\ \A k \in DOMAIN anchor : anchor[k].intent <= intents + 1
    BY <1>1, <1>2, FileFields
  <2>3. ASSUME NEW q \in Procs
        PROVE  /\ proc[q].session <= sessions /\ proc[q].intent <= intents + 1
               /\ \A i \in proc[q].held : i <= intents + 1
    BY <1>1, <1>2, <2>3, ProcFields
  <2>4. /\ proc'[p].held = proc[p].held /\ proc'[p].intent = intents + 1
        /\ proc'[p].session = proc[p].session /\ proc'[p].pc = "intent"
        /\ proc[p].session # None /\ \A q \in Procs : q # p => proc'[q] = proc[q]
    BY <1>7 DEF Grants
  <2>5. ProcIds(p)' /\ Control(p)'
    BY <1>2, <1>7, <2>1, <2>3, <2>4
  <2>6. ASSUME NEW q \in Procs, q # p PROVE ProcIds(q)' /\ Control(q)'
    BY <1>1, <2>1, <2>3, <2>4, <2>6
  <2>7. QED
    BY <1>3, <2>1, <2>2, <2>5, <2>6
<1>8. ASSUME NEW p \in Procs, NEW i, Anchors("pre", i, i) \/ \E c : Anchors("post", i, c),
             i <= intents, intents' = intents
      PROVE  AnchorIds'
  <2>1. PICK r \in Records : r.intent = i /\ anchor' \in {anchor, Append(anchor, r)}
    BY <1>8 DEF Anchors
  <2>2. /\ \A k \in DOMAIN anchor : anchor'[k] = anchor[k]
        /\ \A k \in DOMAIN anchor' : k \in DOMAIN anchor \/ anchor'[k] = r
    BY <2>1, FilesGrow
  <2>3. QED
    BY <1>1, <1>8, <2>1, <2>2
<1>9. ASSUME NEW p \in Procs, Commits(p) PROVE IdInv' /\ ControlInv'
  <2>1. UNCHANGED <<wal, sessions, intents>> /\ Anchors("pre", proc[p].intent, proc[p].intent)
    BY <1>9 DEF Commits, counters
  <2>2. AnchorIds'
    BY <1>1, <1>8, <1>9, <2>1
  <2>3. /\ proc'[p].held = proc[p].held \cup {proc[p].intent} /\ proc'[p].intent = None
        /\ proc'[p].session = proc[p].session /\ proc'[p].pc = "idle"
        /\ \A q \in Procs : q # p => proc'[q] = proc[q]
    BY <1>9 DEF Commits
  <2>4. ProcIds(p)' /\ Control(p)'
    BY <1>1, <1>2, <1>9, <2>1, <2>3
  <2>5. ASSUME NEW q \in Procs, q # p PROVE ProcIds(q)' /\ Control(q)'
    BY <1>1, <2>1, <2>3, <2>5
  <2>6. QED
    BY <1>1, <1>3, <2>1, <2>2, <2>4, <2>5
<1>10. ASSUME NEW p \in Procs, NEW i \in 1 .. intents, Confirms(p, i)
       PROVE  IdInv' /\ ControlInv'
  <2>1. UNCHANGED <<wal, sessions, intents>> /\ \E c \in {i, None} : Anchors("post", i, c)
    BY <1>10 DEF Confirms
  <2>2. i <= intents /\ i # None
    BY <1>2, <1>10
  <2>3. AnchorIds'
    BY <1>8, <1>10, <2>1, <2>2
  <2>4. /\ proc'[p].held = proc[p].held /\ proc'[p].intent = i
        /\ proc'[p].session = proc[p].session /\ proc'[p].pc = "result"
        /\ \A q \in Procs : q # p => proc'[q] = proc[q]
    BY <1>10 DEF Confirms
  <2>5. ProcIds(p)' /\ Control(p)'
    BY <1>1, <1>10, <2>1, <2>2, <2>4
  <2>6. ASSUME NEW q \in Procs, q # p PROVE ProcIds(q)' /\ Control(q)'
    BY <1>1, <2>1, <2>4, <2>6
  <2>7. QED
    BY <1>1, <1>3, <2>1, <2>3, <2>5, <2>6
<1>11. ASSUME NEW p \in Procs, Dies(p) PROVE IdInv' /\ ControlInv'
  <2>1. UNCHANGED <<wal, anchor, sessions, intents>>
    BY <1>11 DEF Dies, counters
  <2>2. proc'[p] = Fresh /\ \A q \in Procs : q # p => proc'[q] = proc[q]
    BY <1>11 DEF Dies
  <2>3. ProcIds(p)' /\ Control(p)'
    BY <1>2, <2>1, <2>2 DEF Fresh
  <2>4. ASSUME NEW q \in Procs, q # p PROVE ProcIds(q)' /\ Control(q)'
    BY <1>1, <2>1, <2>2, <2>4
  <2>5. QED
    BY <1>1, <1>3, <2>1, <2>3, <2>4
<1>12. CASE Tick \/ UNCHANGED vars
  <2>1. UNCHANGED <<wal, anchor, sessions, intents, proc>>
    BY <1>12 DEF Tick, vars, counters
  <2>2. QED
    BY <2>1 DEF IdInv, ControlInv
<1>13. QED
  BY <1>4, <1>5, <1>6, <1>7, <1>9, <1>10, <1>11, <1>12, Shapes, Zenon

----------------------------------------------------------------------------
(* Intents, commitments and results *)

\* The shard keeps its entries and grows by entries of some types only.
Adds(types) ==
    /\ \A k \in DOMAIN wal : k \in DOMAIN wal' /\ wal'[k] = wal[k]
    /\ \A k \in DOMAIN wal' :
         k \in DOMAIN wal \/ (k = Len(wal) + 1 /\ wal'[k].type \in types)

\* Every step but those inside a call adds the frame of a session at most.
LEMMA FramesOnly ==
    ASSUME TypeOK,
           \/ UNCHANGED wal
           \/ \E p \in Procs : Closes(p) \/ Begins(p)
    PROVE  Adds({"start", "end"})
<1>1. CASE UNCHANGED wal
  BY <1>1 DEF Adds
<1>2. ASSUME NEW p \in Procs, Closes(p) PROVE Adds({"start", "end"})
  BY <1>2, FilesGrow DEF Closes, Adds
<1>3. ASSUME NEW p \in Procs, Begins(p) PROVE Adds({"start", "end"})
  BY <1>3, FilesGrow DEF Begins, Adds
<1>4. QED
  BY <1>1, <1>2, <1>3

\* An intent in the shard stays there.
LEMMA IntentsKept ==
    ASSUME \A k \in DOMAIN wal : k \in DOMAIN wal' /\ wal'[k] = wal[k]
    PROVE  \A i : (\E k \in DOMAIN wal : wal[k].type = "intent" /\ wal[k].intent = i)
                  => \E k \in DOMAIN wal' : wal'[k].type = "intent" /\ wal'[k].intent = i
OBVIOUS

\* What IntentInv says of a process that is creating an intent.
Private(p) ==
    /\ \A q \in Procs : proc[p].intent \notin proc[q].held
    /\ \A q \in Procs : q # p => proc[q].intent # proc[p].intent
    /\ \A k \in DOMAIN anchor : anchor[k].intent # proc[p].intent
    /\ \A k \in DOMAIN wal : wal[k].type = "result" => wal[k].intent # proc[p].intent
    /\ proc[p].pc = "pre" => HasIntent(proc[p].intent)

\* Other processes and other files leave the intent to its process.
LEMMA PrivateFrame ==
    ASSUME TypeOK, NEW x \in Procs, Private(x), proc[x].intent # None,
           NEW p \in Procs, p # x,
           \A q \in Procs : q # p => proc'[q] = proc[q],
           proc'[p].intent # proc[x].intent,
           proc[x].intent \notin proc'[p].held,
           \A k \in DOMAIN anchor' :
             (k \in DOMAIN anchor /\ anchor'[k] = anchor[k]) \/ anchor'[k].intent # proc[x].intent,
           Adds({"start", "end"})
    PROVE  Private(x)'
<1>1. proc'[x] = proc[x]
  OBVIOUS
<1>2. \A q \in Procs : proc[x].intent \notin proc'[q].held
  BY DEF Private
<1>3. \A q \in Procs : q # x => proc'[q].intent # proc[x].intent
  BY DEF Private
<1>4. \A k \in DOMAIN anchor' : anchor'[k].intent # proc[x].intent
  BY DEF Private
<1>5. \A k \in DOMAIN wal' : wal'[k].type = "result" => wal'[k].intent # proc[x].intent
  <2>1. /\ \A k \in DOMAIN wal : wal'[k] = wal[k]
        /\ \A k \in DOMAIN wal' : k \in DOMAIN wal \/ wal'[k].type \in {"start", "end"}
    BY DEF Adds
  <2>2. QED
    BY <2>1 DEF Private
<1>6. proc[x].pc = "pre" =>
        \E k \in DOMAIN wal' : wal'[k].type = "intent" /\ wal'[k].intent = proc[x].intent
  BY IntentsKept DEF Private, HasIntent, Adds
<1>7. QED
  BY <1>1, <1>2, <1>3, <1>4, <1>5, <1>6 DEF Private, HasIntent

\* An intent stays with its process until intend returns it.
LEMMA IntentStep ==
    ASSUME TypeOK, CallInv, ControlInv, IdInv, IntentInv, [Next]_vars
    PROVE  IntentInv'
<1>1. \A x \in Procs : Creating(x) => Private(x) /\ proc[x].intent # None
  BY DEF IntentInv, Private, ControlInv, Creating
<1>2. SUFFICES ASSUME NEW x \in Procs, Creating(x)' PROVE Private(x)'
  BY DEF IntentInv, Private
<1>3. CASE Works
  <2>1. /\ \A q \in Procs : WorkMove(q)
        /\ anchor' = anchor
    BY <1>3 DEF Works
  <2>2. Creating(x) /\ proc'[x].intent = proc[x].intent
    BY <1>2, <2>1 DEF Creating, WorkMove
  <2>3. Private(x) /\ proc[x].intent # None
    BY <1>1, <1>2, <2>2
  <2>4. \A q \in Procs : proc[x].intent \notin proc'[q].held
    BY <2>1, <2>3 DEF Private, WorkMove
  <2>5. \A q \in Procs : q # x => proc'[q].intent # proc[x].intent
    BY <2>1, <2>3 DEF Private, WorkMove
  <2>6. \A k \in DOMAIN anchor' : anchor'[k].intent # proc[x].intent
    BY <2>1, <2>3 DEF Private
  <2>7. /\ \A k \in DOMAIN wal' : wal'[k].type = "result" => wal'[k].intent # proc[x].intent
        /\ \A k \in DOMAIN wal : k \in DOMAIN wal' /\ wal'[k] = wal[k]
    <3>1. CASE wal' = wal
      BY <2>3, <3>1 DEF Private
    <3>2. ASSUME NEW p \in Procs, NEW e \in Entries, WorkEntry(p, e), wal' = Append(wal, e)
          PROVE  /\ \A k \in DOMAIN wal' :
                      wal'[k].type = "result" => wal'[k].intent # proc[x].intent
                 /\ \A k \in DOMAIN wal : k \in DOMAIN wal' /\ wal'[k] = wal[k]
      <4>1. e.type = "result" => e.intent # proc[x].intent
        BY <2>2, <2>3, <3>2 DEF WorkEntry, Private, Creating
      <4>2. /\ \A k \in DOMAIN wal : k \in DOMAIN wal' /\ wal'[k] = wal[k]
            /\ \A k \in DOMAIN wal' : k \in DOMAIN wal \/ wal'[k] = e
        BY <3>2, FilesGrow, Zenon
      <4>3. QED
        BY <2>3, <4>1, <4>2 DEF Private
    <3>3. QED
      BY <1>3, <3>1, <3>2 DEF Works
  <2>8. proc'[x].pc = "pre" =>
          \E k \in DOMAIN wal' : wal'[k].type = "intent" /\ wal'[k].intent = proc[x].intent
    <3>1. CASE proc[x].pc = "pre"
      BY <2>3, <2>7, <3>1, IntentsKept DEF Private, HasIntent
    <3>2. CASE proc[x].pc # "pre"
      BY <1>2, <2>1, <2>2, <3>2 DEF WorkMove, HasIntent
    <3>3. QED
      BY <3>1, <3>2
  <2>9. QED
    BY <2>2, <2>4, <2>5, <2>6, <2>7, <2>8 DEF Private, HasIntent
<1>4. ASSUME NEW p \in Procs, Closes(p) \/ Begins(p) PROVE Private(x)'
  <2>1. /\ \A q \in Procs : q # p => proc'[q] = proc[q]
        /\ proc'[p].pc \in {"idle", "begin"} /\ anchor' = anchor
        /\ proc'[p].held = proc[p].held /\ proc'[p].intent = proc[p].intent
    BY <1>4 DEF Closes, Begins
  <2>2. x # p
    BY <1>2, <2>1 DEF Creating
  <2>3. Private(x) /\ proc[x].intent # None
    BY <1>1, <1>2, <2>1, <2>2 DEF Creating
  <2>4. Adds({"start", "end"})
    BY <1>4, FramesOnly
  <2>5. proc'[p].intent # proc[x].intent /\ proc[x].intent \notin proc'[p].held
    BY <1>4, <2>1, <2>2, <2>3 DEF Private
  <2>6. QED
    BY <1>2, <1>4, <2>1, <2>2, <2>3, <2>4, <2>5, PrivateFrame
<1>5. ASSUME NEW p \in Procs, Grants(p) PROVE Private(x)'
  <2>1. /\ \A q \in Procs : q # p => proc'[q] = proc[q]
        /\ proc'[p].pc = "intent" /\ UNCHANGED <<anchor, wal>>
        /\ proc'[p].held = proc[p].held /\ proc'[p].intent = intents + 1
    BY <1>5 DEF Grants
  <2>2. /\ \A q \in Procs : proc[q].intent # intents + 1 /\ intents + 1 \notin proc[q].held
        /\ \A k \in DOMAIN anchor : anchor[k].intent # intents + 1
        /\ \A k \in DOMAIN wal : wal[k].intent # intents + 1
    <3>1. intents \in Nat
      BY SessionAssumption DEF TypeOK
    <3>2. ASSUME NEW q \in Procs PROVE proc[q].intent # intents + 1 /\ intents + 1 \notin proc[q].held
      BY <3>1, <3>2, ProcFields DEF IdInv
    <3>3. /\ \A k \in DOMAIN anchor : anchor[k].intent # intents + 1
          /\ \A k \in DOMAIN wal : wal[k].intent # intents + 1
      BY <3>1, FileFields DEF IdInv
    <3>4. QED
      BY <3>2, <3>3
  <2>3. CASE x = p
    <3>1. \A q \in Procs : intents + 1 \notin proc'[q].held
      BY <1>5, <2>1, <2>2
    <3>2. \A q \in Procs : q # p => proc'[q].intent # intents + 1
      BY <2>1, <2>2
    <3>3. QED
      BY <2>1, <2>2, <2>3, <3>1, <3>2 DEF Private
  <2>4. CASE x # p
    <3>1. Private(x) /\ proc[x].intent # None
      BY <1>1, <1>2, <2>1, <2>4 DEF Creating
    <3>2. Adds({"start", "end"})
      BY <2>1, FramesOnly
    <3>3. proc'[p].intent # proc[x].intent /\ proc[x].intent \notin proc'[p].held
      BY <1>2, <1>5, <2>1, <2>2, <3>1 DEF Private
    <3>4. QED
      BY <1>2, <1>5, <2>1, <2>4, <3>1, <3>2, <3>3, PrivateFrame
  <2>5. QED
    BY <2>3, <2>4
<1>6. ASSUME NEW p \in Procs, Commits(p) PROVE Private(x)'
  <2>1. /\ \A q \in Procs : q # p => proc'[q] = proc[q]
        /\ proc'[p].pc = "idle" /\ wal' = wal
        /\ proc'[p].held = proc[p].held \cup {proc[p].intent} /\ proc'[p].intent = None
    BY <1>6 DEF Commits
  <2>2. PICK r \in Records : r.intent = proc[p].intent /\ anchor' \in {anchor, Append(anchor, r)}
    BY <1>6 DEF Commits, Anchors
  <2>3. x # p
    BY <1>2, <2>1 DEF Creating
  <2>4. Private(x) /\ proc[x].intent # None
    BY <1>1, <1>2, <2>1, <2>3 DEF Creating
  <2>5. proc[p].intent # proc[x].intent
    BY <1>6, <2>3, <2>4 DEF Private
  <2>6. proc[x].intent \notin proc'[p].held /\ proc'[p].intent # proc[x].intent
    BY <1>6, <2>1, <2>4, <2>5 DEF Private
  <2>7. /\ \A k \in DOMAIN anchor : k \in DOMAIN anchor' /\ anchor'[k] = anchor[k]
        /\ \A k \in DOMAIN anchor' : k \in DOMAIN anchor \/ anchor'[k] = r
    BY <2>2, FilesGrow
  <2>8. Adds({"start", "end"})
    BY <2>1, FramesOnly
  <2>9. \A k \in DOMAIN anchor' :
          (k \in DOMAIN anchor /\ anchor'[k] = anchor[k]) \/ anchor'[k].intent # proc[x].intent
    BY <2>2, <2>5, <2>7
  <2>10. QED
    BY <1>2, <1>6, <2>1, <2>3, <2>4, <2>6, <2>8, <2>9, PrivateFrame
<1>7. ASSUME NEW p \in Procs, NEW i \in 1 .. intents, Confirms(p, i) PROVE Private(x)'
  <2>1. /\ \A q \in Procs : q # p => proc'[q] = proc[q]
        /\ proc'[p].pc = "result" /\ wal' = wal
        /\ proc'[p].held = proc[p].held /\ proc'[p].intent = i
        /\ i \in proc[p].held \/ i \in Orphans \ InHand
    BY <1>7 DEF Confirms
  <2>2. PICK r \in Records : r.intent = i /\ anchor' \in {anchor, Append(anchor, r)}
    BY <1>7 DEF Confirms, Anchors
  <2>3. x # p
    BY <1>2, <2>1 DEF Creating
  <2>4. Private(x) /\ proc[x].intent # None
    BY <1>1, <1>2, <2>1, <2>3 DEF Creating
  <2>5. i # proc[x].intent
    <3>1. proc[x].intent \in InHand
      BY <1>2 DEF InHand
    <3>2. proc[x].intent \notin proc[p].held
      BY <1>7, <2>4 DEF Private
    <3>3. QED
      BY <2>1, <3>1, <3>2
  <2>6. proc[x].intent \notin proc'[p].held /\ proc'[p].intent # proc[x].intent
    BY <1>7, <2>1, <2>4, <2>5 DEF Private
  <2>7. /\ \A k \in DOMAIN anchor : k \in DOMAIN anchor' /\ anchor'[k] = anchor[k]
        /\ \A k \in DOMAIN anchor' : k \in DOMAIN anchor \/ anchor'[k] = r
    BY <2>2, FilesGrow
  <2>8. Adds({"start", "end"})
    BY <2>1, FramesOnly
  <2>9. \A k \in DOMAIN anchor' :
          (k \in DOMAIN anchor /\ anchor'[k] = anchor[k]) \/ anchor'[k].intent # proc[x].intent
    BY <2>2, <2>5, <2>7
  <2>10. QED
    BY <1>2, <1>7, <2>1, <2>3, <2>4, <2>6, <2>8, <2>9, PrivateFrame
<1>8. ASSUME NEW p \in Procs, Dies(p) PROVE Private(x)'
  <2>1. /\ \A q \in Procs : q # p => proc'[q] = proc[q]
        /\ proc'[p].pc = "idle" /\ UNCHANGED <<anchor, wal>>
        /\ proc'[p].held = {} /\ proc'[p].intent = None
    BY <1>8 DEF Dies, Fresh
  <2>2. x # p
    BY <1>2, <2>1 DEF Creating
  <2>3. Private(x) /\ proc[x].intent # None
    BY <1>1, <1>2, <2>1, <2>2 DEF Creating
  <2>4. Adds({"start", "end"})
    BY <2>1, FramesOnly
  <2>5. QED
    BY <1>2, <1>8, <2>1, <2>2, <2>3, <2>4, PrivateFrame
<1>9. CASE Tick \/ UNCHANGED vars
  <2>1. UNCHANGED <<wal, anchor, proc>>
    BY <1>9 DEF Tick, vars, counters
  <2>2. Private(x)
    BY <1>1, <1>2, <2>1 DEF Creating
  <2>3. QED
    BY <2>1, <2>2 DEF Private, HasIntent
<1>10. QED
  BY <1>3, <1>4, <1>5, <1>6, <1>7, <1>8, <1>9, Shapes, Zenon

\* Every step keeps the entries of the shard.
LEMMA WalKept ==
    ASSUME TypeOK, CallInv, ControlInv, [Next]_vars
    PROVE  /\ \A k \in DOMAIN wal : k \in DOMAIN wal' /\ wal'[k] = wal[k]
           /\ Works \/ Adds({"start", "end"})
<1>1. CASE Works
  <2>1. \A k \in DOMAIN wal : k \in DOMAIN wal' /\ wal'[k] = wal[k]
    BY <1>1, FilesGrow DEF Works
  <2>2. QED
    BY <1>1, <2>1
<1>2. CASE Adds({"start", "end"})
  BY <1>2 DEF Adds
<1>3. ASSUME NEW p \in Procs, Grants(p) \/ Commits(p) \/ Dies(p) PROVE UNCHANGED wal
  BY <1>3 DEF Grants, Commits, Dies
<1>4. ASSUME NEW p \in Procs, NEW i \in 1 .. intents, Confirms(p, i) PROVE UNCHANGED wal
  BY <1>4 DEF Confirms
<1>5. CASE Tick \/ UNCHANGED vars
  <2>1. UNCHANGED wal
    BY <1>5 DEF Tick, vars
  <2>2. QED
    BY <1>2, <2>1, FramesOnly
<1>6. QED
  BY <1>1, <1>2, <1>3, <1>4, <1>5, Shapes, FramesOnly, Zenon

\* The anchor log stays in order and names what is in the shard.
LEMMA AnchorStep ==
    ASSUME TypeOK, CallInv, ControlInv, IdInv, IntentInv, AnchorInv, [Next]_vars
    PROVE  AnchorInv'
<1> DEFINE Honest(r) == /\ r.type = "post" => r.commitment \in {None, r.intent}
                        /\ r.type = "pre" => r.commitment = r.intent
           Known(i) == \E k \in DOMAIN wal : wal[k].type = "intent" /\ wal[k].intent = i
           Known2(i) == \E k \in DOMAIN wal' : wal'[k].type = "intent" /\ wal'[k].intent = i
<1>1. /\ \A k \in DOMAIN anchor : anchor[k].at <= now /\ Honest(anchor[k])
      /\ \A k \in DOMAIN anchor : anchor[k].type = "pre" => Known(anchor[k].intent)
      /\ \A j, k \in DOMAIN anchor :
           /\ j <= k => anchor[j].at <= anchor[k].at
           /\ anchor[j].intent = anchor[k].intent /\ anchor[j].type = "pre"
                /\ anchor[k].type = "post" => j < k
  BY DEF AnchorInv, HasIntent
<1>2. \A i : Known(i) => Known2(i)
  <2>1. \A k \in DOMAIN wal : k \in DOMAIN wal' /\ wal'[k] = wal[k]
    BY WalKept
  <2>2. QED
    BY <2>1
<1>3. now \in Nat /\ DOMAIN anchor = 1 .. Len(anchor) /\ Len(anchor) \in Nat
      /\ \A k \in DOMAIN anchor : anchor[k].at \in Nat
  BY FilesGrow, FileFields, SessionAssumption DEF TypeOK
<1>4. ASSUME UNCHANGED anchor, now' = now \/ now' = now + 1
      PROVE  AnchorInv'
  <2>1. \A k \in DOMAIN anchor : anchor[k].at <= now'
    BY <1>1, <1>3, <1>4
  <2>2. \A k \in DOMAIN anchor : anchor[k].type = "pre" => Known2(anchor[k].intent)
    BY <1>1, <1>2
  <2> HIDE DEF Known
  <2>3. QED
    BY <1>1, <1>4, <2>1, <2>2 DEF AnchorInv, HasIntent
<1>5. ASSUME NEW r \in Records, anchor' \in {anchor, Append(anchor, r)}, now' = now,
             r.at = now, Honest(r), r.type = "pre" => Known(r.intent),
             r.type = "pre" => \A k \in DOMAIN anchor : anchor[k].intent # r.intent
      PROVE  AnchorInv'
  <2>1. /\ \A k \in DOMAIN anchor : k \in DOMAIN anchor' /\ anchor'[k] = anchor[k]
        /\ \A k \in DOMAIN anchor' :
             k \in DOMAIN anchor \/ (k = Len(anchor) + 1 /\ anchor'[k] = r)
    BY <1>5, FilesGrow
  <2>2. \A k \in DOMAIN anchor' : anchor'[k].at <= now /\ Honest(anchor'[k])
    <3> HIDE DEF Honest
    <3>1. QED
      BY <1>1, <1>3, <1>5, <2>1
  <2>3. \A k \in DOMAIN anchor' : anchor'[k].type = "pre" => Known2(anchor'[k].intent)
    <3> HIDE DEF Known, Known2
    <3>1. QED
      BY <1>1, <1>2, <1>5, <2>1
  <2> HIDE DEF Known, Known2
  <2>4. ASSUME NEW j \in DOMAIN anchor', NEW k \in DOMAIN anchor', j <= k
        PROVE  anchor'[j].at <= anchor'[k].at
    <3>1. CASE j \in DOMAIN anchor /\ k \in DOMAIN anchor
      BY <1>1, <2>1, <2>4, <3>1
    <3>2. CASE k = Len(anchor) + 1 /\ anchor'[k] = r
      BY <1>5, <2>2, <2>4, <3>2
    <3>3. CASE j = Len(anchor) + 1 /\ k \in DOMAIN anchor
      BY <1>3, <2>4, <3>3
    <3>4. QED
      BY <2>1, <2>4, <3>1, <3>2, <3>3
  <2>5. ASSUME NEW j \in DOMAIN anchor', NEW k \in DOMAIN anchor',
               anchor'[j].intent = anchor'[k].intent, anchor'[j].type = "pre",
               anchor'[k].type = "post"
        PROVE  j < k
    <3>1. CASE j \in DOMAIN anchor /\ k \in DOMAIN anchor
      BY <1>1, <2>1, <2>5, <3>1
    <3>2. CASE j \in DOMAIN anchor /\ k = Len(anchor) + 1
      BY <1>3, <3>2
    <3>3. CASE anchor'[j] = r /\ k \in DOMAIN anchor
      BY <1>5, <2>1, <2>5, <3>3
    <3>4. CASE anchor'[j] = r /\ anchor'[k] = r
      BY <2>5, <3>4
    <3>5. QED
      BY <2>1, <2>5, <3>1, <3>2, <3>3, <3>4
  <2>6. QED
    BY <1>5, <2>2, <2>3, <2>4, <2>5 DEF AnchorInv, HasIntent, Known2
<1>6. CASE Works
  BY <1>4, <1>6 DEF Works
<1>7. ASSUME NEW p \in Procs, Closes(p) \/ Begins(p) \/ Grants(p) \/ Dies(p) PROVE AnchorInv'
  BY <1>4, <1>7 DEF Closes, Begins, Grants, Dies
<1>8. ASSUME NEW p \in Procs, Commits(p) PROVE AnchorInv'
  <2>1. PICK r \in Records :
          /\ r.type = "pre" /\ r.intent = proc[p].intent /\ r.commitment = proc[p].intent
          /\ r.at = now /\ anchor' \in {anchor, Append(anchor, r)}
    BY <1>8 DEF Commits, Anchors
  <2>2. now' = now /\ Creating(p) /\ proc[p].pc = "pre"
    BY <1>8 DEF Commits, Creating
  <2>3. Known(r.intent) /\ \A k \in DOMAIN anchor : anchor[k].intent # r.intent
    BY <1>8, <2>1, <2>2 DEF IntentInv, HasIntent
  <2>4. QED
    BY <1>5, <2>1, <2>2, <2>3
<1>9. ASSUME NEW p \in Procs, NEW i \in 1 .. intents, Confirms(p, i) PROVE AnchorInv'
  <2>1. PICK r \in Records :
          /\ r.type = "post" /\ r.intent = i /\ r.commitment \in {i, None}
          /\ r.at = now /\ anchor' \in {anchor, Append(anchor, r)}
    BY <1>9 DEF Confirms, Anchors
  <2>2. now' = now
    BY <1>9 DEF Confirms
  <2>3. QED
    BY <1>5, <2>1, <2>2
<1>10. CASE Tick \/ UNCHANGED vars
  BY <1>4, <1>10 DEF Tick, vars
<1>11. QED
  BY <1>6, <1>7, <1>8, <1>9, <1>10, Shapes, Zenon

\* Results are appended after their intents.
LEMMA ResultStep ==
    ASSUME TypeOK, CallInv, ControlInv, IntentInv, ResultInv, [Next]_vars
    PROVE  ResultInv'
<1>1. Len(wal) \in Nat /\ DOMAIN wal = 1 .. Len(wal)
  BY FilesGrow
<1>2. CASE Adds({"start", "end"})
  BY <1>2 DEF Adds, ResultInv
<1>3. CASE Works
  <2>1. CASE wal' = wal
    BY <2>1 DEF ResultInv
  <2>2. ASSUME NEW p \in Procs, NEW e \in Entries, WorkEntry(p, e), wal' = Append(wal, e)
        PROVE  ResultInv'
    <3>1. /\ \A k \in DOMAIN wal : k \in DOMAIN wal' /\ wal'[k] = wal[k]
          /\ \A k \in DOMAIN wal' : k \in DOMAIN wal \/ (k = Len(wal) + 1 /\ wal'[k] = e)
      BY <2>2, FilesGrow, Zenon
    <3>2. e.type = "intent" =>
            \A k \in DOMAIN wal : wal[k].type = "result" => wal[k].intent # e.intent
      BY <2>2 DEF WorkEntry, IntentInv, Creating
    <3>3. ASSUME NEW j \in DOMAIN wal', NEW k \in DOMAIN wal', wal'[j].type = "intent",
                 wal'[k].type = "result", wal'[j].intent = wal'[k].intent
          PROVE  j < k
      <4>1. CASE j \in DOMAIN wal /\ k \in DOMAIN wal
        BY <3>1, <3>3, <4>1 DEF ResultInv
      <4>2. CASE j \in DOMAIN wal /\ k = Len(wal) + 1
        BY <1>1, <4>2
      <4>3. CASE wal'[j] = e /\ k \in DOMAIN wal
        BY <3>1, <3>2, <3>3, <4>3
      <4>4. CASE wal'[j] = e /\ wal'[k] = e
        BY <3>3, <4>4
      <4>5. QED
        BY <3>1, <3>3, <4>1, <4>2, <4>3, <4>4
    <3>4. QED
      BY <3>3 DEF ResultInv
  <2>3. QED
    BY <1>3, <2>1, <2>2 DEF Works
<1>4. QED
  BY <1>2, <1>3, WalKept

----------------------------------------------------------------------------
(* Sessions *)

\* An entry is framed when its session has started and not ended.
LEMMA FramedEntry ==
    ASSUME TypeOK, EntriesFramed, NEW e \in Entries, wal' \in {wal, Append(wal, e)},
           unframed \subseteq unframed',
           \/ e.session \in unframed'
           \/ /\ \/ e.type = "start"
                 \/ \E k \in DOMAIN wal : wal[k].type = "start" /\ wal[k].session = e.session
              /\ \A k \in DOMAIN wal : ~(wal[k].type = "end" /\ wal[k].session = e.session)
    PROVE  EntriesFramed'
<1>1. /\ Len(wal) \in Nat /\ DOMAIN wal = 1 .. Len(wal)
      /\ \A k \in DOMAIN wal : k \in DOMAIN wal' /\ wal'[k] = wal[k]
      /\ \A k \in DOMAIN wal' : k \in DOMAIN wal \/ (k = Len(wal) + 1 /\ wal'[k] = e)
  BY FilesGrow
<1>2. SUFFICES ASSUME NEW k \in DOMAIN wal', wal'[k].session \notin unframed'
               PROVE  /\ \E j \in 1 .. k : /\ wal'[j].type = "start"
                                           /\ wal'[j].session = wal'[k].session
                      /\ \A j \in 1 .. k - 1 : ~(/\ wal'[j].type = "end"
                                                 /\ wal'[j].session = wal'[k].session)
  BY DEF EntriesFramed
<1>3. CASE k \in DOMAIN wal
  <2>1. k \in 1 .. Len(wal) /\ wal'[k] = wal[k] /\ wal[k].session \notin unframed
    BY <1>1, <1>2, <1>3
  <2>2. \A j \in 1 .. k : j \in DOMAIN wal
    BY <1>1, <2>1
  <2>3. \A j \in 1 .. k - 1 : j \in DOMAIN wal
    BY <1>1, <2>1
  <2>4. PICK j \in 1 .. k : wal[j].type = "start" /\ wal[j].session = wal[k].session
    BY <1>3, <2>1 DEF EntriesFramed
  <2>5. \A i \in 1 .. k - 1 : ~(wal[i].type = "end" /\ wal[i].session = wal[k].session)
    BY <1>3, <2>1 DEF EntriesFramed
  <2>6. wal'[j].type = "start" /\ wal'[j].session = wal'[k].session
    BY <1>1, <2>1, <2>2, <2>4
  <2>7. \A i \in 1 .. k - 1 : ~(wal'[i].type = "end" /\ wal'[i].session = wal'[k].session)
    BY <1>1, <2>1, <2>3, <2>5
  <2>8. QED
    BY <2>4, <2>6, <2>7
<1>4. CASE k = Len(wal) + 1 /\ wal'[k] = e
  <2>1. \A j \in 1 .. k - 1 : j \in DOMAIN wal
    BY <1>1, <1>4
  <2>2. e.session \notin unframed'
    BY <1>2, <1>4
  <2>3. \A j \in 1 .. k - 1 : ~(wal'[j].type = "end" /\ wal'[j].session = e.session)
    BY <1>1, <2>1, <2>2
  <2>4. k \in 1 .. k /\ \A j \in DOMAIN wal : j \in 1 .. k
    BY <1>1, <1>4
  <2>5. \E j \in 1 .. k : wal'[j].type = "start" /\ wal'[j].session = e.session
    <3>1. CASE e.type = "start"
      BY <1>4, <2>4, <3>1
    <3>2. ASSUME NEW j \in DOMAIN wal, wal[j].type = "start" /\ wal[j].session = e.session
          PROVE  \E i \in 1 .. k : wal'[i].type = "start" /\ wal'[i].session = e.session
      BY <1>1, <2>4, <3>2
    <3>3. QED
      BY <2>2, <3>1, <3>2
  <2>6. QED
    BY <1>4, <2>3, <2>5
<1>5. QED
  BY <1>1, <1>2, <1>3, <1>4

\* Sessions stay framed, closed and with one process each.
LEMMA FrameStep ==
    ASSUME TypeOK, CallInv, ControlInv, IdInv, FrameInv, SessionsFramed, [Next]_vars
    PROVE  FrameInv' /\ SessionsFramed'
<1> DEFINE Unique == \A p, q \in Procs :
                       proc[p].session # None /\ proc[p].session = proc[q].session => p = q
           Open(s) == /\ \E k \in DOMAIN wal : wal[k].type = "start" /\ wal[k].session = s
                      /\ \A k \in DOMAIN wal : ~(wal[k].type = "end" /\ wal[k].session = s)
           Open2(s) == /\ \E k \in DOMAIN wal' : wal'[k].type = "start" /\ wal'[k].session = s
                       /\ \A k \in DOMAIN wal' : ~(wal'[k].type = "end" /\ wal'[k].session = s)
           Ended(s) == \E k \in DOMAIN wal : wal[k].type = "end" /\ wal[k].session = s
           Ended2(s) == \E k \in DOMAIN wal' : wal'[k].type = "end" /\ wal'[k].session = s
<1>1. /\ Unique /\ EntriesFramed /\ SessionsClosed
      /\ \A p \in Procs : proc[p].session \notin unframed \cup {None} => Open(proc[p].session)
  BY DEF FrameInv, SessionsFramed
<1>2. \A k \in DOMAIN wal : wal[k].type = "start" =>
        \/ wal[k].session \in unframed \cup killed
        \/ \E p \in Procs : proc[p].session = wal[k].session
        \/ Ended(wal[k].session)
  BY <1>1 DEF SessionsClosed
<1>3. \A k \in DOMAIN wal : k \in DOMAIN wal' /\ wal'[k] = wal[k]
  BY WalKept
<1>4. \A s : Ended(s) => Ended2(s)
  BY <1>3
<1>5. Len(wal) \in Nat /\ DOMAIN wal = 1 .. Len(wal) /\ sessions \in Nat /\ None = 0
  BY FilesGrow, SessionAssumption DEF TypeOK, None
<1>6. ASSUME Unique', EntriesFramed',
             \A p \in Procs : proc'[p].session \notin unframed' \cup {None}
                              => Open2(proc'[p].session),
             \A k \in DOMAIN wal' : wal'[k].type = "start" =>
               \/ wal'[k].session \in unframed' \cup killed'
               \/ \E p \in Procs : proc'[p].session = wal'[k].session
               \/ Ended2(wal'[k].session)
      PROVE  FrameInv' /\ SessionsFramed'
  BY <1>6 DEF FrameInv, SessionsFramed, SessionsClosed
<1>7. ASSUME \A q \in Procs : proc'[q].session = proc[q].session, UNCHANGED <<wal, unframed, killed>>
      PROVE  FrameInv' /\ SessionsFramed'
  <2>1. EntriesFramed'
    BY <1>1, <1>7 DEF EntriesFramed
  <2>2. Unique'
    BY <1>1, <1>7
  <2>3. \A s : Open(s) => Open2(s)
    BY <1>7
  <2> HIDE DEF Open, Open2, Ended, Ended2
  <2>4. QED
    BY <1>1, <1>2, <1>4, <1>6, <1>7, <2>1, <2>2, <2>3
<1>8. CASE Works
  <2>1. /\ \A q \in Procs : proc'[q].session = proc[q].session
        /\ UNCHANGED <<unframed, killed>>
    BY <1>8 DEF Works, WorkMove
  <2>2. CASE wal' = wal
    BY <1>7, <2>1, <2>2
  <2>3. ASSUME NEW p \in Procs, NEW e \in Entries, WorkEntry(p, e), wal' = Append(wal, e)
        PROVE  FrameInv' /\ SessionsFramed'
    <3>1. /\ e.type \notin {"start", "end"} /\ e.session = proc[p].session /\ e.session # None
      BY <2>3 DEF WorkEntry, Entries, None
    <3>2. \A k \in DOMAIN wal' : k \in DOMAIN wal \/ (k = Len(wal) + 1 /\ wal'[k] = e)
      BY <2>3, FilesGrow, Zenon
    <3>3. EntriesFramed'
      <4>1. e.session \notin unframed => Open(e.session)
        BY <1>1, <2>3, <3>1
      <4>2. QED
        BY <1>1, <2>1, <2>3, <4>1, FramedEntry
    <3>4. Unique'
      BY <1>1, <2>1
    <3>5. \A s : Open(s) => Open2(s)
      BY <1>3, <3>1, <3>2
    <3>6. \A k \in DOMAIN wal' : wal'[k].type = "start" => k \in DOMAIN wal /\ wal'[k] = wal[k]
      BY <1>3, <3>1, <3>2
    <3> HIDE DEF Open, Open2, Ended, Ended2
    <3>7. \A q \in Procs : proc'[q].session \notin unframed' \cup {None} => Open2(proc'[q].session)
      BY <1>1, <2>1, <3>5
    <3>8. \A k \in DOMAIN wal' : wal'[k].type = "start" =>
            \/ wal'[k].session \in unframed' \cup killed'
            \/ \E q \in Procs : proc'[q].session = wal'[k].session
            \/ Ended2(wal'[k].session)
      BY <1>2, <1>4, <2>1, <3>6
    <3>9. QED
      BY <1>6, <3>3, <3>4, <3>7, <3>8
  <2>4. QED
    BY <1>8, <2>2, <2>3 DEF Works
<1>9. ASSUME NEW p \in Procs, Closes(p) PROVE FrameInv' /\ SessionsFramed'
  <2> DEFINE s == proc[p].session
  <2>1. /\ s # None /\ proc'[p].session \in {s, None} /\ killed' = killed
        /\ \A q \in Procs : q # p => proc'[q] = proc[q]
    BY <1>9 DEF Closes
  <2>2. PICK e \in Entries :
          /\ e.type = "end" /\ e.session = s
          /\ \/ wal' = Append(wal, e) /\ unframed' = unframed /\ proc'[p].session = None
             \/ wal' \in {wal, Append(wal, e)} /\ unframed' = unframed \cup {s}
    BY <1>9 DEF Closes
  <2>3. unframed \subseteq unframed' /\ wal' \in {wal, Append(wal, e)}
    BY <2>2
  <2>4. /\ \A k \in DOMAIN wal' : k \in DOMAIN wal \/ (k = Len(wal) + 1 /\ wal'[k] = e)
        /\ wal' = Append(wal, e) => Len(wal) + 1 \in DOMAIN wal' /\ wal'[Len(wal) + 1] = e
    BY <2>2, FilesGrow
  <2>5. s \notin unframed => Open(s)
    BY <1>1, <1>9, <2>1
  <2>6. EntriesFramed'
    BY <1>1, <2>2, <2>3, <2>5, FramedEntry
  <2>7. Unique'
    <3>1. ASSUME NEW x \in Procs, NEW y \in Procs, proc'[x].session # None,
                 proc'[x].session = proc'[y].session
          PROVE  x = y
      <4>1. proc'[x].session = proc[x].session
        BY <2>1, <3>1
      <4>2. proc'[y].session = proc[y].session
        BY <2>1, <3>1
      <4>3. QED
        BY <1>1, <3>1, <4>1, <4>2
    <3>2. QED
      BY <3>1
  <2>8. ASSUME NEW q \in Procs, proc'[q].session \notin unframed' \cup {None}
        PROVE  Open2(proc'[q].session)
    <3>1. q # p
      BY <2>1, <2>2, <2>8
    <3>2. proc'[q].session = proc[q].session /\ Open(proc[q].session)
      BY <1>1, <2>1, <2>3, <2>8, <3>1
    <3>3. proc[q].session # s
      BY <1>1, <1>9, <2>1, <2>8, <3>1
    <3>4. \E k \in DOMAIN wal' : wal'[k].type = "start" /\ wal'[k].session = proc[q].session
      BY <1>3, <3>2
    <3>5. \A k \in DOMAIN wal' : ~(wal'[k].type = "end" /\ wal'[k].session = proc[q].session)
      BY <1>3, <2>2, <2>4, <3>2, <3>3
    <3>6. QED
      BY <3>2, <3>4, <3>5
  <2>9. ASSUME NEW k \in DOMAIN wal', wal'[k].type = "start"
        PROVE  \/ wal'[k].session \in unframed' \cup killed'
               \/ \E q \in Procs : proc'[q].session = wal'[k].session
               \/ Ended2(wal'[k].session)
    <3>1. k \in DOMAIN wal /\ wal'[k] = wal[k]
      BY <1>3, <2>2, <2>4, <2>9
    <3>2. CASE wal[k].session \in unframed \cup killed
      BY <2>1, <2>3, <3>1, <3>2
    <3>3. CASE Ended(wal[k].session)
      BY <1>4, <3>1, <3>3
    <3>4. ASSUME NEW q \in Procs, proc[q].session = wal[k].session, q # p
          PROVE  \E x \in Procs : proc'[x].session = wal'[k].session
      BY <2>1, <3>1, <3>4
    <3>5. CASE s = wal[k].session
      <4>1. s \in unframed' \/ Ended2(s)
        <5>1. CASE wal' = Append(wal, e)
          BY <2>2, <2>4, <5>1
        <5>2. CASE unframed' = unframed \cup {s}
          BY <5>2
        <5>3. QED
          BY <2>2, <5>1, <5>2
      <4> HIDE DEF Ended2
      <4>2. QED
        BY <3>1, <3>5, <4>1
    <3> HIDE DEF Ended, Ended2
    <3>6. QED
      BY <1>2, <2>9, <3>1, <3>2, <3>3, <3>4, <3>5
  <2> HIDE DEF Open2, Ended2
  <2>10. QED
    BY <1>6, <2>6, <2>7, <2>8, <2>9
<1>10. ASSUME NEW p \in Procs, Begins(p) PROVE FrameInv' /\ SessionsFramed'
  <2> DEFINE s == sessions + 1
  <2>1. /\ proc[p].session = None /\ proc'[p].session = s /\ killed' = killed
        /\ \A q \in Procs : q # p => proc'[q] = proc[q]
    BY <1>10 DEF Begins
  <2>2. PICK e \in Entries :
          /\ e.type = "start" /\ e.session = s
          /\ \/ wal' = Append(wal, e) /\ unframed' = unframed
             \/ wal' \in {wal, Append(wal, e)} /\ unframed' = unframed \cup {s}
    BY <1>10 DEF Begins
  <2>3. unframed \subseteq unframed' /\ wal' \in {wal, Append(wal, e)}
    BY <2>2
  <2>4. /\ \A k \in DOMAIN wal' : k \in DOMAIN wal \/ (k = Len(wal) + 1 /\ wal'[k] = e)
        /\ wal' = Append(wal, e) => Len(wal) + 1 \in DOMAIN wal' /\ wal'[Len(wal) + 1] = e
    BY <2>2, FilesGrow
  <2>5. /\ \A k \in DOMAIN wal : wal[k].session # s
        /\ \A q \in Procs : proc[q].session # s
    <3>1. \A k \in DOMAIN wal : wal[k].session <= sessions /\ wal[k].session \in Nat
      BY FileFields DEF IdInv
    <3>2. ASSUME NEW q \in Procs PROVE proc[q].session # s
      <4>1. proc[q].session <= sessions /\ proc[q].session \in Nat
        BY <3>2, ProcFields DEF IdInv
      <4>2. QED
        BY <1>5, <4>1
    <3>3. QED
      BY <1>5, <3>1, <3>2
  <2>6. EntriesFramed'
    BY <1>1, <2>2, <2>3, <2>5, FramedEntry
  <2>7. Unique'
    <3>1. ASSUME NEW x \in Procs, NEW y \in Procs, proc'[x].session # None,
                 proc'[x].session = proc'[y].session
          PROVE  x = y
      <4>1. CASE x # p /\ y # p
        BY <1>1, <2>1, <3>1, <4>1
      <4>2. CASE x = p /\ y # p
        BY <2>1, <2>5, <3>1, <4>2
      <4>3. CASE x # p /\ y = p
        BY <2>1, <2>5, <3>1, <4>3
      <4>4. QED
        BY <4>1, <4>2, <4>3
    <3>2. QED
      BY <3>1
  <2>8. ASSUME NEW q \in Procs, proc'[q].session \notin unframed' \cup {None}
        PROVE  Open2(proc'[q].session)
    <3>1. CASE q = p
      <4>1. wal' = Append(wal, e) /\ proc'[q].session = s
        BY <2>1, <2>2, <2>8, <3>1
      <4>2. \E k \in DOMAIN wal' : wal'[k].type = "start" /\ wal'[k].session = s
        BY <2>2, <2>4, <4>1
      <4>3. \A k \in DOMAIN wal' : ~(wal'[k].type = "end" /\ wal'[k].session = s)
        BY <1>3, <2>2, <2>4, <2>5
      <4>4. QED
        BY <4>1, <4>2, <4>3
    <3>2. CASE q # p
      <4>1. proc'[q].session = proc[q].session /\ Open(proc[q].session)
        BY <1>1, <2>1, <2>3, <2>8, <3>2
      <4>2. \E k \in DOMAIN wal' : wal'[k].type = "start" /\ wal'[k].session = proc[q].session
        BY <1>3, <4>1
      <4>3. \A k \in DOMAIN wal' : ~(wal'[k].type = "end" /\ wal'[k].session = proc[q].session)
        BY <1>3, <2>2, <2>4, <4>1
      <4>4. QED
        BY <4>1, <4>2, <4>3
    <3>3. QED
      BY <3>1, <3>2
  <2>9. ASSUME NEW k \in DOMAIN wal', wal'[k].type = "start"
        PROVE  \/ wal'[k].session \in unframed' \cup killed'
               \/ \E q \in Procs : proc'[q].session = wal'[k].session
               \/ Ended2(wal'[k].session)
    <3>1. CASE wal'[k] = e
      BY <1>10, <2>1, <2>2, <3>1
    <3>2. CASE k \in DOMAIN wal /\ wal'[k] = wal[k]
      <4>1. wal[k].session # None
        <5>1. wal[k] \in Entries
          BY <3>2, FileFields
        <5>2. QED
          BY <5>1 DEF Entries, None
      <4>2. CASE wal[k].session \in unframed \cup killed
        BY <2>1, <2>3, <3>2, <4>2
      <4>3. CASE Ended(wal[k].session)
        BY <1>4, <3>2, <4>3
      <4>4. ASSUME NEW q \in Procs, proc[q].session = wal[k].session
            PROVE  \E x \in Procs : proc'[x].session = wal'[k].session
        BY <2>1, <3>2, <4>1, <4>4
      <4> HIDE DEF Ended, Ended2
      <4>5. QED
        BY <1>2, <2>9, <3>2, <4>2, <4>3, <4>4
    <3>3. QED
      BY <1>3, <2>4, <2>9, <3>1, <3>2
  <2> HIDE DEF Open2, Ended2
  <2>10. QED
    BY <1>6, <2>6, <2>7, <2>8, <2>9
<1>11. ASSUME NEW p \in Procs, Grants(p) \/ Commits(p) PROVE FrameInv' /\ SessionsFramed'
  <2>1. /\ \A q \in Procs : proc'[q].session = proc[q].session
        /\ UNCHANGED <<wal, unframed, killed>>
    BY <1>11 DEF Grants, Commits
  <2>2. QED
    BY <1>7, <2>1
<1>12. ASSUME NEW p \in Procs, NEW i \in 1 .. intents, Confirms(p, i)
       PROVE  FrameInv' /\ SessionsFramed'
  <2>1. /\ \A q \in Procs : proc'[q].session = proc[q].session
        /\ UNCHANGED <<wal, unframed, killed>>
    BY <1>12 DEF Confirms
  <2>2. QED
    BY <1>7, <2>1
<1>13. ASSUME NEW p \in Procs, Dies(p) PROVE FrameInv' /\ SessionsFramed'
  <2>1. /\ \A q \in Procs : q # p => proc'[q] = proc[q]
        /\ proc'[p].session = None /\ killed' = killed \cup {proc[p].session}
        /\ UNCHANGED <<wal, unframed>>
    BY <1>13 DEF Dies, Fresh
  <2>2. EntriesFramed'
    BY <1>1, <2>1 DEF EntriesFramed
  <2>3. Unique'
    BY <1>1, <2>1
  <2>4. \A s : Open(s) => Open2(s)
    BY <2>1
  <2> HIDE DEF Open, Open2, Ended, Ended2
  <2>5. \A q \in Procs : proc'[q].session \notin unframed' \cup {None} => Open2(proc'[q].session)
    BY <1>1, <2>1, <2>4
  <2>6. \A k \in DOMAIN wal' : wal'[k].type = "start" =>
            \/ wal'[k].session \in unframed' \cup killed'
            \/ \E q \in Procs : proc'[q].session = wal'[k].session
            \/ Ended2(wal'[k].session)
    BY <1>2, <1>4, <2>1
  <2>7. QED
    BY <1>6, <2>2, <2>3, <2>5, <2>6
<1>14. CASE Tick \/ UNCHANGED vars
  <2>1. UNCHANGED <<wal, proc, unframed, killed>>
    BY <1>14 DEF Tick, vars
  <2>2. QED
    BY <1>7, <2>1
<1>15. QED
  BY <1>8, <1>9, <1>10, <1>11, <1>12, <1>13, <1>14, Shapes, Zenon

----------------------------------------------------------------------------
(* The budget *)

\* The results in a shard are finitely many.
LEMMA FiniteResults ==
    ASSUME NEW w \in Seq(Entries)
    PROVE  IsFiniteSet({k \in DOMAIN w : w[k].type = "result"})
<1>1. Len(w) \in Nat /\ DOMAIN w = 1 .. Len(w)
  OBVIOUS
<1>2. 1 \in Int /\ Len(w) \in Int
  BY <1>1
<1>3. IsFiniteSet(1 .. Len(w))
  BY <1>2, FS_Interval
<1>4. {k \in DOMAIN w : w[k].type = "result"} \in SUBSET (1 .. Len(w))
  BY <1>1
<1>5. QED
  BY <1>3, <1>4, FS_Subset

\* A step of p that leaves its copy alone and takes up no charge.
LEMMA NoCharge ==
    ASSUME TypeOK, NEW p \in Procs, proc' \in [Procs -> Processes],
           \A q \in Procs : q # p => proc'[q] = proc[q],
           proc'[p].copy = proc[p].copy,
           proc'[p].mark = "executed" => proc[p].mark = "executed"
    PROVE  Charging' \subseteq Charging /\ \A q \in Procs : proc'[q].copy = proc[q].copy
BY DEF Charging

\* The steps that write neither the limits file nor a result that is to be charged.
LEMMA UnchargedSteps ==
    ASSUME TypeOK, NEW p \in Procs,
           \/ SnapshotCheck(p) \/ SnapshotAppend(p) \/ IntendCheck(p) \/ IntendAppend(p)
    PROVE  /\ limits' = limits /\ Charging' \subseteq Charging
           /\ \A q \in Procs : proc'[q].copy = proc[q].copy
<1> USE SessionAssumption
<1> DEFINE P == proc[p]
           R == {[P EXCEPT !.pc = "snapshot"], [P EXCEPT !.pc = "load", !.mark = "skipped"],
                 [P EXCEPT !.pc = "load", !.mark = "polled"], [P EXCEPT !.pc = "idle"],
                 [P EXCEPT !.pc = "intent", !.intent = intents + 1],
                 [P EXCEPT !.pc = "pre"], [P EXCEPT !.pc = "idle", !.intent = None]}
<1>1. P \in Processes /\ proc \in [Procs -> Processes]
  BY DEF TypeOK
<1>2. \E r \in R : proc' = [proc EXCEPT ![p] = r]
  BY DEF SnapshotCheck, SnapshotAppend, IntendCheck, IntendAppend, Update
<1>3. limits' = limits
  BY DEF SnapshotCheck, SnapshotAppend, IntendCheck, IntendAppend
<1>4. \A r \in R : r.copy = P.copy /\ (r.mark = "executed" => P.mark = "executed")
  BY <1>1 DEF Processes
<1> HIDE DEF R
<1>5. PICK r \in R : proc' = [proc EXCEPT ![p] = r]
  BY <1>2
<1>6. proc'[p] = r /\ \A q \in Procs : q # p => proc'[q] = proc[q]
  BY <1>1, <1>5
<1>7. \A q \in Procs : proc'[q].copy = proc[q].copy
  BY <1>4, <1>6
<1>8. Charging' \subseteq Charging
  BY <1>4, <1>6 DEF Charging
<1>9. QED
  BY <1>3, <1>7, <1>8

\* The limits file never gets ahead of the results.
LEMMA BudgetStep ==
    ASSUME TypeOK, CallInv, ControlInv, BudgetInv, [Next]_vars
    PROVE  BudgetInv'
<1> DEFINE C == Cardinality(Charging)
           R == Cardinality(Results)
           C2 == Cardinality(Charging')
           R2 == Cardinality(Results')
<1>1. /\ TypeOK' /\ limits.count \in Nat /\ limits'.count \in Nat
      /\ \A q \in Procs : proc[q].copy.count \in Nat /\ proc'[q].copy.count \in Nat
  <2>1. TypeOK'
    BY TypeStep
  <2>2. \A q \in Procs : proc[q].copy \in Limits /\ proc'[q].copy \in Limits
    BY <2>1 DEF TypeOK, Processes
  <2>3. limits \in Limits /\ limits' \in Limits
    BY <2>1 DEF TypeOK
  <2>4. \A s \in Limits : s.count \in Nat
    BY DEF Limits
  <2>5. QED
    BY <2>1, <2>2, <2>3, <2>4
<1>2. IsFiniteSet(Results) /\ IsFiniteSet(Results') /\ Results \subseteq Results'
  <2>1. wal \in Seq(Entries) /\ wal' \in Seq(Entries)
    BY <1>1 DEF TypeOK
  <2>2. \A k \in DOMAIN wal : k \in DOMAIN wal' /\ wal'[k] = wal[k]
    BY WalKept
  <2>3. IsFiniteSet(Results) /\ IsFiniteSet(Results')
    BY <2>1, FiniteResults DEF Results
  <2>4. Results \subseteq Results'
    BY <2>2 DEF Results
  <2>5. QED
    BY <2>3, <2>4
<1>3. /\ IsFiniteSet(Charging) /\ C \in Nat /\ R \in Nat /\ R2 \in Nat /\ R <= R2
      /\ limits.count + C <= R /\ \A q \in Procs : proc[q].copy.count + C <= R
  <2>1. Results \in SUBSET Results'
    BY <1>2
  <2>2. R <= R2
    BY <1>2, <2>1, FS_Subset
  <2>3. IsFiniteSet(Charging)
    BY DEF BudgetInv
  <2>4. C \in Nat /\ R \in Nat /\ R2 \in Nat
    BY <1>2, <2>3, FS_CardinalityType
  <2>5. QED
    BY <2>2, <2>3, <2>4 DEF BudgetInv
<1>4. ASSUME Charging' \subseteq Charging, limits'.count + C <= R,
             \A q \in Procs : proc'[q].copy.count + C <= R
      PROVE  BudgetInv'
  <2>1. Charging' \in SUBSET Charging
    BY <1>4
  <2>2. IsFiniteSet(Charging') /\ C2 <= C
    BY <1>3, <2>1, FS_Subset
  <2>3. C2 \in Nat
    BY <2>2, FS_CardinalityType
  <2> HIDE DEF C, C2, R, R2
  <2>4. limits'.count + C2 <= R2
    BY <1>1, <1>3, <1>4, <2>2, <2>3
  <2>5. ASSUME NEW q \in Procs PROVE proc'[q].copy.count + C2 <= R2
    <3>1. proc'[q].copy.count \in Nat /\ proc'[q].copy.count + C <= R
      BY <1>1, <1>4, <2>5
    <3>2. QED
      BY <1>3, <2>2, <2>3, <3>1
  <2>6. QED
    BY <2>2, <2>4, <2>5 DEF BudgetInv, C2, R2
<1>5. ASSUME limits' = limits, Charging' \subseteq Charging,
             \A q \in Procs : proc'[q].copy = proc[q].copy
      PROVE  BudgetInv'
  BY <1>3, <1>4, <1>5
<1>6. ASSUME NEW p \in Procs,
             \/ SnapshotCheck(p) \/ SnapshotAppend(p) \/ IntendCheck(p) \/ IntendAppend(p)
      PROVE  BudgetInv'
  BY <1>5, <1>6, UnchargedSteps
<1>7. ASSUME NEW p \in Procs, Closes(p) \/ Begins(p) \/ Commits(p) PROVE BudgetInv'
  <2>1. /\ limits' = limits /\ proc' \in [Procs -> Processes]
        /\ \A q \in Procs : q # p => proc'[q] = proc[q]
        /\ proc'[p].copy = proc[p].copy /\ proc'[p].mark = proc[p].mark
    BY <1>7 DEF Closes, Begins, Commits
  <2>2. QED
    BY <1>5, <1>7, <2>1, NoCharge
<1>8. ASSUME NEW p \in Procs, NEW i \in 1 .. intents, Confirms(p, i) PROVE BudgetInv'
  <2>1. /\ limits' = limits /\ proc' \in [Procs -> Processes]
        /\ \A q \in Procs : q # p => proc'[q] = proc[q]
        /\ proc'[p].copy = proc[p].copy /\ proc'[p].mark = proc[p].mark
    BY <1>8 DEF Confirms
  <2>2. QED
    BY <1>5, <1>8, <2>1, NoCharge
<1>9. DefaultState.count = 0 /\ 0 + C <= R
  BY <1>1, <1>3 DEF DefaultState
<1>10. ASSUME NEW p \in Procs, Dies(p) PROVE BudgetInv'
  <2>1. /\ limits' = limits /\ \A q \in Procs : q # p => proc'[q] = proc[q]
        /\ proc'[p].copy = DefaultState /\ proc'[p].mark = "none"
    BY <1>10 DEF Dies, Fresh
  <2>2. Charging' \subseteq Charging
    BY <2>1 DEF Charging
  <2>3. \A q \in Procs : proc'[q].copy.count + C <= R
    BY <1>3, <1>9, <2>1
  <2>4. QED
    BY <1>3, <1>4, <2>1, <2>2, <2>3
<1>11. ASSUME NEW p \in Procs, MarkLoad(p) PROVE BudgetInv'
  <2> DEFINE r == [proc[p] EXCEPT !.pc = "save", !.copy = limits]
  <2>1. /\ limits' = limits /\ proc' = [proc EXCEPT ![p] = r]
        /\ proc \in [Procs -> Processes] /\ proc[p] \in Processes
    BY <1>11 DEF MarkLoad, Update, TypeOK
  <2>2. r.copy = limits /\ r.mark = proc[p].mark
    BY <2>1 DEF Processes
  <2> HIDE DEF r
  <2>3. proc'[p] = r /\ \A q \in Procs : q # p => proc'[q] = proc[q]
    BY <1>11, <2>1
  <2>4. Charging' \subseteq Charging
    BY <2>2, <2>3 DEF Charging
  <2>5. \A q \in Procs : proc'[q].copy.count + C <= R
    BY <1>3, <2>2, <2>3
  <2>6. QED
    BY <1>3, <1>4, <2>1, <2>4, <2>5
<1>12. ASSUME NEW q \in Procs
       PROVE  Saved(q).copy = DefaultState /\ Saved(q).mark = "none"
  <2>1. proc[q] \in Processes
    BY <1>12 DEF TypeOK
  <2>2. QED
    BY <2>1 DEF Saved, Processes
<1>13. ASSUME NEW p \in Procs, NEW x \in Procs, SavesCollide(p, x) PROVE BudgetInv'
  <2>1. /\ limits' = DefaultState /\ proc \in [Procs -> Processes]
        /\ proc' \in {[proc EXCEPT ![p] = Saved(p)],
                      [proc EXCEPT ![p] = Saved(p), ![x] = Saved(x)]}
    BY <1>13 DEF SavesCollide, TypeOK
  <2>2. \A q \in Procs : proc'[q] = proc[q] \/ proc'[q] = Saved(q)
    BY <1>13, <2>1
  <2>3. Charging' \subseteq Charging
    BY <1>12, <2>2 DEF Charging
  <2>4. \A q \in Procs : proc'[q].copy.count + C <= R
    BY <1>3, <1>9, <1>12, <2>2
  <2>5. QED
    BY <1>4, <1>9, <2>1, <2>3, <2>4
<1>14. ASSUME NEW p \in Procs, MarkSave(p) PROVE BudgetInv'
  <2> DEFINE copy == proc[p].copy
             mark == proc[p].mark
  <2>1. /\ limits' = limits \/ limits' = Marked(copy, mark)
        /\ proc' = [proc EXCEPT ![p] = Saved(p)] /\ proc \in [Procs -> Processes]
        /\ UNCHANGED wal
    BY <1>14 DEF MarkSave, Update, TypeOK
  <2>2. proc'[p] = Saved(p) /\ \A q \in Procs : q # p => proc'[q] = proc[q]
    BY <1>14, <2>1
  <2>3. Charging' = Charging \ {p}
    BY <1>12, <1>14, <2>2 DEF Charging
  <2>4. \A q \in Procs : proc'[q].copy.count + C <= R
    BY <1>3, <1>9, <1>12, <1>14, <2>2
  <2>5. copy \in Limits /\ copy.count \in Nat /\ copy.count + C <= R
    BY <1>1, <1>3, <1>14, ProcFields
  <2>6. /\ mark # "executed" => Marked(copy, mark).count = copy.count
        /\ Marked(copy, mark).count <= copy.count + 1
    BY <2>5, MarkedType
  <2>7. Charging' \subseteq Charging
    BY <2>3
  <2>8. CASE limits' = limits
    BY <1>3, <1>4, <2>4, <2>7, <2>8
  <2>9. CASE mark # "executed" /\ limits' = Marked(copy, mark)
    <3>1. limits'.count + C <= R
      BY <2>5, <2>6, <2>9
    <3>2. QED
      BY <1>4, <2>4, <2>7, <3>1
  <2>10. CASE mark = "executed" /\ limits' = Marked(copy, mark)
    <3>1. p \in Charging
      BY <1>14, <2>10 DEF Charging
    <3>2. IsFiniteSet(Charging') /\ C2 = C - 1
      <4>1. /\ IsFiniteSet(Charging \ {p})
            /\ Cardinality(Charging \ {p}) = Cardinality(Charging) - 1
        BY <1>3, <3>1, FS_RemoveElement
      <4>2. QED
        BY <2>3, <4>1
    <3>3. C2 \in Nat
      BY <3>2, FS_CardinalityType
    <3>4. limits'.count <= copy.count + 1
      BY <2>6, <2>10
    <3> HIDE DEF C, C2, R, R2, copy, mark
    <3>5. limits'.count + C2 <= R2
      BY <1>1, <1>3, <2>5, <3>2, <3>3, <3>4
    <3>6. ASSUME NEW q \in Procs PROVE proc'[q].copy.count + C2 <= R2
      <4>1. proc'[q].copy.count \in Nat /\ proc'[q].copy.count + C <= R
        BY <1>1, <2>4, <3>6
      <4>2. QED
        BY <1>3, <3>2, <3>3, <4>1
    <3>7. QED
      BY <3>2, <3>5, <3>6 DEF BudgetInv, C2, R2
  <2>11. QED
    BY <2>1, <2>8, <2>9, <2>10
<1>15. ASSUME NEW p \in Procs, ConfirmAction(p) PROVE BudgetInv'
  <2> DEFINE i == proc[p].intent
             e == EntryOf("result", proc[p].session, i)
             a == [proc[p] EXCEPT !.pc = "idle", !.intent = None]
             b == [a EXCEPT !.pc = "load", !.mark = "executed", !.held = @ \ {i}]
  <2>1. /\ limits' = limits
        /\ \/ Update(p, a)
           \/ proc[p].session # None /\ Stored(e) /\ Update(p, b)
    BY <1>15 DEF ConfirmAction
  <2>2. proc[p] \in Processes /\ proc \in [Procs -> Processes]
    BY <1>15 DEF TypeOK
  <2>3. /\ a.copy = proc[p].copy /\ a.mark = proc[p].mark
        /\ b.copy = proc[p].copy /\ b.mark = "executed"
    BY <2>2 DEF Processes
  <2> HIDE DEF a, b
  <2>4. CASE Update(p, a)
    <3>1. proc'[p] = a /\ \A q \in Procs : q # p => proc'[q] = proc[q]
      BY <1>15, <2>2, <2>4 DEF Update
    <3>2. Charging' \subseteq Charging /\ \A q \in Procs : proc'[q].copy = proc[q].copy
      BY <2>3, <3>1 DEF Charging
    <3>3. QED
      BY <1>5, <2>1, <3>2
  <2>5. CASE proc[p].session # None /\ Stored(e) /\ Update(p, b)
    <3>1. proc'[p] = b /\ \A q \in Procs : q # p => proc'[q] = proc[q]
      BY <1>15, <2>2, <2>5 DEF Update
    <3>2. Charging' \in SUBSET (Charging \cup {p})
      BY <3>1 DEF Charging
    <3>3. \A q \in Procs : proc'[q].copy = proc[q].copy
      BY <2>3, <3>1
    <3>4. e \in Entries /\ e.type = "result"
      <4>1. proc[p].session \in 1 .. MaxCalls /\ i \in 0 .. MaxCalls
        BY <2>2, <2>5, SessionAssumption DEF Processes, None
      <4>2. QED
        BY <4>1, EntryType
    <3>5. wal' = Append(wal, e)
      BY <2>5 DEF Stored
    <3> HIDE DEF e
    <3>6. /\ Len(wal) + 1 \in DOMAIN wal' /\ wal'[Len(wal) + 1] = e
          /\ Len(wal) \in Nat /\ DOMAIN wal = 1 .. Len(wal)
      BY <3>4, <3>5, FilesGrow, Zenon
    <3>7. Len(wal) + 1 \notin Results
      <4>1. Len(wal) + 1 \notin 1 .. Len(wal)
        BY <3>6
      <4>2. QED
        BY <3>6, <4>1 DEF Results
    <3>8. Len(wal) + 1 \in Results'
      BY <3>4, <3>6 DEF Results
    <3>9. Results \cup {Len(wal) + 1} \in SUBSET Results'
      BY <1>2, <3>8
    <3>10. /\ IsFiniteSet(Results \cup {Len(wal) + 1})
           /\ Cardinality(Results \cup {Len(wal) + 1}) = R + 1
      BY <1>2, <3>7, AddOne
    <3>11. R + 1 <= R2
      BY <1>2, <3>9, <3>10, FS_Subset
    <3>12. /\ IsFiniteSet(Charging \cup {p}) /\ Cardinality(Charging \cup {p}) \in Nat
           /\ Cardinality(Charging \cup {p}) <= C + 1
      BY <1>3, AddOne
    <3>13. IsFiniteSet(Charging') /\ C2 <= Cardinality(Charging \cup {p})
      BY <3>2, <3>12, FS_Subset
    <3>14. C2 \in Nat
      BY <3>13, FS_CardinalityType
    <3> HIDE DEF C, C2, R, R2
    <3>15. C2 <= C + 1
      BY <1>3, <3>12, <3>13, <3>14
    <3>16. limits'.count + C2 <= R2
      BY <1>1, <1>3, <2>1, <3>11, <3>14, <3>15
    <3>17. ASSUME NEW q \in Procs PROVE proc'[q].copy.count + C2 <= R2
      <4>1. proc'[q].copy.count \in Nat /\ proc'[q].copy.count + C <= R
        BY <1>1, <1>3, <3>3, <3>17
      <4>2. QED
        BY <1>3, <3>11, <3>14, <3>15, <4>1
    <3>18. QED
      BY <3>13, <3>16, <3>17 DEF BudgetInv, C2, R2
  <2>6. QED
    BY <2>1, <2>4, <2>5
<1>16. CASE Tick \/ UNCHANGED vars
  <2>1. UNCHANGED <<limits, proc>>
    BY <1>16 DEF Tick, vars
  <2>2. QED
    BY <1>5, <2>1 DEF Charging
<1>17. ASSUME NEW p \in Procs, AutoClose(p) \/ EndSession(p) \/ BeginSession(p) \/ PreCommit(p)
       PROVE  BudgetInv'
  BY <1>7, <1>17, ClosesStep, BeginsStep, CommitsStep
<1>18. ASSUME NEW p \in Procs, Crash(p) PROVE BudgetInv'
  BY <1>10, <1>18, DiesStep
<1>19. ASSUME NEW p \in Procs, NEW i \in 1 .. intents, PostCommit(p, i) PROVE BudgetInv'
  BY <1>8, <1>19, ConfirmsStep
<1>20. QED
  BY <1>6, <1>11, <1>13, <1>14, <1>15, <1>16, <1>17, <1>18, <1>19, Zenon DEF Next

----------------------------------------------------------------------------
(* The theorems *)

\* The invariant holds at the start.
LEMMA SessionStart ==
    ASSUME Init
    PROVE  SessionInv
<1> USE SessionAssumption
<1>1. Fresh \in Processes /\ DefaultState \in Limits
  BY DEF Fresh, Processes, DefaultState, Limits, None
<1>2. /\ wal = <<>> /\ anchor = <<>> /\ proc = [p \in Procs |-> Fresh]
      /\ DOMAIN wal = {} /\ DOMAIN anchor = {} /\ wal \in Seq(Entries) /\ anchor \in Seq(Records)
      /\ proc \in [Procs -> Processes] /\ \A p \in Procs : proc[p] = Fresh
  BY <1>1 DEF Init
<1>3. TypeOK
  BY <1>1, <1>2 DEF Init, TypeOK
<1>4. CallInv
  <2>1. Beginning = {}
    BY <1>2 DEF Beginning, Fresh
  <2>2. QED
    BY <2>1, FS_EmptySet DEF Init, CallInv
<1>5. IdInv /\ ControlInv
  BY <1>2 DEF Init, IdInv, ControlInv, Fresh, None
<1>6. IntentInv /\ AnchorInv /\ ResultInv
  BY <1>2 DEF IntentInv, AnchorInv, ResultInv, Creating, Fresh
<1>7. FrameInv /\ SessionsFramed
  BY <1>2 DEF FrameInv, SessionsFramed, EntriesFramed, SessionsClosed, Fresh
<1>8. BudgetInv
  <2>1. Charging = {} /\ Results = {}
    BY <1>2 DEF Charging, Results, Fresh
  <2>2. limits.count = 0 /\ \A p \in Procs : proc[p].copy.count = 0
    BY <1>2 DEF Init, Fresh, DefaultState
  <2>3. QED
    BY <2>1, <2>2, FS_EmptySet DEF BudgetInv
<1>9. QED
  BY <1>3, <1>4, <1>5, <1>6, <1>7, <1>8 DEF SessionInv

\* Every step keeps it.
LEMMA SessionStep ==
    ASSUME SessionInv, [Next]_vars
    PROVE  SessionInv'
BY TypeStep, CallStep, IdStep, IntentStep, AnchorStep, ResultStep, FrameStep, BudgetStep
DEF SessionInv

\* The last record of a kind.
LEMMA LastRecord ==
    ASSUME TypeOK, NEW S, S \subseteq DOMAIN anchor, S # {}
    PROVE  (CHOOSE k \in S : \A j \in S : j <= k) \in S
<1>1. DOMAIN anchor = 1 .. Len(anchor) /\ Len(anchor) \in Nat
  BY DEF TypeOK
<1>2. \E k \in S : \A j \in S : j <= k
  BY <1>1, GreatestPosition
<1>3. QED
  BY <1>2, Zenon

\* An anchor log in order accuses nobody.
LEMMA HonestAnchors ==
    ASSUME TypeOK, AnchorInv
    PROVE  AnchorsHonest
<1>1. SUFFICES ASSUME NEW i \in 1 .. MaxCalls
               PROVE  /\ VerifyCommitment(i) \in {"INCOMPLETE", "VERIFIED"}
                      /\ VerifyCommitment(i) = "VERIFIED" => HasIntent(i)
  BY DEF AnchorsHonest, HasIntent
<1> DEFINE of(type) == {k \in DOMAIN anchor : anchor[k].type = type /\ anchor[k].intent = i}
           pre == CHOOSE k \in of("pre") : \A j \in of("pre") : j <= k
           post == CHOOSE k \in of("post") : \A j \in of("post") : j <= k
<1>2. CASE of("pre") = {} \/ of("post") = {}
  <2>1. VerifyCommitment(i) = "INCOMPLETE"
    BY <1>2 DEF VerifyCommitment
  <2>2. QED
    BY <2>1
<1>3. CASE of("pre") # {} /\ of("post") # {}
  <2>1. of("pre") \subseteq DOMAIN anchor /\ of("post") \subseteq DOMAIN anchor
    OBVIOUS
  <2>2. pre \in of("pre") /\ post \in of("post")
    <3> HIDE DEF of
    <3>1. QED
      BY <1>3, <2>1, LastRecord
  <2>3. /\ pre \in DOMAIN anchor /\ anchor[pre].type = "pre" /\ anchor[pre].intent = i
        /\ post \in DOMAIN anchor /\ anchor[post].type = "post" /\ anchor[post].intent = i
    BY <2>2
  <2>4. VerifyCommitment(i) =
          IF of("pre") = {} \/ of("post") = {} THEN "INCOMPLETE"
          ELSE IF anchor[post].at < anchor[pre].at THEN "SEQUENCE_VIOLATION"
          ELSE IF /\ anchor[post].commitment # None
                  /\ anchor[post].commitment # anchor[pre].commitment THEN "HASH_MISMATCH"
          ELSE "VERIFIED"
    BY DEF VerifyCommitment
  <2> HIDE DEF pre, post, of
  <2>5. pre < post
    BY <2>3 DEF AnchorInv
  <2>6. pre <= post
    <3>1. pre \in Nat /\ post \in Nat
      <4>1. DOMAIN anchor = 1 .. Len(anchor) /\ Len(anchor) \in Nat
        BY DEF TypeOK
      <4>2. QED
        BY <2>3, <4>1
    <3>2. QED
      BY <2>5, <3>1
  <2>7. ~(anchor[post].at < anchor[pre].at)
    <3>1. anchor[pre].at <= anchor[post].at
      BY <2>3, <2>6 DEF AnchorInv
    <3>2. anchor[pre].at \in Nat /\ anchor[post].at \in Nat
      BY <2>3, FileFields
    <3>3. QED
      BY <3>1, <3>2
  <2>8. anchor[pre].commitment = i /\ HasIntent(i) /\ anchor[post].commitment \in {None, i}
    BY <2>3 DEF AnchorInv
  <2>9. QED
    BY <1>3, <2>4, <2>7, <2>8
<1>4. QED
  BY <1>2, <1>3

\* A search among the newest entries that finds an intent finds its results too.
LEMMA RealOrphans ==
    ASSUME TypeOK, ResultInv
    PROVE  OrphansAreReal
<1>1. Len(wal) \in Nat /\ DOMAIN wal = 1 .. Len(wal) /\ Window \in Nat
  BY SessionAssumption DEF TypeOK
<1>2. SUFFICES ASSUME NEW i \in Orphans, NEW j \in DOMAIN wal, wal[j].type = "result",
                      wal[j].intent = i
               PROVE  FALSE
  BY DEF OrphansAreReal
<1>3. PICK k \in Recent : wal[k].type = "intent" /\ wal[k].intent = i
  BY <1>2 DEF Orphans
<1>4. k \in DOMAIN wal /\ k > Len(wal) - Window
  BY <1>3 DEF Recent
<1>5. k < j
  BY <1>2, <1>3, <1>4 DEF ResultInv
<1>6. j > Len(wal) - Window
  <2>1. j \in Nat /\ k \in Nat
    BY <1>1, <1>2, <1>4
  <2>2. QED
    BY <1>1, <1>4, <1>5, <2>1
<1>7. j \in Recent
  BY <1>2, <1>6 DEF Recent
<1>8. i \in {wal[m].intent : m \in {m \in Recent : wal[m].type = "result"}}
  BY <1>2, <1>7
<1>9. QED
  BY <1>2, <1>8 DEF Orphans

\* The invariant, for every behaviour.
THEOREM SessionInvariant == Spec => []SessionInv
<1>1. Init => SessionInv
  BY SessionStart
<1>2. SessionInv /\ [Next]_vars => SessionInv'
  BY SessionStep
<1>3. QED
  BY <1>1, <1>2, PTL DEF Spec

\* SessionGraph, SessionLimitsManager and AnchorLog keep their files well formed: no entry
\* is appended without a session, and no id is taken twice.
THEOREM SessionTypes == Spec => []TypeOK
<1>1. SessionInv => TypeOK
  BY DEF SessionInv
<1>2. QED
  BY <1>1, SessionInvariant, PTL

\* AnchorLog.verify_commitment and find_orphaned_intents: whatever is retried, fails or is
\* killed between the accesses to the two files, no honest agent is accused, and no intent
\* is reported as orphaned that has a result, whatever the window of the search.
THEOREM NobodyAccused == Spec => []CommitmentsHonest
<1>1. SessionInv => CommitmentsHonest
  BY HonestAnchors, RealOrphans DEF SessionInv, CommitmentsHonest
<1>2. QED
  BY <1>1, SessionInvariant, PTL

\* SessionGraph.start_session and end_session: the entries of a session lie between its
\* start and its end, and a session is left open by a known failure only.
THEOREM SessionsRecordedWhole == Spec => []SessionsFramed
<1>1. SessionInv => SessionsFramed
  BY DEF SessionInv
<1>2. QED
  BY <1>1, SessionInvariant, PTL

\* SessionLimitsManager: lost updates and torn saves never make the file count an action
\* that has no result in the sessions shard.
THEOREM NoActionChargedTwice == Spec => []BudgetChargedByResults
<1>1. ASSUME SessionInv
      PROVE  BudgetChargedByResults
  <2>1. /\ limits.count + Cardinality(Charging) <= Cardinality(Results)
        /\ IsFiniteSet(Charging)
    BY <1>1 DEF SessionInv, BudgetInv
  <2>2. Cardinality(Charging) \in Nat
    BY <2>1, FS_CardinalityType
  <2>3. limits.count \in Nat
    BY <1>1 DEF SessionInv, TypeOK, Limits
  <2>4. Cardinality(Results) \in Nat
    <3>1. wal \in Seq(Entries)
      BY <1>1 DEF SessionInv, TypeOK
    <3>2. IsFiniteSet(Results)
      BY <3>1, FiniteResults DEF Results
    <3>3. QED
      BY <3>2, FS_CardinalityType
  <2>5. QED
    BY <2>1, <2>2, <2>3, <2>4 DEF BudgetChargedByResults
<1>2. QED
  BY <1>1, SessionInvariant, PTL
=============================================================================
