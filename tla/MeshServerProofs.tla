------------------------- MODULE MeshServerProofs -------------------------
(* Theorems about MeshServer, for every set of agents, capabilities and     *)
(* request slots and every bound.                                           *)
EXTENDS MeshServer, OrderLemmas

----------------------------------------------------------------------------
(* The inductive invariant *)

\* An event is on record: in events.jsonl, or refused by the writer.
Recorded(e) == e \in unlogged \/ \E i \in DOMAIN log : log[i] = e

\* What a request that awaits the index knows: the event it wrote, and that its task was
\* created in this run of the server.
RequestKnows(s) ==
    /\ server = "up"
    /\ req[s].event \in DOMAIN log
    /\ req[s].op \in {"register", "submit"} => req[s].agent \in Agents
    /\ req[s].op \in {"create", "submit"} =>
         req[s].task \in 1 .. created /\ Recorded(Event("task_created", req[s].task, None))
    /\ req[s].op = "submit" =>
         LET e == log[req[s].event]
         IN  e.type = "task_result_submitted" /\ e.task = req[s].task /\ e.agent = req[s].agent
    /\ req[s].op = "mission" =>
         log[req[s].event].type = "mission_created" /\ log[req[s].event].task = req[s].task
    /\ req[s].op = "create" /\ req[s].at = "index" => req[s].copy.to = None

RequestInv == \A s \in Slots : req[s].at # "idle" => RequestKnows(s)

\* A server that is not up has an empty memory, and one that awaits the index for its
\* lifecycle event has written it.
DownInv ==
    /\ server # "up" => registered = {} /\ missions = {} /\ tasks = [t \in TaskIds |-> NoTask]
    /\ server \in {"starting", "stopping"} => Len(log) \in DOMAIN log

\* The registry and the tasks of the running server are on record, and a task nobody was
\* given has no assignee.
MemoryInv ==
    /\ \A a \in registered : Recorded(Event("agent_registered", None, a))
    /\ \A t \in TaskIds : tasks[t].status # "none" =>
         t <= created /\ Recorded(Event("task_created", t, None))
    /\ \A t \in TaskIds : tasks[t].status \in {"none", "pending"} => tasks[t].to = None

\* The inductive invariant of the server.
MeshInv ==
    /\ TypeOK /\ RequestInv /\ DownInv /\ MemoryInv
    /\ ReceiptsDurable /\ ResultsGrounded /\ MissionsRecorded /\ StartsSeparated

----------------------------------------------------------------------------
(* The log *)

\* The log keeps what it holds.
LogGrows ==
    /\ log' \in Seq(EventRecord)
    /\ DOMAIN log \subseteq DOMAIN log'
    /\ \A i \in DOMAIN log : log'[i] = log[i]

\* Event makes an event of this run of the server.
LEMMA EventType ==
    ASSUME TypeOK,
           NEW type \in EventTypes, NEW task \in Nat, NEW agent \in Agents \cup {None}
    PROVE  Event(type, task, agent) \in EventRecord
BY MeshAssumption DEF Event, EventRecord, TypeOK

\* So does the lifecycle event of a start, which counts the new run.
LEMMA BootEvent ==
    ASSUME TypeOK
    PROVE  [Event(IF DetectRecovery THEN "server_recovered" ELSE "server_started",
                  None, None) EXCEPT !.run = boots + 1] \in EventRecord
<1>1. boots + 1 \in Nat
  BY MeshAssumption DEF TypeOK
<1>2. QED
  BY <1>1 DEF Event, EventRecord, EventTypes, None

\* write() appends at the end and changes nothing before it.
LEMMA WrittenGrows ==
    ASSUME TypeOK, NEW e \in EventRecord, Written(e)
    PROVE  /\ LogGrows
           /\ DOMAIN log = 1 .. Len(log) /\ Len(log) \in Nat
           /\ Len(log') = Len(log) + 1 /\ DOMAIN log' = 1 .. Len(log) + 1
           /\ log'[Len(log) + 1] = e
           /\ refusals' = refusals
<1>1. log \in Seq(EventRecord) /\ log' = Append(log, e) /\ refusals' = refusals
  BY DEF TypeOK, Written
<1>2. /\ DOMAIN log = 1 .. Len(log) /\ Len(log) \in Nat
      /\ log' \in Seq(EventRecord) /\ Len(log') = Len(log) + 1
      /\ DOMAIN log' = 1 .. Len(log) + 1
  BY <1>1
<1>3. log'[Len(log) + 1] = e /\ \A i \in 1 .. Len(log) : log'[i] = log[i]
  BY <1>1
<1>4. QED
  BY <1>1, <1>2, <1>3 DEF LogGrows

\* A refused write leaves the log alone.
LEMMA RefusedKeeps ==
    ASSUME TypeOK, Refused
    PROVE  LogGrows /\ log' = log /\ refusals' \in 0 .. MaxRefusals
BY MeshAssumption DEF TypeOK, Refused, LogGrows

\* A log that is not touched grows trivially.
LEMMA SameLog ==
    ASSUME TypeOK, UNCHANGED log
    PROVE  LogGrows
BY DEF TypeOK, LogGrows

\* Scheduling gives an agent that is registered and able.
LEMMA RoundRobinPicks ==
    ASSUME TypeOK, NEW type, Candidates(type) # {}
    PROVE  RoundRobin(type) \in Candidates(type)
<1> DEFINE able == Candidates(type)
           k == cursor % Cardinality(able)
           Rank(a) == a \in able /\ Cardinality({b \in able : b < a}) = k
<1>1. able \subseteq Agents /\ Agents \subseteq Nat /\ IsFiniteSet(Agents)
  BY MeshAssumption DEF Candidates, TypeOK
<1>2. IsFiniteSet(able) /\ able \subseteq Nat
  BY <1>1, FS_Subset
<1> HIDE DEF able
<1>3. Cardinality(able) \in Nat \ {0}
  <2>1. Cardinality(able) \in Nat
    BY <1>2, FS_CardinalityType
  <2>2. able # {}
    BY DEF able
  <2>3. Cardinality(able) # 0
    BY <1>2, <2>2, FS_EmptySet, Zenon
  <2>4. QED
    BY <2>1, <2>3
<1>4. cursor \in Nat
  BY DEF TypeOK
<1>5. k \in Nat /\ k < Cardinality(able)
  BY <1>3, <1>4
<1> HIDE DEF k
<1>6. \E a \in able : Cardinality({b \in able : b < a}) = k
  BY <1>2, <1>5, RankExists
<1>7. Rank(CHOOSE a : Rank(a))
  <2>1. \E a : Rank(a)
    BY <1>6
  <2> HIDE DEF Rank
  <2>2. QED
    BY <2>1, Zenon
<1>8. RoundRobin(type) = CHOOSE a \in able : Cardinality({b \in able : b < a}) = k
  BY DEF RoundRobin, able, k
<1>9. RoundRobin(type) \in able
  BY <1>7, <1>8, Zenon
<1>10. QED
  BY <1>9 DEF able

\* What a handler that resumes writes into the index is a position of the log.
LEMMA ResumeType ==
    ASSUME TypeOK, RequestInv, NEW s \in Slots, NEW op, NEW at, at # "idle",
           Resume(s, op, at)
    PROVE  /\ server = "up" /\ RequestKnows(s) /\ req[s] \in Request
           /\ req[s].op = op /\ req[s].at = at
           /\ indexed' = indexed \cup {req[s].event}
           /\ indexed' \subseteq DOMAIN log
BY DEF TypeOK, RequestInv, RequestKnows, Resume

\* Idle is a request, and an answered slot holds it.
LEMMA FinishType ==
    ASSUME TypeOK, NEW s \in Slots, Finish(s)
    PROVE  req' \in [Slots -> Request]
<1>1. Idle \in Request
  BY DEF Idle, Request, NoTask, Task, None
<1>2. QED
  BY <1>1 DEF Finish, TypeOK

\* A slot that awaits the index holds a request.
LEMMA AwaitType ==
    ASSUME TypeOK, NEW s \in Slots,
           NEW op \in {"register", "mission", "create", "submit", "context"},
           NEW at \in {"index", "store", "assigned"}, NEW task \in Nat,
           NEW agent \in Agents \cup {None}, NEW copy \in Task,
           Await(s, op, at, task, agent, copy)
    PROVE  /\ req' \in [Slots -> Request]
           /\ req'[s] = [op |-> op, at |-> at, task |-> task, agent |-> agent,
                         copy |-> copy, event |-> Len(log) + 1]
           /\ \A r \in Slots : r # s => req'[r] = req[r]
<1> DEFINE new == [op |-> op, at |-> at, task |-> task, agent |-> agent,
                   copy |-> copy, event |-> Len(log) + 1]
<1>1. Len(log) + 1 \in Nat
  BY DEF TypeOK
<1>2. new \in Request
  BY <1>1 DEF Request
<1>3. req' = [req EXCEPT ![s] = new] /\ req \in [Slots -> Request]
  BY DEF Await, TypeOK
<1> HIDE DEF new
<1>4. /\ req' \in [Slots -> Request] /\ req'[s] = new
      /\ \A r \in Slots : r # s => req'[r] = req[r]
  BY <1>2, <1>3
<1>5. QED
  BY <1>4 DEF new

\* The states of a worker process.
Worker == [state : {"new", "waiting", "ready", "dead"}, job : TaskIds \cup {None}]

\* A worker that gets its answer is in a proper state.
LEMMA ReplyType ==
    ASSUME TypeOK, NEW a, NEW state \in {"new", "waiting", "ready", "dead"}, Reply(a, state)
    PROVE  worker' \in [Agents -> Worker]
BY DEF Reply, TypeOK, Worker, None

\* A worker changes its state ...
LEMMA WorkerMoves ==
    ASSUME TypeOK, NEW a \in Agents, NEW st \in {"new", "waiting", "ready", "dead"},
           worker' = [worker EXCEPT ![a].state = st]
    PROVE  worker' \in [Agents -> Worker]
<1>1. worker \in [Agents -> Worker] /\ worker[a] \in Worker
  BY DEF TypeOK, Worker
<1>2. [worker[a] EXCEPT !.state = st] \in Worker
  BY <1>1 DEF Worker
<1>3. QED
  BY <1>1, <1>2

\* ... or its job.
LEMMA WorkerJob ==
    ASSUME TypeOK, NEW a \in Agents, NEW j \in TaskIds \cup {None},
           worker' = [worker EXCEPT ![a].job = j]
    PROVE  worker' \in [Agents -> Worker]
<1>1. worker \in [Agents -> Worker] /\ worker[a] \in Worker
  BY DEF TypeOK, Worker
<1>2. [worker[a] EXCEPT !.job = j] \in Worker
  BY <1>1 DEF Worker
<1>3. QED
  BY <1>1, <1>2

\* The server rewrites a task with a status and an assignee.
LEMMA TaskUpdate ==
    ASSUME TypeOK, NEW t \in TaskIds, NEW a \in Agents
    PROVE  [tasks EXCEPT ![t].status = "assigned", ![t].to = a] \in [TaskIds -> Task]
<1>1. tasks \in [TaskIds -> Task] /\ tasks[t] \in Task
  BY DEF TypeOK
<1>2. [tasks[t] EXCEPT !.status = "assigned", !.to = a] \in Task
  BY <1>1 DEF Task
<1>3. [tasks EXCEPT ![t].status = "assigned", ![t].to = a]
        = [tasks EXCEPT ![t] = [tasks[t] EXCEPT !.status = "assigned", !.to = a]]
  BY <1>1
<1>4. QED
  BY <1>1, <1>2, <1>3

\* Every step keeps the types, and the log.
LEMMA TypeStep ==
    ASSUME TypeOK, RequestInv, DownInv, [Next]_vars
    PROVE  TypeOK' /\ LogGrows
<1> USE MeshAssumption
<1>1. ASSUME Boot PROVE TypeOK' /\ LogGrows
  <2>1. /\ boots' \in 0 .. MaxBoots /\ server' \in {"starting", "up"}
        /\ UNCHANGED <<memory, stored, indexed, req, worker, receipts, unlogged, opened,
                       created, timeouts, packs>>
    BY <1>1, SMTT(30) DEF Boot, TypeOK
  <2>2. LogGrows /\ refusals' \in 0 .. MaxRefusals
    <3> DEFINE e == [Event(IF DetectRecovery THEN "server_recovered" ELSE "server_started",
                           None, None) EXCEPT !.run = boots + 1]
    <3>1. e \in EventRecord
      BY BootEvent
    <3>2. Written(e) \/ Refused
      BY <1>1 DEF Boot
    <3> HIDE DEF e
    <3>3. QED
      BY <3>1, <3>2, WrittenGrows, RefusedKeeps DEF TypeOK
  <2>3. QED
    BY <2>1, <2>2 DEF TypeOK, Worker, LogGrows, memory
<1>2. ASSUME BootIndexed PROVE TypeOK' /\ LogGrows
  BY <1>2, SameLog DEF BootIndexed, TypeOK, DownInv, memory, bounds
<1>3. ASSUME Stop PROVE TypeOK' /\ LogGrows
  <2>1. LogGrows /\ refusals' \in 0 .. MaxRefusals
    <3>1. Event("server_stopped", None, None) \in EventRecord
      BY EventType DEF EventTypes, None
    <3>2. Written(Event("server_stopped", None, None)) \/ Refused
      BY <1>3 DEF Stop
    <3>3. QED
      BY <3>1, <3>2, WrittenGrows, RefusedKeeps DEF TypeOK
  <2>2. tasks' \in [TaskIds -> Task]
    BY <1>3 DEF Stop, Forget, NoTask, Task, None
  <2>3. QED
    BY <1>3, <2>1, <2>2 DEF Stop, Forget, TypeOK, Worker, LogGrows
<1>4. ASSUME StopIndexed PROVE TypeOK' /\ LogGrows
  BY <1>4, SameLog DEF StopIndexed, TypeOK, DownInv, memory, bounds
<1>5. ASSUME Crash PROVE TypeOK' /\ LogGrows
  <2>1. tasks' \in [TaskIds -> Task]
    BY <1>5 DEF Crash, Forget, NoTask, Task, None
  <2>2. req' \in [Slots -> Request]
    BY <1>5 DEF Crash, Idle, Request, NoTask, Task, None
  <2>3. worker' \in [Agents -> Worker]
    BY <1>5 DEF Crash, TypeOK, Worker
  <2>4. LogGrows
    BY <1>5, SameLog DEF Crash, disk
  <2>5. QED
    BY <1>5, <2>1, <2>2, <2>3, <2>4 DEF Crash, Forget, TypeOK, Worker, disk, bounds
<1>6. ASSUME NEW a \in Agents, NEW s \in Slots, Register(a, s) PROVE TypeOK' /\ LogGrows
  <2>1. Event("agent_registered", None, a) \in EventRecord
    BY EventType DEF EventTypes, None
  <2>2. NoTask \in Task
    BY DEF NoTask, Task, None
  <2>3. registered' \subseteq Agents /\ unlogged' \subseteq EventRecord
    BY <1>6, <2>1 DEF Register, TypeOK
  <2>4. worker' \in [Agents -> Worker]
    <3>1. PICK st \in {"ready", "waiting", "dead"} :
            worker' = [worker EXCEPT ![a].state = st]
      BY <1>6 DEF Register
    <3>2. QED
      BY <1>6, <3>1, WorkerMoves
  <2>5. req' \in [Slots -> Request]
    <3>1. UNCHANGED req \/ Await(s, "register", "index", None, a, NoTask)
      BY <1>6 DEF Register
    <3>2. CASE UNCHANGED req
      BY <3>2 DEF TypeOK
    <3>3. CASE Await(s, "register", "index", None, a, NoTask)
      BY <3>3, <2>2, AwaitType DEF None
    <3>4. QED
      BY <3>1, <3>2, <3>3
  <2>6. LogGrows /\ refusals' \in 0 .. MaxRefusals
    <3>1. \/ UNCHANGED <<log, refusals>> \/ Refused
          \/ Written(Event("agent_registered", None, a))
      BY <1>6 DEF Register
    <3>2. QED
      BY <2>1, <3>1, WrittenGrows, RefusedKeeps, SameLog DEF TypeOK
  <2>7. QED
    BY <1>6, <2>3, <2>4, <2>5, <2>6 DEF Register, TypeOK, Worker, LogGrows
<1>7. ASSUME NEW s \in Slots, RegisterDone(s) PROVE TypeOK' /\ LogGrows
  <2>1. indexed' \subseteq DOMAIN log
    BY <1>7, ResumeType DEF RegisterDone
  <2>2. req' \in [Slots -> Request]
    BY <1>7, FinishType DEF RegisterDone
  <2>3. worker' \in [Agents -> Worker]
    BY <1>7, ReplyType DEF RegisterDone
  <2>4. QED
    BY <1>7, <2>1, <2>2, <2>3, SameLog DEF RegisterDone, TypeOK, Worker, memory, bounds
<1>8. ASSUME NEW a \in Agents, WorkerRestart(a) PROVE TypeOK' /\ LogGrows
  BY <1>8, SameLog DEF WorkerRestart, NewWorker, None, TypeOK, Worker, memory, disk, bounds
<1>9. ASSUME NEW a \in Agents, WorkerTimeout(a) PROVE TypeOK' /\ LogGrows
  <2>1. worker' \in [Agents -> Worker]
    BY <1>9, ReplyType DEF WorkerTimeout
  <2>2. QED
    BY <1>9, <2>1, SameLog DEF WorkerTimeout, TypeOK, Worker, memory, disk
<1>10. ASSUME NEW s \in Slots, CreateMission(s) PROVE TypeOK' /\ LogGrows
  <2>1. opened + 1 \in Nat /\ opened' \in 0 .. MaxMissions
    BY <1>10 DEF CreateMission, TypeOK
  <2>2. Event("mission_created", opened + 1, None) \in EventRecord
    BY <2>1, EventType DEF EventTypes, None
  <2>3. LogGrows /\ refusals' \in 0 .. MaxRefusals
    <3>1. Refused \/ Written(Event("mission_created", opened + 1, None))
      BY <1>10 DEF CreateMission
    <3>2. QED
      BY <2>2, <3>1, WrittenGrows, RefusedKeeps DEF TypeOK
  <2>4. req' \in [Slots -> Request]
    <3>1. UNCHANGED req \/ Await(s, "mission", "index", opened + 1, None, NoTask)
      BY <1>10 DEF CreateMission
    <3>2. NoTask \in Task
      BY DEF NoTask, Task, None
    <3>3. CASE UNCHANGED req
      BY <3>3 DEF TypeOK
    <3>4. CASE Await(s, "mission", "index", opened + 1, None, NoTask)
      BY <3>2, <3>4, <2>1, AwaitType
    <3>5. QED
      BY <3>1, <3>3, <3>4
  <2>5. QED
    BY <1>10, <2>1, <2>3, <2>4 DEF CreateMission, TypeOK, Worker, LogGrows, memory
<1>11. ASSUME NEW s \in Slots, MissionIndexed(s) PROVE TypeOK' /\ LogGrows
  <2>1. indexed' \subseteq DOMAIN log
    BY <1>11, ResumeType DEF MissionIndexed
  <2>2. req' \in [Slots -> Request]
    <3>1. [req[s] EXCEPT !.at = "store"] \in Request
      BY <1>11, ResumeType DEF MissionIndexed, Request
    <3>2. QED
      BY <1>11, <3>1 DEF MissionIndexed, TypeOK
  <2>3. QED
    BY <1>11, <2>1, <2>2, SameLog DEF MissionIndexed, TypeOK, Worker, memory, bounds
<1>12. ASSUME NEW s \in Slots, MissionStored(s) PROVE TypeOK' /\ LogGrows
  <2>1. indexed' \subseteq DOMAIN log /\ req[s] \in Request
    BY <1>12, ResumeType DEF MissionStored
  <2>2. req' \in [Slots -> Request]
    BY <1>12, FinishType DEF MissionStored
  <2>3. missions' \subseteq Nat /\ stored' \subseteq Nat
    BY <1>12, <2>1 DEF MissionStored, TypeOK, Request
  <2>4. QED
    BY <1>12, <2>1, <2>2, <2>3, SameLog DEF MissionStored, TypeOK, Worker, bounds
<1>13. ASSUME NEW s \in Slots, CreateTask(s) PROVE TypeOK' /\ LogGrows
  <2>1. created + 1 \in TaskIds /\ created + 1 \in Nat /\ created' \in 0 .. MaxTasks
    BY <1>13 DEF CreateTask, TypeOK, TaskIds
  <2>2. Event("task_created", created + 1, None) \in EventRecord
    BY <2>1, EventType DEF EventTypes, None
  <2>3. PICK type \in Types :
          LET task == [status |-> "pending", type |-> type, to |-> None]
          IN  /\ tasks' = [tasks EXCEPT ![created + 1] = task]
              /\ \/ /\ Written(Event("task_created", created + 1, None))
                    /\ Await(s, "create", "index", created + 1, None, task)
                    /\ UNCHANGED unlogged
                 \/ /\ Refused
                    /\ unlogged' = unlogged \cup {Event("task_created", created + 1, None)}
                    /\ UNCHANGED req
    BY <1>13 DEF CreateTask
  <2> DEFINE task == [status |-> "pending", type |-> type, to |-> None]
  <2>4. task \in Task
    BY DEF Task, None
  <2>5. tasks' \in [TaskIds -> Task] /\ unlogged' \subseteq EventRecord
    <3>1. tasks' = [tasks EXCEPT ![created + 1] = task] /\ tasks \in [TaskIds -> Task]
      BY <2>3 DEF TypeOK
    <3> HIDE DEF task
    <3>2. tasks' \in [TaskIds -> Task]
      BY <2>4, <3>1
    <3>3. unlogged' \subseteq EventRecord
      BY <2>2, <2>3 DEF TypeOK
    <3>4. QED
      BY <3>2, <3>3
  <2>6. LogGrows /\ refusals' \in 0 .. MaxRefusals
    <3>1. Refused \/ Written(Event("task_created", created + 1, None))
      BY <2>3
    <3>2. QED
      BY <2>2, <3>1, WrittenGrows, RefusedKeeps DEF TypeOK
  <2>7. req' \in [Slots -> Request]
    <3>1. UNCHANGED req \/ Await(s, "create", "index", created + 1, None, task)
      BY <2>3
    <3> HIDE DEF task
    <3>2. CASE UNCHANGED req
      BY <3>2 DEF TypeOK
    <3>3. CASE Await(s, "create", "index", created + 1, None, task)
      BY <2>1, <2>4, <3>3, AwaitType
    <3>4. QED
      BY <3>1, <3>2, <3>3
  <2>8. QED
    BY <1>13, <2>1, <2>5, <2>6, <2>7 DEF CreateTask, TypeOK, Worker, LogGrows
<1>14. ASSUME NEW s \in Slots, AssignTask(s) PROVE TypeOK' /\ LogGrows
  <2>1. /\ RequestKnows(s) /\ req[s] \in Request /\ req[s].op = "create"
        /\ indexed' \subseteq DOMAIN log
    BY <1>14, ResumeType DEF AssignTask
  <2>2. req[s].task \in TaskIds /\ req[s].task \in Nat /\ req[s].copy \in Task
    BY <2>1 DEF RequestKnows, TypeOK, TaskIds, Request
  <2>3. CASE Candidates(req[s].copy.type) = {}
    <3>1. Finish(s) /\ UNCHANGED <<tasks, cursor, log, refusals>>
      BY <1>14, <2>3 DEF AssignTask
    <3>2. req' \in [Slots -> Request]
      BY <3>1, FinishType
    <3>3. QED
      BY <1>14, <2>1, <3>1, <3>2, SameLog DEF AssignTask, TypeOK
  <2>4. CASE Candidates(req[s].copy.type) # {}
    <3> DEFINE t == req[s].task
               a == RoundRobin(req[s].copy.type)
               task == [req[s].copy EXCEPT !.status = "assigned", !.to = a]
    <3>1. a \in Agents
      BY <2>4, RoundRobinPicks DEF Candidates, TypeOK
    <3>2. /\ cursor' = cursor + 1 /\ tasks' = [tasks EXCEPT ![t] = task]
          /\ \/ Written(Event("task_assigned", t, a)) /\ Await(s, "create", "assigned", t, a, task)
             \/ Refused /\ Finish(s)
      BY <1>14, <2>4 DEF AssignTask
    <3>3. task \in Task /\ t \in TaskIds /\ t \in Nat
      BY <2>2, <3>1 DEF Task
    <3> HIDE DEF t, a, task
    <3>4. Event("task_assigned", t, a) \in EventRecord
      BY <3>1, <3>3, EventType DEF EventTypes
    <3>5. LogGrows /\ refusals' \in 0 .. MaxRefusals
      BY <3>2, <3>4, WrittenGrows, RefusedKeeps DEF TypeOK
    <3>6. req' \in [Slots -> Request]
      <4>1. CASE Finish(s)
        BY <4>1, FinishType
      <4>2. CASE Await(s, "create", "assigned", t, a, task)
        BY <3>1, <3>3, <4>2, AwaitType
      <4>3. QED
        BY <3>2, <4>1, <4>2
    <3>7. tasks' \in [TaskIds -> Task] /\ cursor' \in Nat
      BY <3>2, <3>3 DEF TypeOK
    <3>8. QED
      BY <1>14, <2>1, <3>5, <3>6, <3>7 DEF AssignTask, TypeOK, Worker, LogGrows
  <2>5. QED
    BY <2>3, <2>4
<1>15. ASSUME NEW s \in Slots, TaskCreated(s) PROVE TypeOK' /\ LogGrows
  <2>1. indexed' \subseteq DOMAIN log
    BY <1>15, ResumeType DEF TaskCreated
  <2>2. req' \in [Slots -> Request]
    BY <1>15, FinishType DEF TaskCreated
  <2>3. QED
    BY <1>15, <2>1, <2>2, SameLog DEF TaskCreated, TypeOK, Worker, memory, bounds
<1>16. ASSUME NEW a \in Agents, Poll(a) PROVE TypeOK' /\ LogGrows
  <2>1. tasks' \in [TaskIds -> Task]
    BY <1>16, TaskUpdate, SMTT(30) DEF Poll, NextForAgent
  <2>2. timeouts' \in 0 .. MaxTimeouts /\ worker' \in [Agents -> Worker]
    <3>1. PICK t \in TaskIds : worker' = [worker EXCEPT ![a].job = t] \/ UNCHANGED worker
      BY <1>16 DEF Poll
    <3>2. worker' \in [Agents -> Worker]
      <4>1. CASE worker' = [worker EXCEPT ![a].job = t]
        BY <1>16, <3>1, <4>1, WorkerJob
      <4>2. CASE UNCHANGED worker
        BY <4>2 DEF TypeOK, Worker
      <4>3. QED
        BY <3>1, <4>1, <4>2
    <3>3. timeouts' \in 0 .. MaxTimeouts
      BY <1>16, SMTT(30) DEF Poll, TypeOK
    <3>4. QED
      BY <3>2, <3>3
  <2>3. QED
    BY <1>16, <2>1, <2>2, SameLog DEF Poll, TypeOK, Worker, disk
<1>17. ASSUME NEW a \in Agents, CallFails(a) PROVE TypeOK' /\ LogGrows
  <2>1. worker' \in [Agents -> Worker]
    BY <1>17, WorkerJob DEF CallFails
  <2>2. timeouts' \in 0 .. MaxTimeouts /\ LogGrows
    <3>1. timeouts' \in 0 .. MaxTimeouts
      BY <1>17, SMTT(30) DEF CallFails, TypeOK
    <3>2. LogGrows
      BY <1>17, SameLog DEF CallFails, disk
    <3>3. QED
      BY <3>1, <3>2
  <2>3. UNCHANGED <<server, memory, disk, req, receipts, unlogged, opened, created, boots,
                    refusals, packs>>
    BY <1>17 DEF CallFails
  <2>4. QED
    BY <2>1, <2>2, <2>3 DEF TypeOK, Worker, memory, disk
<1>18. ASSUME NEW a \in Agents, NEW s \in Slots, Submit(a, s) PROVE TypeOK' /\ LogGrows
  <2> DEFINE t == worker[a].job
  <2>1. t \in TaskIds /\ t \in Nat /\ tasks[t] \in Task
    BY <1>18, SMTT(30) DEF Submit, TypeOK, TaskIds
  <2>2. \/ /\ Written(Event("task_result_submitted", t, a))
           /\ Await(s, "submit", "index", t, a, tasks[t])
        \/ Refused /\ UNCHANGED req
        \/ UNCHANGED <<log, refusals, req>>
    BY <1>18 DEF Submit
  <2>3. worker' \in [Agents -> Worker]
    <3>1. \/ worker' = [worker EXCEPT ![a].state = "waiting"]
          \/ worker' = [worker EXCEPT ![a].job = None]
      BY <1>18 DEF Submit
    <3>2. CASE worker' = [worker EXCEPT ![a].state = "waiting"]
      BY <1>18, <3>2, WorkerMoves
    <3>3. CASE worker' = [worker EXCEPT ![a].job = None]
      BY <1>18, <3>3, WorkerJob
    <3>4. QED
      BY <3>1, <3>2, <3>3
  <2> HIDE DEF t
  <2>4. Event("task_result_submitted", t, a) \in EventRecord
    BY <2>1, EventType DEF EventTypes
  <2>5. LogGrows /\ refusals' \in 0 .. MaxRefusals
    BY <2>2, <2>4, WrittenGrows, RefusedKeeps, SameLog DEF TypeOK
  <2>6. req' \in [Slots -> Request]
    <3>1. CASE UNCHANGED req
      BY <3>1 DEF TypeOK
    <3>2. CASE Await(s, "submit", "index", t, a, tasks[t])
      BY <2>1, <3>2, AwaitType
    <3>3. QED
      BY <2>2, <3>1, <3>2
  <2>7. QED
    BY <1>18, <2>3, <2>5, <2>6 DEF Submit, TypeOK, Worker, LogGrows, memory
<1>19. ASSUME NEW s \in Slots, SubmitDone(s) PROVE TypeOK' /\ LogGrows
  <2>1. /\ RequestKnows(s) /\ req[s] \in Request /\ req[s].op = "submit"
        /\ indexed' \subseteq DOMAIN log
    BY <1>19, ResumeType DEF SubmitDone
  <2>2. req[s].task \in TaskIds /\ req[s].agent \in Agents /\ req[s].copy \in Task
    BY <2>1 DEF RequestKnows, TypeOK, TaskIds, Request
  <2>3. tasks' \in [TaskIds -> Task] /\ receipts' \subseteq [agent : Agents, task : TaskIds]
    <3>1. [req[s].copy EXCEPT !.status = "completed"] \in Task
      BY <2>2 DEF Task
    <3>2. tasks' \in [TaskIds -> Task]
      BY <1>19, <2>2, <3>1 DEF SubmitDone, TypeOK
    <3>3. receipts' \subseteq [agent : Agents, task : TaskIds]
      BY <1>19, <2>2, SMTT(30) DEF SubmitDone, TypeOK
    <3>4. QED
      BY <3>2, <3>3
  <2>4. req' \in [Slots -> Request]
    BY <1>19, FinishType DEF SubmitDone
  <2>5. worker' \in [Agents -> Worker]
    BY <1>19, ReplyType DEF SubmitDone
  <2>6. QED
    BY <1>19, <2>1, <2>3, <2>4, <2>5, SameLog DEF SubmitDone, TypeOK, Worker, bounds
<1>20. ASSUME NEW s \in Slots, ContextIssued(s) PROVE TypeOK' /\ LogGrows
  <2>1. Event("context_pack_issued", None, None) \in EventRecord
    BY EventType DEF EventTypes, None
  <2>2. LogGrows /\ refusals' \in 0 .. MaxRefusals
    <3>1. Refused \/ Written(Event("context_pack_issued", None, None))
      BY <1>20 DEF ContextIssued
    <3>2. QED
      BY <2>1, <3>1, WrittenGrows, RefusedKeeps DEF TypeOK
  <2>3. req' \in [Slots -> Request]
    <3>1. UNCHANGED req \/ Await(s, "context", "index", None, None, NoTask)
      BY <1>20 DEF ContextIssued
    <3>2. NoTask \in Task
      BY DEF NoTask, Task, None
    <3>3. CASE UNCHANGED req
      BY <3>3 DEF TypeOK
    <3>4. CASE Await(s, "context", "index", None, None, NoTask)
      BY <3>2, <3>4, AwaitType DEF None
    <3>5. QED
      BY <3>1, <3>3, <3>4
  <2>4. packs' \in 0 .. MaxPacks
    BY <1>20 DEF ContextIssued, TypeOK
  <2>5. QED
    BY <1>20, <2>2, <2>3, <2>4 DEF ContextIssued, TypeOK, Worker, LogGrows, memory
<1>21. ASSUME NEW s \in Slots, ContextDone(s) PROVE TypeOK' /\ LogGrows
  <2>1. indexed' \subseteq DOMAIN log
    BY <1>21, ResumeType DEF ContextDone
  <2>2. req' \in [Slots -> Request]
    BY <1>21, FinishType DEF ContextDone
  <2>3. QED
    BY <1>21, <2>1, <2>2, SameLog DEF ContextDone, TypeOK, Worker, memory, bounds
<1>22. ASSUME UNCHANGED vars PROVE TypeOK' /\ LogGrows
  BY <1>22, SameLog DEF vars, TypeOK, Worker, memory, disk, bounds
<1>23. QED
  BY <1>1, <1>2, <1>3, <1>4, <1>5, <1>6, <1>7, <1>8, <1>9, <1>10, <1>11, <1>12, <1>13,
     <1>14, <1>15, <1>16, <1>17, <1>18, <1>19, <1>20, <1>21, <1>22 DEF Next, Handler

----------------------------------------------------------------------------
(* Requests in flight *)

\* What a step that the running server takes leaves alone: the events on record, the run
\* and the tasks created.
Running ==
    /\ LogGrows /\ unlogged \subseteq unlogged'
    /\ boots' = boots /\ created' \in Nat /\ created <= created'
    /\ server = "up" /\ server' = "up"

\* An event on record stays on record.
LEMMA RecordKept ==
    ASSUME LogGrows, unlogged \subseteq unlogged', NEW e, Recorded(e)
    PROVE  Recorded(e)'
BY DEF LogGrows, Recorded

\* A request that a step does not touch knows what it knew.
LEMMA RequestFrame ==
    ASSUME TypeOK, RequestInv, Running, NEW r \in Slots, req'[r] = req[r],
           req[r].at # "idle"
    PROVE  RequestKnows(r)'
<1>1. RequestKnows(r)
  BY DEF RequestInv
<1>2. req'[r].event \in DOMAIN log' /\ log'[req[r].event] = log[req[r].event]
  BY <1>1 DEF RequestKnows, Running, LogGrows
<1>3. req[r].op \in {"create", "submit"} =>
        /\ req[r].task \in 1 .. created'
        /\ Recorded(Event("task_created", req[r].task, None))'
  <2>1. SUFFICES ASSUME req[r].op \in {"create", "submit"}
                 PROVE  /\ req[r].task \in 1 .. created'
                        /\ Recorded(Event("task_created", req[r].task, None))'
    OBVIOUS
  <2>2. req[r].task \in 1 .. created /\ Recorded(Event("task_created", req[r].task, None))
    BY <1>1, <2>1 DEF RequestKnows
  <2>3. req[r].task \in 1 .. created'
    BY <2>2 DEF Running, TypeOK
  <2>4. Event("task_created", req[r].task, None)' = Event("task_created", req[r].task, None)
    BY DEF Event, Running
  <2>5. Recorded(Event("task_created", req[r].task, None))'
    BY <2>2, <2>4, RecordKept DEF Running, LogGrows, Recorded
  <2>6. QED
    BY <2>3, <2>5
<1>4. QED
  BY <1>1, <1>2, <1>3 DEF RequestKnows, Running

\* A step that touches one slot has only that slot to account for.
LEMMA RequestOne ==
    ASSUME TypeOK, RequestInv, Running, NEW s \in Slots,
           \A r \in Slots : r # s => req'[r] = req[r],
           req'[s].at # "idle" => RequestKnows(s)'
    PROVE  RequestInv'
<1>1. ASSUME NEW r \in Slots, req'[r].at # "idle"
      PROVE  RequestKnows(r)'
  <2>1. CASE r = s
    BY <1>1, <2>1
  <2>2. CASE r # s
    <3>1. req'[r] = req[r]
      BY <1>1, <2>2
    <3>2. QED
      BY <1>1, <3>1, RequestFrame
  <2>3. QED
    BY <2>1, <2>2
<1>2. QED
  BY <1>1 DEF RequestInv

\* A request that is answered leaves its slot idle.
LEMMA RequestFinish ==
    ASSUME TypeOK, RequestInv, Running, NEW s \in Slots, Finish(s)
    PROVE  RequestInv'
<1>1. /\ \A r \in Slots : r # s => req'[r] = req[r]
      /\ req'[s].at = "idle"
  BY DEF Finish, TypeOK, Idle
<1>2. QED
  BY <1>1, RequestOne

\* A step that touches no request leaves all of them as they were.
LEMMA RequestSame ==
    ASSUME TypeOK, RequestInv, Running, UNCHANGED req
    PROVE  RequestInv'
BY RequestFrame DEF RequestInv

\* While the server is not up no request is in flight.
LEMMA NoRequests ==
    ASSUME RequestInv, server # "up", UNCHANGED req
    PROVE  RequestInv'
BY DEF RequestInv, RequestKnows

\* The event a request has just written is the last of the log and on record.
LEMMA RequestWrites ==
    ASSUME TypeOK, RequestInv, Running, NEW s \in Slots, NEW e \in EventRecord, Written(e),
           NEW op \in {"register", "mission", "create", "submit", "context"},
           NEW at \in {"index", "store", "assigned"}, NEW task \in Nat,
           NEW agent \in Agents \cup {None}, NEW copy \in Task,
           Await(s, op, at, task, agent, copy),
           op \in {"register", "submit"} => agent \in Agents,
           op \in {"create", "submit"} =>
             task \in 1 .. created' /\ Recorded(Event("task_created", task, None))',
           op = "submit" =>
             e.type = "task_result_submitted" /\ e.task = task /\ e.agent = agent,
           op = "mission" => e.type = "mission_created" /\ e.task = task,
           op = "create" /\ at = "index" => copy.to = None
    PROVE  RequestInv'
<1>1. /\ req'[s] = [op |-> op, at |-> at, task |-> task, agent |-> agent,
                    copy |-> copy, event |-> Len(log) + 1]
      /\ \A r \in Slots : r # s => req'[r] = req[r]
  BY AwaitType
<1>2. /\ DOMAIN log' = 1 .. Len(log) + 1 /\ Len(log) \in Nat
      /\ log'[Len(log) + 1] = e
  BY WrittenGrows
<1>3. Len(log) + 1 \in DOMAIN log'
  BY <1>2
<1>4. RequestKnows(s)'
  BY <1>1, <1>2, <1>3 DEF RequestKnows, Running
<1>5. QED
  BY <1>1, <1>4, RequestOne

\* The worker's own steps touch nothing of the server.
LEMMA WorkerStep ==
    ASSUME TypeOK, NEW a \in Agents,
           WorkerRestart(a) \/ WorkerTimeout(a) \/ CallFails(a)
    PROVE  UNCHANGED <<server, memory, disk, req, receipts, unlogged, created, boots>>
BY DEF WorkerRestart, WorkerTimeout, CallFails, bounds

\* Every step keeps what the requests in flight know.
LEMMA RequestStep ==
    ASSUME TypeOK, RequestInv, DownInv, MemoryInv, [Next]_vars, TypeOK', LogGrows
    PROVE  RequestInv'
<1> USE MeshAssumption
<1>1. ASSUME Boot \/ BootIndexed \/ StopIndexed PROVE RequestInv'
  BY <1>1, NoRequests DEF Boot, BootIndexed, StopIndexed
<1>2. ASSUME Stop PROVE RequestInv'
  BY <1>2 DEF Stop, RequestInv
<1>3. ASSUME Crash PROVE RequestInv'
  BY <1>3 DEF Crash, RequestInv, Idle
<1>4. ASSUME NEW a \in Agents, WorkerRestart(a) \/ WorkerTimeout(a) \/ CallFails(a)
      PROVE  RequestInv'
  <2>1. UNCHANGED <<server, req, unlogged, created, boots>>
    BY <1>4, WorkerStep
  <2>2. CASE server = "up"
    BY <2>1, <2>2, RequestSame DEF Running, TypeOK
  <2>3. CASE server # "up"
    BY <2>1, <2>3, NoRequests
  <2>4. QED
    BY <2>2, <2>3
<1>5. ASSUME NEW a \in Agents, Poll(a) PROVE RequestInv'
  <2>1. Running /\ UNCHANGED req
    BY <1>5 DEF Poll, Running, TypeOK
  <2>2. QED
    BY <2>1, RequestSame
<1>6. ASSUME NEW a \in Agents, NEW s \in Slots, Register(a, s) PROVE RequestInv'
  <2>1. Running
    BY <1>6, SMTT(30) DEF Register, Free, Running, TypeOK
  <2>2. CASE UNCHANGED req
    BY <2>1, <2>2, RequestSame
  <2>3. CASE /\ Written(Event("agent_registered", None, a))
             /\ Await(s, "register", "index", None, a, NoTask)
    <3>1. Event("agent_registered", None, a) \in EventRecord
      BY <1>6, EventType DEF EventTypes, None
    <3>2. NoTask \in Task /\ None \in Nat
      BY DEF NoTask, Task, None
    <3>3. QED
      BY <1>6, <2>1, <2>3, <3>1, <3>2, RequestWrites
  <2>4. QED
    BY <1>6, <2>2, <2>3 DEF Register
<1>7. ASSUME NEW s \in Slots, CreateMission(s) PROVE RequestInv'
  <2>1. Running
    BY <1>7 DEF CreateMission, Free, Running, TypeOK
  <2>2. CASE UNCHANGED req
    BY <2>1, <2>2, RequestSame
  <2>3. CASE /\ Written(Event("mission_created", opened + 1, None))
             /\ Await(s, "mission", "index", opened + 1, None, NoTask)
    <3>1. opened + 1 \in Nat
      BY DEF TypeOK
    <3>2. Event("mission_created", opened + 1, None) \in EventRecord
      BY <3>1, EventType DEF EventTypes, None
    <3>3. NoTask \in Task
      BY DEF NoTask, Task, None
    <3>4. /\ Event("mission_created", opened + 1, None).type = "mission_created"
          /\ Event("mission_created", opened + 1, None).task = opened + 1
      BY DEF Event
    <3>5. QED
      BY <1>7, <2>1, <2>3, <3>1, <3>2, <3>3, <3>4, RequestWrites
  <2>4. QED
    BY <1>7, <2>2, <2>3 DEF CreateMission
<1>8. ASSUME NEW s \in Slots, CreateTask(s) PROVE RequestInv'
  <2>1. Running /\ created' = created + 1 /\ created + 1 \in Nat
    BY <1>8 DEF CreateTask, Free, Running, TypeOK
  <2>2. CASE UNCHANGED req
    BY <2>1, <2>2, RequestSame
  <2>3. ASSUME NEW type \in Types, Written(Event("task_created", created + 1, None)),
               Await(s, "create", "index", created + 1, None,
                     [status |-> "pending", type |-> type, to |-> None])
        PROVE  RequestInv'
    <3> DEFINE task == [status |-> "pending", type |-> type, to |-> None]
    <3>1. PICK t \in Nat : t = created + 1
      BY <2>1
    <3>2. Event("task_created", t, None) \in EventRecord
      BY EventType DEF EventTypes, None
    <3>3. task \in Task /\ task.to = None
      BY DEF Task, None
    <3>4. Written(Event("task_created", t, None)) /\ Await(s, "create", "index", t, None, task)
      BY <2>3, <3>1
    <3>5. t \in 1 .. created'
      BY <2>1, <3>1 DEF TypeOK
    <3>6. Recorded(Event("task_created", t, None))'
      <4>1. Event("task_created", t, None)' = Event("task_created", t, None)
        BY <2>1 DEF Event, Running
      <4>2. \E i \in DOMAIN log' : log'[i] = Event("task_created", t, None)
        <5>1. /\ DOMAIN log' = 1 .. Len(log) + 1 /\ Len(log) \in Nat
              /\ log'[Len(log) + 1] = Event("task_created", t, None)
          BY <3>2, <3>4, WrittenGrows
        <5>2. Len(log) + 1 \in DOMAIN log'
          BY <5>1
        <5>3. QED
          BY <5>1, <5>2
      <4>3. QED
        BY <4>1, <4>2 DEF Recorded
    <3> HIDE DEF task
    <3>7. QED
      BY <1>8, <2>1, <3>2, <3>3, <3>4, <3>5, <3>6, RequestWrites
  <2>4. QED
    BY <1>8, <2>2, <2>3 DEF CreateTask
<1>9. ASSUME NEW s \in Slots, AssignTask(s) PROVE RequestInv'
  <2>1. Running
    BY <1>9 DEF AssignTask, Resume, Running, TypeOK
  <2>2. /\ RequestKnows(s) /\ req[s] \in Request /\ req[s].op = "create"
    BY <1>9, ResumeType DEF AssignTask
  <2>3. CASE Finish(s)
    BY <1>9, <2>1, <2>3, RequestFinish
  <2>4. ASSUME ~Finish(s) PROVE RequestInv'
    <3>1. PICK t : t = req[s].task
      OBVIOUS
    <3>2. /\ t \in 1 .. created /\ t \in Nat /\ req[s].copy \in Task
          /\ Recorded(Event("task_created", t, None))
      BY <2>2, <3>1 DEF RequestKnows, Request
    <3> DEFINE a == RoundRobin(req[s].copy.type)
               task == [req[s].copy EXCEPT !.status = "assigned", !.to = a]
    <3>3. /\ Candidates(req[s].copy.type) # {}
          /\ Written(Event("task_assigned", t, a))
          /\ Await(s, "create", "assigned", t, a, task)
      BY <1>9, <2>4, <3>1 DEF AssignTask
    <3>4. a \in Agents
      BY <3>3, RoundRobinPicks DEF Candidates, TypeOK
    <3>5. task \in Task
      BY <3>2, <3>4 DEF Task
    <3> HIDE DEF a, task
    <3>6. Event("task_assigned", t, a) \in EventRecord
      BY <3>2, <3>4, EventType DEF EventTypes
    <3>7. t \in 1 .. created' /\ Recorded(Event("task_created", t, None))'
      <4>1. Event("task_created", t, None)' = Event("task_created", t, None)
        BY <2>1 DEF Event, Running
      <4>2. QED
        BY <2>1, <3>2, <4>1, RecordKept, SMTT(30) DEF Running, TypeOK, Recorded, LogGrows
    <3>8. QED
      BY <1>9, <2>1, <3>2, <3>3, <3>4, <3>5, <3>6, <3>7, RequestWrites
  <2>5. QED
    BY <2>3, <2>4
<1>10. ASSUME NEW a \in Agents, NEW s \in Slots, Submit(a, s) PROVE RequestInv'
  <2>1. Running
    BY <1>10 DEF Submit, Free, Running, TypeOK
  <2>2. CASE UNCHANGED req
    BY <2>1, <2>2, RequestSame
  <2>3. ASSUME ~UNCHANGED req PROVE RequestInv'
    <3>1. PICK t : t = worker[a].job
      OBVIOUS
    <3>2. t \in TaskIds /\ t \in Nat /\ tasks[t] \in Task
      <4>1. worker[a].job # None
        BY <1>10 DEF Submit
      <4>2. worker[a].job \in TaskIds
        BY <1>10, <4>1 DEF TypeOK
      <4>3. QED
        BY <3>1, <4>2, SMTT(30) DEF TypeOK, TaskIds
    <3>3. /\ Accepts(a, t) /\ Written(Event("task_result_submitted", t, a))
          /\ Await(s, "submit", "index", t, a, tasks[t])
      BY <1>10, <2>3, <3>1 DEF Submit
    <3>4. Event("task_result_submitted", t, a) \in EventRecord
      BY <1>10, <3>2, EventType DEF EventTypes
    <3>5. /\ Event("task_result_submitted", t, a).type = "task_result_submitted"
          /\ Event("task_result_submitted", t, a).task = t
          /\ Event("task_result_submitted", t, a).agent = a
      BY DEF Event
    <3>6. t \in 1 .. created /\ Recorded(Event("task_created", t, None))
      BY <3>2, <3>3, SMTT(30) DEF Accepts, MemoryInv, TaskIds, TypeOK
    <3>7. t \in 1 .. created' /\ Recorded(Event("task_created", t, None))'
      <4>1. Event("task_created", t, None)' = Event("task_created", t, None)
        BY <2>1 DEF Event, Running
      <4>2. QED
        BY <2>1, <3>6, <4>1, RecordKept, SMTT(30) DEF Running, TypeOK, Recorded, LogGrows
    <3>8. QED
      BY <1>10, <2>1, <3>2, <3>3, <3>4, <3>5, <3>7, RequestWrites
  <2>4. QED
    BY <2>2, <2>3
<1>11. ASSUME NEW s \in Slots, ContextIssued(s) PROVE RequestInv'
  <2>1. Running
    BY <1>11 DEF ContextIssued, Free, Running, TypeOK
  <2>2. CASE UNCHANGED req
    BY <2>1, <2>2, RequestSame
  <2>3. CASE /\ Written(Event("context_pack_issued", None, None))
             /\ Await(s, "context", "index", None, None, NoTask)
    <3>1. Event("context_pack_issued", None, None) \in EventRecord
      BY EventType DEF EventTypes, None
    <3>2. NoTask \in Task /\ None \in Nat
      BY DEF NoTask, Task, None
    <3>3. QED
      BY <1>11, <2>1, <2>3, <3>1, <3>2, RequestWrites
  <2>4. QED
    BY <1>11, <2>2, <2>3 DEF ContextIssued
<1>12. ASSUME NEW s \in Slots,
              \/ RegisterDone(s) \/ MissionStored(s) \/ TaskCreated(s) \/ SubmitDone(s)
              \/ ContextDone(s)
       PROVE  RequestInv'
  <2>1. /\ server = "up" /\ Finish(s)
        /\ UNCHANGED <<server, unlogged, bounds>>
    BY <1>12 DEF RegisterDone, MissionStored, TaskCreated, SubmitDone, ContextDone, Resume
  <2>2. Running
    BY <2>1 DEF Running, TypeOK, bounds
  <2>3. QED
    BY <1>12, <2>1, <2>2, RequestFinish
<1>13. ASSUME NEW s \in Slots, MissionIndexed(s) PROVE RequestInv'
  <2>1. Running
    BY <1>13 DEF MissionIndexed, Resume, Running, TypeOK, bounds
  <2>2. /\ RequestKnows(s) /\ req[s] \in Request /\ req[s].op = "mission"
    BY <1>13, ResumeType DEF MissionIndexed
  <2>3. /\ \A r \in Slots : r # s => req'[r] = req[r]
        /\ req'[s] = [req[s] EXCEPT !.at = "store"]
    BY <1>13 DEF MissionIndexed, TypeOK
  <2>4. /\ req'[s].op = "mission" /\ req'[s].task = req[s].task
        /\ req'[s].event = req[s].event
    BY <2>2, <2>3 DEF Request
  <2>5. RequestKnows(s)'
    BY <2>1, <2>2, <2>4 DEF RequestKnows, Running, LogGrows
  <2>6. QED
    BY <1>13, <2>1, <2>3, <2>5, RequestOne
<1>14. ASSUME UNCHANGED vars PROVE RequestInv'
  <2>1. UNCHANGED <<server, req, unlogged, created, boots>>
    BY <1>14 DEF vars, bounds
  <2>2. CASE server = "up"
    BY <2>1, <2>2, RequestSame DEF Running, TypeOK
  <2>3. CASE server # "up"
    BY <2>1, <2>3, NoRequests
  <2>4. QED
    BY <2>2, <2>3
<1>15. QED
  BY <1>1, <1>2, <1>3, <1>4, <1>5, <1>6, <1>7, <1>8, <1>9, <1>10, <1>11, <1>12, <1>13,
     <1>14 DEF Next, Handler

----------------------------------------------------------------------------
(* The server's memory *)

\* The steps of the running server.
LEMMA SlotRuns ==
    ASSUME TypeOK, TypeOK', LogGrows, NEW s \in Slots,
           CreateMission(s) \/ CreateTask(s) \/ ContextIssued(s) \/ Handler(s)
    PROVE  Running
<1>1. ASSUME CreateMission(s) \/ CreateTask(s) \/ ContextIssued(s) PROVE Running
  <2>1. /\ server = "up" /\ UNCHANGED <<server, boots>> /\ unlogged \subseteq unlogged'
        /\ created' = created \/ created' = created + 1
    BY <1>1 DEF CreateMission, CreateTask, ContextIssued, Free
  <2>2. QED
    BY <2>1, SMTT(30) DEF Running, TypeOK
<1>2. ASSUME Handler(s) PROVE Running
  <2>1. server = "up" /\ UNCHANGED <<server, unlogged, boots, created>>
    BY <1>2 DEF Handler, RegisterDone, MissionIndexed, MissionStored, AssignTask, TaskCreated,
       SubmitDone, ContextDone, Resume, bounds
  <2>2. QED
    BY <2>1, SMTT(30) DEF Running, TypeOK
<1>3. QED
  BY <1>1, <1>2

\* The steps in which the running server answers a worker.
LEMMA AgentRuns ==
    ASSUME TypeOK, TypeOK', LogGrows, NEW a \in Agents,
           Poll(a) \/ \E s \in Slots : Register(a, s) \/ Submit(a, s)
    PROVE  Running
<1>1. /\ server = "up" /\ UNCHANGED <<server, boots, created>>
      /\ unlogged \subseteq unlogged'
  BY DEF Poll, Register, Submit, Free
<1>2. QED
  BY <1>1 DEF Running, TypeOK

\* A server that is not up has nothing in memory.
LEMMA DownStep ==
    ASSUME TypeOK, RequestInv, DownInv, [Next]_vars, TypeOK', LogGrows
    PROVE  DownInv'
<1>1. ASSUME Running PROVE DownInv'
  BY <1>1 DEF Running, DownInv
<1>2. ASSUME Boot PROVE DownInv'
  <2>1. UNCHANGED memory /\ server = "down"
    BY <1>2 DEF Boot
  <2>2. server' = "up" \/ Len(log') \in DOMAIN log'
    <3> DEFINE e == [Event(IF DetectRecovery THEN "server_recovered" ELSE "server_started",
                           None, None) EXCEPT !.run = boots + 1]
    <3>1. server' = "up" \/ Written(e)
      BY <1>2 DEF Boot
    <3>2. e \in EventRecord
      BY BootEvent
    <3> HIDE DEF e
    <3>3. ASSUME Written(e) PROVE Len(log') \in DOMAIN log'
      BY <3>2, <3>3, WrittenGrows
    <3>4. QED
      BY <3>1, <3>3
  <2>3. server' \in {"up", "starting"}
    BY <1>2 DEF Boot
  <2>4. QED
    BY <2>1, <2>2, <2>3 DEF DownInv, memory
<1>3. ASSUME BootIndexed PROVE DownInv'
  BY <1>3 DEF BootIndexed, DownInv
<1>4. ASSUME Stop PROVE DownInv'
  <2>1. server' = "down" \/ Len(log') \in DOMAIN log'
    <3>1. server' = "down" \/ Written(Event("server_stopped", None, None))
      BY <1>4 DEF Stop
    <3>2. Event("server_stopped", None, None) \in EventRecord
      BY EventType DEF EventTypes, None
    <3>3. ASSUME Written(Event("server_stopped", None, None)) PROVE Len(log') \in DOMAIN log'
      BY <3>2, <3>3, WrittenGrows
    <3>4. QED
      BY <3>1, <3>3
  <2>2. QED
    BY <1>4, <2>1 DEF Stop, Forget, DownInv
<1>5. ASSUME StopIndexed PROVE DownInv'
  BY <1>5 DEF StopIndexed, DownInv, memory
<1>6. ASSUME Crash PROVE DownInv'
  BY <1>6 DEF Crash, Forget, DownInv
<1>7. ASSUME UNCHANGED <<server, memory, log>> PROVE DownInv'
  BY <1>7 DEF DownInv, memory
<1>8. QED
  BY <1>1, <1>2, <1>3, <1>4, <1>5, <1>6, <1>7, SlotRuns, AgentRuns, WorkerStep
     DEF Next, vars, disk

\* Events of this run stay on record while the server runs.
LEMMA EventKept ==
    ASSUME Running, NEW type, NEW task, NEW agent, Recorded(Event(type, task, agent))
    PROVE  Recorded(Event(type, task, agent))'
<1>1. Event(type, task, agent)' = Event(type, task, agent)
  BY DEF Event, Running
<1>2. QED
  BY <1>1 DEF Running, LogGrows, Recorded

\* A step that rewrites one task at most has only that task to account for.
LEMMA MemoryTask ==
    ASSUME TypeOK, MemoryInv, Running, UNCHANGED registered, NEW t \in TaskIds,
           \A u \in TaskIds : u # t => tasks'[u] = tasks[u],
           tasks'[t].status \in {"none", "pending"} => tasks'[t].to = None,
           tasks'[t].status # "none" =>
             t <= created' /\ Recorded(Event("task_created", t, None))'
    PROVE  MemoryInv'
<1>1. \A a \in registered' : Recorded(Event("agent_registered", None, a))'
  BY EventKept DEF MemoryInv
<1>2. ASSUME NEW u \in TaskIds, tasks'[u].status # "none"
      PROVE  u <= created' /\ Recorded(Event("task_created", u, None))'
  <2>1. CASE u = t
    BY <1>2, <2>1
  <2>2. CASE u # t
    <3>1. u <= created /\ Recorded(Event("task_created", u, None))
      BY <1>2, <2>2 DEF MemoryInv
    <3>2. u <= created'
      BY <1>2, <3>1, MeshAssumption DEF Running, TypeOK, TaskIds
    <3>3. QED
      BY <3>1, <3>2, EventKept
  <2>3. QED
    BY <2>1, <2>2
<1>3. \A u \in TaskIds : tasks'[u].status \in {"none", "pending"} => tasks'[u].to = None
  BY DEF MemoryInv
<1>4. QED
  BY <1>1, <1>2, <1>3 DEF MemoryInv

\* A step that leaves the registry and the tasks alone.
LEMMA MemorySame ==
    ASSUME TypeOK, MemoryInv, Running, UNCHANGED <<registered, tasks>>
    PROVE  MemoryInv'
<1>1. \A a \in registered' : Recorded(Event("agent_registered", None, a))'
  BY EventKept DEF MemoryInv
<1>2. ASSUME NEW u \in TaskIds, tasks'[u].status # "none"
      PROVE  u <= created' /\ Recorded(Event("task_created", u, None))'
  <2>1. u <= created /\ Recorded(Event("task_created", u, None))
    BY <1>2 DEF MemoryInv
  <2>2. u <= created'
    BY <1>2, <2>1, MeshAssumption DEF Running, TypeOK, TaskIds
  <2>3. QED
    BY <2>1, <2>2, EventKept
<1>3. QED
  BY <1>1, <1>2 DEF MemoryInv

\* Every step keeps the registry and the tasks on record.
LEMMA MemoryStep ==
    ASSUME TypeOK, RequestInv, DownInv, MemoryInv, [Next]_vars, TypeOK', LogGrows
    PROVE  MemoryInv'
<1> USE MeshAssumption
<1>1. ASSUME registered' = {}, tasks' = [t \in TaskIds |-> NoTask] PROVE MemoryInv'
  BY <1>1 DEF MemoryInv, NoTask
<1>2. ASSUME Boot \/ BootIndexed \/ Stop \/ StopIndexed \/ Crash PROVE MemoryInv'
  <2>1. registered' = {} /\ tasks' = [t \in TaskIds |-> NoTask]
    BY <1>2 DEF Boot, BootIndexed, Stop, StopIndexed, Crash, Forget, DownInv, memory
  <2>2. QED
    BY <1>1, <2>1
<1>3. ASSUME UNCHANGED <<memory, log, unlogged, created, boots>> PROVE MemoryInv'
  <2>1. \A type, task, agent : Recorded(Event(type, task, agent))
                                 => Recorded(Event(type, task, agent))'
    BY <1>3 DEF Recorded, Event
  <2>2. QED
    BY <1>3, <2>1 DEF MemoryInv, memory
<1>4. ASSUME NEW s \in Slots,
             \/ RegisterDone(s) \/ MissionIndexed(s) \/ MissionStored(s) \/ TaskCreated(s)
             \/ CreateMission(s) \/ ContextIssued(s) \/ ContextDone(s)
      PROVE  MemoryInv'
  <2>1. UNCHANGED <<registered, tasks>>
    BY <1>4 DEF RegisterDone, MissionIndexed, MissionStored, TaskCreated, CreateMission,
       ContextIssued, ContextDone, memory
  <2>2. Running
    BY <1>4, SlotRuns DEF Handler
  <2>3. QED
    BY <2>1, <2>2, MemorySame
<1>5. ASSUME NEW a \in Agents, NEW s \in Slots, Submit(a, s) PROVE MemoryInv'
  <2>1. Running /\ UNCHANGED <<registered, tasks>>
    BY <1>5, AgentRuns DEF Submit, memory
  <2>2. QED
    BY <2>1, MemorySame
<1>6. ASSUME NEW a \in Agents, NEW s \in Slots, Register(a, s) PROVE MemoryInv'
  <2>1. Running /\ UNCHANGED tasks
    BY <1>6, AgentRuns DEF Register
  <2>2. CASE UNCHANGED registered
    BY <2>1, <2>2, MemorySame
  <2>3. CASE ~UNCHANGED registered
    <3>1. /\ registered' = registered \cup {a}
          /\ \/ Written(Event("agent_registered", None, a))
             \/ unlogged' = unlogged \cup {Event("agent_registered", None, a)}
      BY <1>6, <2>3 DEF Register
    <3>2. Event("agent_registered", None, a) \in EventRecord
      BY <1>6, EventType DEF EventTypes, None
    <3>3. Recorded(Event("agent_registered", None, a))'
      <4>1. Event("agent_registered", None, a)' = Event("agent_registered", None, a)
        BY <2>1 DEF Event, Running
      <4>2. CASE Written(Event("agent_registered", None, a))
        <5>1. /\ DOMAIN log' = 1 .. Len(log) + 1 /\ Len(log) \in Nat
              /\ log'[Len(log) + 1] = Event("agent_registered", None, a)
          BY <3>2, <4>2, WrittenGrows
        <5>2. Len(log) + 1 \in DOMAIN log'
          BY <5>1
        <5>3. QED
          BY <4>1, <5>1, <5>2 DEF Recorded
      <4>3. CASE unlogged' = unlogged \cup {Event("agent_registered", None, a)}
        BY <4>1, <4>3 DEF Recorded
      <4>4. QED
        BY <3>1, <4>2, <4>3
    <3>4. \A b \in registered' : Recorded(Event("agent_registered", None, b))'
      BY <2>1, <3>1, <3>3, EventKept DEF MemoryInv
    <3>5. ASSUME NEW u \in TaskIds, tasks'[u].status # "none"
          PROVE  u <= created' /\ Recorded(Event("task_created", u, None))'
      <4>1. u <= created /\ Recorded(Event("task_created", u, None))
        BY <2>1, <3>5 DEF MemoryInv
      <4>2. u <= created'
        BY <2>1, <3>5, <4>1 DEF Running, TypeOK, TaskIds
      <4>3. QED
        BY <2>1, <4>1, <4>2, EventKept
    <3>6. QED
      BY <2>1, <3>4, <3>5 DEF MemoryInv
  <2>4. QED
    BY <2>2, <2>3
<1>7. ASSUME NEW s \in Slots, CreateTask(s) PROVE MemoryInv'
  <2>1. Running /\ UNCHANGED registered /\ created' = created + 1
    BY <1>7, SlotRuns DEF CreateTask
  <2>2. PICK t \in TaskIds : t = created + 1
    BY <1>7 DEF CreateTask, TypeOK, TaskIds
  <2>3. PICK type \in Types :
          /\ tasks' = [tasks EXCEPT ![t] = [status |-> "pending", type |-> type, to |-> None]]
          /\ \/ Written(Event("task_created", t, None))
             \/ unlogged' = unlogged \cup {Event("task_created", t, None)}
    BY <1>7, <2>2 DEF CreateTask
  <2>4. /\ \A u \in TaskIds : u # t => tasks'[u] = tasks[u]
        /\ tasks'[t].to = None
    BY <2>3 DEF TypeOK
  <2>5. t <= created' /\ t \in Nat
    BY <2>1, <2>2 DEF TypeOK
  <2>6. Recorded(Event("task_created", t, None))'
    <3>1. Event("task_created", t, None)' = Event("task_created", t, None)
      BY <2>1 DEF Event, Running
    <3>2. Event("task_created", t, None) \in EventRecord
      BY <2>5, EventType DEF EventTypes, None
    <3>3. CASE Written(Event("task_created", t, None))
      <4>1. /\ DOMAIN log' = 1 .. Len(log) + 1 /\ Len(log) \in Nat
            /\ log'[Len(log) + 1] = Event("task_created", t, None)
        BY <3>2, <3>3, WrittenGrows
      <4>2. Len(log) + 1 \in DOMAIN log'
        BY <4>1
      <4>3. QED
        BY <3>1, <4>1, <4>2 DEF Recorded
    <3>4. CASE unlogged' = unlogged \cup {Event("task_created", t, None)}
      BY <3>1, <3>4 DEF Recorded
    <3>5. QED
      BY <2>3, <3>3, <3>4
  <2>7. QED
    BY <2>1, <2>2, <2>4, <2>5, <2>6, MemoryTask
<1>8. ASSUME NEW s \in Slots, AssignTask(s) PROVE MemoryInv'
  <2>1. Running /\ UNCHANGED registered
    BY <1>8, SlotRuns DEF AssignTask, Handler
  <2>2. RequestKnows(s) /\ req[s] \in Request /\ req[s].op = "create"
    BY <1>8, ResumeType DEF AssignTask
  <2>3. CASE UNCHANGED tasks
    BY <2>1, <2>3, MemorySame
  <2>4. CASE ~UNCHANGED tasks
    <3>1. PICK t \in TaskIds : t = req[s].task
      BY <2>2, SMTT(30) DEF RequestKnows, TypeOK, TaskIds
    <3> DEFINE a == RoundRobin(req[s].copy.type)
    <3>2. tasks' = [tasks EXCEPT ![t] = [req[s].copy EXCEPT !.status = "assigned", !.to = a]]
      BY <1>8, <2>4, <3>1 DEF AssignTask
    <3>3. t <= created /\ Recorded(Event("task_created", t, None))
      BY <2>2, <3>1 DEF RequestKnows
    <3>4. t <= created' /\ Recorded(Event("task_created", t, None))'
      BY <2>1, <3>1, <3>3, EventKept, SMTT(30) DEF Running, TypeOK, TaskIds
    <3>5. req[s].copy \in Task
      BY <2>2 DEF Request
    <3> HIDE DEF a
    <3>6. /\ \A u \in TaskIds : u # t => tasks'[u] = tasks[u]
          /\ tasks'[t].status = "assigned"
      BY <3>2, <3>5 DEF TypeOK, Task
    <3>7. QED
      BY <2>1, <3>1, <3>4, <3>6, MemoryTask
  <2>5. QED
    BY <2>3, <2>4, SMTT(30)
<1>9. ASSUME NEW a \in Agents, Poll(a) PROVE MemoryInv'
  <2>1. Running /\ UNCHANGED registered
    BY <1>9, AgentRuns DEF Poll
  <2>2. PICK t \in TaskIds : Eligible(a, t)
          /\ tasks' = [tasks EXCEPT ![t].status = "assigned", ![t].to = a]
    BY <1>9 DEF Poll, NextForAgent
  <2>3. tasks[t].status # "none" /\ tasks[t] \in Task
    BY <2>2 DEF Eligible, TypeOK
  <2>4. t <= created' /\ Recorded(Event("task_created", t, None))'
    <3>1. t <= created /\ Recorded(Event("task_created", t, None))
      BY <2>2, <2>3 DEF MemoryInv
    <3>2. Recorded(Event("task_created", t, None))'
      BY <2>1, <3>1, EventKept
    <3>3. t <= created'
      BY <2>1, <3>1 DEF Running, TypeOK, TaskIds
    <3>4. QED
      BY <3>2, <3>3
  <2>5. /\ \A u \in TaskIds : u # t => tasks'[u] = tasks[u]
        /\ tasks'[t].status = "assigned"
    BY <2>2, <2>3 DEF TypeOK, Task
  <2>6. QED
    BY <2>1, <2>2, <2>4, <2>5, MemoryTask
<1>10. ASSUME NEW s \in Slots, SubmitDone(s) PROVE MemoryInv'
  <2>1. Running /\ UNCHANGED registered
    BY <1>10, SlotRuns DEF SubmitDone, Handler
  <2>2. RequestKnows(s) /\ req[s] \in Request /\ req[s].op = "submit"
    BY <1>10, ResumeType DEF SubmitDone
  <2>3. PICK t \in TaskIds : t = req[s].task
    BY <2>2, SMTT(30) DEF RequestKnows, TypeOK, TaskIds
  <2>4. tasks' = [tasks EXCEPT ![t] = [req[s].copy EXCEPT !.status = "completed"]]
    BY <1>10, <2>3 DEF SubmitDone
  <2>5. t <= created /\ Recorded(Event("task_created", t, None)) /\ req[s].copy \in Task
    BY <2>2, <2>3 DEF RequestKnows, Request
  <2>6. t <= created' /\ Recorded(Event("task_created", t, None))'
    BY <2>1, <2>3, <2>5, EventKept, SMTT(30) DEF Running, TypeOK, TaskIds
  <2>7. /\ \A u \in TaskIds : u # t => tasks'[u] = tasks[u]
        /\ tasks'[t].status = "completed"
    BY <2>4, <2>5 DEF TypeOK, Task
  <2>8. QED
    BY <2>1, <2>3, <2>6, <2>7, MemoryTask
<1>11. ASSUME NEW a \in Agents, WorkerRestart(a) \/ WorkerTimeout(a) \/ CallFails(a)
       PROVE  MemoryInv'
  BY <1>3, <1>11, WorkerStep DEF disk
<1>12. ASSUME UNCHANGED vars PROVE MemoryInv'
  BY <1>3, <1>12 DEF vars, disk, bounds
<1>13. QED
  BY <1>2, <1>4, <1>5, <1>6, <1>7, <1>8, <1>9, <1>10, <1>11, <1>12 DEF Next, Handler

----------------------------------------------------------------------------
(* What the log says of the past *)

\* A result is written by a registered agent for a task of this run.
Grounded(e) ==
    e.type = "task_result_submitted" =>
        /\ Recorded([type |-> "agent_registered", task |-> None, agent |-> e.agent,
                     run |-> e.run])
        /\ Recorded([type |-> "task_created", task |-> e.task, agent |-> None,
                     run |-> e.run])

\* Each step writes at most one event: a result is grounded, and server_started follows
\* no other one directly.
LEMMA LogStep ==
    ASSUME TypeOK, RequestInv, DownInv, MemoryInv, [Next]_vars
    PROVE  \/ log' = log
           \/ \E e \in EventRecord :
                Written(e) /\ Grounded(e) /\ (e.type = "server_started" => ~DetectRecovery)
<1> USE MeshAssumption
<1> DEFINE Goal == \E e \in EventRecord :
                     Written(e) /\ Grounded(e) /\ (e.type = "server_started" => ~DetectRecovery)
<1> HIDE DEF Goal
<1>1. SUFFICES ASSUME log' # log PROVE Goal
  BY DEF Goal
<1>2. ASSUME NEW type \in EventTypes \ {"task_result_submitted", "server_started"},
             NEW task \in Nat, NEW agent \in Agents \cup {None},
             Written(Event(type, task, agent))
      PROVE  Goal
  <2>1. Event(type, task, agent) \in EventRecord
    BY <1>2, EventType
  <2>2. Event(type, task, agent).type = type
    BY DEF Event
  <2>3. QED
    BY <1>2, <2>1, <2>2 DEF Goal, Grounded
<1>3. None \in Nat /\ None \in Agents \cup {None}
  BY DEF None
<1>4. ASSUME Boot PROVE Goal
  <2> DEFINE e == [Event(IF DetectRecovery THEN "server_recovered" ELSE "server_started",
                         None, None) EXCEPT !.run = boots + 1]
  <2>1. e \in EventRecord
    BY BootEvent
  <2>2. Written(e)
    BY <1>1, <1>4 DEF Boot, Refused
  <2>3. e.type = IF DetectRecovery THEN "server_recovered" ELSE "server_started"
    BY DEF Event
  <2> HIDE DEF e
  <2>4. QED
    BY <2>1, <2>2, <2>3 DEF Goal, Grounded
<1>5. ASSUME Stop PROVE Goal
  <2>1. Written(Event("server_stopped", None, None))
    BY <1>1, <1>5 DEF Stop, Refused
  <2>2. QED
    BY <1>2, <1>3, <2>1 DEF EventTypes
<1>6. ASSUME NEW a \in Agents, NEW s \in Slots, Register(a, s) PROVE Goal
  <2>1. Written(Event("agent_registered", None, a))
    BY <1>1, <1>6 DEF Register, Refused
  <2>2. QED
    BY <1>2, <1>3, <1>6, <2>1 DEF EventTypes
<1>7. ASSUME NEW s \in Slots, CreateMission(s) PROVE Goal
  <2>1. Written(Event("mission_created", opened + 1, None))
    BY <1>1, <1>7 DEF CreateMission, Refused
  <2>2. opened + 1 \in Nat
    BY DEF TypeOK
  <2>3. QED
    BY <1>2, <1>3, <2>1, <2>2 DEF EventTypes
<1>8. ASSUME NEW s \in Slots, CreateTask(s) PROVE Goal
  <2>1. Written(Event("task_created", created + 1, None))
    BY <1>1, <1>8 DEF CreateTask, Refused
  <2>2. created + 1 \in Nat
    BY DEF TypeOK
  <2>3. QED
    BY <1>2, <1>3, <2>1, <2>2 DEF EventTypes
<1>9. ASSUME NEW s \in Slots, AssignTask(s) PROVE Goal
  <2> DEFINE a == RoundRobin(req[s].copy.type)
  <2>1. Candidates(req[s].copy.type) # {} /\ Written(Event("task_assigned", req[s].task, a))
    BY <1>1, <1>9 DEF AssignTask, Refused
  <2>2. a \in Agents
    BY <2>1, RoundRobinPicks DEF Candidates, TypeOK
  <2>3. req[s].task \in Nat
    BY <1>9 DEF TypeOK, Request
  <2> HIDE DEF a
  <2>4. QED
    BY <1>2, <2>1, <2>2, <2>3 DEF EventTypes
<1>10. ASSUME NEW a \in Agents, NEW s \in Slots, Submit(a, s) PROVE Goal
  <2>1. PICK t : t = worker[a].job
    OBVIOUS
  <2>2. t \in TaskIds /\ t \in Nat
    <3>1. worker[a].job # None
      BY <1>10 DEF Submit
    <3>2. worker[a].job \in TaskIds
      BY <1>10, <3>1 DEF TypeOK
    <3>3. QED
      BY <2>1, <3>2 DEF TaskIds
  <2>3. Accepts(a, t) /\ Written(Event("task_result_submitted", t, a))
    BY <1>1, <1>10, <2>1 DEF Submit, Refused
  <2> DEFINE e == Event("task_result_submitted", t, a)
  <2>4. e \in EventRecord
    BY <1>10, <2>2, EventType DEF EventTypes
  <2>5. e.type = "task_result_submitted" /\ e.task = t /\ e.agent = a /\ e.run = boots
    BY DEF Event
  <2>6. /\ Recorded(Event("agent_registered", None, a))
        /\ Recorded(Event("task_created", t, None))
    BY <2>2, <2>3 DEF Accepts, MemoryInv
  <2>7. Grounded(e)
    BY <2>5, <2>6 DEF Grounded, Event
  <2> HIDE DEF e
  <2>8. QED
    BY <2>3, <2>4, <2>5, <2>7 DEF Goal, e
<1>11. ASSUME NEW s \in Slots, ContextIssued(s) PROVE Goal
  <2>1. Written(Event("context_pack_issued", None, None))
    BY <1>1, <1>11 DEF ContextIssued, Refused
  <2>2. QED
    BY <1>2, <1>3, <2>1 DEF EventTypes
<1>12. ASSUME NEW s \in Slots,
              \/ RegisterDone(s) \/ MissionIndexed(s) \/ MissionStored(s) \/ TaskCreated(s)
              \/ SubmitDone(s) \/ ContextDone(s)
       PROVE  Goal
  BY <1>1, <1>12 DEF RegisterDone, MissionIndexed, MissionStored, TaskCreated, SubmitDone,
     ContextDone
<1>13. ASSUME BootIndexed \/ StopIndexed \/ Crash \/ UNCHANGED vars PROVE Goal
  BY <1>1, <1>13 DEF BootIndexed, StopIndexed, Crash, vars, disk
<1>14. ASSUME NEW a \in Agents,
              WorkerRestart(a) \/ WorkerTimeout(a) \/ CallFails(a) \/ Poll(a)
       PROVE  Goal
  BY <1>1, <1>14 DEF WorkerRestart, WorkerTimeout, CallFails, Poll, disk
<1>15. QED
  BY <1>4, <1>5, <1>6, <1>7, <1>8, <1>9, <1>10, <1>11, <1>12, <1>13, <1>14 DEF Next, Handler

\* What was written before a position stays before it.
LEMMA BeforeKept ==
    ASSUME TypeOK, LogGrows, unlogged \subseteq unlogged', NEW i \in DOMAIN log
    PROVE  /\ log'[i] = log[i]
           /\ {log[j] : j \in 1 .. i - 1} \cup unlogged
                \subseteq {log'[j] : j \in 1 .. i - 1} \cup unlogged'
<1>1. i \in 1 .. Len(log) /\ Len(log) \in Nat /\ DOMAIN log = 1 .. Len(log)
  BY DEF TypeOK
<1>2. \A j \in 1 .. i - 1 : j \in DOMAIN log
  BY <1>1
<1>3. \A j \in 1 .. i - 1 : log'[j] = log[j]
  BY <1>2 DEF LogGrows
<1>4. log'[i] = log[i]
  BY DEF LogGrows
<1>5. QED
  BY <1>3, <1>4

\* The ghost of refused events only grows.
LEMMA UnloggedGrows ==
    ASSUME [Next]_vars
    PROVE  unlogged \subseteq unlogged'
<1>1. ASSUME Boot \/ BootIndexed \/ Stop \/ StopIndexed \/ Crash \/ UNCHANGED vars
      PROVE  unlogged \subseteq unlogged'
  BY <1>1 DEF Boot, BootIndexed, Stop, StopIndexed, Crash, vars
<1>2. ASSUME NEW s \in Slots,
             CreateMission(s) \/ CreateTask(s) \/ ContextIssued(s) \/ Handler(s)
      PROVE  unlogged \subseteq unlogged'
  BY <1>2 DEF CreateMission, CreateTask, ContextIssued, Handler, RegisterDone, MissionIndexed,
     MissionStored, AssignTask, TaskCreated, SubmitDone, ContextDone
<1>3. ASSUME NEW a \in Agents, NEW s \in Slots, Register(a, s) \/ Submit(a, s)
      PROVE  unlogged \subseteq unlogged'
  BY <1>3 DEF Register, Submit
<1>4. ASSUME NEW a \in Agents,
             WorkerRestart(a) \/ WorkerTimeout(a) \/ CallFails(a) \/ Poll(a)
      PROVE  unlogged \subseteq unlogged'
  BY <1>4 DEF WorkerRestart, WorkerTimeout, CallFails, Poll
<1>5. QED
  BY <1>1, <1>2, <1>3, <1>4 DEF Next

\* Results stay grounded.
LEMMA GroundedStep ==
    ASSUME TypeOK, RequestInv, DownInv, MemoryInv, ResultsGrounded, [Next]_vars, LogGrows
    PROVE  ResultsGrounded'
<1> DEFINE This(e, type, task, agent) ==
             [type |-> type, task |-> task, agent |-> agent, run |-> e.run]
           Before(i) == {log[j] : j \in 1 .. i - 1} \cup unlogged
           After(i) == {log'[j] : j \in 1 .. i - 1} \cup unlogged'
<1>1. SUFFICES ASSUME NEW i \in DOMAIN log', log'[i].type = "task_result_submitted"
               PROVE  /\ This(log'[i], "agent_registered", None, log'[i].agent) \in After(i)
                      /\ This(log'[i], "task_created", log'[i].task, None) \in After(i)
  BY DEF ResultsGrounded
<1>2. unlogged \subseteq unlogged'
  BY UnloggedGrows
<1>3. DOMAIN log = 1 .. Len(log) /\ Len(log) \in Nat
  BY DEF TypeOK
<1>4. CASE i \in DOMAIN log
  <2>1. log'[i] = log[i] /\ Before(i) \subseteq After(i)
    BY <1>2, <1>4, BeforeKept
  <2>2. /\ This(log[i], "agent_registered", None, log[i].agent) \in Before(i)
        /\ This(log[i], "task_created", log[i].task, None) \in Before(i)
    BY <1>1, <1>4, <2>1 DEF ResultsGrounded
  <2> HIDE DEF Before, After
  <2>3. QED
    BY <2>1, <2>2
<1>5. CASE i \notin DOMAIN log
  <2>1. PICK e \in EventRecord : Written(e) /\ Grounded(e)
    BY <1>1, <1>5, LogStep
  <2>2. /\ DOMAIN log' = 1 .. Len(log) + 1 /\ log'[Len(log) + 1] = e
    BY <2>1, WrittenGrows
  <2>3. i = Len(log) + 1 /\ log'[i] = e /\ i - 1 = Len(log)
    BY <1>3, <1>5, <2>2
  <2>4. /\ Recorded(This(e, "agent_registered", None, e.agent))
        /\ Recorded(This(e, "task_created", e.task, None))
    BY <1>1, <2>1, <2>3 DEF Grounded
  <2>5. ASSUME NEW f, Recorded(f) PROVE f \in After(i)
    <3>1. CASE f \in unlogged
      BY <1>2, <3>1
    <3>2. ASSUME NEW j \in DOMAIN log, log[j] = f PROVE f \in After(i)
      <4>1. log'[j] = f /\ j \in 1 .. i - 1
        BY <1>3, <2>3, <3>2 DEF LogGrows
      <4>2. QED
        BY <4>1
    <3>3. QED
      BY <2>5, <3>1, <3>2 DEF Recorded
  <2> HIDE DEF After, This
  <2>6. QED
    BY <2>3, <2>4, <2>5
<1>6. QED
  BY <1>4, <1>5

\* Two starts stay separated.
LEMMA StartsStep ==
    ASSUME TypeOK, RequestInv, DownInv, MemoryInv, StartsSeparated, [Next]_vars, LogGrows
    PROVE  StartsSeparated'
<1> DEFINE Lifecycle == {i \in DOMAIN log : log[i].type \in
                           {"server_started", "server_recovered", "server_stopped"}}
<1>1. SUFFICES ASSUME NEW i \in DOMAIN log', NEW j \in DOMAIN log', i < j,
                      log'[i].type = "server_started", log'[j].type = "server_started"
               PROVE  \E k \in i + 1 .. j - 1 :
                        log'[k].type \in {"server_stopped", "server_recovered"}
  BY DEF StartsSeparated
<1>2. DOMAIN log = 1 .. Len(log) /\ Len(log) \in Nat
  BY DEF TypeOK
<1>3. DOMAIN log' = 1 .. Len(log')  /\ Len(log') \in Nat
  BY DEF LogGrows
<1>4. CASE j \in DOMAIN log
  <2>1. i \in DOMAIN log
    BY <1>1, <1>2, <1>3, <1>4
  <2>2. log'[i] = log[i] /\ log'[j] = log[j]
    BY <1>4, <2>1 DEF LogGrows
  <2>3. PICK k \in i + 1 .. j - 1 : log[k].type \in {"server_stopped", "server_recovered"}
    BY <1>1, <1>4, <2>1, <2>2 DEF StartsSeparated
  <2>4. k \in DOMAIN log
    BY <1>2, <1>4, <2>1, <2>3
  <2>5. QED
    BY <2>3, <2>4 DEF LogGrows
<1>5. CASE j \notin DOMAIN log
  <2>1. PICK e \in EventRecord : Written(e) /\ (e.type = "server_started" => ~DetectRecovery)
    BY <1>1, <1>5, LogStep
  <2>2. /\ DOMAIN log' = 1 .. Len(log) + 1 /\ log'[Len(log) + 1] = e
    BY <2>1, WrittenGrows
  <2>3. j = Len(log) + 1 /\ log'[j] = e /\ i \in DOMAIN log
    BY <1>1, <1>2, <1>5, <2>2
  <2>4. ~DetectRecovery
    BY <1>1, <2>1, <2>3
  <2>5. log'[i] = log[i]
    BY <2>3 DEF LogGrows
  <2>6. i \in Lifecycle
    BY <1>1, <2>3, <2>5
  <2>7. PICK k \in Lifecycle : \A m \in Lifecycle : m <= k
    <3>1. Lifecycle \subseteq 1 .. Len(log)
      BY <1>2
    <3> HIDE DEF Lifecycle
    <3>2. QED
      BY <1>2, <2>6, <3>1, GreatestPosition
  <2>8. log[k].type # "server_started"
    BY <2>4, <2>7 DEF DetectRecovery
  <2>9. k \in DOMAIN log /\ i <= k /\ k # i
    BY <1>1, <2>5, <2>6, <2>7, <2>8
  <2>10. k \in i + 1 .. j - 1 /\ log'[k] = log[k]
    BY <1>2, <2>3, <2>9 DEF LogGrows
  <2>11. log[k].type \in {"server_stopped", "server_recovered"}
    BY <2>7, <2>8
  <2>12. QED
    BY <2>10, <2>11
<1>6. QED
  BY <1>4, <1>5

----------------------------------------------------------------------------
(* What the index says *)

\* The index only grows, and only the two steps that hand out a receipt or open a mission
\* add to what it has to account for.
LEMMA IndexStep ==
    ASSUME TypeOK, [Next]_vars
    PROVE  /\ indexed \subseteq indexed' /\ stored \subseteq stored'
           /\ receipts' = receipts \/ \E s \in Slots : SubmitDone(s)
           /\ missions' \subseteq missions \/ \E s \in Slots : MissionStored(s)
<1> DEFINE Goal == /\ indexed \subseteq indexed' /\ stored \subseteq stored'
                   /\ receipts' = receipts \/ \E s \in Slots : SubmitDone(s)
                   /\ missions' \subseteq missions \/ \E s \in Slots : MissionStored(s)
<1>1. ASSUME Boot \/ BootIndexed \/ Stop \/ StopIndexed \/ Crash \/ UNCHANGED vars
      PROVE  Goal
  BY <1>1 DEF Boot, BootIndexed, Stop, StopIndexed, Crash, Forget, vars, memory, disk
<1>2. ASSUME NEW s \in Slots, CreateMission(s) \/ CreateTask(s) \/ ContextIssued(s)
      PROVE  Goal
  BY <1>2 DEF CreateMission, CreateTask, ContextIssued, memory
<1>3. ASSUME NEW s \in Slots, RegisterDone(s) \/ MissionIndexed(s) \/ AssignTask(s)
                              \/ TaskCreated(s) \/ ContextDone(s)
      PROVE  Goal
  BY <1>3 DEF RegisterDone, MissionIndexed, AssignTask, TaskCreated, ContextDone, Resume, memory
<1>4. ASSUME NEW s \in Slots, MissionStored(s) \/ SubmitDone(s) PROVE Goal
  BY <1>4 DEF MissionStored, SubmitDone, Resume
<1>5. ASSUME NEW a \in Agents, NEW s \in Slots, Register(a, s) \/ Submit(a, s) PROVE Goal
  BY <1>5 DEF Register, Submit, memory
<1>6. ASSUME NEW a \in Agents,
             WorkerRestart(a) \/ WorkerTimeout(a) \/ CallFails(a) \/ Poll(a)
      PROVE  Goal
  BY <1>6 DEF WorkerRestart, WorkerTimeout, CallFails, Poll, memory, disk
<1> HIDE DEF Goal
<1>7. Goal
  BY <1>1, <1>2, <1>3, <1>4, <1>5, <1>6 DEF Next, Handler
<1>8. QED
  BY <1>7 DEF Goal

\* Receipts stay durable.
LEMMA ReceiptsStep ==
    ASSUME TypeOK, RequestInv, ReceiptsDurable, [Next]_vars, LogGrows
    PROVE  ReceiptsDurable'
<1>1. ASSUME NEW r \in receipts
      PROVE  \E i \in indexed' :
               /\ log'[i].type = "task_result_submitted"
               /\ log'[i].task = r.task /\ log'[i].agent = r.agent
  <2>1. PICK i \in indexed : /\ log[i].type = "task_result_submitted"
                             /\ log[i].task = r.task /\ log[i].agent = r.agent
    BY <1>1 DEF ReceiptsDurable
  <2>2. i \in indexed' /\ log'[i] = log[i]
    BY <2>1, IndexStep DEF LogGrows, TypeOK
  <2>3. QED
    BY <2>1, <2>2
<1>2. CASE receipts' = receipts
  BY <1>1, <1>2 DEF ReceiptsDurable
<1>3. ASSUME NEW s \in Slots, SubmitDone(s)
      PROVE  ReceiptsDurable'
  <2>1. /\ RequestKnows(s) /\ req[s].op = "submit"
        /\ indexed' = indexed \cup {req[s].event}
    BY <1>3, ResumeType DEF SubmitDone
  <2>2. receipts' = receipts \cup {[agent |-> req[s].agent, task |-> req[s].task]}
    BY <1>3 DEF SubmitDone
  <2>3. UNCHANGED log
    BY <1>3 DEF SubmitDone
  <2>4. /\ log'[req[s].event].type = "task_result_submitted"
        /\ log'[req[s].event].task = req[s].task /\ log'[req[s].event].agent = req[s].agent
    BY <2>1, <2>3 DEF RequestKnows
  <2>5. QED
    BY <1>1, <2>1, <2>2, <2>4 DEF ReceiptsDurable
<1>4. QED
  BY <1>2, <1>3, IndexStep

\* Missions stay recorded.
LEMMA MissionsStep ==
    ASSUME TypeOK, RequestInv, MissionsRecorded, [Next]_vars, LogGrows
    PROVE  MissionsRecorded'
<1>1. ASSUME NEW m \in missions
      PROVE  m \in stored' /\ \E i \in indexed' :
               log'[i].type = "mission_created" /\ log'[i].task = m
  <2>1. m \in stored
    BY <1>1 DEF MissionsRecorded
  <2>2. PICK i \in indexed : log[i].type = "mission_created" /\ log[i].task = m
    BY <1>1 DEF MissionsRecorded
  <2>3. i \in indexed' /\ log'[i] = log[i] /\ m \in stored'
    BY <2>1, <2>2, IndexStep DEF LogGrows, TypeOK
  <2>4. QED
    BY <2>2, <2>3
<1>2. CASE missions' \subseteq missions
  BY <1>1, <1>2 DEF MissionsRecorded
<1>3. ASSUME NEW s \in Slots, MissionStored(s)
      PROVE  MissionsRecorded'
  <2>1. /\ RequestKnows(s) /\ req[s].op = "mission"
        /\ indexed' = indexed \cup {req[s].event}
    BY <1>3, ResumeType DEF MissionStored
  <2>2. /\ missions' = missions \cup {req[s].task} /\ stored' = stored \cup {req[s].task}
        /\ UNCHANGED log
    BY <1>3 DEF MissionStored
  <2>3. /\ log'[req[s].event].type = "mission_created"
        /\ log'[req[s].event].task = req[s].task
    BY <2>1, <2>2 DEF RequestKnows
  <2>4. QED
    BY <1>1, <2>1, <2>2, <2>3 DEF MissionsRecorded
<1>4. QED
  BY <1>2, <1>3, IndexStep

----------------------------------------------------------------------------
(* Stale copies *)

\* In every step of the running server, a task that loses its assignee or its completion
\* loses it to an outdated copy.
LEMMA StaleStep ==
    ASSUME TypeOK, RequestInv, DownInv, MemoryInv, [Next]_vars, TypeOK',
           NEW t \in TaskIds, server' = "up", tasks[t].to # None,
           \/ tasks'[t].to # tasks[t].to
           \/ tasks[t].status = "completed" /\ tasks'[t] # tasks[t]
    PROVE  \E s \in Slots : req[s].at # "idle" /\ req[s].task = t /\ req[s].copy # tasks[t]
<1> USE MeshAssumption
<1> DEFINE Goal == \E s \in Slots :
                     req[s].at # "idle" /\ req[s].task = t /\ req[s].copy # tasks[t]
<1>1. tasks'[t] # tasks[t] /\ tasks[t] \in Task /\ tasks \in [TaskIds -> Task]
  BY DEF TypeOK
<1>2. ASSUME NEW s \in Slots, CreateTask(s) PROVE FALSE
  <2>1. PICK u \in TaskIds : u = created + 1
    BY <1>2 DEF CreateTask, TypeOK, TaskIds
  <2>2. PICK task : tasks' = [tasks EXCEPT ![u] = task]
    BY <1>2, <2>1 DEF CreateTask
  <2>3. t = u
    BY <1>1, <2>2
  <2>4. ~(u <= created)
    BY <2>1 DEF TypeOK
  <2>5. tasks[t].status = "none"
    BY <2>3, <2>4 DEF MemoryInv
  <2>6. tasks[t].to = None
    BY <2>5 DEF MemoryInv
  <2>7. QED
    BY <2>6
<1>3. ASSUME NEW s \in Slots, AssignTask(s) PROVE Goal
  <2>1. /\ RequestKnows(s) /\ req[s].op = "create" /\ req[s].at = "index"
    BY <1>3, ResumeType DEF AssignTask
  <2>2. PICK task : tasks' = [tasks EXCEPT ![req[s].task] = task]
    BY <1>1, <1>3 DEF AssignTask
  <2>3. req[s].task = t
    BY <1>1, <2>2
  <2>4. req[s].copy.to = None
    BY <2>1 DEF RequestKnows
  <2>5. req[s].copy # tasks[t]
    BY <2>4
  <2>6. QED
    BY <2>1, <2>3, <2>5
<1>4. ASSUME NEW s \in Slots, SubmitDone(s) PROVE Goal
  <2>1. req[s] \in Request /\ req[s].at = "index"
    BY <1>4, ResumeType DEF SubmitDone
  <2>2. tasks' = [tasks EXCEPT ![req[s].task] = [req[s].copy EXCEPT !.status = "completed"]]
    BY <1>4 DEF SubmitDone
  <2>3. req[s].task = t
    BY <1>1, <2>2
  <2>4. tasks'[t] = [req[s].copy EXCEPT !.status = "completed"] /\ req[s].copy \in Task
    BY <1>1, <2>1, <2>2, <2>3 DEF Request
  <2>5. ASSUME req[s].copy = tasks[t] PROVE FALSE
    <3>1. tasks'[t] = [status |-> "completed", type |-> tasks[t].type, to |-> tasks[t].to]
      BY <1>1, <2>4, <2>5 DEF Task
    <3>2. tasks'[t].to = tasks[t].to
      BY <3>1
    <3>3. tasks[t].status = "completed" => tasks'[t] = tasks[t]
      BY <1>1, <3>1 DEF Task
    <3>4. QED
      BY <3>2, <3>3
  <2>6. QED
    BY <2>1, <2>3, <2>5
<1>5. ASSUME NEW a \in Agents, Poll(a) PROVE FALSE
  <2>1. PICK u \in TaskIds : Eligible(a, u)
          /\ tasks' = [tasks EXCEPT ![u].status = "assigned", ![u].to = a]
    BY <1>5 DEF Poll, NextForAgent
  <2>2. u = t
    BY <1>1, <2>1
  <2>3. tasks[t].status # "completed" /\ tasks'[t].to = a
    BY <1>1, <2>1, <2>2 DEF Eligible, Task
  <2>4. CASE tasks[t].status = "pending"
    BY <2>4 DEF MemoryInv
  <2>5. CASE tasks[t].status = "assigned" /\ tasks[t].to \in {a, None}
    BY <2>3, <2>5
  <2>6. QED
    BY <2>1, <2>2, <2>4, <2>5 DEF Eligible
<1>6. ASSUME BootIndexed \/ Boot \/ Stop \/ StopIndexed \/ Crash PROVE FALSE
  BY <1>1, <1>6 DEF Boot, BootIndexed, Stop, StopIndexed, Crash, memory
<1>7. ASSUME UNCHANGED tasks PROVE FALSE
  BY <1>1, <1>7
<1>8. ASSUME NEW s \in Slots,
             \/ RegisterDone(s) \/ MissionIndexed(s) \/ MissionStored(s) \/ TaskCreated(s)
             \/ CreateMission(s) \/ ContextIssued(s) \/ ContextDone(s)
      PROVE  FALSE
  BY <1>7, <1>8 DEF RegisterDone, MissionIndexed, MissionStored, TaskCreated, CreateMission,
     ContextIssued, ContextDone, memory
<1>9. ASSUME NEW a \in Agents, NEW s \in Slots, Register(a, s) \/ Submit(a, s) PROVE FALSE
  BY <1>7, <1>9 DEF Register, Submit, memory
<1>10. ASSUME NEW a \in Agents, WorkerRestart(a) \/ WorkerTimeout(a) \/ CallFails(a)
       PROVE  FALSE
  BY <1>7, <1>10, WorkerStep DEF memory
<1>11. ASSUME UNCHANGED vars PROVE FALSE
  BY <1>7, <1>11 DEF vars, memory
<1> HIDE DEF Goal
<1>12. Goal
  BY <1>2, <1>3, <1>4, <1>5, <1>6, <1>8, <1>9, <1>10, <1>11 DEF Next, Handler
<1>13. QED
  BY <1>12 DEF Goal

----------------------------------------------------------------------------
(* Theorems *)

\* The server starts with empty files and an empty memory.
LEMMA MeshInit ==
    ASSUME Init
    PROVE  MeshInv
<1> USE MeshAssumption
<1>1. TypeOK
  BY DEF Init, TypeOK, NoTask, Task, Idle, Request, NewWorker, None
<1>2. RequestInv /\ DownInv /\ MemoryInv
  BY DEF Init, RequestInv, DownInv, MemoryInv, Idle, NoTask
<1>3. ReceiptsDurable /\ ResultsGrounded /\ MissionsRecorded /\ StartsSeparated
  BY DEF Init, ReceiptsDurable, ResultsGrounded, MissionsRecorded, StartsSeparated
<1>4. QED
  BY <1>1, <1>2, <1>3 DEF MeshInv

\* The inductive invariant is kept by every step.
LEMMA MeshStep ==
    ASSUME MeshInv, [Next]_vars
    PROVE  MeshInv'
<1>1. /\ TypeOK /\ RequestInv /\ DownInv /\ MemoryInv
      /\ ReceiptsDurable /\ ResultsGrounded /\ MissionsRecorded /\ StartsSeparated
  BY DEF MeshInv
<1>2. TypeOK' /\ LogGrows
  BY <1>1, TypeStep
<1>3. RequestInv' /\ DownInv' /\ MemoryInv'
  BY <1>1, <1>2, RequestStep, DownStep, MemoryStep
<1>4. ReceiptsDurable' /\ MissionsRecorded' /\ ResultsGrounded' /\ StartsSeparated'
  BY <1>1, <1>2, ReceiptsStep, MissionsStep, GroundedStep, StartsStep
<1>5. QED
  BY <1>2, <1>3, <1>4 DEF MeshInv

\* The server, its files and its workers keep their types: in particular the scheduler's
\* round robin always picks a registered, able agent, and every request in flight names an
\* event that is in the log (agent_mesh/server/routes.py, scheduler/task_scheduler.py).
THEOREM ServerTypes == Spec => []TypeOK
<1>1. MeshInv => TypeOK
  BY DEF MeshInv
<1>2. QED
  BY <1>1, MeshInit, MeshStep, PTL DEF Spec

\* Rule A of agent-mesh, for every number of agents, requests, crashes and refused writes:
\* a receipt is backed by an indexed event of the log (submit_task_result).
THEOREM ReceiptsAreDurable == Spec => []ReceiptsDurable
<1>1. MeshInv => ReceiptsDurable
  BY DEF MeshInv
<1>2. QED
  BY <1>1, MeshInit, MeshStep, PTL DEF Spec

\* The audit trail is complete: results are grounded in registrations and creations of the
\* same run, open missions are in the table and the index, and every crash of a freshly
\* started server is on record (routes.py, app.py's _detect_recovery).
THEOREM AuditTrailComplete == Spec => []AuditTrail
<1>1. MeshInv => AuditTrail
  BY DEF MeshInv, AuditTrail
<1>2. QED
  BY <1>1, MeshInit, MeshStep, PTL DEF Spec

\* Only a handler that resumes with an outdated copy of a task takes it from its assignee
\* or reopens it; polls never do (create_task and submit_task_result).
THEOREM StaleCopiesOnly == Spec => OnlyStaleCopiesUndo
<1>1. ASSUME MeshInv, MeshInv', [Next]_vars
      PROVE  [\A t \in TaskIds :
                /\ server' = "up" /\ tasks[t].to # None
                /\ tasks'[t].to # tasks[t].to
                   \/ (tasks[t].status = "completed" /\ tasks'[t] # tasks[t])
                => \E s \in Slots :
                     req[s].at # "idle" /\ req[s].task = t /\ req[s].copy # tasks[t]]_vars
  <2>1. TypeOK /\ RequestInv /\ DownInv /\ MemoryInv /\ TypeOK'
    BY <1>1 DEF MeshInv
  <2>2. QED
    BY <1>1, <2>1, StaleStep
<1>2. QED
  BY <1>1, MeshInit, MeshStep, PTL DEF Spec, OnlyStaleCopiesUndo
=============================================================================
