----------------------------- MODULE MeshServer -----------------------------
(***************************************************************************)
(* The agent-mesh coordination server and its workers                      *)
(* (agent_mesh/server/routes.py and app.py, scheduler/task_scheduler.py,   *)
(* dsm/writer.py, index/db.py, workers/protocol.py).                       *)
(*                                                                         *)
(* The server is one asyncio event loop: a handler runs undisturbed from   *)
(* one await to the next, so an action is such a stretch of code.  Its     *)
(* awaits are the calls of the SQLite index; between them every other      *)
(* request may run.  The registry, the missions and the tasks live in      *)
(* memory; events.jsonl and the index survive a crash.                     *)
(*                                                                         *)
(* Agents are numbered in the order of their agent_id, tasks in the order  *)
(* of their creation, which is the order of the tasks dict.                *)
(***************************************************************************)
EXTENDS Integers, Sequences, FiniteSets

CONSTANTS
    Agents,        \* agent_ids, as numbers: assign_task sorts them
    Slots,         \* bound: requests the server handles at a time
    Types,         \* task types, as numbers; they are also the capabilities
    Capabilities,  \* what each agent declares, when it registers and when it polls
    MaxLog,        \* max_log_bytes, in events: the writer's ceiling
    MaxMissions,   \* bound: missions created
    MaxTasks,      \* bound: tasks created
    MaxBoots,      \* bound: starts of the server
    MaxRefusals,   \* bound: events refused below the ceiling (max_event_bytes)
    MaxTimeouts,   \* bound: answers that came too late for the worker, and failed LLM calls
    MaxPacks       \* bound: context packs requested

ASSUME MeshAssumption ==
    /\ Agents \subseteq Nat \ {0} /\ IsFiniteSet(Agents) /\ Types \subseteq Nat \ {0}
    /\ Capabilities \in [Agents -> SUBSET Types]
    /\ MaxLog \in Nat /\ MaxMissions \in Nat /\ MaxTasks \in Nat /\ MaxBoots \in Nat
    /\ MaxRefusals \in Nat /\ MaxTimeouts \in Nat /\ MaxPacks \in Nat

VARIABLES
    server,      \* down, starting, up or stopping
    registered,  \* AgentRegistry and the keys of SigningAdapter
    missions,    \* AppState.missions
    stored,      \* the missions table of the index
    tasks,       \* AppState.tasks
    cursor,      \* TaskScheduler._cursor
    log,         \* events.jsonl
    indexed,     \* positions of log that the index holds
    req,         \* the request each slot is handling
    worker,      \* the state of each worker process
    receipts,    \* receipts the workers were given
    unlogged,    \* ghost: the registrations and creations whose event was refused
    opened, created,  \* missions and tasks created so far
    boots, refusals, timeouts, packs

memory == <<registered, missions, tasks, cursor>>
bounds == <<opened, created, boots, refusals, timeouts, packs>>
disk == <<stored, log, indexed>>
vars == <<server, memory, disk, req, worker, receipts, unlogged, bounds>>

None == 0
TaskIds == 1 .. MaxTasks

----------------------------------------------------------------------------
(* State *)

NoTask == [status |-> "none", type |-> None, to |-> None]

EventTypes == {"server_started", "server_recovered", "server_stopped", "agent_registered",
               "mission_created", "task_created", "task_assigned", "task_result_submitted",
               "context_pack_issued"}

\* run is a ghost: the number of the server start that wrote the event.
Event(type, task, agent) == [type |-> type, task |-> task, agent |-> agent, run |-> boots]

\* A request.  copy is the Task object the handler holds across its awaits, event the
\* position of the event it wrote.
Idle == [op |-> "none", at |-> "idle", task |-> None, agent |-> None, copy |-> NoTask,
         event |-> 0]

\* A worker process.  job is the task it was given.
NewWorker == [state |-> "new", job |-> None]

Init ==
    /\ server = "down"
    /\ registered = {} /\ missions = {} /\ stored = {}
    /\ tasks = [t \in TaskIds |-> NoTask]
    /\ cursor = 0
    /\ log = <<>> /\ indexed = {}
    /\ req = [s \in Slots |-> Idle]
    /\ worker = [a \in Agents |-> NewWorker]
    /\ receipts = {} /\ unlogged = {}
    /\ opened = 0 /\ created = 0 /\ boots = 0 /\ refusals = 0 /\ timeouts = 0 /\ packs = 0

----------------------------------------------------------------------------
(* DSMWriter and the index *)

\* write() appends the event ...
Written(e) ==
    /\ Len(log) < MaxLog
    /\ log' = Append(log, e)
    /\ UNCHANGED refusals

\* ... or returns None: the ceiling is reached, or this event is too large.
Refused ==
    /\ \/ Len(log) >= MaxLog /\ UNCHANGED refusals
       \/ refusals < MaxRefusals /\ refusals' = refusals + 1
    /\ UNCHANGED log

\* The handler in slot s awaits index_event for the event it just wrote.
Await(s, op, at, task, agent, copy) ==
    req' = [req EXCEPT ![s] = [op |-> op, at |-> at, task |-> task, agent |-> agent,
                               copy |-> copy, event |-> Len(log) + 1]]

Free(s) == server = "up" /\ req[s].at = "idle"

\* The await is over: the row is in the index.
Resume(s, op, at) ==
    /\ server = "up"
    /\ req[s].op = op /\ req[s].at = at
    /\ indexed' = indexed \cup {req[s].event}

Finish(s) == req' = [req EXCEPT ![s] = Idle]

\* The response reaches the worker, unless it gave up waiting.
Reply(a, state) ==
    worker' = IF worker[a].state = "waiting"
              THEN [worker EXCEPT ![a] = [state |-> state, job |-> None]]
              ELSE worker

----------------------------------------------------------------------------
(* The server process *)

\* _detect_recovery: the last lifecycle event is a start.
DetectRecovery ==
    LET lifecycle == {i \in DOMAIN log : log[i].type \in
                        {"server_started", "server_recovered", "server_stopped"}}
    IN  \E i \in lifecycle :
          (\A j \in lifecycle : j <= i) /\ log[i].type = "server_started"

\* The lifespan opens the log, builds an empty state and writes one lifecycle event.
Boot ==
    /\ server = "down" /\ boots < MaxBoots
    /\ boots' = boots + 1
    /\ \/ /\ Written([Event(IF DetectRecovery THEN "server_recovered" ELSE "server_started",
                            None, None) EXCEPT !.run = boots + 1])
          /\ server' = "starting"
       \/ Refused /\ server' = "up"
    /\ UNCHANGED <<memory, stored, indexed, req, worker, receipts, unlogged, opened,
                   created, timeouts, packs>>

\* It awaits the index before the first request is served.
BootIndexed ==
    /\ server = "starting"
    /\ server' = "up"
    /\ indexed' = indexed \cup {Len(log)}
    /\ UNCHANGED <<memory, stored, log, req, worker, receipts, unlogged, bounds>>

\* What a process that ended leaves in memory: nothing.
Forget ==
    /\ registered' = {} /\ missions' = {} /\ cursor' = 0
    /\ tasks' = [t \in TaskIds |-> NoTask]

\* An orderly stop: the running requests have been answered.
Stop ==
    /\ server = "up" /\ \A s \in Slots : req[s].at = "idle"
    /\ \/ Written(Event("server_stopped", None, None)) /\ server' = "stopping"
       \/ Refused /\ server' = "down"
    /\ Forget
    /\ UNCHANGED <<stored, indexed, req, worker, receipts, unlogged, opened, created,
                   boots, timeouts, packs>>

StopIndexed ==
    /\ server = "stopping"
    /\ server' = "down"
    /\ indexed' = indexed \cup {Len(log)}
    /\ UNCHANGED <<memory, stored, log, req, worker, receipts, unlogged, bounds>>

\* The process is killed.  Workers that waited for an answer get a connection error:
\* run() survives it, register() does not.
Crash ==
    /\ server \in {"starting", "up", "stopping"}
    /\ boots < MaxBoots
    /\ server' = "down"
    /\ Forget
    /\ req' = [s \in Slots |-> Idle]
    /\ worker' = [a \in Agents |->
                    IF worker[a].state # "waiting" THEN worker[a]
                    ELSE [state |-> IF worker[a].job = None THEN "dead" ELSE "ready",
                          job |-> None]]
    /\ UNCHANGED <<disk, receipts, unlogged, bounds>>

----------------------------------------------------------------------------
(* Registration *)

\* MeshWorker.register and register_agent: the agent is in the registry before the event
\* is written, and stays there when the write is refused and the worker's register() raises.
Register(a, s) ==
    /\ Free(s)
    /\ worker[a].state = "new"
    /\ \/ /\ a \in registered
          /\ worker' = [worker EXCEPT ![a].state = "ready"]
          /\ UNCHANGED <<registered, log, req, unlogged, refusals>>
       \/ /\ a \notin registered
          /\ registered' = registered \cup {a}
          /\ Written(Event("agent_registered", None, a))
          /\ Await(s, "register", "index", None, a, NoTask)
          /\ worker' = [worker EXCEPT ![a].state = "waiting"]
          /\ UNCHANGED unlogged
       \/ /\ a \notin registered
          /\ registered' = registered \cup {a}
          /\ Refused
          /\ unlogged' = unlogged \cup {Event("agent_registered", None, a)}
          /\ worker' = [worker EXCEPT ![a].state = "dead"]
          /\ UNCHANGED req
    /\ UNCHANGED <<server, missions, tasks, cursor, stored, indexed, receipts, opened,
                   created, boots, timeouts, packs>>

RegisterDone(s) ==
    /\ Resume(s, "register", "index")
    /\ Reply(req[s].agent, "ready")
    /\ Finish(s)
    /\ UNCHANGED <<server, memory, stored, log, receipts, unlogged, bounds>>

\* A worker that died is started again.
WorkerRestart(a) ==
    /\ worker[a].state = "dead"
    /\ worker' = [worker EXCEPT ![a] = NewWorker]
    /\ UNCHANGED <<server, memory, disk, req, receipts, unlogged, bounds>>

\* The worker's HTTP client gives up; the handler goes on.
WorkerTimeout(a) ==
    /\ worker[a].state = "waiting" /\ timeouts < MaxTimeouts
    /\ timeouts' = timeouts + 1
    /\ Reply(a, IF worker[a].job = None THEN "dead" ELSE "ready")
    /\ UNCHANGED <<server, memory, disk, req, receipts, unlogged, opened, created, boots,
                   refusals, packs>>

----------------------------------------------------------------------------
(* Missions and tasks *)

\* create_mission writes mission_created, awaits the index and the missions table, and
\* opens the mission in memory last.
CreateMission(s) ==
    /\ Free(s) /\ opened < MaxMissions
    /\ opened' = opened + 1
    /\ \/ /\ Written(Event("mission_created", opened + 1, None))
          /\ Await(s, "mission", "index", opened + 1, None, NoTask)
       \/ Refused /\ UNCHANGED req
    /\ UNCHANGED <<server, memory, stored, indexed, worker, receipts, unlogged, created,
                   boots, timeouts, packs>>

MissionIndexed(s) ==
    /\ Resume(s, "mission", "index")
    /\ req' = [req EXCEPT ![s].at = "store"]
    /\ UNCHANGED <<server, memory, stored, log, worker, receipts, unlogged, bounds>>

MissionStored(s) ==
    /\ Resume(s, "mission", "store")
    /\ stored' = stored \cup {req[s].task}
    /\ missions' = missions \cup {req[s].task}
    /\ Finish(s)
    /\ UNCHANGED <<server, registered, tasks, cursor, log, worker, receipts, unlogged,
                   bounds>>

\* create_task puts a pending task in the dict and writes task_created.
CreateTask(s) ==
    /\ Free(s) /\ missions # {} /\ created < MaxTasks
    /\ created' = created + 1
    /\ \E type \in Types :
         LET task == [status |-> "pending", type |-> type, to |-> None]
         IN  /\ tasks' = [tasks EXCEPT ![created + 1] = task]
             /\ \/ /\ Written(Event("task_created", created + 1, None))
                   /\ Await(s, "create", "index", created + 1, None, task)
                   /\ UNCHANGED unlogged
                \/ /\ Refused
                   /\ unlogged' = unlogged \cup {Event("task_created", created + 1, None)}
                   /\ UNCHANGED req
    /\ UNCHANGED <<server, registered, missions, cursor, stored, indexed, worker, receipts,
                   opened, boots, timeouts, packs>>

\* assign_task: round robin over the capable registered agents, in agent_id order.
Candidates(type) == {a \in registered : type \in Capabilities[a]}
RoundRobin(type) ==
    LET able == Candidates(type)
    IN  CHOOSE a \in able : Cardinality({b \in able : b < a}) = cursor % Cardinality(able)

\* After the await create_task assigns the copy it made before, and overwrites the dict.
AssignTask(s) ==
    /\ Resume(s, "create", "index")
    /\ LET t == req[s].task
           a == RoundRobin(req[s].copy.type)
           task == [req[s].copy EXCEPT !.status = "assigned", !.to = a]
       IN  IF Candidates(req[s].copy.type) = {}
           THEN Finish(s) /\ UNCHANGED <<tasks, cursor, log, refusals>>
           ELSE /\ cursor' = cursor + 1
                /\ tasks' = [tasks EXCEPT ![t] = task]
                /\ \/ /\ Written(Event("task_assigned", t, a))
                      /\ Await(s, "create", "assigned", t, a, task)
                   \/ Refused /\ Finish(s)
    /\ UNCHANGED <<server, registered, missions, stored, worker, receipts, unlogged,
                   opened, created, boots, timeouts, packs>>

TaskCreated(s) ==
    /\ Resume(s, "create", "assigned")
    /\ Finish(s)
    /\ UNCHANGED <<server, memory, stored, log, worker, receipts, unlogged, bounds>>

\* next_for_agent skips a task the agent cannot do, and one another agent has.
Eligible(a, t) ==
    /\ tasks[t].type \in Capabilities[a]
    /\ \/ tasks[t].status = "pending"
       \/ tasks[t].status = "assigned" /\ tasks[t].to \in {a, None}

\* Fault seed: an assigned task is offered to every agent.
NextForAgent_Anyone(a, t) ==
    /\ tasks[t].status \in {"pending", "assigned"} /\ tasks[t].type \in Capabilities[a]
    /\ \A u \in 1 .. t - 1 : ~(tasks[u].status \in {"pending", "assigned"}
                               /\ tasks[u].type \in Capabilities[a])
    /\ tasks' = [tasks EXCEPT ![t].status = "assigned", ![t].to = a]

\* Fault seed: only pending tasks are offered, an agent does not get its own again.
NextForAgent_PendingOnly(a, t) ==
    /\ tasks[t].status = "pending" /\ tasks[t].type \in Capabilities[a]
    /\ \A u \in 1 .. t - 1 : ~(tasks[u].status = "pending" /\ tasks[u].type \in Capabilities[a])
    /\ tasks' = [tasks EXCEPT ![t].status = "assigned", ![t].to = a]

\* next_for_agent takes the first eligible task of the dict.  Nothing is written.
NextForAgent(a, t) ==
    /\ Eligible(a, t)
    /\ \A u \in 1 .. t - 1 : ~Eligible(a, u)
    /\ tasks' = [tasks EXCEPT ![t].status = "assigned", ![t].to = a]

\* MeshWorker.poll_task and get_next_task.  When the answer is lost the task stays assigned.
Poll(a) ==
    /\ server = "up"
    /\ worker[a].state = "ready" /\ worker[a].job = None
    /\ \E t \in TaskIds :
         /\ NextForAgent(a, t)
         /\ \/ worker' = [worker EXCEPT ![a].job = t] /\ UNCHANGED timeouts
            \/ timeouts < MaxTimeouts /\ timeouts' = timeouts + 1 /\ UNCHANGED worker
    /\ UNCHANGED <<server, registered, missions, cursor, disk, req, receipts, unlogged,
                   opened, created, boots, refusals, packs>>

\* MeshWorker.run: call_llm raises, and the worker goes back to polling.
CallFails(a) ==
    /\ worker[a].state = "ready" /\ worker[a].job # None /\ timeouts < MaxTimeouts
    /\ timeouts' = timeouts + 1
    /\ worker' = [worker EXCEPT ![a].job = None]
    /\ UNCHANGED <<server, memory, disk, req, receipts, unlogged, opened, created, boots,
                   refusals, packs>>

\* Fault seed: a result is taken from any agent that was given the task.
Accepts_Unregistered(a, t) == tasks[t].status # "none" /\ tasks[t].to = a

\* submit_task_result's tests: the task is known, the agent has a key and is the assignee.
Accepts(a, t) == tasks[t].status # "none" /\ a \in registered /\ tasks[t].to = a

\* MeshWorker.submit and submit_task_result: refused (404, 422, 403, 500), or written.
\* The task's status is not looked at.
Submit(a, s) ==
    /\ Free(s)
    /\ worker[a].state = "ready" /\ worker[a].job # None
    /\ LET t == worker[a].job
       IN  \/ /\ Accepts(a, t)
              /\ Written(Event("task_result_submitted", t, a))
              /\ Await(s, "submit", "index", t, a, tasks[t])
              /\ worker' = [worker EXCEPT ![a].state = "waiting"]
           \/ /\ IF Accepts(a, t) THEN Refused ELSE UNCHANGED <<log, refusals>>
              /\ worker' = [worker EXCEPT ![a].job = None]
              /\ UNCHANGED req
    /\ UNCHANGED <<server, memory, stored, indexed, receipts, unlogged, opened, created,
                   boots, timeouts, packs>>

\* Fault seed: the receipt is made out to whoever has the task by now.
SubmitDone_ReceiptForHolder(s) ==
    /\ Resume(s, "submit", "index")
    /\ receipts' = receipts \cup {[agent |-> tasks[req[s].task].to, task |-> req[s].task]}
    /\ tasks' = [tasks EXCEPT ![req[s].task] = [req[s].copy EXCEPT !.status = "completed"]]
    /\ Reply(req[s].agent, "ready")
    /\ Finish(s)
    /\ UNCHANGED <<server, registered, missions, cursor, stored, log, unlogged, bounds>>

\* After the await: the receipt, and the copy of the task marked as completed.
SubmitDone(s) ==
    /\ Resume(s, "submit", "index")
    /\ receipts' = receipts \cup {[agent |-> req[s].agent, task |-> req[s].task]}
    /\ tasks' = [tasks EXCEPT ![req[s].task] = [req[s].copy EXCEPT !.status = "completed"]]
    /\ Reply(req[s].agent, "ready")
    /\ Finish(s)
    /\ UNCHANGED <<server, registered, missions, cursor, stored, log, unlogged, bounds>>

----------------------------------------------------------------------------
(* Context packs *)

\* Fault seed: the outcome of write() is not looked at before the event is indexed.
ContextIssued_NoCheck(s) ==
    /\ Free(s) /\ packs < MaxPacks
    /\ packs' = packs + 1
    /\ Written(Event("context_pack_issued", None, None)) \/ Refused
    /\ Await(s, "context", "index", None, None, NoTask)
    /\ UNCHANGED <<server, memory, stored, indexed, worker, receipts, unlogged, opened,
                   created, boots, timeouts>>

\* get_context reads the index, which changes nothing, and writes what it hands out.  A
\* scope that names neither a mission nor an agent is not tested.
ContextIssued(s) ==
    /\ Free(s) /\ packs < MaxPacks
    /\ packs' = packs + 1
    /\ \/ /\ Written(Event("context_pack_issued", None, None))
          /\ Await(s, "context", "index", None, None, NoTask)
       \/ Refused /\ UNCHANGED req
    /\ UNCHANGED <<server, memory, stored, indexed, worker, receipts, unlogged, opened,
                   created, boots, timeouts>>

ContextDone(s) ==
    /\ Resume(s, "context", "index")
    /\ Finish(s)
    /\ UNCHANGED <<server, memory, stored, log, worker, receipts, unlogged, bounds>>

----------------------------------------------------------------------------

\* What the event loop runs next for the request in slot s.
Handler(s) ==
    \/ RegisterDone(s) \/ MissionIndexed(s) \/ MissionStored(s)
    \/ AssignTask(s) \/ TaskCreated(s) \/ SubmitDone(s)
    \/ ContextDone(s)

Next ==
    \/ Boot \/ BootIndexed \/ Stop \/ StopIndexed \/ Crash
    \/ \E s \in Slots :
         \/ CreateMission(s) \/ CreateTask(s) \/ ContextIssued(s) \/ Handler(s)
         \/ \E a \in Agents : Register(a, s) \/ Submit(a, s)
    \/ \E a \in Agents : WorkerRestart(a) \/ WorkerTimeout(a) \/ Poll(a) \/ CallFails(a)

\* The event loop resumes every handler, and MeshWorker.run polls and submits for ever.
Fairness ==
    /\ \A s \in Slots : WF_vars(Handler(s))
    /\ \A a \in Agents : WF_vars(Poll(a)) /\ WF_vars(\E s \in Slots : Submit(a, s))

Spec == Init /\ [][Next]_vars /\ Fairness

----------------------------------------------------------------------------
(* Properties *)

Task == [status : {"none", "pending", "assigned", "completed"}, type : Types \cup {None},
         to : Agents \cup {None}]

EventRecord == [type : EventTypes, task : Nat, agent : Agents \cup {None}, run : Nat]

Request == [op : {"none", "register", "mission", "create", "submit", "context"},
            at : {"idle", "index", "store", "assigned"}, task : Nat,
            agent : Agents \cup {None}, copy : Task, event : Nat]

\* Type correctness of the server's memory, its files and the workers.
TypeOK ==
    /\ server \in {"down", "starting", "up", "stopping"}
    /\ registered \subseteq Agents /\ missions \subseteq Nat /\ stored \subseteq Nat
    /\ tasks \in [TaskIds -> Task] /\ cursor \in Nat
    /\ log \in Seq(EventRecord) /\ indexed \subseteq DOMAIN log
    /\ req \in [Slots -> Request]
    /\ worker \in [Agents -> [state : {"new", "waiting", "ready", "dead"},
                              job : TaskIds \cup {None}]]
    /\ receipts \subseteq [agent : Agents, task : TaskIds]
    /\ unlogged \subseteq EventRecord
    /\ opened \in 0 .. MaxMissions /\ created \in 0 .. MaxTasks /\ boots \in 0 .. MaxBoots
    /\ refusals \in 0 .. MaxRefusals /\ timeouts \in 0 .. MaxTimeouts /\ packs \in 0 .. MaxPacks

\* Rule A, across restarts: whoever holds a receipt for a task finds its own result for it
\* in the log and in the index.
ReceiptsDurable ==
    \A r \in receipts : \E i \in indexed :
        /\ log[i].type = "task_result_submitted"
        /\ log[i].task = r.task /\ log[i].agent = r.agent

\* A result in the log is preceded, within the same run of the server, by the registration
\* of its agent and the creation of its task, or the writer refused that very event.
ResultsGrounded ==
    \A i \in DOMAIN log : log[i].type = "task_result_submitted" =>
        LET before == {log[j] : j \in 1 .. i - 1} \cup unlogged
            this(type, task, agent) == [type |-> type, task |-> task, agent |-> agent,
                                        run |-> log[i].run]
        IN  /\ this("agent_registered", None, log[i].agent) \in before
            /\ this("task_created", log[i].task, None) \in before

\* A mission that accepts tasks is in the missions table and its event is in the index:
\* a restart or a failed write leaves no mission that only memory knew.
MissionsRecorded ==
    \A m \in missions : m \in stored /\ \E i \in indexed :
        log[i].type = "mission_created" /\ log[i].task = m

\* Every crash of a freshly started server is on record: between two server_started
\* events there is a server_stopped or a server_recovered.
StartsSeparated ==
    \A i, j \in DOMAIN log :
        i < j /\ log[i].type = "server_started" /\ log[j].type = "server_started" =>
            \E k \in i + 1 .. j - 1 : log[k].type \in {"server_stopped", "server_recovered"}

\* What events.jsonl and the index say of the past is complete, over crashes, restarts and
\* refused writes: results are grounded, missions recorded, crashes on record
\* (agent_mesh/server/routes.py and app.py).
AuditTrail == ResultsGrounded /\ MissionsRecorded /\ StartsSeparated

\* A task leaves its assignee, or stops being completed, only when a create_task or a
\* submit_task_result resumes from its await with an outdated copy of it; polls never do it.
OnlyStaleCopiesUndo ==
    [][ \A t \in TaskIds :
          /\ server' = "up" /\ tasks[t].to # None
          /\ tasks'[t].to # tasks[t].to \/ (tasks[t].status = "completed" /\ tasks'[t] # tasks[t])
          => \E s \in Slots : req[s].at # "idle" /\ req[s].task = t /\ req[s].copy # tasks[t]
      ]_vars

\* A claimed task is not given to another agent while the server runs.
ClaimKept ==
    [][ \A t \in TaskIds :
          server' = "up" /\ tasks[t].status = "assigned" => tasks'[t].to = tasks[t].to ]_vars

\* A task assigned to a registered, running worker gets done, below the writer's ceiling
\* and unless it is taken away or the server goes down.
TasksFinish ==
    \A a \in Agents, t \in TaskIds :
        /\ tasks[t].status = "assigned" /\ tasks[t].to = a
        /\ a \in registered /\ worker[a].state = "ready"
        ~> \/ tasks[t].status = "completed" \/ tasks[t].to # a
           \/ server # "up" \/ Len(log) >= MaxLog
=============================================================================
