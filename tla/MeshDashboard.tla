---------------------------- MODULE MeshDashboard ----------------------------
(***************************************************************************)
(* The read-only dashboard of the mesh (dashboard/readers.py) rebuilds     *)
(* missions, tasks, agents and the validity of signatures from             *)
(* events.jsonl alone.  The server is modelled here only as the writer of  *)
(* that file (server/routes.py): in which order it changes its memory and  *)
(* writes the event, what it keeps when the write is refused (DSMWriter    *)
(* returns None at its size limits), and that a restart forgets every      *)
(* registration, mission and task, since nothing is read back.             *)
(***************************************************************************)
EXTENDS Integers, FiniteSets, SequencesExt

CONSTANTS DAgents,      \* agent ids
          DKeys,        \* public keys
          MaxEvents,    \* bound on the events written
          MaxRefused,   \* bound on the writes refused
          MaxRestarts   \* bound on the server's restarts

VARIABLES events,    \* the lines of events.jsonl
          keyOf,     \* server memory: agent -> public key
          known,     \* server memory: mission ids
          tasks,     \* server memory: task id -> [mission, assigned]
          made,      \* ids handed out (ULIDs: never reused)
          refused,   \* writes refused so far
          restarts   \* restarts so far

mdVars == <<events, keyOf, known, tasks, made, refused, restarts>>

NoKey   == "none"
NoAgent == "none"
Event(type, mission, task, agent, key) ==
  [type |-> type, mission |-> mission, task |-> task, agent |-> agent, key |-> key]

MdTypeOK ==
  /\ Len(events) <= MaxEvents
  /\ keyOf \in [DAgents -> DKeys \cup {NoKey}]
  /\ known \subseteq 1..made
  /\ DOMAIN tasks \subseteq 1..made
  /\ refused \in 0..MaxRefused /\ restarts \in 0..MaxRestarts

MdInit ==
  /\ events = <<>>
  /\ keyOf = [a \in DAgents |-> NoKey]
  /\ known = {}
  /\ tasks = <<>>
  /\ made = 0
  /\ refused = 0 /\ restarts = 0

(***************************************************************************)
(* The writer of the file.                                                 *)
(***************************************************************************)

Write(new) ==
  /\ Len(events) + Len(new) <= MaxEvents
  /\ events' = events \o new
  /\ UNCHANGED refused

Refuse(kept) ==
  /\ refused < MaxRefused
  /\ refused' = refused + 1
  /\ Len(events) + Len(kept) <= MaxEvents
  /\ events' = events \o kept

\* register_agent: memory first, then the event.
RegisterAgent(a, k) ==
  /\ keyOf[a] = NoKey
  /\ keyOf' = [keyOf EXCEPT ![a] = k]
  /\ \/ Write(<<Event("agent_registered", 0, 0, a, k)>>)
     \/ Refuse(<<>>)
  /\ UNCHANGED <<known, tasks, made, restarts>>

\* create_mission: the event first, then memory.
CreateMission ==
  /\ \/ /\ Write(<<Event("mission_created", made + 1, 0, NoAgent, NoKey)>>)
        /\ known' = known \cup {made + 1}
     \/ /\ Refuse(<<>>)
        /\ UNCHANGED known
  /\ made' = made + 1
  /\ UNCHANGED <<keyOf, tasks, restarts>>

\* Fault seed: the task is assigned in memory although nothing was written.
CreateTask_AssignsAnyway(m, a) ==
  LET t    == made + 1
      crea == Event("task_created", m, t, NoAgent, NoKey)
      asgn == Event("task_assigned", m, t, a, NoKey)
  IN /\ m \in known
     /\ made' = t
     /\ tasks' = (t :> [mission |-> m, assigned |-> a]) @@ tasks
     /\ Write(<<crea>> \o (IF a = NoAgent THEN <<>> ELSE <<asgn>>)) \/ Refuse(<<>>)
     /\ UNCHANGED <<keyOf, known, restarts>>

\* create_task: the task is in memory before task_created is written and
\* assigned in memory before task_assigned is written; a refused write leaves
\* it as it is then.  a is the agent the scheduler picks, if any.
CreateTask(m, a) ==
  LET t    == made + 1
      crea == Event("task_created", m, t, NoAgent, NoKey)
      asgn == Event("task_assigned", m, t, a, NoKey)
      In(who) == tasks' = (t :> [mission |-> m, assigned |-> who]) @@ tasks
  IN /\ m \in known
     /\ a # NoAgent => keyOf[a] # NoKey
     /\ made' = t
     /\ \/ In(NoAgent) /\ Refuse(<<>>)
        \/ In(a) /\ Write(<<crea>> \o (IF a = NoAgent THEN <<>> ELSE <<asgn>>))
        \/ a # NoAgent /\ In(a) /\ Refuse(<<crea>>)
     /\ UNCHANGED <<keyOf, known, restarts>>

\* submit_task_result, for a signature made with the key on file: the event
\* is written with the verification already done.
SubmitResult(t, a) ==
  /\ t \in DOMAIN tasks
  /\ keyOf[a] # NoKey
  /\ tasks[t].assigned = a
  /\ \/ Write(<<Event("task_result_submitted", tasks[t].mission, t, a, keyOf[a])>>)
     \/ Refuse(<<>>)
  /\ UNCHANGED <<keyOf, known, tasks, made, restarts>>

\* The server stops and starts again with an empty AppState.
Restart ==
  /\ restarts < MaxRestarts
  /\ restarts' = restarts + 1
  /\ keyOf' = [a \in DAgents |-> NoKey]
  /\ known' = {}
  /\ tasks' = <<>>
  /\ UNCHANGED <<events, made, refused>>

MdNext ==
  \/ \E a \in DAgents, k \in DKeys : RegisterAgent(a, k)
  \/ CreateMission
  \/ \E m \in known, a \in DAgents \cup {NoAgent} : CreateTask(m, a)
  \/ \E t \in DOMAIN tasks, a \in DAgents : SubmitResult(t, a)
  \/ Restart

MdSpec == MdInit /\ [][MdNext]_mdVars

(***************************************************************************)
(* The views.                                                              *)
(***************************************************************************)

OfType(type) == SelectSeq(events, LAMBDA e : e.type = type)

\* list_missions: a fold over the file; results and tasks count only for a
\* mission that is already known when their event is read.
ApplyMission(view, e) ==
  CASE e.type = "mission_created" ->
         (e.mission :> [tasks |-> 0, results |-> 0, agents |-> {}]) @@ view
    [] e.type = "task_created" /\ e.mission \in DOMAIN view ->
         [view EXCEPT ![e.mission].tasks = @ + 1]
    [] e.type = "task_result_submitted" /\ e.mission \in DOMAIN view ->
         [view EXCEPT ![e.mission].results = @ + 1, ![e.mission].agents = @ \cup {e.agent}]
    [] OTHER -> view

ListMissions == FoldLeft(ApplyMission, <<>>, events)

\* list_agents, get_agent: the last registration in the file wins.
KeyShown(a) ==
  LET regs == SelectSeq(OfType("agent_registered"), LAMBDA e : e.agent = a)
  IN IF regs = <<>> THEN NoKey ELSE Last(regs).key

\* _verify_result_signature: against the key the agent has now.
SignatureShown(e) ==
  IF KeyShown(e.agent) = NoKey THEN "unknown"
  ELSE IF KeyShown(e.agent) = e.key THEN "valid" ELSE "invalid"

\* One event of _build_tasks and of get_mission_detail.
ApplyTask(view, e) ==
  CASE e.type = "task_created" ->
         (e.task :> [mission |-> e.mission, assigned |-> NoAgent, results |-> <<>>]) @@ view
    [] e.type = "task_assigned" /\ e.task \in DOMAIN view ->
         [view EXCEPT ![e.task].assigned = e.agent]
    [] e.type = "task_result_submitted" /\ e.task \in DOMAIN view ->
         [view EXCEPT ![e.task].results = Append(@, [agent |-> e.agent, shown |-> SignatureShown(e)])]
    [] OTHER -> view

BuildTasks == FoldLeft(ApplyTask, <<>>, events)

TaskStatus(t) == IF BuildTasks[t].results # <<>> THEN "submitted" ELSE "pending"

\* compare_mission_results: the tasks of one mission.
CompareMissionResults(m) ==
  LET view == BuildTasks
      mine == {t \in DOMAIN view : view[t].mission = m}
  IN [t \in mine |-> [assigned   |-> view[t].assigned,
                      status     |-> TaskStatus(t),
                      results    |-> view[t].results,
                      comparable |-> Len(view[t].results) >= 2]]

\* get_mission_detail: the tasks from the events of the mission's scope only.
MissionDetail(m) ==
  LET mine == SelectSeq(events, LAMBDA e : e.mission = m)
  IN [found |-> \E i \in 1..Len(mine) : mine[i].type = "mission_created",
      tasks |-> FoldLeft(ApplyTask, <<>>, mine)]

(***************************************************************************)
(* Properties.                                                             *)
(***************************************************************************)

ResultCount(view) == FoldSet(LAMBDA t, n : n + Len(view[t].results), 0, DOMAIN view)

\* The three pages agree whatever writes were refused and however often the
\* server restarted: a mission's counters in the list are those of its detail
\* page and of the comparison page, and no result is without its task
\* (dashboard/readers.py).
ViewsAgree ==
  \A m \in DOMAIN ListMissions :
    LET detail == MissionDetail(m)
        comp   == CompareMissionResults(m)
    IN /\ detail.found
       /\ ListMissions[m].tasks = Cardinality(DOMAIN detail.tasks)
       /\ DOMAIN comp = DOMAIN detail.tasks
       /\ ListMissions[m].results = ResultCount(detail.tasks)
       /\ ListMissions[m].results = ResultCount(comp)
       /\ ListMissions[m].agents =
            UNION {{comp[t].results[i].agent : i \in 1..Len(comp[t].results)} : t \in DOMAIN comp}

\* Every result in the file was accepted with a verified signature; the
\* dashboard documents "False - signature does not verify".  It should never
\* show one of these results as invalid.
AcceptedNotShownInvalid ==
  \A i \in 1..Len(events) :
    events[i].type = "task_result_submitted" => SignatureShown(events[i]) # "invalid"

=============================================================================
