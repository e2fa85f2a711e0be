---------------------------- MODULE ServiceTasks ----------------------------
(***************************************************************************)
(* The users of the task scheduler that keep task ids across calls:        *)
(*  - services (src/src/service_provider/ServiceProvider.h), whose         *)
(*    wrappers track the ids of a service for the srvc command and for     *)
(*    stopService.  A member service (MQTT, GPIO, e-mail) also keeps the   *)
(*    id of one task in a member of its own; a routine service (WiFi)      *)
(*    uses m_service_routine_task_id for that;                             *)
(*  - SSH clients (shell/ssh/SSHClientInterface.cpp), which keep the id    *)
(*    of the one-shot task that commits what was written.                  *)
(* The scheduler is the table of TaskTable, which TaskScheduler            *)
(* implements.  owner, overflow, harmed and calm are history variables.    *)
(***************************************************************************)
EXTENDS TaskTable, Sequences, FiniteSets

CONSTANTS
  MemberServices,
  RoutineServices,
  SshClients,
  MaxServiceTasks   \* MAX_SERVICE_TASKS (6 in the code)

Services == MemberServices \cup RoutineServices
Clients == Services \cup SshClients

ASSUME ClientsAssumption ==
  /\ MaxServiceTasks \in Nat \ {0}
  /\ MemberServices \cap RoutineServices = {}
  /\ Services \cap SshClients = {}
  /\ "none" \notin Clients

VARIABLES
  m_service_task_ids,         \* the tracked ids of each service
  m_service_routine_task_id,  \* its first tracked id, -1 when none
  cbId,                       \* the id a member service keeps, 0 when none
  m_writeCommitTaskId,        \* the id an SSH client keeps
  starting,                 \* the routine service initService is due for
  owner,                      \* history: who installed the callback
  overflow,                   \* history: services with an untracked task
  harmed,                     \* history: <<how, x, y>> when x acted on y's task
  calm                        \* history: no kill, no SSH client, no full table

clientVars == <<m_service_task_ids, m_service_routine_task_id, cbId,
                m_writeCommitTaskId, starting, owner, overflow, harmed>>
allVars == <<tableVars, clientVars, calm>>

NextFn(f) == f \in Fns \ given /\ \A g \in Fns : g < f => g \in given

\* x acts on the tasks with these ids: clears, updates or signals them.
Harm(how, x, ids) ==
  {<<how, x, owner[t.fn]>> : t \in {u \in tasks : /\ u.id \in ids
                                                  /\ u.fn # NoFn
                                                  /\ owner[u.fn] # x}}

\* clearTimeout and clearInterval of each of these ids.
Clear(ids) ==
  /\ tasks' = {IF t.id \in ids THEN [t EXCEPT !.fn = NoFn] ELSE t : t \in tasks}
  /\ UNCHANGED <<running, given>>

\* setInterval for x, returning id r; -1 also when the table is full.
Set(x, f, r) ==
  /\ NextFn(f)
  /\ \/ Register(r, f) /\ owner' = [owner EXCEPT ![f] = x]
     \/ /\ \A id \in Ids : Used(id)
        /\ r = -1
        /\ UNCHANGED <<tableVars, owner>>

\* updateTimeout and updateInterval of the task the caller calls id.
Update(x, id, f, r) ==
  IF Used(id)
  THEN /\ NextFn(f)
       /\ \E t \in tasks : t.id = id /\ Replace(t, f)
       /\ r = id
       /\ owner' = [owner EXCEPT ![f] = x]
  ELSE Set(x, f, r)

-----------------------------------------------------------------------------
(* Services.                                                               *)

Tracked(s) == {m_service_task_ids[s][i] : i \in 1 .. Len(m_service_task_ids[s])}
isServiceTaskTracked(s, id) == id \in Tracked(s)

\* The list: an id that is new to it is appended while there is room.
trackServiceTask(s, id) ==
  LET new  == id > 0 /\ ~isServiceTaskTracked(s, id)
      room == Len(m_service_task_ids[s]) < MaxServiceTasks
  IN  /\ m_service_task_ids' =
           [m_service_task_ids EXCEPT ![s] = IF new /\ room THEN Append(@, id) ELSE @]
      /\ overflow' = IF new /\ ~room THEN overflow \cup {s} ELSE overflow

\* The "historical primary slot" follows the first task that is tracked.
TrackPrimary(s, id) ==
  m_service_routine_task_id' =
    [m_service_routine_task_id EXCEPT
       ![s] = IF @ < 0 /\ m_service_task_ids' # m_service_task_ids THEN id ELSE @]

serviceSetInterval(s) ==
  /\ starting = "none"
  /\ \E f \in Fns, r \in Ids : /\ Set(s, f, r)
                               /\ trackServiceTask(s, r)
                               /\ TrackPrimary(s, r)
                               /\ calm' = (calm /\ r # -1)
  /\ UNCHANGED <<cbId, m_writeCommitTaskId, starting, harmed>>

\* A member service (re)starts its task, as handleMqttConfigChange does.
serviceUpdateInterval(s) ==
  /\ starting = "none"
  /\ \E f \in Fns, r \in Ids :
       /\ Update(s, cbId[s], f, r)
       /\ trackServiceTask(s, r)
       /\ TrackPrimary(s, r)
       /\ cbId' = [cbId EXCEPT ![s] = r]
       /\ calm' = (calm /\ r # -1)
  /\ harmed' = harmed \cup Harm("update", s, {cbId[s]})
  /\ UNCHANGED <<m_writeCommitTaskId, starting>>

\* Mutant: the member keeps the id of the task that was cleared.
ClearKeepsMember(s) ==
  /\ starting = "none"
  /\ Clear({cbId[s]})
  /\ harmed' = harmed \cup Harm("clear", s, {cbId[s]})
  /\ UNCHANGED <<m_service_task_ids, m_service_routine_task_id, m_writeCommitTaskId,
                 starting, owner, overflow, cbId, calm>>

\* ... or clears it, behind the back of the tracked list.
clearMember(s) ==
  /\ starting = "none"
  /\ Clear({cbId[s]})
  /\ cbId' = [cbId EXCEPT ![s] = 0]
  /\ harmed' = harmed \cup Harm("clear", s, {cbId[s]})
  /\ UNCHANGED <<m_service_task_ids, m_service_routine_task_id, m_writeCommitTaskId,
                 starting, owner, overflow, calm>>

\* The srvc command: stop, start and restart signal every tracked id.
signalAllServiceTasks(s) ==
  /\ starting = "none"
  /\ harmed' = harmed \cup Harm("SIG", s, Tracked(s))
  /\ UNCHANGED <<tableVars, m_service_task_ids, m_service_routine_task_id, cbId,
                 m_writeCommitTaskId, starting, owner, overflow, calm>>

\* Mutant: the list is emptied before its tasks are cleared.
StopForgets(s) ==
  /\ starting = "none"
  /\ m_service_task_ids' = [m_service_task_ids EXCEPT ![s] = <<>>]
  /\ m_service_routine_task_id' = [m_service_routine_task_id EXCEPT ![s] = -1]
  /\ starting' = s
  /\ UNCHANGED <<tableVars, cbId, m_writeCommitTaskId, owner, overflow, harmed, calm>>

\* net connect: __wifi_service.stopService() ...
stopService(s) ==
  /\ starting = "none"
  /\ Clear(Tracked(s))
  /\ harmed' = harmed \cup Harm("clear", s, Tracked(s))
  /\ m_service_task_ids' = [m_service_task_ids EXCEPT ![s] = <<>>]
  /\ m_service_routine_task_id' = [m_service_routine_task_id EXCEPT ![s] = -1]
  /\ starting' = s
  /\ UNCHANGED <<cbId, m_writeCommitTaskId, owner, overflow, calm>>

\* ... and initService, which PDIStack also calls at boot.
initService(s) ==
  /\ starting = s
  /\ starting' = "none"
  /\ \E f \in Fns, r \in Ids :
       /\ Update(s, m_service_routine_task_id[s], f, r)
       /\ trackServiceTask(s, r)
       /\ m_service_routine_task_id' = [m_service_routine_task_id EXCEPT ![s] = r]
       /\ calm' = (calm /\ r # -1)
  /\ harmed' = harmed \cup Harm("update", s, {m_service_routine_task_id[s]})
  /\ UNCHANGED <<cbId, m_writeCommitTaskId>>

-----------------------------------------------------------------------------
(* SSH clients.                                                            *)

\* A short write schedules the commit.
sshWrite(c) ==
  /\ starting = "none"
  /\ \E f \in Fns, r \in Ids :
       /\ Update(c, m_writeCommitTaskId[c], f, r)
       /\ m_writeCommitTaskId' = [m_writeCommitTaskId EXCEPT ![c] = r]
  /\ harmed' = harmed \cup Harm("update", c, {m_writeCommitTaskId[c]})
  /\ calm' = FALSE
  /\ UNCHANGED <<m_service_task_ids, m_service_routine_task_id, cbId, starting, overflow>>

\* close cancels the commit and keeps its id ...
sshClose(c) ==
  /\ starting = "none"
  /\ Clear({m_writeCommitTaskId[c]})
  /\ harmed' = harmed \cup Harm("clear", c, {m_writeCommitTaskId[c]})
  /\ UNCHANGED <<m_service_task_ids, m_service_routine_task_id, cbId, starting, owner,
                 overflow, m_writeCommitTaskId, calm>>

\* ... which the destructor cancels again.  The next connection has a new
\* client.
sshDestroy(c) ==
  /\ starting = "none"
  /\ Clear({m_writeCommitTaskId[c]})
  /\ m_writeCommitTaskId' = [m_writeCommitTaskId EXCEPT ![c] = -1]
  /\ harmed' = harmed \cup Harm("clear", c, {m_writeCommitTaskId[c]})
  /\ UNCHANGED <<m_service_task_ids, m_service_routine_task_id, cbId, starting, owner,
                 overflow, calm>>

-----------------------------------------------------------------------------
(* The scheduler.  Commits are one-shot tasks, the others intervals.       *)

OneShotTask(t) == t.fn # NoFn /\ owner[t.fn] \in SshClients

Run ==
  /\ starting = "none"
  /\ \E t \in tasks : Start(t)
  /\ UNCHANGED <<clientVars, calm>>

Return ==
  /\ starting = "none"
  /\ Finish
  /\ \A t \in tasks : t.id = running =>
       IF OneShotTask(t) THEN t \notin tasks' ELSE t \in tasks'
  /\ UNCHANGED <<clientVars, calm>>

\* Not while a command is in the middle of a restart: it runs inside a
\* callback or during the yield.
ReapOne ==
  /\ starting = "none"
  /\ \E t \in tasks : Reap(t)
  /\ UNCHANGED <<clientVars, calm>>

\* The kill and pkill commands.
Kill ==
  /\ starting = "none"
  /\ \E t \in tasks : t.fn # NoFn /\ Cancel(t)
  /\ calm' = FALSE
  /\ UNCHANGED clientVars

ClientsInit ==
  /\ TableInit
  /\ m_service_task_ids = [s \in Services |-> <<>>]
  /\ m_service_routine_task_id = [s \in Services |-> -1]
  /\ cbId = [s \in MemberServices |-> 0]
  /\ m_writeCommitTaskId = [c \in SshClients |-> -1]
  /\ starting \in IF RoutineServices = {} THEN {"none"} ELSE RoutineServices
  /\ owner = [f \in Fns |-> "none"]
  /\ overflow = {}
  /\ harmed = {}
  /\ calm = TRUE

ClientsNext ==
  \/ \E s \in MemberServices : \/ serviceSetInterval(s)
                               \/ serviceUpdateInterval(s)
                               \/ clearMember(s)
  \/ \E s \in Services : signalAllServiceTasks(s)
  \/ \E s \in RoutineServices : stopService(s) \/ initService(s)
  \/ \E c \in SshClients : sshWrite(c) \/ sshClose(c) \/ sshDestroy(c)
  \/ Run \/ Return \/ ReapOne \/ Kill

ClientsSpec == ClientsInit /\ [][ClientsNext]_allVars

-----------------------------------------------------------------------------
(* Properties.                                                             *)

Live(s) == {t \in tasks : t.fn # NoFn /\ owner[t.fn] = s}

\* srvc and stopService reach every task of a service that has a valid id,
\* however ids were reused, killed or taken over in the meantime, unless the
\* list has overflowed; in particular nothing of a service is left to run
\* when stopService has emptied the list.
TasksTracked ==
  \A s \in Services : \A t \in Live(s) :
    t.id = -1 \/ s \in overflow \/ isServiceTaskTracked(s, t.id)

\* As long as the table has never been full, nobody has killed a task and no
\* SSH client has written, a service updates and clears its own tasks only, although the
\* ids it keeps in members and in the tracked list are reused freely: it
\* forgets the member when it clears the task.
OwnTasksOnly == calm => \A h \in harmed : h[1] = "SIG"

-----------------------------------------------------------------------------
(* What a comment of the code says and the code does not do.               *)

\* "Update a one-time timeout for a task." (TaskScheduler.cpp:69), "Schedule
\* commiting written data task in queue" (SSHClientInterface.cpp:94): an SSH
\* client that schedules or cancels its commit leaves the tasks of others
\* alone.
SshKeepsToItsTask == \A h \in harmed : h[2] \notin SshClients
=============================================================================
