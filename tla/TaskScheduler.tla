--------------------------- MODULE TaskScheduler ---------------------------
(***************************************************************************)
(* The cooperative task scheduler of the stack,                            *)
(* src/src/utility/TaskScheduler.cpp.                                      *)
(*                                                                         *)
(* m_tasks is the vector of registered tasks.  PDIStack::serve calls       *)
(* handle_tasks for ever; one call ("pass") sorts the tasks, visits them   *)
(* in that order until the first one that is neither killed nor stopped,   *)
(* runs its callback if it is due, and ends with remove_expired_tasks.     *)
(* The callback, code that runs during m_util->yield(), and code outside   *)
(* the pass call back into the public API, so a pass is split at those     *)
(* points; everything between two of them is one step.                     *)
(*                                                                         *)
(* A callback function is a number, fresh for each set/update call.  The   *)
(* history variables kind, revoked, fired and curid only serve the         *)
(* properties.  A definition marked "Mutant" is a plausible mistake in the *)
(* definition after it; no specification uses it.                          *)
(***************************************************************************)
EXTENDS Integers, Sequences, FiniteSets

CONSTANTS
  MaxTasks,      \* m_max_tasks, MAX_SCHEDULABLE_TASKS (25 in the code)
  ClockMod,      \* millis_now() is a uint32_t: 2^32 in the code
  LatenessUnit,  \* the 100 ms of computeScore, in model ticks
  Tolerance,     \* the 3 ms of getSortedTaskList, in model ticks
  Durations,     \* durations callers ask for
  Priorities,    \* priorities callers ask for
  Nices,         \* nice values callers ask for
  ClearDuration, \* the 10 ms of remove_task, in model ticks
  Delays,        \* updateInterval is given now + one of these as last_millis
  Names,         \* task names; a task may have none (NoName)
  Owners,        \* session ids, 0 is the kernel
  Signals,       \* the signals callers send
  ExecTimes,     \* measured run times of a callback
  MaxReg,        \* bound: number of set/update calls
  MaxNow         \* bound: the clock stops at MaxNow (ClockMod: it wraps)

ASSUME SchedulerAssumption ==
  /\ MaxTasks \in Nat \ {0}
  /\ ClockMod \in Nat \ {0}
  /\ LatenessUnit \in Nat \ {0}
  /\ Tolerance \in Nat
  /\ Durations \subseteq Nat
  /\ Priorities \subseteq Nat
  /\ Nices \subseteq Int
  /\ ClearDuration \in Nat
  /\ Delays \subseteq Nat
  /\ Owners \subseteq Nat /\ 0 \in Owners
  /\ "NoName" \notin Names
  /\ Signals \subseteq {"HUP", "KILL", "TERM", "CONT", "STOP"}
  /\ ExecTimes \subseteq Nat
  /\ MaxReg \in Nat
  /\ MaxNow \in 0 .. ClockMod

VARIABLES
  m_tasks,   \* the task vector
  now,       \* millis_now()
  pc,        \* where handle_tasks is: idle, scan, callback, yield, reap
  order,     \* _priority_indices
  pos,       \* the loop index of the scan or of remove_expired_tasks
  cur,       \* index of the task whose callback runs
  start,     \* _last_start_ms of that task
  rebase,    \* m_rebase_start_priotask
  nreg,      \* callbacks handed out so far
  kind,      \* history: how callback f was installed
  revoked,   \* history: callbacks cleared, killed or replaced
  fired,     \* history: callbacks that have started at least once
  curid      \* history: the id of the running task when it started

passVars == <<pc, order, pos, cur, start, curid>>
histVars == <<nreg, kind, revoked, fired>>
vars == <<m_tasks, now, passVars, rebase, histVars>>

NoFn == 0
Fns == 1 .. MaxReg
States == {"SLEEPING", "RUNNING", "STOPPED", "ZOMBIE"}
Ids == {-1} \cup (1 .. (MaxTasks - 1))
Kinds == {"none", "setTimeout", "setInterval", "updateTimeout", "updateInterval"}

Task == [id : Ids, attempts : {-1, 0, 1}, dur : Nat, last : Nat,
         fn : Fns \cup {NoFn}, prio : Nat, exec : Nat, name : Names \cup {"NoName"},
         owner : Owners, state : States, nice : -20 .. 19,
         sig : {"NONE", "HUP", "KILL", "TERM", "CONT", "STOP"}]

Lesser(a, b) == IF a < b THEN a ELSE b

-----------------------------------------------------------------------------
(* Sorting: computeScore and getSortedTaskList.  m_task_policy is assigned *)
(* nowhere but in task_t::clear, so every task is TASK_POLICY_FIFO.        *)

Due(t) == t.last + t.dur

\* Mutant: lateness does not raise the score.
computeScoreNoLateness(t, clock) == (t.prio - t.nice) * 100

computeScore(t, clock) ==
  LET lateness == IF clock >= Due(t) THEN clock - Due(t) ELSE 0
  IN  (t.prio - t.nice) * 100 + 320 * Lesser(lateness \div LatenessUnit, 50)

\* Mutant: due times are compared before scores.
SwapNeededDueFirst(ti, tj, clock) ==
  LET diff == Due(ti) - Due(tj)
  IN  IF diff > Tolerance \/ -diff > Tolerance THEN diff > 0
      ELSE computeScore(tj, clock) > computeScore(ti, clock)

SwapNeeded(ti, tj, clock) ==
  LET si == computeScore(ti, clock)
      sj == computeScore(tj, clock)
      diff == Due(ti) - Due(tj)
  IN  IF si # sj THEN sj > si
      ELSE IF diff > Tolerance \/ -diff > Tolerance THEN diff > 0
      ELSE ti.exec > tj.exec

\* The exchange sort: its k-th comparison is of places i < j of the order.
getSortedTaskList(tasks, clock) ==
  LET n == Len(tasks)
      sorted[k \in 0 .. n * n] ==
        IF k = 0 THEN [i \in 1 .. n |-> i]
        ELSE LET o == sorted[k - 1]
                 i == ((k - 1) \div n) + 1
                 j == ((k - 1) % n) + 1
             IN  IF i < j /\ SwapNeeded(tasks[o[i]], tasks[o[j]], clock)
                 THEN [o EXCEPT ![i] = o[j], ![j] = o[i]]
                 ELSE o
  IN  sorted[n * n]

-----------------------------------------------------------------------------
(* The task table.                                                         *)

Registered(id) == {i \in DOMAIN m_tasks : m_tasks[i].id = id}

\* The index of the first task with this id; none ({}) is the code's -1.
is_registered_task(id) ==
  {i \in Registered(id) : \A j \in Registered(id) : i <= j}

\* Mutant: the registered ids are not consulted.
UnsearchedTaskId == {IF MaxTasks > 1 THEN 1 ELSE -1}

\* The smallest unused id below m_max_tasks, -1 when all are used; as a set
\* with this one element.
get_unique_task_id ==
  {id \in Ids :
     IF id = -1
     THEN \A other \in 1 .. (MaxTasks - 1) : Registered(other) # {}
     ELSE /\ Registered(id) = {}
          /\ \A other \in 1 .. (id - 1) : Registered(other) # {}}

NewTask(id, fn, d, p, last, attempts, nm, ow) ==
  [id |-> id, attempts |-> attempts, dur |-> d, last |-> last,
   fn |-> fn, prio |-> p, exec |-> 0, name |-> nm, owner |-> ow,
   state |-> "SLEEPING", nice |-> 0, sig |-> "NONE"]

\* The scheduler API is called from the main loop, from a running callback
\* and from whatever runs during m_util->yield().
CanCall == pc \in {"idle", "callback", "yield"}

\* A fresh callback, installed by a call of the given kind.
Install(k) ==
  /\ nreg < MaxReg
  /\ nreg' = nreg + 1
  /\ kind' = [kind EXCEPT ![nreg + 1] = k]

\* Mutant: a new task becomes the first of the vector.
RegisterInFront(k, d, p, last, attempts, nm, ow) ==
  /\ Len(m_tasks) < MaxTasks
  /\ Install(k)
  /\ \E id \in get_unique_task_id :
       m_tasks' = <<NewTask(id, nreg + 1, d, p, last, attempts, nm, ow)>> \o m_tasks
  /\ UNCHANGED <<now, passVars, rebase, revoked, fired>>

register_task(k, d, p, last, attempts, nm, ow) ==
  /\ Len(m_tasks) < MaxTasks
  /\ Install(k)
  /\ \E id \in get_unique_task_id :
       m_tasks' = Append(m_tasks, NewTask(id, nreg + 1, d, p, last, attempts, nm, ow))
  /\ UNCHANGED <<now, passVars, rebase, revoked, fired>>

setTimeout(d, p, nm, ow) ==
  /\ CanCall
  /\ register_task("setTimeout", d, p, now, 1, nm, ow)

setInterval(d, p, nm, ow) ==
  /\ CanCall
  /\ register_task("setInterval", d, p, now, -1, nm, ow)

Updated(t, d, p, last, attempts, nm, ow) ==
  [t EXCEPT !.fn = nreg + 1, !.dur = d, !.prio = p,
            !.last = IF last = 0 THEN @ ELSE last,
            !.attempts = attempts,
            !.name = IF nm = "NoName" THEN @ ELSE nm,
            !.owner = ow]

\* updateInterval overwrites a registered task in place (state, pending
\* signal and id stay), or registers a new one.
UpdateTask(k, id, d, p, last, attempts, nm, ow) ==
  /\ CanCall
  /\ \/ /\ Registered(id) = {}
        /\ register_task(k, d, p, last, attempts, nm, ow)
     \/ \E i \in is_registered_task(id) :
          /\ Install(k)
          /\ m_tasks' = [m_tasks EXCEPT ![i] =
                           Updated(m_tasks[i], d, p, last, attempts, nm, ow)]
          /\ revoked' = revoked \cup ({m_tasks[i].fn} \ {NoFn})
          /\ UNCHANGED <<now, passVars, rebase, fired>>

updateInterval(id, d, p, last, nm, ow) ==
  UpdateTask("updateInterval", id, d, p, last, -1, nm, ow)

\* updateTimeout leaves name and owner at updateInterval's defaults.
updateTimeout(id, d, p) ==
  UpdateTask("updateTimeout", id, d, p, now, 1, "NoName", 0)

\* Mutants: the callback goes but the attempts stay; only the state is set.
ClearedKeepsAttempts(t) == [t EXCEPT !.fn = NoFn, !.state = "ZOMBIE"]
ClearedStateOnly(t) == [t EXCEPT !.state = "ZOMBIE"]

Cleared(t) ==
  [t EXCEPT !.dur = ClearDuration, !.prio = 0, !.attempts = 0, !.fn = NoFn,
            !.state = "ZOMBIE"]

\* Mutant: an off-by-one takes the task after the expired one.
EraseNext(s, i) == [k \in 1 .. (Len(s) - 1) |-> IF k <= i THEN s[k] ELSE s[k + 1]]

Erase(s, i) == [k \in 1 .. (Len(s) - 1) |-> IF k < i THEN s[k] ELSE s[k + 1]]

\* Mutant: the erase the comment in remove_task warns of.
RemoveAtOnce(id) ==
  /\ CanCall
  /\ \E i \in Registered(id) : m_tasks' = Erase(m_tasks, i)
  /\ revoked' = revoked \cup ({m_tasks[i].fn : i \in Registered(id)} \ {NoFn})
  /\ UNCHANGED <<now, passVars, rebase, nreg, kind, fired>>

\* clearTimeout and clearInterval: the task is marked, remove_expired_tasks
\* takes it out later.
remove_task(id) ==
  /\ CanCall
  /\ Registered(id) # {}
  /\ m_tasks' = [i \in DOMAIN m_tasks |->
                   IF m_tasks[i].id = id THEN Cleared(m_tasks[i]) ELSE m_tasks[i]]
  /\ revoked' = revoked \cup ({m_tasks[i].fn : i \in Registered(id)} \ {NoFn})
  /\ UNCHANGED <<now, passVars, rebase, nreg, kind, fired>>

SetTask(i, t) ==
  /\ CanCall
  /\ m_tasks' = [m_tasks EXCEPT ![i] = t]
  /\ UNCHANGED <<now, passVars, rebase, histVars>>

setTaskName(id, nm) ==
  \E i \in is_registered_task(id) : SetTask(i, [m_tasks[i] EXCEPT !.name = nm])

setTaskOwner(id, ow) ==
  \E i \in is_registered_task(id) : SetTask(i, [m_tasks[i] EXCEPT !.owner = ow])

ClampNice(n) == IF n < -20 THEN -20 ELSE IF n > 19 THEN 19 ELSE n

setTaskNice(id, n) ==
  \E i \in is_registered_task(id) :
    SetTask(i, [m_tasks[i] EXCEPT !.nice = ClampNice(n)])

\* One slot per task: a signal not yet consumed is overwritten.
sendSignal(id, s) ==
  \E i \in is_registered_task(id) : SetTask(i, [m_tasks[i] EXCEPT !.sig = s])

Signalled(t, nm, requester, isRoot) ==
  /\ t.state # "ZOMBIE"
  /\ t.name = nm
  /\ isRoot \/ t.owner = requester

sendSignalByName(nm, s, requester, isRoot) ==
  /\ CanCall
  /\ m_tasks' = [i \in DOMAIN m_tasks |->
                   IF Signalled(m_tasks[i], nm, requester, isRoot)
                   THEN [m_tasks[i] EXCEPT !.sig = s] ELSE m_tasks[i]]
  /\ UNCHANGED <<now, passVars, rebase, histVars>>

\* Called by the renice command and by the IoT sensor task, from callbacks.
rebaseAndRestartPrioTasks ==
  /\ pc \in {"callback", "yield"}
  /\ rebase' = TRUE
  /\ UNCHANGED <<m_tasks, now, passVars, histVars>>

-----------------------------------------------------------------------------
(* handle_tasks.                                                           *)

BeginPass ==
  /\ pc = "idle"
  /\ \E o \in [1 .. Len(m_tasks) -> 1 .. Len(m_tasks)] :
        /\ o = getSortedTaskList(m_tasks, now)
        /\ order' = o
  /\ pos' = 1
  /\ rebase' = TRUE
  /\ pc' = "scan"
  /\ UNCHANGED <<m_tasks, now, cur, start, curid, histVars>>

Killing(t) == t.sig \in {"KILL", "TERM"}

\* The task after its pending signal has been consumed.
ConsumeSignal(t) ==
  CASE Killing(t) -> [t EXCEPT !.sig = "NONE", !.fn = NoFn, !.attempts = 0,
                               !.state = "ZOMBIE"]
    [] t.sig = "STOP" -> [t EXCEPT !.sig = "NONE", !.state = "STOPPED"]
    [] t.sig = "CONT" -> [t EXCEPT !.sig = "NONE",
                            !.state = IF @ = "STOPPED" THEN "SLEEPING" ELSE @]
    [] OTHER -> [t EXCEPT !.sig = "NONE"]

\* last_millis lies ahead of the clock: millis_now() has wrapped, or the
\* caller asked for a later start.
ClockBack(t) == IF now < t.last THEN [t EXCEPT !.last = now] ELSE t

IsDue(t) == t.attempts # 0 /\ now - t.last >= t.dur

\* Killed and stopped tasks are passed over.
VisitSkip ==
  /\ pc = "scan"
  /\ pos <= Len(order)
  /\ \E i \in DOMAIN m_tasks :
       LET t == ConsumeSignal(m_tasks[i])
       IN  /\ i = order[pos]
           /\ Killing(m_tasks[i]) \/ t.state = "STOPPED"
           /\ m_tasks' = [m_tasks EXCEPT ![i] = t]
           /\ revoked' = IF Killing(m_tasks[i])
                         THEN revoked \cup ({m_tasks[i].fn} \ {NoFn})
                         ELSE revoked
  /\ pos' = pos + 1
  /\ UNCHANGED <<now, pc, order, cur, start, curid, rebase, nreg, kind, fired>>

\* A task that may run.  An attempt count other than 0 goes with a callback
\* (RunnableHasCallback), so the null test of the code never fails here.
Visit ==
  /\ pc = "scan"
  /\ pos <= Len(order)
  /\ \E i \in DOMAIN m_tasks :
       LET t == ClockBack(ConsumeSignal(m_tasks[i]))
       IN  /\ i = order[pos]
           /\ ~Killing(m_tasks[i])
           /\ t.state # "STOPPED"
           /\ IF IsDue(t)
              THEN /\ m_tasks' = [m_tasks EXCEPT ![i] = [t EXCEPT !.state = "RUNNING"]]
                   /\ pc' = "callback"
                   /\ cur' = i
                   /\ start' = now
                   /\ curid' = t.id
                   /\ fired' = fired \cup {t.fn}
              ELSE /\ m_tasks' = [m_tasks EXCEPT ![i] = t]
                   /\ pc' = "yield"
                   /\ UNCHANGED <<cur, start, curid, fired>>
  /\ UNCHANGED <<now, order, pos, rebase, nreg, kind, revoked>>

\* Mutant: the loop tests after its round (do ... while).
CatchUpOneMore(t) == t.last + t.dur * (1 + (start - t.last) \div t.dur)

\* The catch-up loop.  start and last are unsigned: when the callback moved
\* last past start, start - last is huge and the loop runs its 4 rounds.
CatchUp(t) ==
  LET rounds == IF start < t.last \/ t.dur = 0 THEN 4
                ELSE Lesser((start - t.last) \div t.dur, 4)
  IN  IF t.last = 0 THEN start ELSE t.last + rounds * t.dur

\* Mutant: a run does not use up an attempt.
AfterRunNoCount(t, e) ==
  [t EXCEPT !.exec = e, !.last = CatchUp(t), !.state = "SLEEPING"]

\* Mutant: a run uses up an attempt of an interval, too.
AfterRunCountsAll(t, e) ==
  [t EXCEPT !.exec = e, !.last = CatchUp(t), !.attempts = @ - 1, !.state = "SLEEPING"]

AfterRun(t, e) ==
  LET left == IF t.attempts > 0 THEN t.attempts - 1 ELSE t.attempts
  IN  [t EXCEPT !.exec = e, !.last = CatchUp(t), !.attempts = left,
                !.state = IF left = 0 THEN "ZOMBIE" ELSE "SLEEPING"]

EndCallback ==
  /\ pc = "callback"
  /\ \E e \in ExecTimes :
       m_tasks' = [m_tasks EXCEPT ![cur] = AfterRun(m_tasks[cur], e)]
  /\ pc' = "yield"
  /\ cur' = 0
  /\ start' = 0
  /\ curid' = -1
  /\ UNCHANGED <<now, order, pos, rebase, histVars>>

\* After the yield: leave the loop when a re-sort is asked for.
EndYield ==
  /\ pc = "yield"
  /\ IF rebase
     THEN rebase' = FALSE /\ pc' = "reap" /\ pos' = 1
     ELSE pc' = "scan" /\ pos' = pos + 1 /\ UNCHANGED rebase
  /\ UNCHANGED <<m_tasks, now, order, cur, start, curid, histVars>>

EndScan ==
  /\ pc = "scan"
  /\ pos > Len(order)
  /\ pc' = "reap"
  /\ pos' = 1
  /\ UNCHANGED <<m_tasks, now, order, cur, start, curid, rebase, histVars>>

\* Mutant: the first task is never looked at.
ReapSkipsFirst ==
  /\ pc = "reap"
  /\ pos <= Len(m_tasks)
  /\ m_tasks' = IF pos > 1 /\ m_tasks[pos].attempts = 0 THEN Erase(m_tasks, pos) ELSE m_tasks
  /\ pos' = pos + 1
  /\ UNCHANGED <<now, pc, order, cur, start, curid, rebase, histVars>>

\* One iteration of remove_expired_tasks: after an erase the index still
\* advances, past the task that moved into its place.
remove_expired_tasks ==
  /\ pc = "reap"
  /\ pos <= Len(m_tasks)
  /\ m_tasks' = IF m_tasks[pos].attempts = 0 THEN Erase(m_tasks, pos) ELSE m_tasks
  /\ pos' = pos + 1
  /\ UNCHANGED <<now, pc, order, cur, start, curid, rebase, histVars>>

EndPass ==
  /\ pc = "reap"
  /\ pos > Len(m_tasks)
  /\ pc' = "idle"
  /\ pos' = 0
  /\ order' = <<>>
  /\ UNCHANGED <<m_tasks, now, cur, start, curid, rebase, histVars>>

\* Time passes between passes and while a callback runs.
Tick ==
  /\ pc \in {"idle", "callback"}
  /\ now < MaxNow
  /\ now' = (now + 1) % ClockMod
  /\ UNCHANGED <<m_tasks, passVars, rebase, histVars>>

Init ==
  /\ m_tasks = <<>>
  /\ now = 0
  /\ pc = "idle"
  /\ order = <<>>
  /\ pos = 0
  /\ cur = 0
  /\ start = 0
  /\ rebase = FALSE
  /\ nreg = 0
  /\ kind = [f \in Fns |-> "none"]
  /\ revoked = {}
  /\ fired = {}
  /\ curid = -1

Pass == \/ BeginPass \/ VisitSkip \/ Visit \/ EndCallback \/ EndYield
        \/ EndScan \/ remove_expired_tasks \/ EndPass

Call ==
  \/ \E d \in Durations, p \in Priorities, nm \in Names \cup {"NoName"}, ow \in Owners :
       \/ setTimeout(d, p, nm, ow)
       \/ setInterval(d, p, nm, ow)
       \/ \E id \in Ids, last \in {0} \cup {now + late : late \in Delays} :
            updateInterval(id, d, p, last, nm, ow)
  \/ \E id \in Ids, d \in Durations, p \in Priorities : updateTimeout(id, d, p)
  \/ \E id \in Ids : remove_task(id)
  \/ \E id \in Ids, nm \in Names : setTaskName(id, nm)
  \/ \E id \in Ids, ow \in Owners : setTaskOwner(id, ow)
  \/ \E id \in Ids, n \in Nices : setTaskNice(id, n)
  \/ \E id \in Ids, s \in Signals : sendSignal(id, s)
  \/ \E nm \in Names, s \in Signals, who \in Owners, isRoot \in BOOLEAN :
       sendSignalByName(nm, s, who, isRoot)
  \/ rebaseAndRestartPrioTasks

Next == Pass \/ Call \/ Tick

Spec == Init /\ [][Next]_vars

\* PDIStack::serve calls handle_tasks for ever and every callback returns
\* (cooperative scheduling).
Fairness == WF_vars(Pass) /\ WF_vars(EndCallback)

FairSpec == Spec /\ Fairness

-----------------------------------------------------------------------------
(* Properties.                                                             *)

\* Every variable has its type; the table never exceeds m_max_tasks.
TypeOK ==
  /\ m_tasks \in Seq(Task)
  /\ Len(m_tasks) <= MaxTasks
  /\ now \in 0 .. (ClockMod - 1)
  /\ pc \in {"idle", "scan", "callback", "yield", "reap"}
  /\ order \in Seq(Nat)
  /\ pos \in Nat
  /\ cur \in Nat
  /\ start \in Nat
  /\ rebase \in BOOLEAN
  /\ nreg \in 0 .. MaxReg
  /\ kind \in [Fns -> Kinds]
  /\ revoked \subseteq Fns
  /\ fired \subseteq Fns
  /\ curid \in Ids

\* get_unique_task_id: no two registered tasks share an id, not even the -1
\* the last task of a full table gets.
UniqueIds ==
  \A i, j \in DOMAIN m_tasks : m_tasks[i].id = m_tasks[j].id => i = j

\* A task that handle_tasks may run has a callback: clearing or killing a
\* task drops callback and attempts together.
RunnableHasCallback ==
  \A i \in DOMAIN m_tasks : m_tasks[i].attempts # 0 => m_tasks[i].fn # NoFn

\* While a callback runs, handle_tasks holds a reference into the vector.
\* Whatever the callback does to the table, the slot still holds the task
\* that was started, and the rest of the sorted order is still in range.
RunningSlotStable ==
  /\ pc = "callback" => /\ cur \in DOMAIN m_tasks
                        /\ m_tasks[cur].id = curid
  /\ pc \in {"scan", "callback", "yield"} =>
       \A k \in DOMAIN order : order[k] \in DOMAIN m_tasks

Starts(f) == pc = "scan" /\ pc' = "callback" /\ m_tasks'[cur'].fn = f

\* A callback that was cleared, killed or replaced is never started again,
\* although its slot stays in the table until it is reaped.
RevokedNeverRuns == [][\A f \in revoked : ~Starts(f)]_vars

\* A one-shot callback (setTimeout, updateTimeout) starts at most once, even
\* if its slot survives remove_expired_tasks for some passes.
OneShotRunsOnce ==
  [][\A f \in fired : kind[f] \in {"setTimeout", "updateTimeout"} => ~Starts(f)]_vars

Pending(f) == \E i \in DOMAIN m_tasks : m_tasks[i].fn = f /\ m_tasks[i].attempts # 0

\* A timer accepted by setTimeout is never lost: until it has fired or has
\* been cleared, killed or replaced it is in the table and may run.
TimeoutNotLost ==
  \A f \in Fns : kind[f] = "setTimeout" /\ f \notin revoked \cup fired => Pending(f)

\* The catch-up loop advances last_millis by whole durations and never past
\* the start of the run, so that the next period is not measured from the
\* future.
CatchUpNeverOvershoots ==
  [][pc = "callback" /\ pc' = "yield" /\ m_tasks[cur].last <= start
       => m_tasks'[cur].last <= start]_vars

\* Every expired task leaves the table (or is revived by updateInterval)
\* although remove_expired_tasks passes over the task after an erased one.
ExpiredReaped ==
  \A id \in Ids :
    (\E i \in Registered(id) : m_tasks[i].attempts = 0)
      ~> ~(\E i \in Registered(id) : m_tasks[i].attempts = 0)

Late(f) ==
  \E i \in DOMAIN m_tasks : /\ m_tasks[i].fn = f
                            /\ m_tasks[i].state # "STOPPED"
                            /\ IsDue(m_tasks[i])
                            /\ now - Due(m_tasks[i]) >= LatenessUnit

\* "Executes all registered tasks that are due" (TaskScheduler.cpp:369): a
\* task that is late does not stay late for ever.  One pass visits only the
\* first task of the order that may run, due or not, so a due task of low
\* priority is served only because lateness outweighs priority.
LateTaskServed == \A f \in Fns : Late(f) ~> ~Late(f)
=============================================================================
