----------------------------- MODULE TaskTable -----------------------------
(***************************************************************************)
(* What the task scheduler (src/src/utility/TaskScheduler.cpp) promises    *)
(* to the code that uses it: a table of registered tasks, each with an id  *)
(* and a callback, at most one of which runs.  Time, order, priorities and *)
(* signals are left out; a task whose callback is NoFn has expired, was    *)
(* cleared or was killed, and keeps its id until it is reaped.             *)
(***************************************************************************)
EXTENDS Integers

CONSTANTS
  MaxTasks,   \* m_max_tasks
  Fns         \* callbacks

ASSUME TableAssumption == MaxTasks \in Nat \ {0} /\ Fns \subseteq Nat \ {0}

VARIABLES
  tasks,      \* the registered tasks
  running,    \* the id of the task whose callback runs, 0 when none does
  given       \* the callbacks handed to the scheduler so far

tableVars == <<tasks, running, given>>

NoFn == 0
Ids == {-1} \cup (1 .. (MaxTasks - 1))

Used(id) == \E t \in tasks : t.id = id

\* The smallest unused id, -1 when no other is left.
NewId(id) ==
  /\ id \in Ids
  /\ ~Used(id)
  /\ \A other \in 1 .. (MaxTasks - 1) : (id = -1 \/ other < id) => Used(other)

With(t, f) == (tasks \ {t}) \cup {[t EXCEPT !.fn = f]}

\* setTimeout, setInterval and an update of an unknown id; refused when the
\* table is full.
Register(id, f) ==
  /\ NewId(id)
  /\ f \in Fns \ given
  /\ tasks' = tasks \cup {[id |-> id, fn |-> f]}
  /\ given' = given \cup {f}
  /\ UNCHANGED running

\* updateTimeout and updateInterval of a registered task, expired or not.
Replace(t, f) ==
  /\ f \in Fns \ given
  /\ tasks' = With(t, f)
  /\ given' = given \cup {f}
  /\ UNCHANGED running

\* clearTimeout, clearInterval; also KILL and TERM.
Cancel(t) ==
  /\ tasks' = With(t, NoFn)
  /\ UNCHANGED <<running, given>>

Start(t) ==
  /\ running = 0
  /\ t.fn # NoFn
  /\ running' = t.id
  /\ UNCHANGED <<tasks, given>>

\* The callback returns; the attempt it used may have been the last one.
Finish ==
  /\ running # 0
  /\ running' = 0
  /\ \/ UNCHANGED tasks
     \/ \E t \in tasks : t.id = running /\ tasks' = With(t, NoFn)
  /\ UNCHANGED given

\* No task leaves the table while a callback runs.
Reap(t) ==
  /\ running = 0
  /\ t.fn = NoFn
  /\ tasks' = tasks \ {t}
  /\ UNCHANGED <<running, given>>

TableInit == tasks = {} /\ running = 0 /\ given = {}

TableNext ==
  \/ \E id \in Ids, f \in Fns : Register(id, f)
  \/ \E t \in tasks : \/ \E f \in Fns : Replace(t, f)
                      \/ Cancel(t) \/ Start(t) \/ Reap(t)
  \/ Finish

TableSpec == TableInit /\ [][TableNext]_tableVars
=============================================================================
