------------------------ MODULE TaskSchedulerTable ------------------------
(***************************************************************************)
(* TaskScheduler implements TaskTable.  A slot with attempts left shows    *)
(* its callback, any other is expired; the running task is the one whose   *)
(* id handle_tasks noted when it called the callback.                      *)
(***************************************************************************)
EXTENDS TaskScheduler

Shown(t) == [id |-> t.id, fn |-> IF t.attempts # 0 THEN t.fn ELSE NoFn]

ShownTasks == {Shown(m_tasks[i]) : i \in DOMAIN m_tasks}

RunningId == IF pc = "callback" THEN curid ELSE 0

Table == INSTANCE TaskTable WITH
           tasks <- ShownTasks, running <- RunningId, given <- 1 .. nreg

\* To its callers the scheduler is a table of tasks: whatever is called from
\* callbacks, from the yield or from outside the pass, no task is lost, none
\* is removed while a callback runs, and ids are reused only after reaping.
ImplementsTable == Table!TableSpec
=============================================================================
