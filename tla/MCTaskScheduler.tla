-------------------------- MODULE MCTaskScheduler --------------------------
(* Instances of TaskScheduler for TLC.                                     *)
EXTENDS TaskSchedulerTable

MCNoNice == {}

OrderFields == {0, 3} \X {-20, 0} \X {0, 1, 3} \X {0, 1}

OrderTask(id, f) ==
  [id |-> id, attempts |-> -1, dur |-> 1, fn |-> 1, prio |-> f[1], nice |-> f[2],
   last |-> f[3], exec |-> f[4], name |-> "NoName", owner |-> 0,
   state |-> "SLEEPING", sig |-> "NONE"]

\* Every table of up to three tasks over a small set of fields.
OrderTables ==
  UNION {{[i \in 1 .. n |-> OrderTask(i, f[i])] : f \in [1 .. n -> OrderFields]} : n \in 0 .. 3}

\* The order is a permutation of the table in which no task precedes one
\* with a higher score.
SortedByScore(tasks, clock) ==
  LET o == getSortedTaskList(tasks, clock)
  IN  /\ {o[k] : k \in DOMAIN o} = DOMAIN tasks
      /\ \A k, l \in DOMAIN o : k < l =>
           computeScore(tasks[o[k]], clock) >= computeScore(tasks[o[l]], clock)

\* getSortedTaskList sorts by score every table it is given, although its
\* tie-break (due times within the tolerance, then run time) is not
\* transitive: each table of the runs, and from the start every table of
\* OrderTables.
OrderIsSorted ==
  /\ SortedByScore(m_tasks, now)
  /\ Init => \A tasks \in OrderTables : SortedByScore(tasks, 4)
=============================================================================
