------------------------- MODULE TaskSchedulerIds -------------------------
(***************************************************************************)
(* Proof that no two registered tasks share an id (get_unique_task_id of   *)
(* src/src/utility/TaskScheduler.cpp), the -1 of a full table included.    *)
(***************************************************************************)
EXTENDS TaskSchedulerProofs, FiniteSetTheorems

\* There are as many ids in 1 .. m as m.
LEMMA IntervalCardinality ==
  ASSUME NEW m \in Nat
  PROVE  IsFiniteSet(1 .. m) /\ Cardinality(1 .. m) = m
<1>1. m \in Int /\ 1 \in Int
  OBVIOUS
<1>2. IsFiniteSet(1 .. m) /\ Cardinality(1 .. m) = IF 1 > m THEN 0 ELSE m - 1 + 1
  BY <1>1, FS_Interval
<1> QED
  BY <1>2

\* With -1 there are exactly as many ids as m_max_tasks.
LEMMA IdsCardinality == IsFiniteSet(Ids) /\ Cardinality(Ids) = MaxTasks
<1> DEFINE pids == 1 .. (MaxTasks - 1)
<1>1. IsFiniteSet(pids) /\ Cardinality(pids) = MaxTasks - 1
  BY FS_Interval, SchedulerAssumption
<1>2. -1 \notin pids
  OBVIOUS
<1>3. Ids = pids \cup {-1}
  BY DEF Ids
<1> HIDE DEF pids
<1>4. IsFiniteSet(pids \cup {-1}) /\ Cardinality(pids \cup {-1}) = Cardinality(pids) + 1
  BY <1>1, <1>2, FS_AddElement
<1> QED
  BY <1>1, <1>3, <1>4, SchedulerAssumption

\* The id get_unique_task_id returns is not in use when the table has room.
\* For -1 this is a pigeonhole argument: with every other id in use, the
\* fewer than m_max_tasks tasks cannot also have -1 among their ids.
LEMMA NewIdUnused ==
  ASSUME TypeOK, Len(m_tasks) < MaxTasks, NEW id \in get_unique_task_id,
         NEW i \in DOMAIN m_tasks
  PROVE  m_tasks[i].id # id
<1>1. CASE id # -1
  BY <1>1 DEF get_unique_task_id, Registered
<1>2. CASE id = -1
  <2> SUFFICES ASSUME m_tasks[i].id = -1 PROVE FALSE
    BY <1>2
  <2> DEFINE g == [x \in Ids |-> CHOOSE j \in DOMAIN m_tasks : m_tasks[j].id = x]
  <2>1. \A x \in 1 .. (MaxTasks - 1) : Registered(x) # {}
    BY <1>2 DEF get_unique_task_id
  <2>2. ASSUME NEW x \in Ids
        PROVE  \E j \in DOMAIN m_tasks : m_tasks[j].id = x
    BY <2>1 DEF Registered, Ids
  <2>3. \A x \in Ids : g[x] \in DOMAIN m_tasks /\ m_tasks[g[x]].id = x
    BY <2>2
  <2>4. DOMAIN m_tasks = 1 .. Len(m_tasks) /\ Len(m_tasks) \in Nat
    BY DEF TypeOK
  <2>5. IsFiniteSet(DOMAIN m_tasks) /\ Cardinality(DOMAIN m_tasks) = Len(m_tasks)
    BY <2>4, IntervalCardinality
  <2>6. g \in [Ids -> DOMAIN m_tasks]
    BY <2>3
  <2> HIDE DEF g
  <2>7. Cardinality(DOMAIN m_tasks) < Cardinality(Ids)
    BY <2>5, IdsCardinality
  <2>8. \E x, y \in Ids : x # y /\ g[x] = g[y]
    BY <2>5, <2>6, <2>7, IdsCardinality, FS_PigeonHole
  <2> QED
    BY <2>3, <2>8
<1> QED
  BY <1>1, <1>2

\* Every step keeps ids unique: only a registration adds one.
LEMMA UniqueIdsStep == TableInv /\ UniqueIds /\ [Next]_vars => UniqueIds'
<1> SUFFICES ASSUME TableInv, UniqueIds, [Next]_vars PROVE UniqueIds'
  OBVIOUS
<1>0. TypeOK
  BY DEF TableInv
<1>1. ASSUME SameIds PROVE UniqueIds'
  BY <1>1 DEF UniqueIds, SameIds
<1>2. ASSUME UNCHANGED m_tasks PROVE UniqueIds'
  BY <1>2 DEF UniqueIds
<1>3. CASE InstallStep
  <2>1. PICK k \in Kinds : RegisterStep(k) \/ UpdateStep(k)
    BY <1>3 DEF InstallStep
  <2>2. CASE RegisterStep(k)
    <3> DEFINE n == Len(m_tasks) + 1
    <3>1. /\ Len(m_tasks) < MaxTasks
          /\ DOMAIN m_tasks' = DOMAIN m_tasks \cup {n}
          /\ \A j \in DOMAIN m_tasks : m_tasks'[j] = m_tasks[j]
          /\ m_tasks'[n].id \in get_unique_task_id
      BY <2>2 DEF RegisterStep
    <3>2. \A i \in DOMAIN m_tasks : m_tasks[i].id # m_tasks'[n].id
      BY <1>0, <3>1, NewIdUnused
    <3> HIDE DEF n
    <3> QED
      BY <3>1, <3>2 DEF UniqueIds
  <2>3. CASE UpdateStep(k)
    BY <1>1, <2>3 DEF UpdateStep, SameBut
  <2> QED
    BY <2>1, <2>2, <2>3
<1>4. CASE RemoveStep
  BY <1>1, <1>4 DEF RemoveStep, SameBut
<1>5. CASE NeutralStep
  BY <1>1, <1>5 DEF NeutralStep, SameBut
<1>6. CASE VisitSkip
  BY <1>0, <1>1, <1>6, VisitSkipEffect DEF SameBut
<1>7. CASE Visit
  BY <1>0, <1>1, <1>7, VisitEffect DEF SameBut
<1>8. CASE EndCallback
  BY <1>0, <1>1, <1>8, EndCallbackEffect, Zenon DEF SameBut, EndCallback, TableInv, RunningSlotStable
<1>9. CASE remove_expired_tasks
  <2>1. pos >= 1
    BY <1>9 DEF remove_expired_tasks, TableInv, PosInRange
  <2>2. \/ UNCHANGED m_tasks
        \/ /\ pos \in DOMAIN m_tasks
           /\ DOMAIN m_tasks' = 1 .. (Len(m_tasks) - 1)
           /\ \A k \in DOMAIN m_tasks' :
                m_tasks'[k] = IF k < pos THEN m_tasks[k] ELSE m_tasks[k + 1]
    BY <1>0, <1>9, <2>1, ReapEffect
  <2>3. DOMAIN m_tasks = 1 .. Len(m_tasks) /\ Len(m_tasks) \in Nat
    BY <1>0 DEF TypeOK
  <2> DEFINE old(k) == IF k < pos THEN k ELSE k + 1
  <2>4. ASSUME ~UNCHANGED m_tasks, NEW k \in DOMAIN m_tasks', NEW l \in DOMAIN m_tasks',
               m_tasks'[k].id = m_tasks'[l].id
        PROVE  k = l
    <3>1. k \in Nat /\ l \in Nat /\ pos \in Nat
      BY <1>0, <2>2, <2>3, <2>4 DEF TypeOK
    <3>2. old(k) \in DOMAIN m_tasks /\ old(l) \in DOMAIN m_tasks
      BY <2>2, <2>3, <2>4
    <3>3. m_tasks'[k] = m_tasks[old(k)] /\ m_tasks'[l] = m_tasks[old(l)]
      BY <2>2, <2>4
    <3>4. old(k) = old(l)
      BY <2>4, <3>2, <3>3 DEF UniqueIds
    <3> QED
      BY <3>1, <3>4
  <2> QED
    BY <1>2, <2>4 DEF UniqueIds
<1>10. CASE BeginPass \/ EndYield \/ EndScan \/ EndPass \/ Tick \/ UNCHANGED vars
  BY <1>2, <1>10 DEF BeginPass, EndYield, EndScan, EndPass, Tick, vars
<1> QED
  BY <1>0, <1>3, <1>4, <1>5, <1>6, <1>7, <1>8, <1>9, <1>10, CallCases, SMTT(30) DEF Next, Pass

\* get_unique_task_id: no two registered tasks share an id.
THEOREM IdsUnique == Spec => []UniqueIds
<1>1. Init => UniqueIds
  BY DEF Init, UniqueIds
<1> QED
  BY <1>1, TableInvInit, TableInvNext, UniqueIdsStep, PTL DEF Spec
=============================================================================
