---------------------- MODULE TaskSchedulerRefinement ----------------------
(***************************************************************************)
(* Proof that TaskScheduler implements TaskTable, for every value of the   *)
(* constants.                                                              *)
(***************************************************************************)
EXTENDS TaskSchedulerTable, TaskSchedulerIds

\* Shown depends on id, attempts and callback only.
LEMMA ShownFields ==
  ASSUME NEW t \in Task
  PROVE  /\ Shown(t).id = t.id
         /\ Shown(t).fn = IF t.attempts # 0 THEN t.fn ELSE NoFn
         /\ \A f : [Shown(t) EXCEPT !.fn = f] = [id |-> t.id, fn |-> f]
BY DEF Shown

\* Steps that change no callback and no attempt do not change what is shown.
LEMMA ShownSame ==
  ASSUME SameBut({})
  PROVE  ShownTasks' = ShownTasks
<1>1. /\ DOMAIN m_tasks' = DOMAIN m_tasks
      /\ \A j \in DOMAIN m_tasks : Shown(m_tasks'[j]) = Shown(m_tasks[j])
  BY DEF SameBut, SameIds, Shown
<1> QED
  BY <1>1 DEF ShownTasks

\* A step that gives one slot the callback f, or ends it (NoFn), replaces
\* one shown task: the others differ from it by their id.
LEMMA ShownReplaced ==
  ASSUME TypeOK, UniqueIds, NEW i \in DOMAIN m_tasks, SameBut({i}), NEW f,
         (IF m_tasks'[i].attempts # 0 THEN m_tasks'[i].fn ELSE NoFn) = f
  PROVE  /\ Shown(m_tasks[i]) \in ShownTasks
         /\ ShownTasks' = (ShownTasks \ {Shown(m_tasks[i])})
                            \cup {[Shown(m_tasks[i]) EXCEPT !.fn = f]}
<1>1. /\ DOMAIN m_tasks' = DOMAIN m_tasks
      /\ m_tasks'[i].id = m_tasks[i].id
      /\ \A j \in DOMAIN m_tasks \ {i} : Shown(m_tasks'[j]) = Shown(m_tasks[j])
  BY DEF SameBut, SameIds, Shown
<1>2. \A j \in DOMAIN m_tasks : m_tasks[j] \in Task
  BY SlotType
<1>3. \A j \in DOMAIN m_tasks \ {i} : Shown(m_tasks[j]) # Shown(m_tasks[i])
  <2> SUFFICES ASSUME NEW j \in DOMAIN m_tasks \ {i} PROVE Shown(m_tasks[j]) # Shown(m_tasks[i])
    OBVIOUS
  <2>1. m_tasks[j].id # m_tasks[i].id
    BY DEF UniqueIds
  <2>2. Shown(m_tasks[j]).id = m_tasks[j].id /\ Shown(m_tasks[i]).id = m_tasks[i].id
    BY DEF Shown
  <2> QED
    BY <2>1, <2>2
<1> DEFINE a == Shown(m_tasks[i])
           b == [Shown(m_tasks[i]) EXCEPT !.fn = f]
<1>4. Shown(m_tasks'[i]) = b
  BY <1>1 DEF Shown
<1> HIDE DEF a, b
<1>5. ASSUME NEW x \in ShownTasks' PROVE x \in (ShownTasks \ {a}) \cup {b}
  <2>1. PICK j \in DOMAIN m_tasks : x = Shown(m_tasks'[j])
    BY <1>1, <1>5 DEF ShownTasks
  <2>2. CASE j = i
    BY <1>4, <2>1, <2>2
  <2>3. CASE j # i
    BY <1>1, <1>3, <2>1, <2>3 DEF ShownTasks, a
  <2> QED
    BY <2>2, <2>3
<1>6. ASSUME NEW x \in ShownTasks, x # a PROVE x \in ShownTasks'
  <2>1. PICK j \in DOMAIN m_tasks : x = Shown(m_tasks[j])
    BY <1>6 DEF ShownTasks
  <2>2. j # i
    BY <1>6, <2>1 DEF a
  <2> QED
    BY <1>1, <2>1, <2>2 DEF ShownTasks
<1>7. b \in ShownTasks'
  BY <1>1, <1>4 DEF ShownTasks
<1>8. ShownTasks' = (ShownTasks \ {a}) \cup {b}
  BY <1>5, <1>6, <1>7
<1> QED
  BY <1>8 DEF ShownTasks, a, b

\* An id is used in the table shown when it is registered.
LEMMA UsedIsRegistered ==
  ASSUME NEW id
  PROVE  Table!Used(id) <=> Registered(id) # {}
<1>1. \A i \in DOMAIN m_tasks : Shown(m_tasks[i]).id = m_tasks[i].id
  BY DEF Shown
<1> QED
  BY <1>1 DEF Table!Used, ShownTasks, Registered

\* A set or update call registers a task or replaces a callback.
LEMMA InstallImplements ==
  ASSUME TableInv, UniqueIds, InstallStep
  PROVE  Table!TableNext
<1>0. TypeOK
  BY DEF TableInv
<1>1. PICK k \in Kinds \ {"none"} :
        /\ Install(k)
        /\ nreg + 1 \in Fns
        /\ RegisterStep(k) \/ UpdateStep(k)
        /\ UNCHANGED passVars
  BY DEF InstallStep
<1>2. RunningId' = RunningId
  BY <1>1 DEF passVars, RunningId
<1>3. nreg + 1 \in Fns \ (1 .. nreg) /\ (1 .. nreg)' = (1 .. nreg) \cup {nreg + 1}
  BY <1>0, <1>1, SchedulerAssumption DEF Install, TypeOK
<1>4. AttemptsOf(k) # 0
  BY DEF AttemptsOf
<1>5. nreg + 1 # NoFn
  BY <1>1, SchedulerAssumption DEF Fns, NoFn
<1>6. CASE RegisterStep(k)
  <2> DEFINE n == Len(m_tasks) + 1
             id == m_tasks'[n].id
  <2>1. /\ DOMAIN m_tasks' = DOMAIN m_tasks \cup {n}
        /\ n \notin DOMAIN m_tasks
        /\ \A j \in DOMAIN m_tasks : m_tasks'[j] = m_tasks[j]
        /\ m_tasks'[n].fn = nreg + 1
        /\ m_tasks'[n].attempts # 0
        /\ id \in get_unique_task_id
        /\ Len(m_tasks) < MaxTasks
    BY <1>0, <1>4, <1>6 DEF RegisterStep, TypeOK
  <2>2. id \in Ids /\ Registered(id) = {}
    <3>1. \A i \in DOMAIN m_tasks : m_tasks[i].id # id
      BY <1>0, <2>1, NewIdUnused
    <3> QED
      BY <2>1, <3>1 DEF get_unique_task_id, Registered
  <2>3. \A other \in 1 .. (MaxTasks - 1) : (id = -1 \/ other < id) => Registered(other) # {}
    BY <2>1, <2>2, SchedulerAssumption, SMTT(30) DEF get_unique_task_id, Ids
  <2>4. Shown(m_tasks'[n]) = [id |-> id, fn |-> nreg + 1]
    BY <2>1 DEF Shown
  <2> HIDE DEF n, id
  <2>5. ShownTasks' = ShownTasks \cup {[id |-> id, fn |-> nreg + 1]}
    BY <2>1, <2>4 DEF ShownTasks
  <2>6. id \in Table!Ids /\ Table!NewId(id)
    BY <2>2, <2>3, UsedIsRegistered DEF Table!NewId, Table!Ids, Ids
  <2>7. Table!Register(id, nreg + 1)
    BY <1>2, <1>3, <2>5, <2>6 DEF Table!Register
  <2> QED
    BY <1>1, <2>6, <2>7 DEF Table!TableNext
<1>7. CASE UpdateStep(k)
  <2>1. PICK i \in DOMAIN m_tasks :
          /\ SameBut({i})
          /\ m_tasks'[i].fn = nreg + 1
          /\ m_tasks'[i].attempts = AttemptsOf(k)
    BY <1>7, Zenon DEF UpdateStep
  <2> DEFINE t == Shown(m_tasks[i])
  <2>2. t \in ShownTasks /\ ShownTasks' = (ShownTasks \ {t}) \cup {[t EXCEPT !.fn = nreg + 1]}
    BY <1>0, <1>4, <2>1, ShownReplaced
  <2> HIDE DEF t
  <2>3. Table!Replace(t, nreg + 1)
    BY <1>2, <1>3, <2>2 DEF Table!Replace, Table!With
  <2> QED
    BY <1>1, <2>2, <2>3 DEF Table!TableNext
<1> QED
  BY <1>1, <1>6, <1>7

\* Clearing a registered task cancels it, clearing an unknown id does
\* nothing.
LEMMA RemoveImplements ==
  ASSUME TypeOK, UniqueIds, RemoveStep
  PROVE  Table!TableNext \/ UNCHANGED Table!tableVars
<1>1. PICK id \in Ids :
        /\ SameBut(Registered(id))
        /\ \A j \in Registered(id) : m_tasks'[j].fn = NoFn /\ m_tasks'[j].attempts = 0
        /\ UNCHANGED <<passVars, nreg>>
  BY DEF RemoveStep
<1>2. UNCHANGED <<RunningId, nreg>>
  BY <1>1 DEF passVars, RunningId
<1>3. CASE Registered(id) = {}
  <2>1. ShownTasks' = ShownTasks
    BY <1>1, <1>3, ShownSame
  <2> QED
    BY <1>2, <2>1 DEF Table!tableVars
<1>4. CASE Registered(id) # {}
  <2>1. PICK i \in DOMAIN m_tasks : Registered(id) = {i}
    BY <1>4 DEF Registered, UniqueIds
  <2> DEFINE t == Shown(m_tasks[i])
  <2>2. SameBut({i}) /\ (IF m_tasks'[i].attempts # 0 THEN m_tasks'[i].fn ELSE NoFn) = NoFn
    BY <1>1, <2>1
  <2>3. t \in ShownTasks /\ ShownTasks' = (ShownTasks \ {t}) \cup {[t EXCEPT !.fn = NoFn]}
    BY <2>2, ShownReplaced, Zenon
  <2> HIDE DEF t
  <2>4. Table!Cancel(t)
    BY <1>2, <2>3 DEF Table!Cancel, Table!With, Table!NoFn, NoFn
  <2> QED
    BY <2>3, <2>4 DEF Table!TableNext
<1> QED
  BY <1>3, <1>4

\* KILL and TERM cancel a task; other signals change nothing that is shown.
LEMMA VisitSkipImplements ==
  ASSUME TypeOK, UniqueIds, VisitSkip
  PROVE  Table!TableNext \/ UNCHANGED Table!tableVars
<1>1. UNCHANGED <<RunningId, nreg>>
  BY DEF VisitSkip, RunningId
<1>2. PICK i \in DOMAIN m_tasks :
         \/ SameBut({})
         \/ SameBut({i}) /\ m_tasks'[i].attempts = 0
  BY VisitSkipEffect, Zenon
<1>3. CASE SameBut({})
  BY <1>1, <1>3, ShownSame DEF Table!tableVars
<1>4. CASE SameBut({i}) /\ m_tasks'[i].attempts = 0
  <2> DEFINE t == Shown(m_tasks[i])
  <2>1. (IF m_tasks'[i].attempts # 0 THEN m_tasks'[i].fn ELSE NoFn) = NoFn
    BY <1>4
  <2>2. t \in ShownTasks /\ ShownTasks' = (ShownTasks \ {t}) \cup {[t EXCEPT !.fn = NoFn]}
    BY <1>4, <2>1, ShownReplaced
  <2> HIDE DEF t
  <2>3. Table!Cancel(t)
    BY <1>1, <2>2 DEF Table!Cancel, Table!With, Table!NoFn, NoFn
  <2> QED
    BY <2>2, <2>3 DEF Table!TableNext
<1> QED
  BY <1>2, <1>3, <1>4

\* A visit that calls the callback starts the task shown.
LEMMA VisitImplements ==
  ASSUME TableInv, Visit
  PROVE  Table!TableNext \/ UNCHANGED Table!tableVars
<1>0. TypeOK
  BY DEF TableInv
<1>1. /\ SameBut({})
      /\ \/ /\ pc' = "callback"
            /\ cur' \in DOMAIN m_tasks
            /\ curid' = m_tasks[cur'].id
            /\ m_tasks[cur'].attempts # 0
         \/ pc' = "yield"
  BY <1>0, VisitEffect
<1>2. UNCHANGED <<ShownTasks, nreg>> /\ pc = "scan"
  BY <1>1, ShownSame DEF Visit
<1>3. CASE pc' = "yield"
  BY <1>2, <1>3 DEF Table!tableVars, RunningId
<1>4. CASE pc' = "callback"
  <2> DEFINE t == Shown(m_tasks[cur'])
  <2>1. t \in ShownTasks
    BY <1>1, <1>4 DEF ShownTasks
  <2>2. t.fn # NoFn /\ t.id = m_tasks[cur'].id
    BY <1>1, <1>4 DEF Shown, TableInv, RunnableHasCallback
  <2> HIDE DEF t
  <2>3. RunningId = 0 /\ RunningId' = t.id
    BY <1>1, <1>2, <1>4, <2>2 DEF RunningId
  <2>4. Table!Start(t)
    BY <1>2, <2>2, <2>3 DEF Table!Start, Table!NoFn, NoFn
  <2> QED
    BY <2>1, <2>4 DEF Table!TableNext
<1> QED
  BY <1>1, <1>3, <1>4

\* The end of a callback finishes the running task.
LEMMA EndCallbackImplements ==
  ASSUME TableInv, UniqueIds, EndCallback
  PROVE  Table!TableNext
<1>1. /\ TypeOK /\ pc = "callback" /\ pc' = "yield" /\ nreg' = nreg
      /\ cur \in DOMAIN m_tasks /\ m_tasks[cur].id = curid
  BY DEF EndCallback, TableInv, RunningSlotStable, histVars
<1>2. /\ SameBut({cur})
      /\ m_tasks'[cur].fn = m_tasks[cur].fn
      /\ m_tasks'[cur].attempts = IF m_tasks[cur].attempts = -1 THEN -1 ELSE 0
  BY <1>1, EndCallbackEffect
<1>3. RunningId = curid /\ RunningId' = 0
  BY <1>1 DEF RunningId
<1>4. curid # 0
  BY <1>1, SchedulerAssumption DEF TypeOK, Ids
<1>5. CASE m_tasks[cur].attempts = -1
  <2>1. SameBut({})
    BY <1>2, <1>5 DEF SameBut
  <2>2. ShownTasks' = ShownTasks
    BY <2>1, ShownSame
  <2> QED
    BY <1>1, <1>3, <1>4, <2>2 DEF Table!Finish, Table!TableNext
<1>6. CASE m_tasks[cur].attempts # -1
  <2> DEFINE t == Shown(m_tasks[cur])
  <2>1. (IF m_tasks'[cur].attempts # 0 THEN m_tasks'[cur].fn ELSE NoFn) = NoFn
    BY <1>2, <1>6
  <2>2. t \in ShownTasks /\ ShownTasks' = (ShownTasks \ {t}) \cup {[t EXCEPT !.fn = NoFn]}
    BY <1>1, <1>2, <2>1, ShownReplaced, SMTT(30)
  <2>3. t.id = RunningId
    BY <1>1, <1>3 DEF Shown
  <2> HIDE DEF t
  <2>4. Table!Finish
    BY <1>1, <1>3, <1>4, <2>2, <2>3 DEF Table!Finish, Table!With, Table!NoFn, NoFn
  <2> QED
    BY <2>4 DEF Table!TableNext
<1> QED
  BY <1>5, <1>6

\* remove_expired_tasks reaps a task that has expired.
LEMMA ReapImplements ==
  ASSUME TableInv, UniqueIds, remove_expired_tasks
  PROVE  Table!TableNext \/ UNCHANGED Table!tableVars
<1>1. TypeOK /\ pos >= 1 /\ pc = "reap" /\ UNCHANGED <<pc, nreg>>
  BY DEF remove_expired_tasks, TableInv, PosInRange, histVars
<1>2. RunningId = 0 /\ RunningId' = 0
  BY <1>1 DEF RunningId
<1>3. \/ UNCHANGED m_tasks
      \/ /\ pos \in DOMAIN m_tasks
         /\ m_tasks[pos].attempts = 0
         /\ DOMAIN m_tasks' = 1 .. (Len(m_tasks) - 1)
         /\ \A k \in DOMAIN m_tasks' :
              m_tasks'[k] = IF k < pos THEN m_tasks[k] ELSE m_tasks[k + 1]
  BY <1>1, ReapEffect
<1>4. DOMAIN m_tasks = 1 .. Len(m_tasks) /\ Len(m_tasks) \in Nat /\ pos \in Nat
  BY <1>1 DEF TypeOK
<1>5. CASE UNCHANGED m_tasks
  BY <1>1, <1>2, <1>5 DEF Table!tableVars, ShownTasks
<1>6. CASE ~UNCHANGED m_tasks
  <2> DEFINE t == Shown(m_tasks[pos])
  <2>1. t \in ShownTasks /\ t.fn = NoFn
    BY <1>3, <1>6 DEF ShownTasks, Shown
  <2>2. \A j \in DOMAIN m_tasks \ {pos} : Shown(m_tasks[j]) # t
    <3>1. \A j \in DOMAIN m_tasks \ {pos} : m_tasks[j].id # m_tasks[pos].id
      BY <1>3, <1>6 DEF UniqueIds
    <3>2. \A j \in DOMAIN m_tasks : Shown(m_tasks[j]).id = m_tasks[j].id
      BY DEF Shown
    <3> QED
      BY <1>3, <1>6, <3>1, <3>2
  <2>3. \A k \in DOMAIN m_tasks' : \E j \in DOMAIN m_tasks \ {pos} : m_tasks'[k] = m_tasks[j]
    <3> SUFFICES ASSUME NEW k \in DOMAIN m_tasks'
                 PROVE  \E j \in DOMAIN m_tasks \ {pos} : m_tasks'[k] = m_tasks[j]
      OBVIOUS
    <3>1. CASE k < pos
      <4>1. k \in DOMAIN m_tasks \ {pos} /\ m_tasks'[k] = m_tasks[k]
        BY <1>3, <1>4, <1>6, <3>1
      <4> QED
        BY <4>1
    <3>2. CASE ~(k < pos)
      <4>1. k + 1 \in DOMAIN m_tasks \ {pos} /\ m_tasks'[k] = m_tasks[k + 1]
        BY <1>3, <1>4, <1>6, <3>2
      <4> QED
        BY <4>1
    <3> QED
      BY <3>1, <3>2
  <2>4. \A j \in DOMAIN m_tasks \ {pos} : \E k \in DOMAIN m_tasks' : m_tasks'[k] = m_tasks[j]
    <3> SUFFICES ASSUME NEW j \in DOMAIN m_tasks \ {pos}
                 PROVE  \E k \in DOMAIN m_tasks' : m_tasks'[k] = m_tasks[j]
      OBVIOUS
    <3>1. CASE j < pos
      <4>1. j \in DOMAIN m_tasks' /\ m_tasks'[j] = m_tasks[j]
        BY <1>3, <1>4, <1>6, <3>1
      <4> QED
        BY <4>1
    <3>2. CASE j > pos
      <4>1. j - 1 \in DOMAIN m_tasks' /\ m_tasks'[j - 1] = m_tasks[j]
        BY <1>3, <1>4, <1>6, <3>2
      <4> QED
        BY <4>1
    <3> QED
      BY <1>4, <3>1, <3>2
  <2> HIDE DEF t
  <2>5. ASSUME NEW x \in ShownTasks' PROVE x \in ShownTasks \ {t}
    <3>1. PICK k \in DOMAIN m_tasks' : x = Shown(m_tasks'[k])
      BY <2>5 DEF ShownTasks
    <3>2. PICK j \in DOMAIN m_tasks \ {pos} : m_tasks'[k] = m_tasks[j]
      BY <2>3
    <3> QED
      BY <2>2, <3>1, <3>2 DEF ShownTasks
  <2>6. ASSUME NEW x \in ShownTasks \ {t} PROVE x \in ShownTasks'
    <3>1. PICK j \in DOMAIN m_tasks : x = Shown(m_tasks[j])
      BY <2>6 DEF ShownTasks
    <3>2. j # pos
      BY <2>6, <3>1 DEF t
    <3>3. PICK k \in DOMAIN m_tasks' : m_tasks'[k] = m_tasks[j]
      BY <2>4, <3>2
    <3> QED
      BY <3>1, <3>3 DEF ShownTasks
  <2>7. ShownTasks' = ShownTasks \ {t}
    BY <2>5, <2>6
  <2>8. Table!Reap(t)
    BY <1>1, <1>2, <2>1, <2>7 DEF Table!Reap, Table!NoFn, NoFn
  <2> QED
    BY <2>1, <2>8 DEF Table!TableNext
<1> QED
  BY <1>5, <1>6

\* Every step of the scheduler is a step of the table or changes nothing
\* that is shown.
LEMMA StepImplements ==
  ASSUME TableInv, UniqueIds, [Next]_vars
  PROVE  Table!TableNext \/ UNCHANGED Table!tableVars
<1>0. TypeOK
  BY DEF TableInv
<1>1. CASE InstallStep
  BY <1>1, InstallImplements
<1>2. CASE RemoveStep
  BY <1>0, <1>2, RemoveImplements
<1>3. CASE NeutralStep
  BY <1>3, ShownSame DEF NeutralStep, passVars, histVars, Table!tableVars, RunningId
<1>4. CASE VisitSkip
  BY <1>0, <1>4, VisitSkipImplements
<1>5. CASE Visit
  BY <1>5, VisitImplements
<1>6. CASE EndCallback
  BY <1>6, EndCallbackImplements
<1>7. CASE remove_expired_tasks
  BY <1>7, ReapImplements
<1>8. CASE Tick \/ UNCHANGED vars
  <2>1. UNCHANGED <<m_tasks, pc, curid, nreg>>
    BY <1>8 DEF Tick, vars, passVars, histVars
  <2> QED
    BY <2>1 DEF Table!tableVars, ShownTasks, RunningId
<1>9. CASE BeginPass \/ EndYield \/ EndScan \/ EndPass
  <2>1. UNCHANGED <<m_tasks, nreg>> /\ pc # "callback" /\ pc' # "callback"
    BY <1>9 DEF BeginPass, EndYield, EndScan, EndPass, histVars
  <2> QED
    BY <2>1 DEF Table!tableVars, ShownTasks, RunningId
<1> QED
  BY <1>0, <1>1, <1>2, <1>3, <1>4, <1>5, <1>6, <1>7, <1>8, <1>9, CallCases, SMTT(30) DEF Next, Pass

\* The scheduler implements the table of tasks its callers see.
THEOREM SchedulerImplementsTable == Spec => ImplementsTable
<1>1. Init => Table!TableInit
  BY DEF Init, Table!TableInit, ShownTasks, RunningId
<1>2. TableInv /\ UniqueIds /\ [Next]_vars => [Table!TableNext]_(Table!tableVars)
  BY StepImplements
<1>3. Init => UniqueIds
  BY DEF Init, UniqueIds
<1> QED
  BY <1>1, <1>2, <1>3, TableInvInit, TableInvNext, UniqueIdsStep,
     PTL DEF Spec, ImplementsTable, Table!TableSpec
=============================================================================
