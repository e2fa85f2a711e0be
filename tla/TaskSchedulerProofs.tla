------------------------ MODULE TaskSchedulerProofs ------------------------
(***************************************************************************)
(* Proofs about TaskScheduler, for every value of its constants.           *)
(***************************************************************************)
EXTENDS TaskScheduler, TLAPS

-----------------------------------------------------------------------------
(* Operators the model is built from.                                      *)

\* Erase (the vector's erase at one index) removes exactly that place.
LEMMA EraseProperties ==
  ASSUME NEW S, NEW s \in Seq(S), NEW i \in 1 .. Len(s)
  PROVE  /\ Erase(s, i) \in Seq(S)
         /\ Len(Erase(s, i)) = Len(s) - 1
         /\ \A k \in 1 .. (Len(s) - 1) :
              Erase(s, i)[k] = IF k < i THEN s[k] ELSE s[k + 1]
<1>1. \A k \in 1 .. (Len(s) - 1) : (IF k < i THEN s[k] ELSE s[k + 1]) \in S
  OBVIOUS
<1>2. Len(s) - 1 \in Nat
  OBVIOUS
<1> QED
  BY <1>1, <1>2 DEF Erase

\* The catch-up loop yields a timestamp.
LEMMA CatchUpType ==
  ASSUME NEW t \in Task, start \in Nat
  PROVE  CatchUp(t) \in Nat
<1> DEFINE rounds == IF start < t.last \/ t.dur = 0 THEN 4
                     ELSE Lesser((start - t.last) \div t.dur, 4)
<1>1. t.last \in Nat /\ t.dur \in Nat
  BY DEF Task
<1>2. rounds \in 0 .. 4
  <2>1. CASE start < t.last \/ t.dur = 0
    BY <2>1
  <2>2. CASE ~(start < t.last \/ t.dur = 0)
    <3>1. (start - t.last) \div t.dur \in Nat
      BY <2>2, <1>1
    <3> QED
      BY <2>2, <3>1 DEF Lesser
  <2> QED
    BY <2>1, <2>2
<1>3. rounds = 0 \/ rounds = 1 \/ rounds = 2 \/ rounds = 3 \/ rounds = 4
  BY <1>2
<1>4. CatchUp(t) = IF t.last = 0 THEN start ELSE t.last + rounds * t.dur
  BY DEF CatchUp
<1> HIDE DEF rounds
<1>5. rounds * t.dur \in Nat
  BY <1>1, <1>3
<1> QED
  BY <1>1, <1>4, <1>5

\* Assigning one element of the vector.
LEMMA AssignProperties ==
  ASSUME NEW S, NEW s \in Seq(S), NEW i \in DOMAIN s, NEW x \in S
  PROVE  /\ [s EXCEPT ![i] = x] \in Seq(S)
         /\ Len([s EXCEPT ![i] = x]) = Len(s)
         /\ DOMAIN [s EXCEPT ![i] = x] = DOMAIN s
         /\ \A j \in DOMAIN s : [s EXCEPT ![i] = x][j] = IF j = i THEN x ELSE s[j]
OBVIOUS

\* Rewriting all elements of the vector.
LEMMA RewriteProperties ==
  ASSUME NEW S, NEW s \in Seq(S), NEW u \in [DOMAIN s -> S]
  PROVE  u \in Seq(S) /\ Len(u) = Len(s) /\ DOMAIN u = DOMAIN s
OBVIOUS

\* push_back.
LEMMA AppendProperties ==
  ASSUME NEW S, NEW s \in Seq(S), NEW x \in S
  PROVE  /\ Append(s, x) \in Seq(S)
         /\ Len(Append(s, x)) = Len(s) + 1
         /\ DOMAIN Append(s, x) = DOMAIN s \cup {Len(s) + 1}
         /\ \A j \in DOMAIN s : Append(s, x)[j] = s[j]
         /\ Append(s, x)[Len(s) + 1] = x
OBVIOUS

-----------------------------------------------------------------------------
(* What a task becomes.                                                    *)

\* A new task is a task.
LEMMA NewTaskType ==
  ASSUME NEW id \in Ids, NEW f \in Fns, NEW d \in Durations, NEW p \in Priorities,
         NEW last \in Nat, NEW attempts \in {-1, 1}, NEW nm \in Names \cup {"NoName"},
         NEW ow \in Owners
  PROVE  NewTask(id, f, d, p, last, attempts, nm, ow) \in Task
BY SchedulerAssumption DEF NewTask, Task, States

\* updateInterval keeps id, state, nice and pending signal.
LEMMA UpdatedType ==
  ASSUME NEW t \in Task, nreg + 1 \in Fns, NEW d \in Durations, NEW p \in Priorities,
         NEW last \in Nat, NEW attempts \in {-1, 1}, NEW nm \in Names \cup {"NoName"},
         NEW ow \in Owners
  PROVE  LET u == Updated(t, d, p, last, attempts, nm, ow)
         IN  /\ u \in Task
             /\ u.id = t.id
             /\ u.fn = nreg + 1
             /\ u.attempts = attempts
<1> DEFINE l == IF last = 0 THEN t.last ELSE last
           n == IF nm = "NoName" THEN t.name ELSE nm
<1>1. l \in Nat /\ n \in Names \cup {"NoName"} /\ d \in Nat /\ p \in Nat
  BY SchedulerAssumption DEF Task
<1>2. Updated(t, d, p, last, attempts, nm, ow) =
        [t EXCEPT !.fn = nreg + 1, !.dur = d, !.prio = p, !.last = l,
                  !.attempts = attempts, !.name = n, !.owner = ow]
  BY DEF Updated
<1> HIDE DEF l, n
<1>3. Updated(t, d, p, last, attempts, nm, ow) \in Task
  BY <1>1, <1>2, ZenonT(90) DEF Task
<1> QED
  BY <1>1, <1>2, <1>3 DEF Task

\* Clearing a task keeps its id and drops callback and attempts.
LEMMA ClearedType ==
  ASSUME NEW t \in Task
  PROVE  /\ Cleared(t) \in Task
         /\ Cleared(t).id = t.id
         /\ Cleared(t).fn = NoFn
         /\ Cleared(t).attempts = 0
BY SchedulerAssumption, Zenon DEF Cleared, Task, States, NoFn

\* Consuming a signal keeps the id; KILL and TERM drop callback and attempts,
\* the others leave them alone.
LEMMA ConsumeType ==
  ASSUME NEW t \in Task
  PROVE  /\ ConsumeSignal(t) \in Task
         /\ ConsumeSignal(t).id = t.id
         /\ Killing(t) => ConsumeSignal(t).fn = NoFn /\ ConsumeSignal(t).attempts = 0
         /\ ~Killing(t) => /\ ConsumeSignal(t).fn = t.fn
                           /\ ConsumeSignal(t).attempts = t.attempts
<1>1. CASE Killing(t)
  BY <1>1, Zenon DEF ConsumeSignal, Killing, Task, States, NoFn
<1>2. CASE ~Killing(t) /\ t.sig = "STOP"
  BY <1>2, Zenon DEF ConsumeSignal, Killing, Task, States
<1>3. CASE ~Killing(t) /\ t.sig = "CONT"
  BY <1>3, Zenon DEF ConsumeSignal, Killing, Task, States
<1>4. CASE ~Killing(t) /\ t.sig \notin {"STOP", "CONT"}
  BY <1>4 DEF ConsumeSignal, Killing, Task, States
<1> QED
  BY <1>1, <1>2, <1>3, <1>4

\* A task about to be considered for running.
LEMMA ClockBackType ==
  ASSUME NEW t \in Task, now \in Nat
  PROVE  /\ ClockBack(t) \in Task
         /\ ClockBack(t).id = t.id
         /\ ClockBack(t).fn = t.fn
         /\ ClockBack(t).attempts = t.attempts
BY DEF ClockBack, Task

\* After its run a task has the same id and callback and, unless it is an
\* interval, one attempt less.
LEMMA AfterRunType ==
  ASSUME NEW t \in Task, NEW e \in ExecTimes, start \in Nat
  PROVE  /\ AfterRun(t, e) \in Task
         /\ AfterRun(t, e).id = t.id
         /\ AfterRun(t, e).fn = t.fn
         /\ AfterRun(t, e).attempts = IF t.attempts = -1 THEN -1 ELSE 0
<1>1. CatchUp(t) \in Nat
  BY CatchUpType
<1>2. e \in Nat
  BY SchedulerAssumption
<1>3. t.attempts \in {-1, 0, 1}
  BY DEF Task
<1> DEFINE left == IF t.attempts > 0 THEN t.attempts - 1 ELSE t.attempts
           st == IF left = 0 THEN "ZOMBIE" ELSE "SLEEPING"
           c == CatchUp(t)
<1>4. left = IF t.attempts = -1 THEN -1 ELSE 0
  BY <1>3
<1>5. left \in {-1, 0, 1} /\ st \in States
  BY <1>4, Zenon DEF States
<1>6. AfterRun(t, e) = [t EXCEPT !.exec = e, !.last = c, !.attempts = left, !.state = st]
  BY DEF AfterRun
<1> HIDE DEF left, st, c
<1>7. c \in Nat
  BY <1>1 DEF c
<1>8. AfterRun(t, e) \in Task
  BY <1>2, <1>5, <1>6, <1>7, ZenonT(30) DEF Task
<1> QED
  BY <1>4, <1>6, <1>8 DEF Task

-----------------------------------------------------------------------------
(* What each action does to the table, for the proofs below.               *)

\* Slots and their ids stay.
SameIds ==
  /\ m_tasks' \in Seq(Task)
  /\ Len(m_tasks') = Len(m_tasks)
  /\ DOMAIN m_tasks' = DOMAIN m_tasks
  /\ \A j \in DOMAIN m_tasks : m_tasks'[j].id = m_tasks[j].id

\* So do callbacks and attempts, except those of the slots in S.
SameBut(S) ==
  /\ SameIds
  /\ \A j \in DOMAIN m_tasks \ S : /\ m_tasks'[j].fn = m_tasks[j].fn
                                   /\ m_tasks'[j].attempts = m_tasks[j].attempts

\* register_task appends a task with the fresh callback and an unused id.
LEMMA RegisterEffect ==
  ASSUME TypeOK, NEW k \in Kinds, NEW d \in Durations, NEW p \in Priorities,
         NEW last \in Nat, NEW attempts \in {-1, 1}, NEW nm \in Names \cup {"NoName"},
         NEW ow \in Owners,
         register_task(k, d, p, last, attempts, nm, ow)
  PROVE  /\ Len(m_tasks) < MaxTasks
         /\ nreg + 1 \in Fns
         /\ m_tasks' \in Seq(Task)
         /\ Len(m_tasks') = Len(m_tasks) + 1
         /\ DOMAIN m_tasks' = DOMAIN m_tasks \cup {Len(m_tasks) + 1}
         /\ \A j \in DOMAIN m_tasks : m_tasks'[j] = m_tasks[j]
         /\ m_tasks'[Len(m_tasks) + 1].id \in get_unique_task_id
         /\ m_tasks'[Len(m_tasks) + 1].fn = nreg + 1
         /\ m_tasks'[Len(m_tasks) + 1].attempts = attempts
<1>1. Len(m_tasks) < MaxTasks /\ nreg + 1 \in Fns
  BY SchedulerAssumption DEF register_task, Install, TypeOK, Fns
<1>2. PICK id \in get_unique_task_id :
        m_tasks' = Append(m_tasks, NewTask(id, nreg + 1, d, p, last, attempts, nm, ow))
  BY DEF register_task
<1> DEFINE t == NewTask(id, nreg + 1, d, p, last, attempts, nm, ow)
<1>3. id \in Ids
  BY DEF get_unique_task_id
<1>4. t \in Task
  BY <1>1, <1>3, NewTaskType
<1>5. t.id = id /\ t.fn = nreg + 1 /\ t.attempts = attempts
  BY DEF NewTask
<1>6. m_tasks \in Seq(Task)
  BY DEF TypeOK
<1> HIDE DEF t
<1>7. /\ Append(m_tasks, t) \in Seq(Task)
      /\ Len(Append(m_tasks, t)) = Len(m_tasks) + 1
      /\ DOMAIN Append(m_tasks, t) = DOMAIN m_tasks \cup {Len(m_tasks) + 1}
      /\ \A j \in DOMAIN m_tasks : Append(m_tasks, t)[j] = m_tasks[j]
      /\ Append(m_tasks, t)[Len(m_tasks) + 1] = t
  BY <1>4, <1>6, AppendProperties
<1>8. m_tasks' = Append(m_tasks, t)
  BY <1>2 DEF t
<1> QED
  BY <1>1, <1>2, <1>5, <1>7, <1>8

\* Writing task t, with the id of the slot, into slot i.
LEMMA AssignEffect ==
  ASSUME TypeOK, NEW i \in DOMAIN m_tasks, NEW t \in Task, t.id = m_tasks[i].id,
         m_tasks' = [m_tasks EXCEPT ![i] = t]
  PROVE  SameBut({i}) /\ m_tasks'[i] = t
<1>1. m_tasks \in Seq(Task)
  BY DEF TypeOK
<1>2. /\ m_tasks' \in Seq(Task)
      /\ Len(m_tasks') = Len(m_tasks)
      /\ DOMAIN m_tasks' = DOMAIN m_tasks
      /\ \A j \in DOMAIN m_tasks : m_tasks'[j] = IF j = i THEN t ELSE m_tasks[j]
  BY <1>1, AssignProperties
<1> QED
  BY <1>2 DEF SameBut, SameIds

\* Every slot of the table holds a task.
LEMMA SlotType ==
  ASSUME TypeOK, NEW i \in DOMAIN m_tasks
  PROVE  m_tasks[i] \in Task
BY DEF TypeOK

\* updateInterval on a registered task gives the slot the fresh callback.
LEMMA UpdateEffect ==
  ASSUME TypeOK, NEW k \in Kinds, NEW i \in DOMAIN m_tasks, NEW d \in Durations,
         NEW p \in Priorities, NEW last \in Nat, NEW attempts \in {-1, 1},
         NEW nm \in Names \cup {"NoName"}, NEW ow \in Owners,
         Install(k),
         m_tasks' = [m_tasks EXCEPT ![i] = Updated(m_tasks[i], d, p, last, attempts, nm, ow)]
  PROVE  /\ nreg + 1 \in Fns
         /\ SameBut({i})
         /\ m_tasks'[i].fn = nreg + 1
         /\ m_tasks'[i].attempts = attempts
<1> DEFINE u == Updated(m_tasks[i], d, p, last, attempts, nm, ow)
<1>1. nreg + 1 \in Fns
  <2>1. nreg \in 0 .. MaxReg /\ nreg < MaxReg
    BY DEF Install, TypeOK
  <2> QED
    BY <2>1, SchedulerAssumption DEF Fns
<1>2. m_tasks[i] \in Task
  BY SlotType
<1>3. u \in Task /\ u.id = m_tasks[i].id /\ u.fn = nreg + 1 /\ u.attempts = attempts
  BY <1>1, <1>2, UpdatedType
<1>4. m_tasks' = [m_tasks EXCEPT ![i] = u]
  OBVIOUS
<1> HIDE DEF u
<1>5. SameBut({i}) /\ m_tasks'[i] = u
  BY <1>3, <1>4, AssignEffect, Zenon
<1> QED
  BY <1>1, <1>3, <1>5

\* Clearing by id marks the slots with that id and leaves the others alone.
LEMMA RemoveEffect ==
  ASSUME TypeOK, NEW id \in Ids, remove_task(id)
  PROVE  /\ SameBut(Registered(id))
         /\ \A j \in Registered(id) : m_tasks'[j].fn = NoFn /\ m_tasks'[j].attempts = 0
<1>1. m_tasks' = [i \in DOMAIN m_tasks |->
                    IF m_tasks[i].id = id THEN Cleared(m_tasks[i]) ELSE m_tasks[i]]
  BY DEF remove_task
<1>2. \A j \in DOMAIN m_tasks : m_tasks[j] \in Task
  BY SlotType
<1>3. \A j \in DOMAIN m_tasks : /\ Cleared(m_tasks[j]) \in Task
                                /\ Cleared(m_tasks[j]).id = m_tasks[j].id
                                /\ Cleared(m_tasks[j]).fn = NoFn
                                /\ Cleared(m_tasks[j]).attempts = 0
  BY <1>2, ClearedType
<1>4. \A j \in DOMAIN m_tasks : m_tasks'[j] \in Task
  BY <1>1, <1>2, <1>3
<1>5. m_tasks' \in Seq(Task) /\ Len(m_tasks') = Len(m_tasks) /\ DOMAIN m_tasks' = DOMAIN m_tasks
  <2>1. m_tasks \in Seq(Task)
    BY DEF TypeOK
  <2>2. m_tasks' \in [DOMAIN m_tasks -> Task]
    BY <1>1, <1>4
  <2> QED
    BY <2>1, <2>2, RewriteProperties
<1> QED
  BY <1>1, <1>3, <1>5 DEF SameBut, SameIds, Registered

\* Writing a task that differs only in name, owner, nice value or signal.
LEMMA SetTaskEffect ==
  ASSUME TypeOK, NEW i \in DOMAIN m_tasks, NEW t \in Task, t.id = m_tasks[i].id,
         t.fn = m_tasks[i].fn, t.attempts = m_tasks[i].attempts,
         m_tasks' = [m_tasks EXCEPT ![i] = t]
  PROVE  SameBut({})
<1>1. SameBut({i}) /\ m_tasks'[i] = t
  BY AssignEffect, Zenon
<1> QED
  BY <1>1 DEF SameBut

\* setTaskName, setTaskOwner, setTaskNice and sendSignal touch neither
\* callbacks nor attempts.
LEMMA SetFieldEffect ==
  ASSUME TypeOK, NEW id \in Ids,
         \/ \E nm \in Names : setTaskName(id, nm)
         \/ \E ow \in Owners : setTaskOwner(id, ow)
         \/ \E n \in Nices : setTaskNice(id, n)
         \/ \E sg \in Signals : sendSignal(id, sg)
  PROVE  /\ SameBut({})
         /\ UNCHANGED <<now, passVars, rebase, histVars>>
<1>1. CASE \E nm \in Names : setTaskName(id, nm)
  <2>1. PICK nm \in Names, i \in is_registered_task(id) :
          SetTask(i, [m_tasks[i] EXCEPT !.name = nm])
    BY <1>1 DEF setTaskName
  <2>2. i \in DOMAIN m_tasks /\ m_tasks[i] \in Task
    BY SlotType DEF is_registered_task, Registered
  <2>3. [m_tasks[i] EXCEPT !.name = nm] \in Task
    BY <2>2 DEF Task
  <2> QED
    BY <2>1, <2>2, <2>3, SetTaskEffect, Zenon DEF SetTask, Task
<1>2. CASE \E ow \in Owners : setTaskOwner(id, ow)
  <2>1. PICK ow \in Owners, i \in is_registered_task(id) :
          SetTask(i, [m_tasks[i] EXCEPT !.owner = ow])
    BY <1>2 DEF setTaskOwner
  <2>2. i \in DOMAIN m_tasks /\ m_tasks[i] \in Task
    BY SlotType DEF is_registered_task, Registered
  <2>3. [m_tasks[i] EXCEPT !.owner = ow] \in Task
    BY <2>2 DEF Task
  <2> QED
    BY <2>1, <2>2, <2>3, SetTaskEffect, Zenon DEF SetTask, Task
<1>3. CASE \E n \in Nices : setTaskNice(id, n)
  <2>1. PICK n \in Nices, i \in is_registered_task(id) :
          SetTask(i, [m_tasks[i] EXCEPT !.nice = ClampNice(n)])
    BY <1>3 DEF setTaskNice
  <2>2. i \in DOMAIN m_tasks /\ m_tasks[i] \in Task
    BY SlotType DEF is_registered_task, Registered
  <2>3. ClampNice(n) \in -20 .. 19
    BY SchedulerAssumption DEF ClampNice
  <2>4. [m_tasks[i] EXCEPT !.nice = ClampNice(n)] \in Task
    BY <2>2, <2>3 DEF Task
  <2> QED
    BY <2>1, <2>2, <2>4, SetTaskEffect, Zenon DEF SetTask, Task
<1>4. CASE \E sg \in Signals : sendSignal(id, sg)
  <2>1. PICK sg \in Signals, i \in is_registered_task(id) :
          SetTask(i, [m_tasks[i] EXCEPT !.sig = sg])
    BY <1>4 DEF sendSignal
  <2>2. i \in DOMAIN m_tasks /\ m_tasks[i] \in Task
    BY SlotType DEF is_registered_task, Registered
  <2>3. [m_tasks[i] EXCEPT !.sig = sg] \in Task
    BY <2>2, SchedulerAssumption DEF Task
  <2> QED
    BY <2>1, <2>2, <2>3, SetTaskEffect, Zenon DEF SetTask, Task
<1> QED
  BY <1>1, <1>2, <1>3, <1>4

\* Nor does sendSignalByName.
LEMMA SignalByNameEffect ==
  ASSUME TypeOK, NEW nm \in Names, NEW sg \in Signals, NEW who \in Owners,
         NEW isRoot \in BOOLEAN, sendSignalByName(nm, sg, who, isRoot)
  PROVE  SameBut({})
<1>1. m_tasks' = [i \in DOMAIN m_tasks |->
                    IF Signalled(m_tasks[i], nm, who, isRoot)
                    THEN [m_tasks[i] EXCEPT !.sig = sg] ELSE m_tasks[i]]
  BY DEF sendSignalByName
<1>2. \A j \in DOMAIN m_tasks : m_tasks[j] \in Task
  BY SlotType
<1>3. \A j \in DOMAIN m_tasks :
        LET u == [m_tasks[j] EXCEPT !.sig = sg]
        IN  u \in Task /\ u.id = m_tasks[j].id /\ u.fn = m_tasks[j].fn
              /\ u.attempts = m_tasks[j].attempts
  BY <1>2, SchedulerAssumption DEF Task
<1>4. \A j \in DOMAIN m_tasks : m_tasks'[j] \in Task
  BY <1>1, <1>2, <1>3
<1>5. m_tasks' \in Seq(Task) /\ Len(m_tasks') = Len(m_tasks) /\ DOMAIN m_tasks' = DOMAIN m_tasks
  <2>1. m_tasks \in Seq(Task)
    BY DEF TypeOK
  <2>2. m_tasks' \in [DOMAIN m_tasks -> Task]
    BY <1>1, <1>4
  <2> QED
    BY <2>1, <2>2, RewriteProperties
<1> QED
  BY <1>1, <1>3, <1>5 DEF SameBut, SameIds

\* A task passed over by the scan keeps callback and attempts, or loses both
\* to KILL or TERM.
LEMMA VisitSkipEffect ==
  ASSUME TypeOK, VisitSkip
  PROVE  \E i \in DOMAIN m_tasks :
           \/ SameBut({}) /\ revoked' = revoked
           \/ /\ SameBut({i})
              /\ m_tasks'[i].fn = NoFn /\ m_tasks'[i].attempts = 0
              /\ revoked' = revoked \cup ({m_tasks[i].fn} \ {NoFn})
<1>1. PICK i \in DOMAIN m_tasks :
        /\ m_tasks' = [m_tasks EXCEPT ![i] = ConsumeSignal(m_tasks[i])]
        /\ revoked' = IF Killing(m_tasks[i])
                      THEN revoked \cup ({m_tasks[i].fn} \ {NoFn}) ELSE revoked
  BY Zenon DEF VisitSkip
<1>2. m_tasks[i] \in Task
  BY SlotType
<1> DEFINE t == ConsumeSignal(m_tasks[i])
<1>3. /\ t \in Task
      /\ t.id = m_tasks[i].id
      /\ Killing(m_tasks[i]) => t.fn = NoFn /\ t.attempts = 0
      /\ ~Killing(m_tasks[i]) => t.fn = m_tasks[i].fn /\ t.attempts = m_tasks[i].attempts
  BY <1>2, ConsumeType
<1>4. m_tasks' = [m_tasks EXCEPT ![i] = t]
  BY <1>1
<1> HIDE DEF t
<1>5. SameBut({i}) /\ m_tasks'[i] = t
  BY <1>3, <1>4, AssignEffect, Zenon
<1>6. CASE Killing(m_tasks[i])
  BY <1>1, <1>3, <1>5, <1>6
<1>7. CASE ~Killing(m_tasks[i])
  <2>1. SameBut({})
    BY <1>3, <1>4, <1>7, SetTaskEffect, Zenon
  <2> QED
    BY <1>1, <1>7, <2>1
<1> QED
  BY <1>6, <1>7, Zenon

\* A visit changes no callback and no attempt; the task it starts has one.
LEMMA VisitEffect ==
  ASSUME TypeOK, Visit
  PROVE  /\ SameBut({})
         /\ \/ /\ pc' = "callback"
               /\ cur' \in DOMAIN m_tasks
               /\ start' = now
               /\ curid' = m_tasks[cur'].id
               /\ m_tasks[cur'].attempts # 0
               /\ fired' = fired \cup {m_tasks[cur'].fn}
            \/ pc' = "yield" /\ UNCHANGED <<cur, start, curid, fired>>
<1> DEFINE t(i) == ClockBack(ConsumeSignal(m_tasks[i]))
           r(i) == [t(i) EXCEPT !.state = "RUNNING"]
<1>1. PICK i \in DOMAIN m_tasks :
        /\ ~Killing(m_tasks[i])
        /\ \/ /\ IsDue(t(i))
              /\ m_tasks' = [m_tasks EXCEPT ![i] = r(i)]
              /\ pc' = "callback" /\ cur' = i /\ start' = now /\ curid' = t(i).id
              /\ fired' = fired \cup {t(i).fn}
           \/ /\ m_tasks' = [m_tasks EXCEPT ![i] = t(i)]
              /\ pc' = "yield" /\ UNCHANGED <<cur, start, curid, fired>>
  BY DEF Visit
<1>2. m_tasks[i] \in Task /\ now \in Nat
  BY SlotType, SchedulerAssumption DEF TypeOK
<1>3. /\ ConsumeSignal(m_tasks[i]) \in Task
      /\ ConsumeSignal(m_tasks[i]).id = m_tasks[i].id
      /\ ConsumeSignal(m_tasks[i]).fn = m_tasks[i].fn
      /\ ConsumeSignal(m_tasks[i]).attempts = m_tasks[i].attempts
  BY <1>1, <1>2, ConsumeType
<1>4. /\ t(i) \in Task
      /\ t(i).id = m_tasks[i].id
      /\ t(i).fn = m_tasks[i].fn
      /\ t(i).attempts = m_tasks[i].attempts
  BY <1>2, <1>3, ClockBackType
<1> HIDE DEF t
<1>5. /\ r(i) \in Task
      /\ r(i).id = m_tasks[i].id
      /\ r(i).fn = m_tasks[i].fn
      /\ r(i).attempts = m_tasks[i].attempts
  BY <1>4 DEF Task, States
<1> HIDE DEF r
<1>6. SameBut({})
  BY <1>1, <1>4, <1>5, SetTaskEffect
<1>7. IsDue(t(i)) => m_tasks[i].attempts # 0
  BY <1>4 DEF IsDue
<1> QED
  BY <1>1, <1>4, <1>6, <1>7

\* The end of a run uses up an attempt of the running task.
LEMMA EndCallbackEffect ==
  ASSUME TypeOK, cur \in DOMAIN m_tasks, EndCallback
  PROVE  /\ SameBut({cur})
         /\ m_tasks'[cur].fn = m_tasks[cur].fn
         /\ m_tasks'[cur].attempts = IF m_tasks[cur].attempts = -1 THEN -1 ELSE 0
<1>1. PICK e \in ExecTimes : m_tasks' = [m_tasks EXCEPT ![cur] = AfterRun(m_tasks[cur], e)]
  BY Zenon DEF EndCallback
<1>2. m_tasks[cur] \in Task /\ start \in Nat
  BY SlotType DEF TypeOK
<1> DEFINE t == AfterRun(m_tasks[cur], e)
<1>3. /\ t \in Task
      /\ t.id = m_tasks[cur].id
      /\ t.fn = m_tasks[cur].fn
      /\ t.attempts = IF m_tasks[cur].attempts = -1 THEN -1 ELSE 0
  BY <1>2, AfterRunType
<1>4. m_tasks' = [m_tasks EXCEPT ![cur] = t]
  BY <1>1
<1> HIDE DEF t
<1> QED
  BY <1>3, <1>4, AssignEffect, Zenon

\* An iteration of remove_expired_tasks leaves the table alone or takes out
\* one task without attempts, closing the gap.
LEMMA ReapEffect ==
  ASSUME TypeOK, pos >= 1, remove_expired_tasks
  PROVE  \/ UNCHANGED m_tasks
         \/ /\ pos \in DOMAIN m_tasks
            /\ m_tasks[pos].attempts = 0
            /\ m_tasks' \in Seq(Task)
            /\ Len(m_tasks') = Len(m_tasks) - 1
            /\ DOMAIN m_tasks' = 1 .. (Len(m_tasks) - 1)
            /\ \A k \in DOMAIN m_tasks' :
                 m_tasks'[k] = IF k < pos THEN m_tasks[k] ELSE m_tasks[k + 1]
<1>1. pos \in 1 .. Len(m_tasks) /\ m_tasks \in Seq(Task)
  BY DEF remove_expired_tasks, TypeOK
<1>2. CASE m_tasks[pos].attempts = 0
  <2>1. m_tasks' = Erase(m_tasks, pos)
    BY <1>2 DEF remove_expired_tasks
  <2>2. /\ Erase(m_tasks, pos) \in Seq(Task)
        /\ Len(Erase(m_tasks, pos)) = Len(m_tasks) - 1
        /\ \A k \in 1 .. (Len(m_tasks) - 1) :
              Erase(m_tasks, pos)[k] = IF k < pos THEN m_tasks[k] ELSE m_tasks[k + 1]
    BY <1>1, EraseProperties
  <2> QED
    BY <1>1, <1>2, <2>1, <2>2
<1>3. CASE m_tasks[pos].attempts # 0
  BY <1>3 DEF remove_expired_tasks
<1> QED
  BY <1>2, <1>3

(* The four things a call of the API can do.                               *)

AttemptsOf(k) == IF k \in {"setTimeout", "updateTimeout"} THEN 1 ELSE -1

RegisterStep(k) ==
  LET n == Len(m_tasks) + 1
  IN  /\ Len(m_tasks) < MaxTasks
      /\ m_tasks' \in Seq(Task)
      /\ Len(m_tasks') = n
      /\ DOMAIN m_tasks' = DOMAIN m_tasks \cup {n}
      /\ \A j \in DOMAIN m_tasks : m_tasks'[j] = m_tasks[j]
      /\ m_tasks'[n].id \in get_unique_task_id
      /\ m_tasks'[n].fn = nreg + 1
      /\ m_tasks'[n].attempts = AttemptsOf(k)
      /\ UNCHANGED <<rebase, revoked>>

UpdateStep(k) ==
  \E i \in DOMAIN m_tasks :
    /\ k \in {"updateTimeout", "updateInterval"}
    /\ SameBut({i})
    /\ m_tasks'[i].fn = nreg + 1
    /\ m_tasks'[i].attempts = AttemptsOf(k)
    /\ revoked' = revoked \cup ({m_tasks[i].fn} \ {NoFn})
    /\ UNCHANGED rebase

InstallStep ==
  \E k \in Kinds \ {"none"} :
    /\ CanCall
    /\ Install(k)
    /\ nreg + 1 \in Fns
    /\ RegisterStep(k) \/ UpdateStep(k)
    /\ UNCHANGED <<now, passVars, fired>>

RemoveStep ==
  \E id \in Ids :
    /\ CanCall
    /\ SameBut(Registered(id))
    /\ \A j \in Registered(id) : m_tasks'[j].fn = NoFn /\ m_tasks'[j].attempts = 0
    /\ revoked' = revoked \cup ({m_tasks[i].fn : i \in Registered(id)} \ {NoFn})
    /\ UNCHANGED <<now, passVars, rebase, nreg, kind, fired>>

NeutralStep ==
  /\ SameBut({})
  /\ rebase' \in BOOLEAN
  /\ UNCHANGED <<now, passVars, histVars>>

\* set and update calls hand out a fresh callback.
LEMMA SetCases ==
  ASSUME TypeOK, NEW k \in Kinds \ {"none"}, NEW d \in Durations, NEW p \in Priorities,
         NEW last \in Nat, NEW attempts \in {-1, 1}, NEW nm \in Names \cup {"NoName"},
         NEW ow \in Owners, attempts = AttemptsOf(k), CanCall,
         register_task(k, d, p, last, attempts, nm, ow)
  PROVE  InstallStep
<1>1. k \in Kinds
  OBVIOUS
<1>2. /\ Len(m_tasks) < MaxTasks
      /\ nreg + 1 \in Fns
      /\ m_tasks' \in Seq(Task)
      /\ Len(m_tasks') = Len(m_tasks) + 1
      /\ DOMAIN m_tasks' = DOMAIN m_tasks \cup {Len(m_tasks) + 1}
      /\ \A j \in DOMAIN m_tasks : m_tasks'[j] = m_tasks[j]
      /\ m_tasks'[Len(m_tasks) + 1].id \in get_unique_task_id
      /\ m_tasks'[Len(m_tasks) + 1].fn = nreg + 1
      /\ m_tasks'[Len(m_tasks) + 1].attempts = attempts
  BY <1>1, RegisterEffect, ZenonT(120)
<1>3. Install(k) /\ UNCHANGED <<now, passVars, rebase, revoked, fired>>
  BY DEF register_task
<1>4. RegisterStep(k)
  BY <1>2, <1>3 DEF RegisterStep
<1> QED
  BY <1>2, <1>3, <1>4 DEF InstallStep

\* An update call registers a task or gives a registered one the fresh
\* callback.
LEMMA UpdateCases ==
  ASSUME TypeOK, NEW k \in {"updateTimeout", "updateInterval"}, NEW id \in Ids,
         NEW d \in Durations,
         NEW p \in Priorities, NEW last \in Nat, NEW attempts \in {-1, 1},
         NEW nm \in Names \cup {"NoName"}, NEW ow \in Owners, attempts = AttemptsOf(k),
         UpdateTask(k, id, d, p, last, attempts, nm, ow)
  PROVE  InstallStep
<1>1. CanCall /\ k \in Kinds \ {"none"}
  BY DEF UpdateTask, Kinds
<1>2. CASE register_task(k, d, p, last, attempts, nm, ow)
  BY <1>1, <1>2, SetCases
<1>3. CASE \E i \in is_registered_task(id) :
             /\ Install(k)
             /\ m_tasks' = [m_tasks EXCEPT ![i] =
                              Updated(m_tasks[i], d, p, last, attempts, nm, ow)]
             /\ revoked' = revoked \cup ({m_tasks[i].fn} \ {NoFn})
             /\ UNCHANGED <<now, passVars, rebase, fired>>
  <2>1. PICK i \in is_registered_task(id) : <1>3!1!(i)
    BY <1>3, Zenon
  <2>2. i \in DOMAIN m_tasks
    BY DEF is_registered_task, Registered
  <2>4. /\ nreg + 1 \in Fns
        /\ SameBut({i})
        /\ m_tasks'[i].fn = nreg + 1
        /\ m_tasks'[i].attempts = attempts
    BY <1>1, <2>1, <2>2, UpdateEffect, Zenon
  <2>5. UpdateStep(k)
    BY <2>1, <2>2, <2>4, Zenon DEF UpdateStep
  <2> QED
    BY <1>1, <2>1, <2>4, <2>5 DEF InstallStep
<1> QED
  BY <1>2, <1>3 DEF UpdateTask

\* Every call of the API is one of the three.
LEMMA CallCases ==
  ASSUME TypeOK, Call
  PROVE  InstallStep \/ RemoveStep \/ NeutralStep
<1>0. now \in Nat
  BY SchedulerAssumption DEF TypeOK
<1>1. ASSUME NEW d \in Durations, NEW p \in Priorities, NEW nm \in Names \cup {"NoName"},
             NEW ow \in Owners, setTimeout(d, p, nm, ow)
      PROVE  InstallStep
  <2>1. CanCall /\ register_task("setTimeout", d, p, now, 1, nm, ow)
    BY <1>1 DEF setTimeout
  <2> QED
    BY <1>0, <2>1, SetCases DEF Kinds, AttemptsOf
<1>2. ASSUME NEW d \in Durations, NEW p \in Priorities, NEW nm \in Names \cup {"NoName"},
             NEW ow \in Owners, setInterval(d, p, nm, ow)
      PROVE  InstallStep
  <2>1. CanCall /\ register_task("setInterval", d, p, now, -1, nm, ow)
    BY <1>2 DEF setInterval
  <2> QED
    BY <1>0, <2>1, SetCases DEF Kinds, AttemptsOf
<1>3. ASSUME NEW d \in Durations, NEW p \in Priorities, NEW nm \in Names \cup {"NoName"},
             NEW ow \in Owners, NEW id \in Ids,
             NEW last \in {0} \cup {now + late : late \in Delays},
             updateInterval(id, d, p, last, nm, ow)
      PROVE  InstallStep
  <2>1. last \in Nat
    BY <1>0, SchedulerAssumption
  <2>2. UpdateTask("updateInterval", id, d, p, last, -1, nm, ow)
    BY <1>3 DEF updateInterval
  <2> QED
    BY <2>1, <2>2, UpdateCases DEF Kinds, AttemptsOf
<1>4. ASSUME NEW id \in Ids, NEW d \in Durations, NEW p \in Priorities, updateTimeout(id, d, p)
      PROVE  InstallStep
  <2>1. UpdateTask("updateTimeout", id, d, p, now, 1, "NoName", 0)
    BY <1>4 DEF updateTimeout
  <2>2. 0 \in Owners
    BY SchedulerAssumption
  <2> QED
    BY <1>0, <2>1, <2>2, UpdateCases DEF Kinds, AttemptsOf
<1>5. ASSUME NEW id \in Ids, remove_task(id)
      PROVE  RemoveStep
  BY <1>5, RemoveEffect DEF RemoveStep, remove_task
<1>6. ASSUME NEW id \in Ids,
             \/ \E nm \in Names : setTaskName(id, nm)
             \/ \E ow \in Owners : setTaskOwner(id, ow)
             \/ \E n \in Nices : setTaskNice(id, n)
             \/ \E sg \in Signals : sendSignal(id, sg)
      PROVE  NeutralStep
  BY <1>6, SetFieldEffect DEF NeutralStep, TypeOK
<1>7. ASSUME NEW nm \in Names, NEW sg \in Signals, NEW who \in Owners,
             NEW isRoot \in BOOLEAN, sendSignalByName(nm, sg, who, isRoot)
      PROVE  NeutralStep
  BY <1>7, SignalByNameEffect, ZenonT(30) DEF NeutralStep, sendSignalByName, TypeOK
<1>8. ASSUME rebaseAndRestartPrioTasks
      PROVE  NeutralStep
  BY <1>8 DEF NeutralStep, rebaseAndRestartPrioTasks, SameBut, SameIds, TypeOK
<1> QED
  BY <1>1, <1>2, <1>3, <1>4, <1>5, <1>6, <1>7, <1>8, Zenon DEF Call

-----------------------------------------------------------------------------
(* Types, references into the vector, and the link between attempts and    *)
(* callback: the part of the invariant that is inductive by itself.        *)

PosInRange == pc # "idle" => pos >= 1

TableInv == TypeOK /\ PosInRange /\ RunnableHasCallback /\ RunningSlotStable

\* The table is empty at first.
LEMMA TableInvInit == Init => TableInv
<1> SUFFICES ASSUME Init PROVE TableInv
  OBVIOUS
<1>1. kind \in [Fns -> Kinds]
  BY DEF Init, Kinds
<1>2. m_tasks \in Seq(Task) /\ Len(m_tasks) = 0 /\ order \in Seq(Nat)
  BY DEF Init
<1>3. now \in 0 .. (ClockMod - 1) /\ nreg \in 0 .. MaxReg /\ Len(m_tasks) <= MaxTasks
  BY <1>2, SchedulerAssumption DEF Init
<1>4. TypeOK
  BY <1>1, <1>2, <1>3, Zenon DEF Init, TypeOK, Ids
<1> QED
  BY <1>4 DEF Init, TableInv, PosInRange, RunnableHasCallback, RunningSlotStable

\* Slots keep their ids and may gain a callback but lose it only with their
\* attempts: the table part of the invariant is kept.
LEMMA TableInvInstall == TableInv /\ InstallStep => TableInv'
<1> SUFFICES ASSUME TableInv, InstallStep PROVE TableInv'
  OBVIOUS
<1>1. PICK k \in Kinds \ {"none"} :
        /\ CanCall
        /\ Install(k)
        /\ nreg + 1 \in Fns
        /\ RegisterStep(k) \/ UpdateStep(k)
        /\ UNCHANGED <<now, passVars, fired>>
  BY DEF InstallStep
<1>2. nreg' \in 0 .. MaxReg /\ kind' \in [Fns -> Kinds] /\ nreg + 1 # NoFn
  BY <1>1, SchedulerAssumption DEF TableInv, TypeOK, Install, Fns, NoFn
<1>3. CASE RegisterStep(k)
  <2>1. TypeOK'
    BY <1>1, <1>2, <1>3, SchedulerAssumption
       DEF TableInv, TypeOK, RegisterStep, passVars
  <2>2. RunnableHasCallback'
    BY <1>2, <1>3 DEF TableInv, RunnableHasCallback, RegisterStep
  <2>3. RunningSlotStable' /\ PosInRange'
    BY <1>1, <1>3 DEF TableInv, RunningSlotStable, PosInRange, RegisterStep, passVars
  <2> QED
    BY <2>1, <2>2, <2>3 DEF TableInv
<1>4. CASE UpdateStep(k)
  <2>1. PICK i \in DOMAIN m_tasks :
          /\ SameBut({i})
          /\ m_tasks'[i].fn = nreg + 1
          /\ revoked' = revoked \cup ({m_tasks[i].fn} \ {NoFn})
          /\ UNCHANGED rebase
    BY <1>4, Zenon DEF UpdateStep
  <2>2. revoked' \subseteq Fns
    BY <2>1, SlotType, ZenonT(30) DEF TableInv, TypeOK, Task
  <2>3. TypeOK'
    BY <1>1, <1>2, <2>1, <2>2 DEF TableInv, TypeOK, SameBut, SameIds, passVars
  <2>4. RunnableHasCallback'
    BY <1>2, <2>1 DEF TableInv, RunnableHasCallback, SameBut, SameIds
  <2>5. RunningSlotStable' /\ PosInRange'
    BY <1>1, <2>1 DEF TableInv, RunningSlotStable, PosInRange, SameBut, SameIds, passVars
  <2> QED
    BY <2>3, <2>4, <2>5 DEF TableInv
<1> QED
  BY <1>1, <1>3, <1>4

\* clearTimeout and clearInterval keep the slots in place.
LEMMA TableInvRemove == TableInv /\ RemoveStep => TableInv'
<1> SUFFICES ASSUME TableInv, RemoveStep PROVE TableInv'
  OBVIOUS
<1>1. PICK id \in Ids :
        /\ CanCall
        /\ SameBut(Registered(id))
        /\ \A j \in Registered(id) : m_tasks'[j].fn = NoFn /\ m_tasks'[j].attempts = 0
        /\ revoked' = revoked \cup ({m_tasks[i].fn : i \in Registered(id)} \ {NoFn})
        /\ UNCHANGED <<now, passVars, rebase, nreg, kind, fired>>
  BY DEF RemoveStep
<1>2. \A i \in Registered(id) : m_tasks[i].fn \in Fns \cup {NoFn}
  BY SlotType DEF TableInv, Registered, Task
<1>3. revoked' \subseteq Fns
  BY <1>1, <1>2, SMTT(30) DEF TableInv, TypeOK
<1>4. TypeOK'
  BY <1>1, <1>3, SMTT(30) DEF TableInv, TypeOK, SameBut, SameIds, passVars
<1>5. RunnableHasCallback'
  BY <1>1 DEF TableInv, RunnableHasCallback, SameBut, SameIds
<1>6. RunningSlotStable' /\ PosInRange'
  BY <1>1 DEF TableInv, RunningSlotStable, PosInRange, SameBut, SameIds, passVars
<1> QED
  BY <1>4, <1>5, <1>6 DEF TableInv

\* So do the calls that change neither callbacks nor attempts.
LEMMA TableInvNeutral == TableInv /\ NeutralStep => TableInv'
<1> SUFFICES ASSUME TableInv, NeutralStep PROVE TableInv'
  OBVIOUS
<1>1. TypeOK'
  BY DEF TableInv, NeutralStep, TypeOK, SameBut, SameIds, passVars, histVars
<1>2. RunnableHasCallback'
  BY DEF TableInv, NeutralStep, RunnableHasCallback, SameBut, SameIds
<1>3. RunningSlotStable' /\ PosInRange'
  BY DEF TableInv, NeutralStep, RunningSlotStable, PosInRange, SameBut, SameIds, passVars
<1> QED
  BY <1>1, <1>2, <1>3 DEF TableInv

\* Every step of handle_tasks keeps the invariant; only
\* remove_expired_tasks moves slots, when no reference is held.
LEMMA TableInvPass == TableInv /\ Pass => TableInv'
<1> SUFFICES ASSUME TableInv, Pass PROVE TableInv'
  OBVIOUS
<1> USE DEF TableInv
<1>1. CASE BeginPass
  <2>1. order' \in [1 .. Len(m_tasks) -> 1 .. Len(m_tasks)] /\ UNCHANGED m_tasks
    BY <1>1 DEF BeginPass
  <2>2. Len(m_tasks) \in Nat /\ DOMAIN m_tasks = 1 .. Len(m_tasks)
    BY DEF TypeOK
  <2>3. order' \in Seq(Nat) /\ \A k \in DOMAIN order' : order'[k] \in DOMAIN m_tasks
    BY <2>1, <2>2
  <2> QED
    BY <1>1, <2>1, <2>3
       DEF BeginPass, TypeOK, PosInRange, RunnableHasCallback, RunningSlotStable, histVars
<1>2. CASE VisitSkip
  <2>1. PICK i \in DOMAIN m_tasks :
           \/ SameBut({}) /\ revoked' = revoked
           \/ /\ SameBut({i})
              /\ m_tasks'[i].fn = NoFn /\ m_tasks'[i].attempts = 0
              /\ revoked' = revoked \cup ({m_tasks[i].fn} \ {NoFn})
    BY <1>2, VisitSkipEffect, Zenon
  <2>2. m_tasks[i].fn \in Fns \cup {NoFn}
    BY SlotType DEF Task
  <2>3. SameIds /\ revoked' \subseteq Fns
    BY <2>1, <2>2 DEF SameBut, TypeOK
  <2>4. /\ pos' \in Nat
        /\ UNCHANGED <<now, pc, order, cur, start, curid, rebase, nreg, kind, fired>>
    BY <1>2, SMTT(30) DEF VisitSkip, TypeOK
  <2>5. TypeOK'
    BY <2>3, <2>4 DEF TypeOK, SameIds
  <2>6. RunnableHasCallback'
    BY <2>1 DEF RunnableHasCallback, SameBut, SameIds
  <2>7. RunningSlotStable' /\ PosInRange'
    BY <1>2, <2>3 DEF VisitSkip, RunningSlotStable, PosInRange, SameIds, TypeOK
  <2> QED
    BY <2>5, <2>6, <2>7
<1>3. CASE Visit
  <2>1. /\ SameBut({})
        /\ \/ /\ pc' = "callback"
              /\ cur' \in DOMAIN m_tasks
              /\ start' = now
              /\ curid' = m_tasks[cur'].id
              /\ m_tasks[cur'].attempts # 0
              /\ fired' = fired \cup {m_tasks[cur'].fn}
           \/ pc' = "yield" /\ UNCHANGED <<cur, start, curid, fired>>
    BY <1>3, VisitEffect
  <2>2. cur' \in Nat /\ start' \in Nat /\ curid' \in Ids
    <3>1. \A i \in DOMAIN m_tasks : i \in Nat /\ m_tasks[i].id \in Ids
      <4>1. \A i \in DOMAIN m_tasks : i \in Nat
        BY DEF TypeOK
      <4>2. \A i \in DOMAIN m_tasks : m_tasks[i] \in Task
        BY SlotType
      <4> QED
        BY <4>1, <4>2 DEF Task
    <3>2. now \in Nat
      BY SchedulerAssumption DEF TypeOK
    <3>3. CASE pc' = "callback"
      BY <2>1, <3>1, <3>2, <3>3
    <3>4. CASE pc' = "yield"
      BY <2>1, <3>4 DEF TypeOK
    <3> QED
      BY <2>1, <3>3, <3>4
  <2>3. fired' \subseteq Fns
    BY <2>1, SlotType DEF TypeOK, Task, RunnableHasCallback
  <2>4. pc = "scan" /\ UNCHANGED <<now, order, pos, rebase, nreg, kind, revoked>>
    BY <1>3 DEF Visit, TypeOK
  <2>5. TypeOK'
    BY <2>1, <2>2, <2>3, <2>4 DEF TypeOK, SameBut, SameIds
  <2>6. RunnableHasCallback'
    BY <2>1 DEF RunnableHasCallback, SameBut, SameIds
  <2>7. RunningSlotStable' /\ PosInRange'
    BY <2>1, <2>4 DEF RunningSlotStable, PosInRange, SameBut, SameIds, TypeOK
  <2> QED
    BY <2>5, <2>6, <2>7
<1>4. CASE EndCallback
  <2>1. pc = "callback" /\ cur \in DOMAIN m_tasks
    BY <1>4 DEF EndCallback, RunningSlotStable
  <2>2. /\ SameBut({cur})
        /\ m_tasks'[cur].fn = m_tasks[cur].fn
        /\ m_tasks'[cur].attempts = IF m_tasks[cur].attempts = -1 THEN -1 ELSE 0
    BY <1>4, <2>1, EndCallbackEffect
  <2>3. TypeOK'
    BY <1>4, <2>2 DEF EndCallback, TypeOK, SameBut, SameIds, histVars, Ids
  <2>4. RunnableHasCallback'
    BY <2>1, <2>2 DEF RunnableHasCallback, SameBut, SameIds
  <2>5. RunningSlotStable' /\ PosInRange'
    BY <1>4, <2>2 DEF EndCallback, RunningSlotStable, PosInRange, SameBut, SameIds
  <2> QED
    BY <2>3, <2>4, <2>5
<1>5. CASE EndYield
  <2>1. /\ UNCHANGED <<m_tasks, now, order, cur, start, curid, histVars>>
        /\ pc' \in {"reap", "scan"} /\ pc = "yield"
        /\ pos' \in Nat /\ pos' >= 1
    BY <1>5 DEF EndYield, TypeOK
  <2>2. rebase' \in BOOLEAN
    BY <1>5, Zenon DEF EndYield, TypeOK
  <2> QED
    BY <2>1, <2>2 DEF TypeOK, PosInRange, RunnableHasCallback, RunningSlotStable, histVars
<1>6. CASE EndScan
  BY <1>6 DEF EndScan, TypeOK, PosInRange, RunnableHasCallback, RunningSlotStable, histVars
<1>7. CASE remove_expired_tasks
  <2>1. pc = "reap" /\ pos >= 1
    BY <1>7 DEF remove_expired_tasks, PosInRange
  <2>2. \/ UNCHANGED m_tasks
        \/ /\ pos \in DOMAIN m_tasks
           /\ m_tasks[pos].attempts = 0
           /\ m_tasks' \in Seq(Task)
           /\ Len(m_tasks') = Len(m_tasks) - 1
           /\ DOMAIN m_tasks' = 1 .. (Len(m_tasks) - 1)
           /\ \A k \in DOMAIN m_tasks' :
                m_tasks'[k] = IF k < pos THEN m_tasks[k] ELSE m_tasks[k + 1]
    BY <1>7, <2>1, ReapEffect
  <2>3. \A k \in DOMAIN m_tasks' : \E j \in DOMAIN m_tasks : m_tasks'[k] = m_tasks[j]
    <3>1. m_tasks \in Seq(Task) /\ Len(m_tasks) \in Nat /\ DOMAIN m_tasks = 1 .. Len(m_tasks)
      BY DEF TypeOK
    <3>2. CASE UNCHANGED m_tasks
      BY <3>2
    <3>3. ASSUME DOMAIN m_tasks' = 1 .. (Len(m_tasks) - 1), NEW k \in DOMAIN m_tasks'
          PROVE  k \in DOMAIN m_tasks /\ k + 1 \in DOMAIN m_tasks
      BY <3>1, <3>3
    <3> QED
      BY <2>2, <3>2, <3>3
  <2>4. TypeOK'
    BY <1>7, <2>2, SchedulerAssumption DEF remove_expired_tasks, TypeOK, histVars
  <2>5. RunnableHasCallback'
    BY <2>3 DEF RunnableHasCallback
  <2>6. RunningSlotStable' /\ PosInRange'
    BY <1>7, <2>1 DEF remove_expired_tasks, RunningSlotStable, PosInRange, TypeOK
  <2> QED
    BY <2>4, <2>5, <2>6
<1>8. CASE EndPass
  BY <1>8 DEF EndPass, TypeOK, PosInRange, RunnableHasCallback, RunningSlotStable, histVars
<1> QED
  BY <1>1, <1>2, <1>3, <1>4, <1>5, <1>6, <1>7, <1>8 DEF Pass

\* The table invariant is inductive.
LEMMA TableInvNext == TableInv /\ [Next]_vars => TableInv'
<1> SUFFICES ASSUME TableInv, [Next]_vars PROVE TableInv'
  OBVIOUS
<1>1. CASE Pass
  BY <1>1, TableInvPass
<1>2. CASE Call
  BY <1>2, CallCases, TableInvInstall, TableInvRemove, TableInvNeutral DEF TableInv
<1>3. CASE Tick
  <2>1. now' \in 0 .. (ClockMod - 1)
    BY <1>3, SchedulerAssumption DEF Tick, TableInv, TypeOK
  <2> QED
    BY <1>3, <2>1
       DEF Tick, TableInv, TypeOK, PosInRange, RunnableHasCallback, RunningSlotStable,
           passVars, histVars
<1>4. CASE UNCHANGED vars
  BY <1>4 DEF vars, TableInv, TypeOK, PosInRange, RunnableHasCallback, RunningSlotStable,
              passVars, histVars
<1> QED
  BY <1>1, <1>2, <1>3, <1>4 DEF Next

\* The type invariant, and with it that the table never exceeds m_max_tasks.
THEOREM TypeCorrect == Spec => []TypeOK
<1>1. TableInv => TypeOK
  BY DEF TableInv
<1> QED
  BY <1>1, TableInvInit, TableInvNext, PTL DEF Spec

\* handle_tasks keeps a reference to the running task and indices of the
\* others across the callback; both stay good whatever the callback calls.
THEOREM ReferencesStable == Spec => []RunningSlotStable
<1>1. TableInv => RunningSlotStable
  BY DEF TableInv
<1> QED
  BY <1>1, TableInvInit, TableInvNext, PTL DEF Spec

\* A task that may be run has a callback.
THEOREM CallbackPresent == Spec => []RunnableHasCallback
<1>1. TableInv => RunnableHasCallback
  BY DEF TableInv
<1> QED
  BY <1>1, TableInvInit, TableInvNext, PTL DEF Spec

-----------------------------------------------------------------------------
(* Callbacks: each was handed out once, sits in at most one slot, and has  *)
(* left the table when it is revoked.                                      *)

CallbackInv ==
  /\ \A i \in DOMAIN m_tasks : m_tasks[i].fn <= nreg
  /\ \A f \in revoked \cup fired : f <= nreg
  /\ \A i, j \in DOMAIN m_tasks : m_tasks[i].fn = m_tasks[j].fn /\ m_tasks[i].fn # NoFn => i = j
  /\ \A i \in DOMAIN m_tasks : m_tasks[i].fn \notin revoked

\* Callbacks are numbers from 1; 0 is no callback.
LEMMA FnType ==
  ASSUME TypeOK
  PROVE  /\ \A i \in DOMAIN m_tasks : m_tasks[i].fn \in Nat
         /\ nreg \in Nat /\ NoFn = 0
         /\ revoked \subseteq Nat \ {NoFn} /\ fired \subseteq Nat \ {NoFn}
<1>1. \A i \in DOMAIN m_tasks : m_tasks[i].fn \in Fns \cup {NoFn}
  <2>1. \A i \in DOMAIN m_tasks : m_tasks[i] \in Task
    BY SlotType
  <2> QED
    BY <2>1 DEF Task
<1>2. Fns \subseteq Nat \ {NoFn} /\ NoFn = 0
  BY SchedulerAssumption DEF Fns, NoFn
<1>3. nreg \in Nat
  BY SchedulerAssumption DEF TypeOK
<1>4. revoked \subseteq Fns /\ fired \subseteq Fns
  BY DEF TypeOK
<1>5. ASSUME NEW i \in DOMAIN m_tasks PROVE m_tasks[i].fn \in Nat
  <2>1. CASE m_tasks[i].fn \in Fns
    BY <1>2, <2>1, Zenon
  <2>2. CASE m_tasks[i].fn = NoFn
    <3>1. 0 \in Nat
      OBVIOUS
    <3> QED
      BY <1>2, <2>2, <3>1, Zenon
  <2> QED
    BY <1>1, <2>1, <2>2
<1>6. revoked \subseteq Nat \ {NoFn} /\ fired \subseteq Nat \ {NoFn}
  BY <1>2, <1>4
<1> QED
  BY <1>2, <1>3, <1>5, <1>6

\* A fresh callback is in one slot only and is not revoked.
LEMMA CallbackInvInstall == TypeOK /\ CallbackInv /\ InstallStep => CallbackInv'
<1> SUFFICES ASSUME TypeOK, CallbackInv, InstallStep PROVE CallbackInv'
  OBVIOUS
<1>1. PICK k \in Kinds :
        /\ nreg' = nreg + 1
        /\ RegisterStep(k) \/ UpdateStep(k)
        /\ UNCHANGED fired
  BY DEF InstallStep, Install
<1>2. /\ \A i \in DOMAIN m_tasks : m_tasks[i].fn \in Nat
      /\ nreg \in Nat /\ NoFn = 0
      /\ revoked \subseteq Nat \ {NoFn} /\ fired \subseteq Nat \ {NoFn}
  BY FnType
<1>3. CASE RegisterStep(k)
  <2> DEFINE n == Len(m_tasks) + 1
  <2>1. /\ DOMAIN m_tasks' = DOMAIN m_tasks \cup {n}
        /\ \A j \in DOMAIN m_tasks : m_tasks'[j] = m_tasks[j]
        /\ m_tasks'[n].fn = nreg + 1
        /\ revoked' = revoked
    BY <1>3 DEF RegisterStep
  <2> HIDE DEF n
  <2>2. \A i \in DOMAIN m_tasks' : m_tasks'[i].fn <= nreg'
    BY <1>1, <1>2, <2>1 DEF CallbackInv
  <2>3. \A f \in revoked' \cup fired' : f <= nreg'
    BY <1>1, <1>2, <2>1 DEF CallbackInv
  <2>4. \A i, j \in DOMAIN m_tasks' :
          m_tasks'[i].fn = m_tasks'[j].fn /\ m_tasks'[i].fn # NoFn => i = j
    <3>1. \A i \in DOMAIN m_tasks : m_tasks'[i].fn # m_tasks'[n].fn
      BY <1>2, <2>1 DEF CallbackInv
    <3> QED
      BY <2>1, <3>1 DEF CallbackInv
  <2>5. \A i \in DOMAIN m_tasks' : m_tasks'[i].fn \notin revoked'
    BY <1>2, <2>1 DEF CallbackInv
  <2> QED
    BY <2>2, <2>3, <2>4, <2>5, SMTT(30) DEF CallbackInv
<1>4. CASE UpdateStep(k)
  <2>1. PICK i \in DOMAIN m_tasks :
          /\ DOMAIN m_tasks' = DOMAIN m_tasks
          /\ \A j \in DOMAIN m_tasks \ {i} : m_tasks'[j].fn = m_tasks[j].fn
          /\ m_tasks'[i].fn = nreg + 1
          /\ revoked' = revoked \cup ({m_tasks[i].fn} \ {NoFn})
    BY <1>4 DEF UpdateStep, SameBut, SameIds
  <2> QED
    BY <1>1, <1>2, <2>1 DEF CallbackInv
<1> QED
  BY <1>1, <1>3, <1>4

\* The callback invariant is inductive, given the table invariant.
LEMMA CallbackInvStep == TableInv /\ CallbackInv /\ [Next]_vars => CallbackInv'
<1> SUFFICES ASSUME TableInv, CallbackInv, [Next]_vars PROVE CallbackInv'
  OBVIOUS
<1>0. TypeOK
  BY DEF TableInv
<1>f. /\ \A i \in DOMAIN m_tasks : m_tasks[i].fn \in Nat
      /\ nreg \in Nat /\ NoFn = 0
      /\ revoked \subseteq Nat \ {NoFn} /\ fired \subseteq Nat \ {NoFn}
  BY <1>0, FnType
<1>1. ASSUME DOMAIN m_tasks' = DOMAIN m_tasks,
             \A j \in DOMAIN m_tasks : m_tasks'[j].fn = m_tasks[j].fn,
             UNCHANGED <<nreg, revoked, fired>>
      PROVE  CallbackInv'
  BY <1>1 DEF CallbackInv
<1>2. CASE InstallStep
  BY <1>0, <1>2, CallbackInvInstall
<1>3. CASE RemoveStep
  <2>1. PICK id \in Ids :
          /\ SameBut(Registered(id))
          /\ \A j \in Registered(id) : m_tasks'[j].fn = NoFn
          /\ revoked' = revoked \cup ({m_tasks[i].fn : i \in Registered(id)} \ {NoFn})
          /\ UNCHANGED <<nreg, fired>>
    BY <1>3 DEF RemoveStep
  <2> DEFINE R == Registered(id)
  <2>2. /\ R \subseteq DOMAIN m_tasks
        /\ DOMAIN m_tasks' = DOMAIN m_tasks
        /\ \A j \in DOMAIN m_tasks \ R : m_tasks'[j].fn = m_tasks[j].fn
    BY <2>1 DEF SameBut, SameIds, Registered
  <2> HIDE DEF R
  <2> QED
    BY <1>f, <2>1, <2>2, SMTT(30) DEF CallbackInv, R
<1>4. CASE NeutralStep
  BY <1>1, <1>4 DEF NeutralStep, SameBut, SameIds, histVars
<1>5. CASE VisitSkip
  <2>1. UNCHANGED <<nreg, fired>>
    BY <1>5 DEF VisitSkip
  <2>2. PICK i \in DOMAIN m_tasks :
           \/ SameBut({}) /\ revoked' = revoked
           \/ /\ SameBut({i})
              /\ m_tasks'[i].fn = NoFn
              /\ revoked' = revoked \cup ({m_tasks[i].fn} \ {NoFn})
    BY <1>0, <1>5, VisitSkipEffect, Zenon
  <2>3. CASE SameBut({}) /\ revoked' = revoked
    BY <1>1, <2>1, <2>3 DEF SameBut, SameIds
  <2>4. CASE /\ SameBut({i})
             /\ m_tasks'[i].fn = NoFn
             /\ revoked' = revoked \cup ({m_tasks[i].fn} \ {NoFn})
    BY <1>f, <2>1, <2>4, SMTT(30) DEF CallbackInv, SameBut, SameIds
  <2> QED
    BY <2>2, <2>3, <2>4
<1>6. CASE Visit
  <2>1. UNCHANGED <<nreg, revoked>>
    BY <1>6 DEF Visit
  <2>2. SameBut({}) /\ fired' \subseteq fired \cup {m_tasks[i].fn : i \in DOMAIN m_tasks}
    BY <1>0, <1>6, VisitEffect
  <2> QED
    BY <2>1, <2>2 DEF CallbackInv, SameBut, SameIds
<1>7. CASE EndCallback
  <2>1. cur \in DOMAIN m_tasks
    BY <1>7 DEF EndCallback, TableInv, RunningSlotStable
  <2>2. SameBut({cur}) /\ m_tasks'[cur].fn = m_tasks[cur].fn
    BY <1>0, <1>7, <2>1, EndCallbackEffect
  <2> QED
    BY <1>1, <1>7, <2>1, <2>2 DEF EndCallback, SameBut, SameIds, histVars
<1>8. CASE remove_expired_tasks
  <2>1. pos >= 1 /\ UNCHANGED <<nreg, revoked, fired>>
    BY <1>8 DEF remove_expired_tasks, TableInv, PosInRange, histVars
  <2>2. \/ UNCHANGED m_tasks
        \/ /\ pos \in DOMAIN m_tasks
           /\ DOMAIN m_tasks' = 1 .. (Len(m_tasks) - 1)
           /\ \A k \in DOMAIN m_tasks' :
                m_tasks'[k] = IF k < pos THEN m_tasks[k] ELSE m_tasks[k + 1]
    BY <1>0, <1>8, <2>1, ReapEffect
  <2>3. DOMAIN m_tasks = 1 .. Len(m_tasks) /\ Len(m_tasks) \in Nat /\ pos \in Nat
    BY <1>0 DEF TypeOK
  <2>4. CASE UNCHANGED m_tasks
    BY <1>1, <2>1, <2>4
  <2>5. CASE ~UNCHANGED m_tasks
    <3> DEFINE old(k) == IF k < pos THEN k ELSE k + 1
    <3>1. \A k \in DOMAIN m_tasks' : old(k) \in DOMAIN m_tasks /\ m_tasks'[k] = m_tasks[old(k)]
      BY <2>2, <2>3, <2>5
    <3>2. \A k, l \in DOMAIN m_tasks' : old(k) = old(l) => k = l
      BY <2>2, <2>3, <2>5
    <3> HIDE DEF old
    <3> QED
      BY <2>1, <3>1, <3>2 DEF CallbackInv
  <2> QED
    BY <2>4, <2>5
<1>9. CASE BeginPass \/ EndYield \/ EndScan \/ EndPass \/ Tick \/ UNCHANGED vars
  <2>1. UNCHANGED <<m_tasks, nreg, revoked, fired>>
    BY <1>9 DEF BeginPass, EndYield, EndScan, EndPass, Tick, vars, histVars
  <2> QED
    BY <1>1, <2>1
<1> QED
  BY <1>0, <1>2, <1>3, <1>4, <1>5, <1>6, <1>7, <1>8, <1>9, CallCases DEF Next, Pass

\* Only a visit starts a callback.
LEMMA StartIsVisit ==
  ASSUME TypeOK, Next, pc = "scan", pc' = "callback"
  PROVE  Visit
<1>1. ~CanCall
  BY DEF CanCall
<1>2. ~InstallStep /\ ~RemoveStep
  BY <1>1 DEF InstallStep, RemoveStep
<1>3. ~NeutralStep
  BY DEF NeutralStep, passVars
<1>4. ~Call
  BY <1>2, <1>3, CallCases
<1> QED
  BY <1>4 DEF Next, Pass, BeginPass, VisitSkip, EndCallback, EndYield, EndScan,
              remove_expired_tasks, EndPass, Tick

\* A callback that was cleared, killed or replaced never starts again.
THEOREM RevokedSafe == Spec => RevokedNeverRuns
<1>1. Init => CallbackInv
  BY DEF Init, CallbackInv
<1>2. TableInv /\ CallbackInv /\ [Next]_vars => [\A f \in revoked : ~Starts(f)]_vars
  <2> SUFFICES ASSUME TableInv, CallbackInv, Next, NEW f \in revoked, Starts(f) PROVE FALSE
    BY DEF Starts
  <2>1. TypeOK /\ pc = "scan" /\ pc' = "callback"
    BY DEF TableInv, Starts
  <2>2. Visit
    BY <2>1, StartIsVisit, SMTT(30)
  <2>3. SameBut({}) /\ cur' \in DOMAIN m_tasks
    BY <2>1, <2>2, VisitEffect
  <2>4. m_tasks'[cur'].fn = m_tasks[cur'].fn
    BY <2>3 DEF SameBut
  <2> QED
    BY <2>3, <2>4 DEF CallbackInv, Starts
<1> QED
  BY <1>1, <1>2, TableInvInit, TableInvNext, CallbackInvStep, PTL DEF Spec, RevokedNeverRuns

-----------------------------------------------------------------------------
(* One-shot callbacks and pending timeouts.                                *)

OneShot(f, k) == f # NoFn /\ k[f] \in {"setTimeout", "updateTimeout"}

\* The slot of a one-shot callback never has unlimited attempts; once the
\* callback has started, the slot has no attempt left or is the running one.
\* The running slot holds no setTimeout callback that has not started.
ShotInv ==
  /\ \A i \in DOMAIN m_tasks : OneShot(m_tasks[i].fn, kind) => m_tasks[i].attempts # -1
  /\ \A i \in DOMAIN m_tasks :
       OneShot(m_tasks[i].fn, kind) /\ m_tasks[i].fn \in fired =>
         m_tasks[i].attempts = 0 \/ (pc = "callback" /\ i = cur)
  /\ pc = "callback" /\ OneShot(m_tasks[cur].fn, kind) =>
       m_tasks[cur].fn \in fired \/ kind[m_tasks[cur].fn] # "setTimeout"
  /\ \A f \in Fns : f > nreg => kind[f] = "none"
  /\ TimeoutNotLost

\* A set or update call: the fresh callback is pending and not yet started,
\* the other slots keep theirs or have it revoked.
LEMMA ShotInvInstall ==
  ASSUME TableInv, CallbackInv, ShotInv, InstallStep
  PROVE  ShotInv'
<1>0. TypeOK
  BY DEF TableInv
<1>1. PICK k \in Kinds \ {"none"} :
        /\ Install(k)
        /\ nreg + 1 \in Fns
        /\ RegisterStep(k) \/ UpdateStep(k)
        /\ UNCHANGED <<passVars, fired>>
  BY DEF InstallStep
<1>2. /\ \A i \in DOMAIN m_tasks : m_tasks[i].fn \in Nat
      /\ nreg \in Nat /\ NoFn = 0
      /\ revoked \subseteq Nat \ {NoFn} /\ fired \subseteq Nat \ {NoFn}
  BY <1>0, FnType
<1> DEFINE g == nreg + 1
<1>3. /\ g \in Fns /\ g # NoFn /\ g \notin fired /\ g \notin revoked
      /\ \A i \in DOMAIN m_tasks : m_tasks[i].fn # g
  BY <1>1, <1>2 DEF CallbackInv
<1>4. /\ kind' \in [Fns -> Kinds]
      /\ kind'[g] = k
      /\ \A f \in Fns \ {g} : kind'[f] = kind[f]
      /\ nreg' = g
  BY <1>0, <1>1, <1>3, SMTT(30) DEF Install, TypeOK
<1>5. /\ UNCHANGED <<pc, cur, fired>>
      /\ pc = "callback" => cur \in DOMAIN m_tasks
  BY <1>1, SMTT(30) DEF passVars, TableInv, RunningSlotStable
<1>6. \A i \in DOMAIN m_tasks : m_tasks[i].fn \in Fns \cup {NoFn}
  BY <1>0, SlotType DEF Task
<1>7. AttemptsOf(k) # 0 /\ (k \in {"setTimeout", "updateTimeout"} => AttemptsOf(k) # -1)
  BY DEF AttemptsOf
<1>8. \A f \in Fns : f > nreg' => kind'[f] = "none"
  <2> TAKE f \in Fns
  <2> HAVE f > nreg'
  <2>1. f > nreg /\ f # g
    BY <1>2, <1>4 DEF Fns
  <2>2. kind[f] = "none"
    BY <2>1, SMTT(30) DEF ShotInv
  <2> QED
    BY <1>4, <2>1, <2>2, Zenon
<1> HIDE DEF g
<1>9. CASE RegisterStep(k)
  <2> DEFINE n == Len(m_tasks) + 1
  <2>1. /\ DOMAIN m_tasks' = DOMAIN m_tasks \cup {n}
        /\ n \notin DOMAIN m_tasks
        /\ \A j \in DOMAIN m_tasks : m_tasks'[j] = m_tasks[j]
        /\ m_tasks'[n].fn = g
        /\ m_tasks'[n].attempts = AttemptsOf(k)
        /\ revoked' = revoked
    BY <1>0, <1>9, SMTT(30) DEF RegisterStep, TypeOK, g
  <2> HIDE DEF n
  <2>2. TimeoutNotLost'
    <3> SUFFICES ASSUME NEW f \in Fns, kind'[f] = "setTimeout", f \notin revoked \cup fired
                 PROVE  Pending(f)'
      BY <1>5, <2>1 DEF TimeoutNotLost
    <3>1. CASE f = g
      BY <1>7, <2>1, <3>1 DEF Pending
    <3>2. CASE f # g
      <4>1. PICK j \in DOMAIN m_tasks : m_tasks[j].fn = f /\ m_tasks[j].attempts # 0
        BY <1>4, <3>2, SMTT(30) DEF ShotInv, TimeoutNotLost, Pending
      <4> QED
        BY <2>1, <4>1, SMTT(30) DEF Pending
    <3> QED
      BY <3>1, <3>2
  <2>3. \A i \in DOMAIN m_tasks' :
          OneShot(m_tasks'[i].fn, kind') => m_tasks'[i].attempts # -1
    BY <1>3, <1>4, <1>6, <1>7, <2>1, SMTT(30) DEF ShotInv, OneShot
  <2>4. \A i \in DOMAIN m_tasks' :
          OneShot(m_tasks'[i].fn, kind') /\ m_tasks'[i].fn \in fired' =>
            m_tasks'[i].attempts = 0 \/ (pc' = "callback" /\ i = cur')
    BY <1>3, <1>4, <1>5, <1>6, <2>1, SMTT(30) DEF ShotInv, OneShot
  <2>5. pc' = "callback" /\ OneShot(m_tasks'[cur'].fn, kind') =>
          m_tasks'[cur'].fn \in fired' \/ kind'[m_tasks'[cur'].fn] # "setTimeout"
    BY <1>3, <1>4, <1>5, <1>6, <2>1, SMTT(30) DEF ShotInv, OneShot
  <2> QED
    BY <1>8, <2>2, <2>3, <2>4, <2>5, SMTT(30) DEF ShotInv
<1>10. CASE UpdateStep(k)
  <2>1. PICK i \in DOMAIN m_tasks :
          /\ DOMAIN m_tasks' = DOMAIN m_tasks
          /\ \A j \in DOMAIN m_tasks \ {i} : /\ m_tasks'[j].fn = m_tasks[j].fn
                                             /\ m_tasks'[j].attempts = m_tasks[j].attempts
          /\ m_tasks'[i].fn = g
          /\ m_tasks'[i].attempts = AttemptsOf(k)
          /\ revoked' = revoked \cup ({m_tasks[i].fn} \ {NoFn})
    BY <1>10 DEF UpdateStep, SameBut, SameIds, g
  <2>2. k # "setTimeout"
    BY <1>10, SMTT(30) DEF UpdateStep
  <2>3. TimeoutNotLost'
    <3> SUFFICES ASSUME NEW f \in Fns, kind'[f] = "setTimeout", f \notin revoked' \cup fired'
                 PROVE  Pending(f)'
      BY DEF TimeoutNotLost
    <3>1. f # g /\ kind[f] = "setTimeout" /\ f \notin revoked \cup fired
      BY <1>4, <1>5, <2>1, <2>2, SMTT(30)
    <3>2. PICK j \in DOMAIN m_tasks : m_tasks[j].fn = f /\ m_tasks[j].attempts # 0
      BY <3>1 DEF ShotInv, TimeoutNotLost, Pending
    <3>3. f # NoFn /\ j # i
      BY <1>2, <2>1, <3>2, SMTT(30) DEF Fns
    <3> QED
      BY <2>1, <3>2, <3>3 DEF Pending
  <2>4. \A j \in DOMAIN m_tasks' :
          OneShot(m_tasks'[j].fn, kind') => m_tasks'[j].attempts # -1
    BY <1>3, <1>4, <1>6, <1>7, <2>1, SMTT(30) DEF ShotInv, OneShot
  <2>5. \A j \in DOMAIN m_tasks' :
          OneShot(m_tasks'[j].fn, kind') /\ m_tasks'[j].fn \in fired' =>
            m_tasks'[j].attempts = 0 \/ (pc' = "callback" /\ j = cur')
    BY <1>3, <1>4, <1>5, <1>6, <2>1, SMTT(30) DEF ShotInv, OneShot
  <2>6. pc' = "callback" /\ OneShot(m_tasks'[cur'].fn, kind') =>
          m_tasks'[cur'].fn \in fired' \/ kind'[m_tasks'[cur'].fn] # "setTimeout"
    BY <1>3, <1>4, <1>5, <1>6, <2>1, <2>2 DEF ShotInv, OneShot
  <2> QED
    BY <1>8, <2>3, <2>4, <2>5, <2>6, SMTT(30) DEF ShotInv
<1> QED
  BY <1>1, <1>9, <1>10

\* Slots that are emptied and whose callbacks are revoked: a cleared or a
\* killed task.
LEMMA ShotInvEmptied ==
  ASSUME TypeOK, ShotInv, NEW R \in SUBSET DOMAIN m_tasks, SameBut(R),
         \A j \in R : m_tasks'[j].fn = NoFn /\ m_tasks'[j].attempts = 0,
         revoked' = revoked \cup ({m_tasks[j].fn : j \in R} \ {NoFn}),
         UNCHANGED <<pc, cur, nreg, kind, fired>>,
         pc = "callback" => cur \in DOMAIN m_tasks
  PROVE  ShotInv'
<1>1. /\ DOMAIN m_tasks' = DOMAIN m_tasks
      /\ \A j \in DOMAIN m_tasks \ R : /\ m_tasks'[j].fn = m_tasks[j].fn
                                        /\ m_tasks'[j].attempts = m_tasks[j].attempts
  BY DEF SameBut, SameIds
<1>2. TimeoutNotLost'
  <2> SUFFICES ASSUME NEW f \in Fns, kind[f] = "setTimeout", f \notin revoked' \cup fired
               PROVE  Pending(f)'
    BY SMTT(30) DEF TimeoutNotLost
  <2>1. PICK j \in DOMAIN m_tasks : m_tasks[j].fn = f /\ m_tasks[j].attempts # 0
    BY DEF ShotInv, TimeoutNotLost, Pending
  <2>2. f # NoFn
    BY SchedulerAssumption, SMTT(30) DEF Fns, NoFn
  <2>3. j \notin R
    BY <2>1, <2>2, SMTT(30)
  <2> QED
    BY <1>1, <2>1, <2>3 DEF Pending
<1>3. \A i \in DOMAIN m_tasks' : OneShot(m_tasks'[i].fn, kind') => m_tasks'[i].attempts # -1
  BY <1>1 DEF ShotInv, OneShot
<1>4. \A i \in DOMAIN m_tasks' :
        OneShot(m_tasks'[i].fn, kind') /\ m_tasks'[i].fn \in fired' =>
          m_tasks'[i].attempts = 0 \/ (pc' = "callback" /\ i = cur')
  BY <1>1, ZenonT(30) DEF ShotInv, OneShot
<1>5. pc' = "callback" /\ OneShot(m_tasks'[cur'].fn, kind') =>
        m_tasks'[cur'].fn \in fired' \/ kind'[m_tasks'[cur'].fn] # "setTimeout"
  BY <1>1 DEF ShotInv, OneShot
<1> QED
  BY <1>2, <1>3, <1>4, <1>5, ZenonT(30) DEF ShotInv

\* The one-shot invariant is inductive, given the other two.
LEMMA ShotInvStep == TableInv /\ CallbackInv /\ ShotInv /\ [Next]_vars => ShotInv'
<1> SUFFICES ASSUME TableInv, CallbackInv, ShotInv, [Next]_vars PROVE ShotInv'
  OBVIOUS
<1>0. TypeOK /\ (pc = "callback" => cur \in DOMAIN m_tasks)
  BY DEF TableInv, RunningSlotStable
<1>1. CASE InstallStep
  BY <1>1, ShotInvInstall
<1>2. CASE RemoveStep
  <2>1. PICK id \in Ids :
          /\ SameBut(Registered(id))
          /\ \A j \in Registered(id) : m_tasks'[j].fn = NoFn /\ m_tasks'[j].attempts = 0
          /\ revoked' = revoked \cup ({m_tasks[i].fn : i \in Registered(id)} \ {NoFn})
          /\ UNCHANGED <<passVars, nreg, kind, fired>>
    BY <1>2, Zenon DEF RemoveStep
  <2>2. Registered(id) \in SUBSET DOMAIN m_tasks
    BY DEF Registered
  <2>3. UNCHANGED <<pc, cur, nreg, kind, fired>>
    BY <2>1, ZenonT(30) DEF passVars
  <2> QED
    BY <1>0, <2>1, <2>2, <2>3, ShotInvEmptied, Zenon
<1>3. CASE NeutralStep
  <2>1. SameBut({}) /\ UNCHANGED <<pc, cur, nreg, kind, fired, revoked>>
    BY <1>3 DEF NeutralStep, passVars, histVars
  <2> QED
    BY <1>0, <2>1, ShotInvEmptied
<1>4. CASE VisitSkip
  <2>1. UNCHANGED <<pc, cur, nreg, kind, fired>>
    BY <1>4 DEF VisitSkip
  <2>2. PICK i \in DOMAIN m_tasks :
           \/ SameBut({}) /\ revoked' = revoked
           \/ /\ SameBut({i})
              /\ m_tasks'[i].fn = NoFn /\ m_tasks'[i].attempts = 0
              /\ revoked' = revoked \cup ({m_tasks[i].fn} \ {NoFn})
    BY <1>0, <1>4, VisitSkipEffect
  <2>3. CASE SameBut({}) /\ revoked' = revoked
    BY <1>0, <2>1, <2>3, ShotInvEmptied
  <2>4. CASE /\ SameBut({i})
             /\ m_tasks'[i].fn = NoFn /\ m_tasks'[i].attempts = 0
             /\ revoked' = revoked \cup ({m_tasks[i].fn} \ {NoFn})
    <3>1. {m_tasks[j].fn : j \in {i}} = {m_tasks[i].fn}
      BY SMTT(30)
    <3> QED
      BY <1>0, <2>1, <2>4, <3>1, ShotInvEmptied
  <2> QED
    BY <2>2, <2>3, <2>4
<1>5. CASE Visit
  <2>1. pc = "scan" /\ UNCHANGED <<nreg, kind, revoked>>
    BY <1>5 DEF Visit
  <2>2. /\ SameBut({})
        /\ \/ /\ pc' = "callback" /\ cur' \in DOMAIN m_tasks
              /\ fired' = fired \cup {m_tasks[cur'].fn}
           \/ pc' = "yield" /\ fired' = fired
    BY <1>0, <1>5, VisitEffect
  <2>3. /\ DOMAIN m_tasks' = DOMAIN m_tasks
        /\ \A j \in DOMAIN m_tasks : /\ m_tasks'[j].fn = m_tasks[j].fn
                                     /\ m_tasks'[j].attempts = m_tasks[j].attempts
    BY <2>2 DEF SameBut, SameIds
  <2>4. TimeoutNotLost'
    <3> SUFFICES ASSUME NEW f \in Fns, kind'[f] = "setTimeout", f \notin revoked' \cup fired'
                 PROVE  Pending(f)'
      BY DEF TimeoutNotLost
    <3>1. kind[f] = "setTimeout" /\ f \notin revoked \cup fired
      BY <2>1, <2>2, SMTT(30)
    <3>2. PICK j \in DOMAIN m_tasks : m_tasks[j].fn = f /\ m_tasks[j].attempts # 0
      BY <3>1, SMTT(30) DEF ShotInv, TimeoutNotLost, Pending
    <3> QED
      BY <2>3, <3>2 DEF Pending
  <2>5. \A i \in DOMAIN m_tasks' :
          OneShot(m_tasks'[i].fn, kind') => m_tasks'[i].attempts # -1
    BY <2>1, <2>3, SMTT(30) DEF ShotInv
  <2>6. \A i \in DOMAIN m_tasks' :
          OneShot(m_tasks'[i].fn, kind') /\ m_tasks'[i].fn \in fired' =>
            m_tasks'[i].attempts = 0 \/ (pc' = "callback" /\ i = cur')
    BY <2>1, <2>2, <2>3 DEF ShotInv, OneShot, CallbackInv
  <2>7. pc' = "callback" => m_tasks'[cur'].fn \in fired'
    BY <2>2, <2>3, SMTT(30)
  <2> QED
    BY <2>1, <2>4, <2>5, <2>6, <2>7 DEF ShotInv
<1>6. CASE EndCallback
  <2>1. pc = "callback" /\ pc' = "yield" /\ UNCHANGED <<nreg, kind, revoked, fired>>
    BY <1>6 DEF EndCallback, histVars
  <2>2. /\ SameBut({cur})
        /\ m_tasks'[cur].fn = m_tasks[cur].fn
        /\ m_tasks'[cur].attempts = IF m_tasks[cur].attempts = -1 THEN -1 ELSE 0
    BY <1>0, <1>6, <2>1, EndCallbackEffect
  <2>3. /\ DOMAIN m_tasks' = DOMAIN m_tasks
        /\ \A j \in DOMAIN m_tasks : m_tasks'[j].fn = m_tasks[j].fn
        /\ \A j \in DOMAIN m_tasks \ {cur} : m_tasks'[j].attempts = m_tasks[j].attempts
    BY <2>2 DEF SameBut, SameIds
  <2>4. TimeoutNotLost'
    <3> SUFFICES ASSUME NEW f \in Fns, kind[f] = "setTimeout", f \notin revoked \cup fired
                 PROVE  Pending(f)'
      BY <2>1, SMTT(30) DEF TimeoutNotLost
    <3>1. PICK j \in DOMAIN m_tasks : m_tasks[j].fn = f /\ m_tasks[j].attempts # 0
      BY DEF ShotInv, TimeoutNotLost, Pending
    <3>2. f # NoFn
      BY SchedulerAssumption DEF Fns, NoFn
    <3>3. j # cur
      BY <2>1, <3>1, <3>2, SMTT(30) DEF ShotInv, OneShot
    <3> QED
      BY <2>3, <3>1, <3>3 DEF Pending
  <2>5. \A i \in DOMAIN m_tasks' :
          OneShot(m_tasks'[i].fn, kind') => m_tasks'[i].attempts # -1
    BY <2>1, <2>2, <2>3, SMTT(30) DEF ShotInv
  <2>6. \A i \in DOMAIN m_tasks' :
          OneShot(m_tasks'[i].fn, kind') /\ m_tasks'[i].fn \in fired' =>
            m_tasks'[i].attempts = 0
    BY <2>1, <2>2, <2>3 DEF ShotInv
  <2> QED
    BY <2>1, <2>4, <2>5, <2>6 DEF ShotInv
<1>7. CASE remove_expired_tasks
  <2>1. pos >= 1 /\ pc = "reap" /\ UNCHANGED <<pc, cur, nreg, kind, revoked, fired>>
    BY <1>7 DEF remove_expired_tasks, TableInv, PosInRange, histVars
  <2>2. \/ UNCHANGED m_tasks
        \/ /\ pos \in DOMAIN m_tasks
           /\ m_tasks[pos].attempts = 0
           /\ DOMAIN m_tasks' = 1 .. (Len(m_tasks) - 1)
           /\ \A k \in DOMAIN m_tasks' :
                m_tasks'[k] = IF k < pos THEN m_tasks[k] ELSE m_tasks[k + 1]
    BY <1>0, <1>7, <2>1, ReapEffect
  <2>3. DOMAIN m_tasks = 1 .. Len(m_tasks) /\ Len(m_tasks) \in Nat /\ pos \in Nat
    BY <1>0, SMTT(30) DEF TypeOK
  <2>4. CASE UNCHANGED m_tasks
    BY <2>1, <2>4, SMTT(30) DEF ShotInv, TimeoutNotLost, Pending
  <2>5. CASE ~UNCHANGED m_tasks
    <3> DEFINE old(k) == IF k < pos THEN k ELSE k + 1
    <3>1. \A k \in DOMAIN m_tasks' : old(k) \in DOMAIN m_tasks /\ m_tasks'[k] = m_tasks[old(k)]
      BY <2>2, <2>3, <2>5
    <3>2. \A j \in DOMAIN m_tasks \ {pos} : \E k \in DOMAIN m_tasks' : m_tasks'[k] = m_tasks[j]
      <4> SUFFICES ASSUME NEW j \in DOMAIN m_tasks \ {pos}
                   PROVE  \E k \in DOMAIN m_tasks' : m_tasks'[k] = m_tasks[j]
        OBVIOUS
      <4>1. CASE j < pos
        <5>1. j \in DOMAIN m_tasks' /\ m_tasks'[j] = m_tasks[j]
          BY <2>2, <2>3, <2>5, <4>1
        <5> QED
          BY <5>1
      <4>2. CASE j > pos
        <5>1. j - 1 \in DOMAIN m_tasks' /\ m_tasks'[j - 1] = m_tasks[j]
          BY <2>2, <2>3, <2>5, <4>2
        <5> QED
          BY <5>1
      <4> QED
        BY <2>3, <4>1, <4>2
    <3> HIDE DEF old
    <3>3. TimeoutNotLost'
      <4> SUFFICES ASSUME NEW f \in Fns, kind[f] = "setTimeout", f \notin revoked \cup fired
                   PROVE  Pending(f)'
        BY <2>1, SMTT(30) DEF TimeoutNotLost
      <4>1. PICK j \in DOMAIN m_tasks : m_tasks[j].fn = f /\ m_tasks[j].attempts # 0
        BY DEF ShotInv, TimeoutNotLost, Pending
      <4>2. PICK k \in DOMAIN m_tasks' : m_tasks'[k] = m_tasks[j]
        BY <2>2, <2>5, <3>2, <4>1, SMTT(30)
      <4> QED
        BY <4>1, <4>2 DEF Pending
    <3>4. \A i \in DOMAIN m_tasks' :
            OneShot(m_tasks'[i].fn, kind') => m_tasks'[i].attempts # -1
      BY <2>1, <3>1, SMTT(30) DEF ShotInv
    <3>5. \A i \in DOMAIN m_tasks' :
            OneShot(m_tasks'[i].fn, kind') /\ m_tasks'[i].fn \in fired' =>
              m_tasks'[i].attempts = 0
      BY <2>1, <3>1, SMTT(30) DEF ShotInv
    <3> QED
      BY <2>1, <3>3, <3>4, <3>5 DEF ShotInv
  <2> QED
    BY <2>4, <2>5
<1>8. CASE Tick \/ UNCHANGED vars
  <2>1. UNCHANGED <<m_tasks, pc, cur, nreg, kind, revoked, fired>>
    BY <1>8, SMTT(30) DEF Tick, vars, passVars, histVars
  <2> QED
    BY <2>1 DEF ShotInv, TimeoutNotLost, Pending
<1>9. CASE BeginPass \/ EndYield \/ EndScan \/ EndPass
  <2>1. /\ UNCHANGED <<m_tasks, nreg, kind, revoked, fired>>
        /\ pc # "callback" /\ pc' # "callback"
    BY <1>9 DEF BeginPass, EndYield, EndScan, EndPass, histVars
  <2> QED
    BY <2>1 DEF ShotInv, TimeoutNotLost, Pending
<1> QED
  BY <1>0, <1>1, <1>2, <1>3, <1>4, <1>5, <1>6, <1>7, <1>8, <1>9, CallCases DEF Next, Pass

\* It holds of the empty table.
LEMMA ShotInvInit == Init => ShotInv
<1> SUFFICES ASSUME Init PROVE ShotInv
  OBVIOUS
<1>1. DOMAIN m_tasks = {} /\ pc # "callback" /\ \A f \in Fns : kind[f] = "none"
  BY DEF Init
<1>2. TimeoutNotLost
  BY <1>1 DEF TimeoutNotLost
<1> QED
  BY <1>1, <1>2 DEF ShotInv

\* A timer accepted by setTimeout stays in the table, runnable, until it has
\* fired or has been cleared, killed or replaced.
THEOREM TimeoutKept == Spec => []TimeoutNotLost
<1>1. Init => CallbackInv
  BY DEF Init, CallbackInv
<1>2. ShotInv => TimeoutNotLost
  BY DEF ShotInv
<1> QED
  BY <1>1, <1>2, TableInvInit, TableInvNext, CallbackInvStep, ShotInvInit, ShotInvStep,
     PTL DEF Spec

\* A callback installed by setTimeout or updateTimeout starts at most once.
THEOREM OneShotOnce == Spec => OneShotRunsOnce
<1>1. Init => CallbackInv
  BY SMTT(30) DEF Init, CallbackInv
<1>2. TableInv /\ ShotInv /\ [Next]_vars =>
        [\A f \in fired : kind[f] \in {"setTimeout", "updateTimeout"} => ~Starts(f)]_vars
  <2> SUFFICES ASSUME TableInv, ShotInv, Next, NEW f \in fired,
                      kind[f] \in {"setTimeout", "updateTimeout"}, Starts(f)
               PROVE  FALSE
    BY DEF Starts
  <2>1. TypeOK /\ pc = "scan" /\ pc' = "callback"
    BY DEF TableInv, Starts
  <2>2. Visit
    BY <2>1, StartIsVisit, SMTT(30)
  <2>3. SameBut({}) /\ cur' \in DOMAIN m_tasks /\ m_tasks[cur'].attempts # 0
    BY <2>1, <2>2, VisitEffect, SMTT(30)
  <2>4. m_tasks[cur'].fn = f
    BY <2>3, SMTT(30) DEF SameBut, Starts
  <2>5. f # NoFn
    BY <2>1, FnType
  <2> QED
    BY <2>1, <2>3, <2>4, <2>5 DEF ShotInv, OneShot
<1> QED
  BY <1>1, <1>2, TableInvInit, TableInvNext, CallbackInvStep, ShotInvInit, ShotInvStep,
     PTL DEF Spec, OneShotRunsOnce
=============================================================================
