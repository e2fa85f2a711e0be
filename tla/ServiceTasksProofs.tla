------------------------- MODULE ServiceTasksProofs -------------------------
(***************************************************************************)
(* TasksTracked for every number of services, tasks and tracked ids.       *)
(***************************************************************************)
EXTENDS ServiceTasks, TLAPS

\* What TasksTracked needs to be inductive: a registered callback has been
\* given out before, so that the next one never changes its owner, and the
\* tracked lists are lists.
TrackInv ==
  /\ given \subseteq Fns
  /\ \A t \in tasks : /\ t = [id |-> t.id, fn |-> t.fn]
                      /\ t.fn \in given \cup {NoFn}
  /\ owner \in [Fns -> Clients \cup {"none"}]
  /\ m_service_task_ids \in [Services -> Seq(Int)]
  /\ TasksTracked

\* The callbacks of the table after a step: those of before, minus some, plus
\* possibly one new callback f of client x with id r.
Grows(x, f, r) ==
  /\ f \in Fns \ given
  /\ given' = given \cup {f}
  /\ owner' = [owner EXCEPT ![f] = x]
  /\ \A t \in tasks' : \/ t \in tasks
                       \/ t = [id |-> r, fn |-> f]

Shrinks ==
  /\ given' = given
  /\ owner' = owner
  /\ \A t \in tasks' : \/ t \in tasks
                       \/ \E u \in tasks : t = [id |-> u.id, fn |-> NoFn]

\* Clearing, starting, finishing, reaping and killing only shrink the table.
LEMMA ClearShrinks ==
  ASSUME TrackInv, NEW ids, Clear(ids), owner' = owner
  PROVE  Shrinks
<1>1. \A t \in tasks : [t EXCEPT !.fn = NoFn] = [id |-> t.id, fn |-> NoFn]
  BY DEF TrackInv
<1>2. QED BY <1>1, Zenon DEF Clear, Shrinks

\* The same for the steps of the scheduler.
LEMMA SchedulerShrinks ==
  ASSUME TrackInv, Run \/ Return \/ ReapOne \/ Kill
  PROVE  Shrinks /\ UNCHANGED clientVars
<1>1. \A t \in tasks : [t EXCEPT !.fn = NoFn] = [id |-> t.id, fn |-> NoFn]
  BY DEF TrackInv
<1>2. CASE Run BY <1>2 DEF Run, Start, Shrinks, clientVars
<1>3. CASE Return BY <1>1, <1>3, Zenon DEF Return, Finish, With, Shrinks, clientVars
<1>4. CASE ReapOne BY <1>4 DEF ReapOne, Reap, Shrinks, clientVars
<1>5. CASE Kill BY <1>1, <1>5, Zenon DEF Kill, Cancel, With, Shrinks, clientVars
<1>6. QED BY <1>2, <1>3, <1>4, <1>5

\* A set or update call adds one callback of the caller under the id it
\* returns, or is refused.
LEMMA UpdateGrows ==
  ASSUME TrackInv, NEW x, NEW id, NEW f, NEW r, Update(x, id, f, r) \/ Set(x, f, r)
  PROVE  Grows(x, f, r) \/ Shrinks
<1>1. \A t \in tasks : [t EXCEPT !.fn = f] = [id |-> t.id, fn |-> f]
  BY DEF TrackInv
<1>2. CASE Set(x, f, r)
  BY <1>2 DEF Set, NextFn, Register, Grows, Shrinks, tableVars
<1>3. CASE Update(x, id, f, r) /\ Used(id)
  BY <1>1, <1>3, Zenon DEF Update, NextFn, Replace, With, Grows
<1>4. QED BY <1>2, <1>3 DEF Update

\* trackServiceTask forgets no id and has the new one afterwards, or the
\* list has overflowed.
LEMMA TrackKeeps ==
  ASSUME TrackInv, NEW s \in Services, NEW r \in Ids, trackServiceTask(s, r)
  PROVE  /\ m_service_task_ids' \in [Services -> Seq(Int)]
         /\ overflow \subseteq overflow'
         /\ \A z \in Services : Tracked(z) \subseteq Tracked(z)'
         /\ r = -1 \/ s \in overflow' \/ r \in Tracked(s)'
<1>. DEFINE new  == r > 0 /\ ~isServiceTaskTracked(s, r)
            room == Len(m_service_task_ids[s]) < MaxServiceTasks
<1>1. r \in Int /\ (r = -1 \/ r > 0)
  BY TableAssumption DEF Ids
<1>2. CASE new /\ room
  <2>1. m_service_task_ids' =
          [m_service_task_ids EXCEPT ![s] = Append(m_service_task_ids[s], r)]
    BY <1>2 DEF trackServiceTask
  <2>2. m_service_task_ids' \in [Services -> Seq(Int)]
    BY <2>1, <1>1 DEF TrackInv
  <2>3. \A z \in Services : Tracked(z) \subseteq Tracked(z)'
    BY <2>1, <1>1 DEF TrackInv, Tracked
  <2>4. r \in Tracked(s)'
    <3>1. /\ Len(m_service_task_ids'[s]) = Len(m_service_task_ids[s]) + 1
          /\ Len(m_service_task_ids[s]) \in Nat
          /\ m_service_task_ids'[s][Len(m_service_task_ids[s]) + 1] = r
      BY <2>1, <1>1 DEF TrackInv
    <3>2. QED BY <3>1 DEF Tracked
  <2>5. QED BY <2>2, <2>3, <2>4, <1>2 DEF trackServiceTask
<1>3. CASE ~(new /\ room)
  <2>1. m_service_task_ids' = m_service_task_ids
    BY <1>3 DEF trackServiceTask, TrackInv
  <2>2. QED BY <2>1, <1>1, <1>3 DEF trackServiceTask, TrackInv, Tracked, isServiceTaskTracked
<1>4. QED BY <1>2, <1>3

\* A table that only loses callbacks keeps the invariant as long as no
\* tracked id of a service with a live task is forgotten.
LEMMA ShrinkPreserves ==
  ASSUME TrackInv, Shrinks,
         m_service_task_ids' \in [Services -> Seq(Int)],
         overflow \subseteq overflow',
         \A z \in Services : Tracked(z) \subseteq Tracked(z)'
  PROVE  TrackInv'
<1>1. \A t \in tasks' : /\ t = [id |-> t.id, fn |-> t.fn]
                        /\ t.fn \in given' \cup {NoFn}
  BY DEF TrackInv, Shrinks
<1>2. TasksTracked'
  BY DEF TrackInv, Shrinks, TasksTracked, Live, isServiceTaskTracked
<1>3. QED BY <1>1, <1>2 DEF TrackInv, Shrinks

\* A new callback of x keeps it when its id ends up tracked, or x is no
\* service.
LEMMA GrowPreserves ==
  ASSUME TrackInv, NEW x \in Clients, NEW f, NEW r, Grows(x, f, r),
         m_service_task_ids' \in [Services -> Seq(Int)],
         overflow \subseteq overflow',
         \A z \in Services : Tracked(z) \subseteq Tracked(z)',
         x \in Services => r = -1 \/ x \in overflow' \/ r \in Tracked(x)'
  PROVE  TrackInv'
<1>1. \A t \in tasks' : /\ t = [id |-> t.id, fn |-> t.fn]
                        /\ t.fn \in given' \cup {NoFn}
  BY DEF TrackInv, Grows
<1>2. owner' \in [Fns -> Clients \cup {"none"}] /\ given' \subseteq Fns
  BY DEF TrackInv, Grows
<1>3. ASSUME NEW s \in Services, NEW t \in Live(s)'
      PROVE  t.id = -1 \/ s \in overflow' \/ t.id \in Tracked(s)'
  <2>1. CASE t \in tasks
    <3>1. t.fn # f /\ t.fn \in Fns
      BY <2>1, <1>3 DEF TrackInv, Grows, Live
    <3>2. t \in Live(s)
      BY <2>1, <3>1, <1>3 DEF TrackInv, Grows, Live
    <3>3. QED BY <3>2 DEF TrackInv, TasksTracked, isServiceTaskTracked
  <2>2. CASE t = [id |-> r, fn |-> f]
    <3>1. owner'[f] = x
      BY DEF TrackInv, Grows
    <3>2. x = s
      BY <2>2, <3>1, <1>3 DEF Live
    <3>3. QED BY <2>2, <3>2
  <2>3. QED BY <2>1, <2>2, <1>3 DEF Grows, Live
<1>4. TasksTracked'
  BY <1>3 DEF TasksTracked, isServiceTaskTracked
<1>5. QED BY <1>1, <1>2, <1>4 DEF TrackInv

\* A service that registers or updates a task through the wrappers.
LEMMA WrapperPreserves ==
  ASSUME TrackInv, NEW s \in Services, NEW id, NEW f, NEW r \in Ids,
         Update(s, id, f, r) \/ Set(s, f, r), trackServiceTask(s, r)
  PROVE  TrackInv'
<1>1. Grows(s, f, r) \/ Shrinks
  BY UpdateGrows
<1>2. /\ m_service_task_ids' \in [Services -> Seq(Int)]
      /\ overflow \subseteq overflow'
      /\ \A z \in Services : Tracked(z) \subseteq Tracked(z)'
      /\ r = -1 \/ s \in overflow' \/ r \in Tracked(s)'
  BY TrackKeeps
<1>3. QED BY <1>1, <1>2, ShrinkPreserves, GrowPreserves DEF Clients

\* Calls that leave the tracked lists alone.
LEMMA OtherPreserves ==
  ASSUME TrackInv, UNCHANGED <<m_service_task_ids, overflow>>,
         Shrinks \/ \E c \in SshClients, f \in Fns, r \in Ids : Grows(c, f, r)
  PROVE  TrackInv'
<1>1. \A z \in Services : Tracked(z) \subseteq Tracked(z)'
  BY DEF Tracked
<1>2. m_service_task_ids' \in [Services -> Seq(Int)] /\ overflow \subseteq overflow'
  BY DEF TrackInv
<1>3. CASE Shrinks BY <1>1, <1>2, <1>3, ShrinkPreserves
<1>4. ASSUME NEW c \in SshClients, NEW f \in Fns, NEW r \in Ids, Grows(c, f, r)
      PROVE  TrackInv'
  <2>1. c \in Clients /\ c \notin Services
    BY ClientsAssumption DEF Clients
  <2>2. QED BY <1>1, <1>2, <1>4, <2>1, GrowPreserves
<1>5. QED BY <1>3, <1>4

\* stopService forgets the ids it has just cleared.
LEMMA StopPreserves ==
  ASSUME TrackInv, NEW s \in RoutineServices, stopService(s)
  PROVE  TrackInv'
<1>1. s \in Services /\ Shrinks
  BY ClearShrinks DEF Services, stopService
<1>2. m_service_task_ids' \in [Services -> Seq(Int)]
  BY <1>1 DEF stopService, TrackInv
<1>3. ASSUME NEW z \in Services, NEW t \in Live(z)'
      PROVE  t.id = -1 \/ z \in overflow' \/ t.id \in Tracked(z)'
  <2>1. t \in tasks /\ t \in Live(z)
    BY <1>1, <1>3 DEF Shrinks, Live
  <2>2. t.id = -1 \/ z \in overflow \/ t.id \in Tracked(z)
    BY <2>1 DEF TrackInv, TasksTracked, isServiceTaskTracked
  <2>3. CASE z = s
    <3>1. t.id \notin Tracked(s)
      <4>1. \A u \in tasks : [u EXCEPT !.fn = NoFn].fn = NoFn
        BY DEF TrackInv
      <4>2. t \in tasks' /\ t.fn # NoFn
        BY <1>3 DEF Live
      <4>3. PICK u \in tasks : t = IF u.id \in Tracked(s) THEN [u EXCEPT !.fn = NoFn] ELSE u
        BY <4>2 DEF stopService, Clear
      <4>4. QED BY <4>1, <4>2, <4>3
    <3>2. QED BY <2>2, <2>3, <3>1 DEF stopService
  <2>4. CASE z # s
    <3>1. m_service_task_ids'[z] = m_service_task_ids[z]
      BY <2>4 DEF stopService, TrackInv
    <3>2. QED BY <2>2, <3>1 DEF stopService, Tracked
  <2>5. QED BY <2>3, <2>4
<1>4. TasksTracked'
  BY <1>3 DEF TasksTracked, isServiceTaskTracked
<1>5. \A t \in tasks' : /\ t = [id |-> t.id, fn |-> t.fn]
                        /\ t.fn \in given' \cup {NoFn}
  BY <1>1 DEF TrackInv, Shrinks
<1>6. QED BY <1>1, <1>2, <1>4, <1>5 DEF TrackInv, Shrinks

\* Every step keeps the inductive invariant.
LEMMA TrackStep == TrackInv /\ [ClientsNext]_allVars => TrackInv'
<1>. SUFFICES ASSUME TrackInv, [ClientsNext]_allVars PROVE TrackInv'
  OBVIOUS
<1>1. ASSUME NEW s \in MemberServices, serviceSetInterval(s) PROVE TrackInv'
  BY <1>1, WrapperPreserves DEF serviceSetInterval, Services
<1>2. ASSUME NEW s \in MemberServices, serviceUpdateInterval(s) PROVE TrackInv'
  BY <1>2, WrapperPreserves DEF serviceUpdateInterval, Services
<1>3. ASSUME NEW s \in MemberServices, clearMember(s) PROVE TrackInv'
  BY <1>3, ClearShrinks, OtherPreserves DEF clearMember
<1>4. ASSUME NEW s \in Services, signalAllServiceTasks(s) PROVE TrackInv'
  <2>1. Shrinks BY <1>4 DEF signalAllServiceTasks, Shrinks, tableVars
  <2>2. QED BY <1>4, <2>1, OtherPreserves DEF signalAllServiceTasks
<1>5. ASSUME NEW s \in RoutineServices, stopService(s) PROVE TrackInv'
  BY <1>5, StopPreserves
<1>6. ASSUME NEW s \in RoutineServices, initService(s) PROVE TrackInv'
  BY <1>6, WrapperPreserves DEF initService, Services
<1>7. ASSUME NEW c \in SshClients, sshWrite(c) PROVE TrackInv'
  <2>1. PICK f \in Fns, r \in Ids : Update(c, m_writeCommitTaskId[c], f, r)
    BY <1>7 DEF sshWrite
  <2>2. Grows(c, f, r) \/ Shrinks
    BY <2>1, UpdateGrows
  <2>3. QED BY <1>7, <2>2, OtherPreserves DEF sshWrite
<1>8. ASSUME NEW c \in SshClients, sshClose(c) \/ sshDestroy(c) PROVE TrackInv'
  BY <1>8, ClearShrinks, OtherPreserves DEF sshClose, sshDestroy
<1>9. CASE Run \/ Return \/ ReapOne \/ Kill
  BY <1>9, SchedulerShrinks, OtherPreserves DEF clientVars
<1>10. CASE UNCHANGED allVars
  <2>1. Shrinks BY <1>10 DEF allVars, tableVars, clientVars, Shrinks
  <2>2. QED BY <1>10, <2>1, OtherPreserves DEF allVars, clientVars
<1>11. QED
  BY <1>1, <1>2, <1>3, <1>4, <1>5, <1>6, <1>7, <1>8, <1>9, <1>10 DEF ClientsNext

\* For every set of services, table size and MAX_SERVICE_TASKS: a live task of
\* a service that has a valid id is tracked unless its list has overflowed, so
\* stopService and srvc miss none.
THEOREM ServiceTasksTracked == ClientsSpec => []TasksTracked
<1>1. ClientsInit => TrackInv
  BY DEF ClientsInit, TableInit, TrackInv, TasksTracked, Live
<1>2. TrackInv => TasksTracked
  BY DEF TrackInv
<1>3. QED BY <1>1, <1>2, TrackStep, PTL DEF ClientsSpec
=============================================================================
