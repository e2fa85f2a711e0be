-------------------------- MODULE PreemptiveThreads --------------------------
(***************************************************************************)
(* The preemptive lane of the esp8266 port: PreemptiveScheduler            *)
(* (devices/esp8266/threading/Preemptive.cpp) and PreemptiveMutex.         *)
(* There is one processor.  The timer interrupt may arrive whenever        *)
(* interrupts are enabled; code between noInterrupts and interrupts is one *)
(* step.  What a thread does between calls is its own choice, as long as   *)
(* it returns from its entry function outside its critical sections.       *)
(* The wake-up times of sleepers are left open: the interrupt finds any    *)
(* set of them due.                                                        *)
(***************************************************************************)
EXTENDS Integers, FiniteSets, SequencesExt

CONSTANTS
  Threads,     \* the preemptive tasks
  Main,        \* __non_preemptive, the main loop
  Null,
  Mutexes,
  Priority,    \* _task_priority of each thread
  MaxBoost,    \* the cap of wait_ticks (255 in the code)
  Styles,      \* programs use critical_lock ("critical") or lock ("lock")
  BootLocks,   \* the styles with a main loop that locks before the first tick
  TryLocks,    \* try_lock is used
  MaxDepth     \* how deep sections nest

All == Threads \cup {Main}

ASSUME ThreadsAssumption ==
  /\ Main \notin Threads /\ Null \notin All
  /\ Priority \in [Threads -> Nat] /\ MaxBoost \in Nat
  /\ Styles \subseteq {"lock", "critical"} /\ BootLocks \subseteq Styles
  /\ TryLocks \in BOOLEAN
  /\ MaxDepth \in Nat \ {0}

VARIABLES
  current, ready, sleepers,      \* PreemptiveScheduler
  state, wait_ticks,             \* Preemptive
  active,                        \* preemptiveisr_active
  saved,                         \* __non_preemptive_saved
  m_locked, m_owner, m_waiters,  \* PreemptiveMutex
  irq,                           \* interrupts are enabled
  cpu,                           \* whose code the processor executes
  pc,                            \* where each thread is
  sect, depth,                   \* the mutex of its section, how often entered
  style                          \* how this program enters its sections

sched == <<current, ready, sleepers, state, wait_ticks, active, saved>>
mutex == <<m_locked, m_owner, m_waiters>>
prog  == <<pc, sect, depth, style>>

Critical == style = "critical"
vars  == <<sched, mutex, irq, cpu, prog>>

-----------------------------------------------------------------------------
(* Queues.                                                                 *)

\* The queue; the state of f becomes Ready only when it was not queued.
add_to_ready(r, f) == IF Contains(r, f) THEN r ELSE Append(r, f)

\* Swap with the last entry and pop.
remove_from_ready(r, f) ==
  IF ~Contains(r, f) THEN r
  ELSE LET i == CHOOSE k \in DOMAIN r : r[k] = f
       IN  [k \in 1 .. (Len(r) - 1) |-> IF k = i THEN r[Len(r)] ELSE r[k]]

Score(f, ticks) == (IF f = Main THEN 0 ELSE Priority[f]) + ticks[f]

\* The first entry of the highest effective priority.
Best(r, ticks) ==
  LET first(i) == /\ \A j \in DOMAIN r : Score(r[j], ticks) <= Score(r[i], ticks)
                  /\ \A j \in 1 .. (i - 1) : Score(r[j], ticks) < Score(r[i], ticks)
  IN  r[CHOOSE i \in DOMAIN r : first(i)]

\* Mutant: waiting does not raise the priority.
NoAging(r, ticks) == ticks

\* Every queued thread ages by one, the chosen one starts over.
Aged(r, ticks) ==
  LET best == Best(r, ticks)
  IN  [f \in All |-> IF f = best THEN 0
                     ELSE IF Contains(r, f) /\ ticks[f] < MaxBoost THEN ticks[f] + 1
                     ELSE ticks[f]]

-----------------------------------------------------------------------------
(* The timer interrupt.                                                    *)

\* pick_next_ready, and the switch to the thread it picks.
SwitchFrom(r, st) ==
  IF r = <<>>
  THEN /\ ready' = r /\ state' = st
       /\ UNCHANGED <<current, cpu, wait_ticks>>
  ELSE LET next == Best(r, wait_ticks)
       IN  /\ ready' = remove_from_ready(r, next)
           /\ state' = [st EXCEPT ![next] = "Running"]
           /\ wait_ticks' = Aged(r, wait_ticks)
           /\ current' = next
           /\ cpu' = next

\* Mutant: a thread that waits or has finished is queued like any other.
RequeueAny(r, st) ==
  IF current = Null THEN SwitchFrom(r, st)
  ELSE IF st[current] = "Running" /\ r = <<>>
  THEN /\ ready' = r /\ state' = st /\ UNCHANGED <<current, cpu, wait_ticks>>
  ELSE SwitchFrom(add_to_ready(r, current), [st EXCEPT ![current] = "Ready"])

\* Mutant: a thread that has finished is queued again.
RequeueFinished(r, st) ==
  IF current = Null THEN SwitchFrom(r, st)
  ELSE IF st[current] \in {"Running", "Finished"}
  THEN SwitchFrom(add_to_ready(r, current), [st EXCEPT ![current] = "Ready"])
  ELSE SwitchFrom(r, st)

\* run: a running thread is queued again if there is another, a thread that
\* yielded is queued already, any other is left to whoever wakes it.
run(r, st) ==
  IF current = Null THEN SwitchFrom(r, st)
  ELSE IF st[current] = "Running" /\ r = <<>>
  THEN /\ ready' = r /\ state' = st /\ UNCHANGED <<current, cpu, wait_ticks>>
  ELSE IF st[current] = "Running"
  THEN SwitchFrom(add_to_ready(r, current), [st EXCEPT ![current] = "Ready"])
  ELSE IF st[current] = "Ready" /\ r = <<>>
  THEN /\ ready' = r /\ state' = [st EXCEPT ![current] = "Running"]
       /\ UNCHANGED <<current, cpu, wait_ticks>>
  ELSE SwitchFrom(r, st)

\* The first interrupt captures the main loop; woken is the sequence in which
\* the sleepers that are due are queued.
timer1_isr_coroutine(woken) ==
  LET new == IF saved THEN woken ELSE <<Main>> \o woken
      r   == ready \o SelectSeq(new, LAMBDA f : ~Contains(ready, f))
  IN  /\ active /\ irq
      /\ saved' = TRUE
      /\ sleepers' = sleepers \ ToSet(woken)
      /\ run(r, [f \in All |-> IF Contains(new, f) /\ ~Contains(ready, f)
                               THEN "Ready" ELSE state[f]])
      /\ irq' = TRUE
      /\ UNCHANGED <<active, mutex, prog>>

TickWaking(due) == \E woken \in SetToSeqs(due) : timer1_isr_coroutine(woken)

Tick == \E due \in SUBSET sleepers : TickWaking(due)

-----------------------------------------------------------------------------
(* What a thread calls.  f is the executing thread; the code uses current. *)

\* The main loop creates the thread and starts the timer.
schedule_task(f) ==
  /\ cpu = Main /\ pc[Main] = "run" /\ pc[f] = "off"
  /\ pc' = [pc EXCEPT ![f] = "run"]
  /\ state' = [state EXCEPT ![f] = "Ready"]
  /\ ready' = add_to_ready(ready, f)
  /\ active' = TRUE
  /\ irq' = TRUE
  /\ UNCHANGED <<current, sleepers, wait_ticks, saved, mutex, cpu, sect, depth, style>>

\* exit: the thread spins until the interrupt has made it Running again.
Spins(f, where) == pc' = [pc EXCEPT ![f] = where] /\ irq' = TRUE

\* Outside its sections, or in a section it entered with lock.
MayPause(f) ==
  /\ cpu = f /\ current # Null
  /\ pc[f] = "run" \/ (pc[f] = "in" /\ ~Critical)

yield(f) ==
  /\ MayPause(f)
  /\ IF state[current] = "Running"
     THEN /\ state' = [state EXCEPT ![current] = "Ready"]
          /\ ready' = add_to_ready(ready, current)
     ELSE UNCHANGED <<state, ready>>
  /\ Spins(f, "spin")
  /\ UNCHANGED <<current, sleepers, wait_ticks, active, saved, mutex, cpu, sect, depth, style>>

sleep(f) ==
  /\ MayPause(f)
  /\ state' = [state EXCEPT ![current] = "Sleeping"]
  /\ sleepers' = sleepers \cup {current}
  /\ Spins(f, "spin")
  /\ UNCHANGED <<current, ready, wait_ticks, active, saved, mutex, cpu, sect, depth, style>>

Resumed(f) ==
  /\ cpu = f /\ state[f] = "Running"
  /\ \/ pc[f] = "spin" /\ pc' = [pc EXCEPT ![f] = IF depth[f] = 0 THEN "run" ELSE "in"]
     \/ pc[f] = "spinLock" /\ pc' = [pc EXCEPT ![f] = IF Critical THEN "locked" ELSE "in"]
  /\ UNCHANGED <<sched, mutex, irq, cpu, sect, depth, style>>

Enters(f, m) ==
  /\ pc' = [pc EXCEPT ![f] = IF Critical THEN "locked" ELSE "in"]
  /\ sect' = [sect EXCEPT ![f] = m]
  /\ depth' = [depth EXCEPT ![f] = @ + 1]

\* f is at a call of lock or try_lock: outside any section or, nested, inside
\* the section of the same mutex.
AtLock(f, m) ==
  /\ cpu = f
  /\ \/ pc[f] = "run"
     \/ pc[f] = "in" /\ sect[f] = m /\ depth[f] < MaxDepth
  /\ f = Main /\ style \notin BootLocks => current # Null

\* A no-op while no thread is current; else the mutex is taken, is the
\* caller's already, or the caller waits and mutes itself.
lock(f, m) ==
  /\ AtLock(f, m)
  /\ irq' = TRUE
  /\ IF current = Null \/ (m_locked[m] /\ current = m_owner[m])
     THEN Enters(f, m) /\ UNCHANGED <<state, mutex>>
     ELSE IF ~m_locked[m]
     THEN /\ m_locked' = [m_locked EXCEPT ![m] = TRUE]
          /\ m_owner' = [m_owner EXCEPT ![m] = current]
          /\ Enters(f, m)
          /\ UNCHANGED <<state, m_waiters>>
     ELSE /\ m_waiters' = [m_waiters EXCEPT ![m] = Append(@, current)]
          /\ state' = [state EXCEPT ![current] = IF @ = "Running" THEN "Mute" ELSE @]
          /\ pc' = [pc EXCEPT ![f] = "spinLock"]
          /\ sect' = [sect EXCEPT ![f] = m]
          /\ depth' = [depth EXCEPT ![f] = @ + 1]
          /\ UNCHANGED <<m_locked, m_owner>>
  /\ UNCHANGED <<current, ready, sleepers, wait_ticks, active, saved, cpu, style>>

\* The best-effort variant; a failure leaves the caller where it is.
try_lock(f, m) ==
  /\ TryLocks /\ ~Critical
  /\ AtLock(f, m)
  /\ current # Null
  /\ ~m_locked[m] \/ current = m_owner[m]
  /\ m_locked' = [m_locked EXCEPT ![m] = TRUE]
  /\ m_owner' = [m_owner EXCEPT ![m] = current]
  /\ pc' = [pc EXCEPT ![f] = "in"]
  /\ sect' = [sect EXCEPT ![f] = m]
  /\ depth' = [depth EXCEPT ![f] = @ + 1]
  /\ irq' = TRUE
  /\ UNCHANGED <<sched, m_waiters, cpu, style>>

\* The end of critical_lock ...
cli(f) ==
  /\ cpu = f /\ pc[f] = "locked"
  /\ pc' = [pc EXCEPT ![f] = "in"]
  /\ irq' = FALSE
  /\ UNCHANGED <<sched, mutex, cpu, sect, depth, style>>

\* ... and the beginning of critical_unlock.
sei(f) ==
  /\ Critical
  /\ cpu = f /\ pc[f] = "in"
  /\ pc' = [pc EXCEPT ![f] = "leaving"]
  /\ irq' = TRUE
  /\ UNCHANGED <<sched, mutex, cpu, sect, depth, style>>

\* Mutant: unlock frees the mutex it hands over.
UnlockFrees(m) ==
  IF current # m_owner[m] THEN UNCHANGED <<mutex, ready, state>>
  ELSE /\ m_locked' = [m_locked EXCEPT ![m] = FALSE]
       /\ m_owner' = [m_owner EXCEPT ![m] = Null]
       /\ IF m_waiters[m] = <<>> THEN UNCHANGED <<m_waiters, ready, state>>
          ELSE /\ m_waiters' = [m_waiters EXCEPT ![m] = Tail(@)]
               /\ ready' = add_to_ready(ready, Head(m_waiters[m]))
               /\ state' = [state EXCEPT ![Head(m_waiters[m])] = "Ready"]

\* Mutant: the next thread is woken, but the owner stays.
UnlockKeepsOwner(m) ==
  IF current # m_owner[m] THEN UNCHANGED <<mutex, ready, state>>
  ELSE IF m_waiters[m] = <<>>
  THEN /\ m_locked' = [m_locked EXCEPT ![m] = FALSE]
       /\ m_owner' = [m_owner EXCEPT ![m] = Null]
       /\ UNCHANGED <<m_waiters, ready, state>>
  ELSE /\ m_waiters' = [m_waiters EXCEPT ![m] = Tail(@)]
       /\ ready' = add_to_ready(ready, Head(m_waiters[m]))
       /\ state' = [state EXCEPT ![Head(m_waiters[m])] = "Ready"]
       /\ UNCHANGED <<m_locked, m_owner>>

\* Only the owner may; the longest waiting thread becomes the owner.
HandOver(m) ==
  IF current # m_owner[m] THEN UNCHANGED <<mutex, ready, state>>
  ELSE IF m_waiters[m] = <<>>
  THEN /\ m_locked' = [m_locked EXCEPT ![m] = FALSE]
       /\ m_owner' = [m_owner EXCEPT ![m] = Null]
       /\ UNCHANGED <<m_waiters, ready, state>>
  ELSE LET f == Head(m_waiters[m])
       IN  /\ m_waiters' = [m_waiters EXCEPT ![m] = Tail(@)]
           /\ m_owner' = [m_owner EXCEPT ![m] = f]
           /\ ready' = add_to_ready(ready, f)
           /\ state' = [state EXCEPT ![f] = IF Contains(ready, f) THEN @ ELSE "Ready"]
           /\ UNCHANGED m_locked

unlock(f) ==
  /\ cpu = f /\ pc[f] = IF Critical THEN "leaving" ELSE "in"
  /\ HandOver(sect[f])
  /\ depth' = [depth EXCEPT ![f] = @ - 1]
  /\ pc' = [pc EXCEPT ![f] = IF depth[f] = 1 THEN "run" ELSE "in"]
  /\ sect' = [sect EXCEPT ![f] = IF depth[f] = 1 THEN Null ELSE @]
  /\ irq' = TRUE
  /\ UNCHANGED <<current, sleepers, wait_ticks, active, saved, cpu, style>>

-----------------------------------------------------------------------------
(* The end of a thread.                                                    *)

\* preemptive_trampoline, after the entry function has returned ...
EntryReturns(f) ==
  /\ cpu = f /\ f # Main /\ pc[f] = "run"
  /\ state' = [state EXCEPT ![f] = IF @ = "Running" THEN "Finished" ELSE @]
  /\ pc' = [pc EXCEPT ![f] = "exit"]
  /\ UNCHANGED <<current, ready, sleepers, wait_ticks, active, saved, mutex, irq, cpu,
                 sect, depth, style>>

\* ... exit destroys the thread ...
destroy_preemptive(f) ==
  /\ cpu = f /\ pc[f] = "exit" /\ state[f] = "Finished"
  /\ ready' = remove_from_ready(ready, f)
  /\ sleepers' = sleepers \ {f}
  /\ pc' = [pc EXCEPT ![f] = "freed"]
  /\ irq' = TRUE
  /\ UNCHANGED <<current, state, wait_ticks, active, saved, mutex, cpu, sect, depth, style>>

\* ... and spins on the stack it has freed until the next interrupt.
ClearCurrent(f) ==
  /\ cpu = f /\ pc[f] = "freed"
  /\ current' = Null
  /\ pc' = [pc EXCEPT ![f] = "gone"]
  /\ UNCHANGED <<ready, sleepers, state, wait_ticks, active, saved, mutex, irq, cpu,
                 sect, depth, style>>

-----------------------------------------------------------------------------
Init ==
  /\ current = Null /\ cpu = Main
  /\ ready = <<>> /\ sleepers = {}
  /\ state = [f \in All |-> "Ready"]
  /\ wait_ticks = [f \in All |-> 0]
  /\ active = FALSE /\ saved = FALSE /\ irq = TRUE
  /\ m_locked = [m \in Mutexes |-> FALSE]
  /\ m_owner = [m \in Mutexes |-> Null]
  /\ m_waiters = [m \in Mutexes |-> <<>>]
  /\ pc = [f \in All |-> IF f = Main THEN "run" ELSE "off"]
  /\ sect = [f \in All |-> Null]
  /\ depth = [f \in All |-> 0]
  /\ style \in Styles

Leaves(f) == cli(f) \/ sei(f) \/ unlock(f)

Ends(f) == EntryReturns(f) \/ destroy_preemptive(f) \/ ClearCurrent(f)

Next ==
  \/ Tick
  \/ \E f \in Threads : schedule_task(f)
  \/ \E f \in All : yield(f) \/ sleep(f) \/ Resumed(f) \/ Leaves(f) \/ Ends(f)
  \/ \E f \in All, m \in Mutexes : lock(f, m) \/ try_lock(f, m)

Spec == Init /\ [][Next]_vars

\* A pending interrupt is taken once interrupts are enabled, sleepers become
\* due, a thread that gets the processor again and again executes some of its
\* code, and it does not stay in a section for ever.
Fairness ==
  /\ SF_vars(Tick)
  /\ \A f \in All : SF_vars(f \in sleepers /\ Tick /\ f \notin sleepers')
  /\ \A f \in All : SF_vars(Resumed(f)) /\ SF_vars(Leaves(f))

FairSpec == Spec /\ Fairness

-----------------------------------------------------------------------------
(* Properties.                                                             *)

Waiting(f) == {m \in Mutexes : Contains(m_waiters[m], f)}

\* Every started thread is in exactly one place from which it will be run
\* again, and its state says which: the ready queue, the sleepers, the waiters
\* of one mutex, or the processor.  No wake-up is lost and none comes twice.
NoThreadLost ==
  /\ IsInjective(ready)
  /\ \A m \in Mutexes : IsInjective(m_waiters[m])
  /\ \A f \in All : pc[f] \notin {"off", "exit", "freed", "gone"} /\ saved =>
       CASE state[f] = "Ready"    -> Contains(ready, f) /\ f \notin sleepers /\ Waiting(f) = {}
         [] state[f] = "Sleeping" -> f \in sleepers /\ ~Contains(ready, f) /\ Waiting(f) = {}
         [] state[f] = "Mute"     -> /\ Cardinality(Waiting(f)) = 1
                                     /\ ~Contains(ready, f) /\ f \notin sleepers
         [] state[f] = "Running"  -> current = f /\ cpu = f /\ ~Contains(ready, f)
         [] OTHER                 -> FALSE

\* A destroyed thread is in no queue from which the interrupt could resume it.
FreedNeverRuns ==
  \A f \in All : pc[f] \in {"freed", "gone"} =>
    /\ ~Contains(ready, f) /\ f \notin sleepers /\ Waiting(f) = {}
    /\ current = f => pc[f] = "freed" /\ cpu = f

\* At most one thread is inside the sections of a mutex.
MutualExclusion ==
  \A f, g \in All : f # g /\ pc[f] = "in" /\ pc[g] = "in" => sect[f] # sect[g]

\* Ownership is handed over directly: while threads wait, the mutex is locked
\* by a thread that is inside its section or on its way in or out of it.
OwnerOnItsWay ==
  \A m \in Mutexes :
    /\ m_locked[m] <=> m_owner[m] # Null
    /\ m_waiters[m] # <<>> => m_locked[m]
    /\ m_locked[m] => /\ sect[m_owner[m]] = m
                      /\ ~Contains(m_waiters[m], m_owner[m])
                      /\ pc[m_owner[m]] \in {"locked", "in", "leaving", "spinLock", "spin"}

\* A thread that waits, in the ready queue or for a mutex, is run in the end,
\* whatever the priorities of the others and whoever else asks for the mutex:
\* waiting raises the effective priority, and a mutex is handed over in order.
WaiterRuns == \A f \in All : Contains(ready, f) \/ Waiting(f) # {} ~> current = f

-----------------------------------------------------------------------------
(* What a comment of the code says and the code does not do.               *)

\* "Treat as success so caller's matching unlock() pairing stays correct"
\* (PreemptiveMutex.cpp:141): while a thread is inside its outer section, no
\* other is inside one of the same mutex.
PairingKeepsExclusion == MutualExclusion
==============================================================================
