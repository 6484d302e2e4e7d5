---------------------------- MODULE SchedProofs ----------------------------
(***************************************************************************)
(* Theorems about Sched, for every size of the GDT, every time slice and   *)
(* every number of tasks, semaphores and pages.                            *)
(***************************************************************************)
EXTENDS Sched, TLAPS

(* NOT_FOUND is not a pid. *)
LEMMA PidFacts ==
  /\ NOT_FOUND \in Nat \ Pids
  /\ Pids \subseteq Nat
  /\ Idle \subseteq Pids
  /\ SEGMENTS + 1 \in Idle /\ SEGMENTS + 2 \in Idle
  /\ SEGMENTS + 1 # SEGMENTS + 2
BY SchedAssumption DEF NOT_FOUND, Pids, Idle

(* The assumptions on constants that the steps use. *)
LEMMA ConstantFacts ==
  /\ TIME_PIECE \in Nat \ {0}
  /\ COUNTER_MOD \in Nat \ {0}
  /\ MaxPages \in Nat
  /\ SleepArgs \subseteq 0..(COUNTER_MOD - 1)
BY SchedAssumption
-----------------------------------------------------------------------------
(* What the list operations do to the set of queued pids. *)

LEMMA EnqueueFacts ==
  ASSUME NEW S, NEW list \in Seq(S), NEW pid \in S
  PROVE  /\ pid_enqueue(list, pid) \in Seq(S)
         /\ Len(pid_enqueue(list, pid)) = Len(list) + 1
         /\ Elements(pid_enqueue(list, pid)) = Elements(list) \cup {pid}
         /\ NoDuplicates(list) /\ pid \notin Elements(list)
              => NoDuplicates(pid_enqueue(list, pid))
<1>1. /\ pid_enqueue(list, pid) \in Seq(S)
      /\ Len(pid_enqueue(list, pid)) = Len(list) + 1
      /\ \A k \in 1..Len(list) : pid_enqueue(list, pid)[k] = list[k]
      /\ pid_enqueue(list, pid)[Len(list) + 1] = pid
  BY DEF pid_enqueue
<1>2. Len(list) \in Nat
  OBVIOUS
<1>3. Elements(pid_enqueue(list, pid)) = Elements(list) \cup {pid}
  BY <1>1, <1>2 DEF Elements
<1>4. NoDuplicates(list) /\ pid \notin Elements(list)
        => NoDuplicates(pid_enqueue(list, pid))
  BY <1>1, <1>2 DEF Elements, NoDuplicates
<1> QED BY <1>1, <1>3, <1>4

LEMMA DequeueFacts ==
  ASSUME NEW S, NEW list \in Seq(S), list # <<>>
  PROVE  /\ pid_dequeue(list) \in S
         /\ pid_dequeue(list) \in Elements(list)
         /\ Dequeued(list) \in Seq(S)
         /\ Len(Dequeued(list)) = Len(list) - 1
         /\ NoDuplicates(list) =>
              /\ Elements(Dequeued(list)) = Elements(list) \ {pid_dequeue(list)}
              /\ NoDuplicates(Dequeued(list))
<1>1. /\ pid_dequeue(list) = list[1]
      /\ Dequeued(list) \in Seq(S)
      /\ Len(list) \in Nat \ {0}
      /\ Len(Dequeued(list)) = Len(list) - 1
      /\ \A k \in 1..(Len(list) - 1) : Dequeued(list)[k] = list[k + 1]
  BY DEF pid_dequeue, Dequeued
<1>2. list[1] \in S /\ list[1] \in Elements(list)
  BY <1>1 DEF Elements
<1>3. ASSUME NoDuplicates(list)
      PROVE  /\ Elements(Dequeued(list)) = Elements(list) \ {list[1]}
             /\ NoDuplicates(Dequeued(list))
  <2>1. Elements(Dequeued(list)) \subseteq Elements(list) \ {list[1]}
    BY <1>1, <1>3 DEF Elements, NoDuplicates
  <2>2. ASSUME NEW p \in Elements(list), p # list[1]
        PROVE  p \in Elements(Dequeued(list))
    <3>1. PICK k \in 1..Len(list) : p = list[k]
      BY DEF Elements
    <3>2. k - 1 \in 1..(Len(list) - 1) /\ Dequeued(list)[k - 1] = p
      BY <1>1, <2>2, <3>1
    <3> QED BY <1>1, <3>2 DEF Elements
  <2>3. NoDuplicates(Dequeued(list))
    BY <1>1, <1>3 DEF NoDuplicates
  <2> QED BY <2>1, <2>2, <2>3
<1> QED BY <1>1, <1>2, <1>3

LEMMA DeleteType ==
  ASSUME NEW S, NEW list \in Seq(S), NEW i \in Nat
  PROVE  pid_queue_delete(list, i) \in Seq(S)
<1>1. Len(list) \in Nat /\ \A k \in 1..Len(list) : list[k] \in S
  OBVIOUS
<1>2. \A k \in 1..(Len(list) - 1) :
        (IF k < Dropped(list, i) THEN list[k] ELSE list[k + 1]) \in S
  BY <1>1
<1>3. CASE Len(list) = 0
  <2>1. pid_queue_delete(list, i) = <<>>
    BY <1>3 DEF pid_queue_delete
  <2> QED BY <2>1
<1>4. CASE Len(list) # 0
  <2>1. Len(list) - 1 \in Nat
    BY <1>1, <1>4
  <2> QED BY <1>2, <2>1 DEF pid_queue_delete
<1> QED BY <1>3, <1>4

LEMMA DeleteFacts ==
  ASSUME NEW S, NEW list \in Seq(S), NEW i \in Nat, i < Len(list),
         NoDuplicates(list)
  PROVE  /\ Elements(pid_queue_delete(list, i)) = Elements(list) \ {list[i + 1]}
         /\ NoDuplicates(pid_queue_delete(list, i))
         /\ Len(pid_queue_delete(list, i)) = Len(list) - 1
<1> DEFINE new == pid_queue_delete(list, i)
<1>1. /\ Len(list) \in Nat
      /\ Len(list) - 1 \in Nat
      /\ new = [k \in 1..(Len(list) - 1) |->
                  IF k < i + 1 THEN list[k] ELSE list[k + 1]]
  BY DEF pid_queue_delete, Dropped
<1>2. Len(new) = Len(list) - 1
  BY <1>1
<1>3. Elements(new) \subseteq Elements(list) \ {list[i + 1]}
  BY <1>1, <1>2 DEF Elements, NoDuplicates
<1>4. ASSUME NEW p \in Elements(list), p # list[i + 1]
      PROVE  p \in Elements(new)
  <2>1. PICK k \in 1..Len(list) : p = list[k]
    BY DEF Elements
  <2>2. CASE k < i + 1
    <3>1. k \in 1..Len(new) /\ new[k] = p
      BY <1>1, <1>2, <2>1, <2>2
    <3> QED BY <3>1 DEF Elements
  <2>3. CASE k > i + 1
    <3>1. k - 1 \in 1..Len(new) /\ new[k - 1] = p
      BY <1>1, <1>2, <2>1, <2>3
    <3> QED BY <3>1 DEF Elements
  <2> QED BY <1>4, <2>1, <2>2, <2>3
<1>5. NoDuplicates(new)
  BY <1>1, <1>2 DEF NoDuplicates
<1> QED BY <1>2, <1>3, <1>4, <1>5
-----------------------------------------------------------------------------
(* Type correctness. *)

LEMMA JoinedType ==
  ASSUME TypeOK, NEW S, Pids \subseteq S, NEW queue \in Seq(S), NEW joins
  PROVE  Joined(queue, joins) \in Seq(S)
BY EnqueueFacts DEF Joined, TypeOK

LEMMA ScheduleType ==
  ASSUME TypeOK, NEW reason, schedule(reason)
  PROVE  /\ state' \in [Pids -> States]
         /\ ready' \in Seq(Pids \cup {NOT_FOUND})
         /\ blocked' \in Seq(Pids)
         /\ sleeping' \in Seq(Pids)
         /\ pid_running' \in Pids \cup {NOT_FOUND}
         /\ schdule_counter' \in 1..TIME_PIECE
         /\ panic' \in {"none", "schedule", "signal"}
<1> USE DEF TypeOK
<1>1. Dequeued(ready) \in Seq(Pids \cup {NOT_FOUND})
  BY DequeueFacts DEF Dequeued
<1>2. schdule_counter' \in 1..TIME_PIECE
  BY SchedAssumption DEF schedule
<1>3. CASE pid_dequeue(ready) = NOT_FOUND
  BY <1>1, <1>2, <1>3 DEF schedule
<1>4. CASE pid_dequeue(ready) # NOT_FOUND
  <2>1. pid_dequeue(ready) \in Pids
    BY <1>4, DequeueFacts DEF pid_dequeue
  <2>2. switch_to(pid_dequeue(ready), reason) /\ panic' = panic
    BY <1>4 DEF schedule
  <2>3. \A queue, joins : queue \in Seq(Pids) => Joined(queue, joins) \in Seq(Pids)
    BY JoinedType
  <2>4. \A joins : Joined(Dequeued(ready), joins) \in Seq(Pids \cup {NOT_FOUND})
    BY JoinedType, <1>1
  <2>5. StateAfter(reason) \in States
    BY DEF StateAfter, States
  <2>6. state' \in [Pids -> States]
    BY <2>2, <2>5 DEF switch_to, States
  <2>7. /\ ready' \in Seq(Pids \cup {NOT_FOUND})
        /\ blocked' \in Seq(Pids)
        /\ sleeping' \in Seq(Pids)
        /\ pid_running' \in Pids \cup {NOT_FOUND}
    BY <1>1, <2>1, <2>2, <2>3, <2>4 DEF switch_to
  <2> QED BY <1>2, <2>2, <2>6, <2>7
<1> QED BY <1>3, <1>4

LEMMA MakeReadyType ==
  ASSUME TypeOK, NEW pid \in Pids \cup {NOT_FOUND}, MakeReady(pid)
  PROVE  /\ state' \in [Pids -> States]
         /\ ready' \in Seq(Pids \cup {NOT_FOUND})
<1>1. ready' \in Seq(Pids \cup {NOT_FOUND})
  BY EnqueueFacts DEF MakeReady, TypeOK
<1> QED BY <1>1 DEF MakeReady, TypeOK, States

LEMMA FunctionIsSeq ==
  ASSUME NEW S, NEW n \in Nat, NEW f \in [1..n -> S]
  PROVE  f \in Seq(S)
OBVIOUS

LEMMA InitType == Init => TypeOK
<1> SUFFICES ASSUME Init PROVE TypeOK
  OBVIOUS
<1> USE DEF Init, sched_init, task_manager_init, semaphore_init
<1>1. gdt \subseteq Pids
  BY SchedAssumption DEF Pids
<1>2. ready \in Seq(Pids \cup {NOT_FOUND})
  <2>1. \A k \in 1..(2 + BootTasks) : SEGMENTS + k \in Pids
    BY SchedAssumption DEF Pids
  <2>2. 2 + BootTasks \in Nat
    BY SchedAssumption
  <2>3. ready \in [1..(2 + BootTasks) -> Pids \cup {NOT_FOUND}]
    BY <2>1
  <2> QED BY <2>2, <2>3, FunctionIsSeq
<1> QED BY <1>1, <1>2, SchedAssumption DEF TypeOK, States, Counters

LEMMA DecrementedType ==
  ASSUME NEW n \in Counters
  PROVE  Decremented(n) \in Counters
BY ConstantFacts DEF Decremented, Counters

LEMMA NextType == TypeOK /\ [Next]_vars => TypeOK'
<1> SUFFICES ASSUME TypeOK, [Next]_vars PROVE TypeOK'
  OBVIOUS
<1> USE DEF TypeOK
<1>1. CASE UNCHANGED vars
  BY <1>1 DEF vars
<1>2. CASE OnTimer
  BY <1>2 DEF OnTimer
<1>3. CASE CheckWakeup
  <2> DEFINE pid == sleeping[wake_i + 1]
             left == Decremented(wakeup_counter[pid])
  <2>1. pid \in Pids
    BY <1>3 DEF CheckWakeup
  <2>2. left \in Counters
    BY <2>1, DecrementedType
  <2>3. wakeup_counter' \in [Pids -> Counters]
    BY <1>3, <2>1, <2>2 DEF CheckWakeup
  <2>4. CASE left = 0
    <3>1. /\ sleeping' = pid_queue_delete(sleeping, wake_i)
          /\ MakeReady(pid)
          /\ wake_i' = wake_i
      BY <1>3, <2>4 DEF CheckWakeup, AfterDelete
    <3>2. sleeping' \in Seq(Pids)
      BY <3>1, DeleteType
    <3>3. state' \in [Pids -> States] /\ ready' \in Seq(Pids \cup {NOT_FOUND})
      BY <2>1, <3>1, MakeReadyType
    <3> HIDE DEF pid, left
    <3> QED BY <1>3, <2>3, <3>1, <3>2, <3>3 DEF CheckWakeup
  <2>5. CASE left # 0
    <3>1. wake_i' = wake_i + 1 /\ UNCHANGED <<sleeping, state, ready>>
      BY <1>3, <2>5 DEF CheckWakeup
    <3> HIDE DEF pid, left
    <3> QED BY <1>3, <2>3, <3>1 DEF CheckWakeup
  <2> QED BY <2>4, <2>5
<1>4. CASE CheckSchedule
  <2>1. CASE TimePieceOver(schdule_counter)
    BY <1>4, <2>1, ScheduleType DEF CheckSchedule
  <2>2. CASE ~TimePieceOver(schdule_counter)
    BY <1>4, <2>2, ConstantFacts DEF CheckSchedule, TimePieceOver
  <2> QED BY <2>1, <2>2
<1>5. CASE CreateTask
  BY <1>5, MakeReadyType, ConstantFacts DEF CreateTask
<1>6. ASSUME NEW counter \in SleepArgs, SysSleep(counter) PROVE TypeOK'
  <2>1. counter \in Counters /\ pid_running \in Pids
    BY <1>6, ConstantFacts DEF SysSleep, InTask, Counters
  <2>2. /\ wakeup_counter' \in [Pids -> Counters]
        /\ asked' \in [Pids -> Counters]
        /\ slept' \in [Pids -> Nat]
    BY <1>6, <2>1 DEF SysSleep
  <2> QED BY <1>6, <2>2, ScheduleType DEF SysSleep
<1>7. CASE SysExit
  BY <1>7, ScheduleType DEF SysExit
<1>8. ASSUME NEW s \in Semaphores, Wait(s) PROVE TypeOK'
  <2>1. pid_running \in Pids /\ count' \in [Semaphores -> Int]
    BY <1>8 DEF Wait, InTask
  <2>2. CASE MustBlock(count[s] - 1)
    <3>1. pid_enqueue(blocked_pids[s], pid_running) \in Seq(Pids)
      BY <2>1, EnqueueFacts
    <3>2. blocked_pids' \in [Semaphores -> Seq(Pids)]
      BY <1>8, <2>2, <3>1 DEF Wait
    <3> QED BY <1>8, <2>1, <2>2, <3>2, ScheduleType DEF Wait
  <2>3. CASE ~MustBlock(count[s] - 1)
    BY <1>8, <2>1, <2>3 DEF Wait
  <2> QED BY <2>2, <2>3
<1>9. ASSUME NEW s \in Semaphores, Signal(s) PROVE TypeOK'
  <2> DEFINE pid == pid_dequeue(blocked_pids[s])
             i == pid_queue_find(blocked, pid)
  <2>1. count' \in [Semaphores -> Int]
    BY <1>9 DEF Signal
  <2>2. pid \in Pids \cup {NOT_FOUND} /\ Dequeued(blocked_pids[s]) \in Seq(Pids)
    BY DequeueFacts DEF Dequeued, pid_dequeue
  <2>3. blocked_pids' \in [Semaphores -> Seq(Pids)]
    BY <1>9, <2>2 DEF Signal
  <2>4. i \in Nat
    <3>1. i \in Pids \cup {NOT_FOUND}
      BY <2>2 DEF pid_queue_find
    <3>2. \A p \in Pids \cup {NOT_FOUND} : p \in Nat
      BY PidFacts
    <3> QED BY <3>1, <3>2
  <2>5. /\ blocked' \in {blocked, pid_queue_delete(blocked, i)}
        /\ panic' \in {panic, "signal"}
        /\ \/ UNCHANGED <<state, ready>>
           \/ MakeReady(pid)
    BY <1>9 DEF Signal
  <2>6. blocked' \in Seq(Pids)
    <3>1. pid_queue_delete(blocked, i) \in Seq(Pids)
      BY <2>4, DeleteType
    <3> QED BY <2>5, <3>1
  <2>7. state' \in [Pids -> States] /\ ready' \in Seq(Pids \cup {NOT_FOUND})
    BY <2>2, <2>5, MakeReadyType
  <2> HIDE DEF pid, i
  <2> QED BY <1>9, <2>1, <2>3, <2>5, <2>6, <2>7 DEF Signal
<1> QED BY <1>1, <1>2, <1>3, <1>4, <1>5, <1>6, <1>7, <1>8, <1>9 DEF Next, Timer

(***************************************************************************)
(* Every variable keeps its type; in particular the time slice counter,    *)
(* an unsigned integer tested after its decrement, never reaches 0 outside *)
(* check_schedule, so it never wraps, and pid_running is always a pid or   *)
(* NOT_FOUND.                                                              *)
(***************************************************************************)
THEOREM TypeCorrect == Spec => []TypeOK
BY InitType, NextType, PTL DEF Spec
-----------------------------------------------------------------------------
(***************************************************************************)
(* The queues agree with the tasks.  The invariant that is inductive adds  *)
(* what keeps the ready queue from running empty: the idle tasks never     *)
(* sleep, block or exit, so the one that is not running is ready.          *)
(***************************************************************************)
IdleActive ==
  /\ panic # "schedule"
  /\ \A p \in Idle : p \in gdt /\ state[p] \in {"READY", "RUNNING"}

IInv == TypeOK /\ QueuesMatchTasks /\ IdleActive

(* The pid, if any, that a switch makes leave the processor. *)
Leaving == {pid_running} \ {NOT_FOUND}

LEMMA JoinedFacts ==
  ASSUME TypeOK, NEW S, Pids \subseteq S, NEW queue \in Seq(S), NEW joins,
         NoDuplicates(queue), pid_running \notin Elements(queue)
  PROVE  /\ Elements(Joined(queue, joins)) = 
                Elements(queue) \cup (IF joins THEN Leaving ELSE {})
         /\ NoDuplicates(Joined(queue, joins))
<1>1. CASE joins /\ pid_running # NOT_FOUND
  <2>1. pid_running \in S
    BY <1>1 DEF TypeOK
  <2>2. Joined(queue, joins) = pid_enqueue(queue, pid_running)
    BY <1>1 DEF Joined
  <2>3. (IF joins THEN Leaving ELSE {}) = {pid_running}
    BY <1>1 DEF Leaving
  <2>4. /\ Elements(pid_enqueue(queue, pid_running)) =
             Elements(queue) \cup {pid_running}
        /\ NoDuplicates(pid_enqueue(queue, pid_running))
    BY <2>1, EnqueueFacts
  <2> QED BY <2>2, <2>3, <2>4
<1>2. CASE ~(joins /\ pid_running # NOT_FOUND)
  BY <1>2 DEF Joined, Leaving
<1> QED BY <1>1, <1>2

LEMMA ReadyNotEmpty == IInv => ready # <<>>
<1> SUFFICES ASSUME IInv PROVE ready # <<>>
  OBVIOUS
<1>1. PICK p \in Idle : p # pid_running
  BY PidFacts
<1>2. p \in gdt /\ state[p] \in {"READY", "RUNNING"}
  BY <1>1 DEF IInv, IdleActive
<1>3. state[p] # "RUNNING"
  BY <1>1, <1>2 DEF IInv, QueuesMatchTasks, RunningMatches
<1>4. p \in Elements(ready)
  BY <1>2, <1>3 DEF IInv, QueuesMatchTasks, ReadyMatches
<1> QED BY <1>4 DEF Elements

(* What a call of schedule does, seen through the sets of queued pids. *)
LEMMA ScheduleEffect ==
  ASSUME IInv, NEW reason, schedule(reason)
  PROVE  /\ panic' = panic
         /\ NoDuplicates(ready') /\ NoDuplicates(sleeping')
         /\ Elements(sleeping') =
              Elements(sleeping)
                \cup (IF reason = "TASK_SLEEP" THEN Leaving ELSE {})
         /\ \E best \in gdt :
              /\ state[best] = "READY" /\ best # pid_running
              /\ pid_running' = best
              /\ state' = [p \in Pids |->
                            IF p = best THEN "RUNNING"
                            ELSE IF p = pid_running THEN StateAfter(reason)
                            ELSE state[p]]
              /\ Elements(ready') = (Elements(ready) \ {best})
                     \cup (IF reason = "TIME_PIECE_OVER" THEN Leaving ELSE {})
<1> DEFINE best == pid_dequeue(ready)
<1>1. TypeOK /\ ReadyMatches /\ SleepingMatches /\ RunningMatches
  BY DEF IInv, QueuesMatchTasks
<1>2. /\ best \in Elements(ready)
      /\ Dequeued(ready) \in Seq(Pids \cup {NOT_FOUND})
      /\ Elements(Dequeued(ready)) = Elements(ready) \ {best}
      /\ NoDuplicates(Dequeued(ready))
  BY <1>1, ReadyNotEmpty, DequeueFacts DEF TypeOK, ReadyMatches
<1>3. best \in gdt /\ state[best] = "READY" /\ best \in Pids
  BY <1>1, <1>2 DEF ReadyMatches, TypeOK
<1>4. best # NOT_FOUND
  BY <1>3, PidFacts
<1>5. best # pid_running
  BY <1>1, <1>3, <1>4 DEF RunningMatches
<1>6. /\ pid_running \notin Elements(ready)
      /\ pid_running \notin Elements(sleeping)
  <2>1. CASE pid_running = NOT_FOUND
    BY <1>1, <2>1, PidFacts DEF ReadyMatches, SleepingMatches, TypeOK
  <2>2. CASE pid_running # NOT_FOUND
    BY <1>1, <2>2 DEF ReadyMatches, SleepingMatches, RunningMatches
  <2> QED BY <2>1, <2>2
<1>7. switch_to(best, reason) /\ panic' = panic
  BY <1>4 DEF schedule
<1>8. /\ pid_running' = best
      /\ ready' = Joined(Dequeued(ready), reason = "TIME_PIECE_OVER")
      /\ sleeping' = Joined(sleeping, reason = "TASK_SLEEP")
      /\ state' = [p \in Pids |->
                     IF p = best THEN "RUNNING"
                     ELSE IF p = pid_running THEN StateAfter(reason)
                     ELSE state[p]]
  BY <1>5, <1>7 DEF switch_to
<1>9. /\ Elements(ready') =
           Elements(Dequeued(ready))
             \cup (IF reason = "TIME_PIECE_OVER" THEN Leaving ELSE {})
      /\ NoDuplicates(ready')
  BY <1>1, <1>2, <1>6, <1>8, JoinedFacts
<1>10. /\ Elements(sleeping') =
            Elements(sleeping)
              \cup (IF reason = "TASK_SLEEP" THEN Leaving ELSE {})
       /\ NoDuplicates(sleeping')
  BY <1>1, <1>6, <1>8, JoinedFacts DEF SleepingMatches, TypeOK
<1> HIDE DEF best
<1> QED BY <1>2, <1>3, <1>5, <1>7, <1>8, <1>9, <1>10
-----------------------------------------------------------------------------
(* The actions preserve the invariant, one lemma per action. *)

LEMMA InitInvariant == Init => IInv
<1> SUFFICES ASSUME Init PROVE IInv
  OBVIOUS
<1> USE DEF Init, sched_init, task_manager_init, semaphore_init
<1>1. TypeOK
  BY InitType
<1>2. Len(ready) = 2 + BootTasks /\ 2 + BootTasks \in Nat
  BY SchedAssumption
<1>3. \A p \in gdt : p \in Pids /\ state[p] = "READY"
  BY <1>1 DEF TypeOK
<1>4. Elements(ready) = gdt
  <2>1. Elements(ready) \subseteq gdt
    BY <1>2, SchedAssumption DEF Elements
  <2>2. ASSUME NEW p \in gdt PROVE p \in Elements(ready)
    <3>1. p - SEGMENTS \in 1..Len(ready) /\ ready[p - SEGMENTS] = p
      BY <1>2, <2>2, SchedAssumption
    <3> QED BY <3>1 DEF Elements
  <2> QED BY <2>1, <2>2
<1>5. NoDuplicates(ready)
  BY <1>2, SchedAssumption DEF NoDuplicates
<1>6. ReadyMatches
  BY <1>3, <1>4, <1>5 DEF ReadyMatches
<1>7. SleepingMatches
  BY <1>3 DEF SleepingMatches, NoDuplicates, Elements
<1>8. RunningMatches
  BY <1>3 DEF RunningMatches
<1>9. WaitersMatch
  BY <1>3 DEF WaitersMatch, NoDuplicates, Elements
<1>10. IdleActive
  BY <1>3, SchedAssumption DEF IdleActive, Idle
<1> QED BY <1>1, <1>6, <1>7, <1>8, <1>9, <1>10 DEF IInv, QueuesMatchTasks

LEMMA EnqueueNew ==
  ASSUME NEW S, NEW list \in Seq(S), NoDuplicates(list),
         NEW p \in S, p \notin Elements(list)
  PROVE  /\ Elements(pid_enqueue(list, p)) = Elements(list) \cup {p}
         /\ NoDuplicates(pid_enqueue(list, p))
BY EnqueueFacts

LEMMA MakeReadyFacts ==
  ASSUME TypeOK, ReadyMatches, NEW p \in Pids, p \notin Elements(ready),
         MakeReady(p)
  PROVE  /\ Elements(ready') = Elements(ready) \cup {p}
         /\ NoDuplicates(ready')
<1>1. ready \in Seq(Pids \cup {NOT_FOUND}) /\ p \in Pids \cup {NOT_FOUND}
  BY DEF TypeOK
<1>2. ready' = pid_enqueue(ready, p) /\ NoDuplicates(ready)
  BY DEF MakeReady, ReadyMatches
<1>3. /\ Elements(pid_enqueue(ready, p)) = Elements(ready) \cup {p}
      /\ NoDuplicates(pid_enqueue(ready, p))
  BY <1>1, <1>2, EnqueueNew
<1> QED BY <1>2, <1>3

LEMMA OnTimerInvariant == IInv /\ OnTimer => IInv'
<1> SUFFICES ASSUME IInv, OnTimer PROVE IInv'
  OBVIOUS
<1>1. TypeOK'
  BY NextType DEF IInv, Next, Timer
<1> QED BY <1>1 DEF IInv, OnTimer, QueuesMatchTasks, ReadyMatches,
             SleepingMatches, RunningMatches, WaitersMatch, IdleActive

LEMMA CheckWakeupInvariant == IInv /\ CheckWakeup => IInv'
<1> SUFFICES ASSUME IInv, CheckWakeup PROVE IInv'
  OBVIOUS
<1>1. TypeOK'
  BY NextType DEF IInv, Next, Timer
<1>2. /\ TypeOK /\ ReadyMatches /\ SleepingMatches /\ RunningMatches
      /\ WaitersMatch /\ IdleActive
  BY DEF IInv, QueuesMatchTasks, CheckWakeup
<1> DEFINE pid == sleeping[wake_i + 1]
           left == Decremented(wakeup_counter[pid])
<1>3. /\ UNCHANGED <<gdt, pid_running, blocked_pids, panic>>
      /\ \/ UNCHANGED <<sleeping, state, ready>>
         \/ sleeping' = pid_queue_delete(sleeping, wake_i) /\ MakeReady(pid)
  BY DEF CheckWakeup
<1>4. CASE UNCHANGED <<sleeping, state, ready>>
  BY <1>1, <1>2, <1>3, <1>4 DEF IInv, QueuesMatchTasks, ReadyMatches,
     SleepingMatches, RunningMatches, WaitersMatch, IdleActive
<1>5. CASE sleeping' = pid_queue_delete(sleeping, wake_i) /\ MakeReady(pid)
  <2>1. wake_i \in Nat /\ wake_i < Len(sleeping) /\ sleeping \in Seq(Pids)
    BY <1>2 DEF CheckWakeup, TypeOK
  <2>2. pid \in Elements(sleeping)
    BY <2>1 DEF Elements
  <2>3. pid \in gdt /\ state[pid] = "SLEEPING" /\ pid \in Pids
    BY <1>2, <2>2 DEF SleepingMatches, TypeOK
  <2>4. pid \notin Elements(ready)
    BY <1>2, <2>3 DEF ReadyMatches
  <2>5. /\ Elements(sleeping') = Elements(sleeping) \ {pid}
        /\ NoDuplicates(sleeping')
    BY <1>2, <1>5, <2>1, DeleteFacts DEF SleepingMatches
  <2>6. /\ Elements(ready') = Elements(ready) \cup {pid}
        /\ NoDuplicates(ready')
    BY <1>2, <1>5, <2>3, <2>4, MakeReadyFacts
  <2>7. \A p \in gdt : state'[p] = IF p = pid THEN "READY" ELSE state[p]
    BY <1>2, <1>5 DEF MakeReady, TypeOK
  <2> HIDE DEF pid
  <2>8. ReadyMatches'
    BY <1>2, <1>3, <2>3, <2>6, <2>7 DEF ReadyMatches
  <2>9. SleepingMatches'
    BY <1>2, <1>3, <2>5, <2>7 DEF SleepingMatches
  <2>10. RunningMatches'
    BY <1>2, <1>3, <2>3, <2>7 DEF RunningMatches
  <2>11. WaitersMatch'
    BY <1>2, <1>3, <2>3, <2>7 DEF WaitersMatch
  <2>12. IdleActive'
    BY <1>2, <1>3, <2>7 DEF IdleActive
  <2> QED BY <1>1, <2>8, <2>9, <2>10, <2>11, <2>12 DEF IInv, QueuesMatchTasks
<1> QED BY <1>3, <1>4, <1>5

LEMMA CheckScheduleInvariant == IInv /\ CheckSchedule => IInv'
<1> SUFFICES ASSUME IInv, CheckSchedule PROVE IInv'
  OBVIOUS
<1>1. TypeOK'
  BY NextType DEF IInv, Next, Timer
<1>2. /\ TypeOK /\ ReadyMatches /\ SleepingMatches /\ RunningMatches
      /\ WaitersMatch /\ IdleActive
  BY DEF IInv, QueuesMatchTasks, CheckSchedule
<1>3. UNCHANGED <<gdt, blocked_pids>>
  BY DEF CheckSchedule
<1>4. CASE ~TimePieceOver(schdule_counter)
  BY <1>1, <1>2, <1>4 DEF CheckSchedule, IInv, QueuesMatchTasks, ReadyMatches,
     SleepingMatches, RunningMatches, WaitersMatch, IdleActive
<1>5. CASE TimePieceOver(schdule_counter)
  <2>1. schedule("TIME_PIECE_OVER")
    BY <1>5 DEF CheckSchedule
  <2>2. /\ panic' = panic
        /\ NoDuplicates(ready') /\ NoDuplicates(sleeping')
        /\ Elements(sleeping') = Elements(sleeping)
    BY <2>1, ScheduleEffect
  <2>3. PICK best \in gdt :
          /\ state[best] = "READY" /\ best # pid_running
          /\ pid_running' = best
          /\ state' = [p \in Pids |->
                        IF p = best THEN "RUNNING"
                        ELSE IF p = pid_running THEN "READY"
                        ELSE state[p]]
          /\ Elements(ready') = (Elements(ready) \ {best}) \cup Leaving
    <3>1. StateAfter("TIME_PIECE_OVER") = "READY"
      BY DEF StateAfter
    <3> QED BY <2>1, <3>1, ScheduleEffect
  <2>4. \A p \in gdt : state'[p] = IF p = best THEN "RUNNING"
                                   ELSE IF p = pid_running THEN "READY"
                                   ELSE state[p]
    BY <1>2, <2>3 DEF TypeOK
  <2>5. \A p \in gdt : p = pid_running <=> state[p] = "RUNNING"
    BY <1>2, PidFacts DEF RunningMatches, TypeOK
  <2>6. ReadyMatches'
    <3>1. Leaving = {p \in gdt : p = pid_running}
      BY <1>2, PidFacts DEF Leaving, RunningMatches, TypeOK
    <3>2. Elements(ready') = {p \in gdt : state'[p] = "READY"}
      BY <1>2, <2>3, <2>4, <2>5, <3>1 DEF ReadyMatches
    <3> QED BY <1>3, <2>2, <3>2 DEF ReadyMatches
  <2>7. SleepingMatches'
    BY <1>2, <1>3, <2>2, <2>3, <2>4, <2>5 DEF SleepingMatches
  <2>8. RunningMatches'
    BY <1>2, <1>3, <2>3, <2>4, <2>5, PidFacts DEF RunningMatches, TypeOK
  <2>9. WaitersMatch'
    BY <1>2, <1>3, <2>3, <2>4, <2>5 DEF WaitersMatch
  <2>10. IdleActive'
    BY <1>2, <1>3, <2>2, <2>4 DEF IdleActive
  <2> QED BY <1>1, <2>6, <2>7, <2>8, <2>9, <2>10 DEF IInv, QueuesMatchTasks
<1> QED BY <1>4, <1>5

LEMMA CreateTaskInvariant == ~CreateWhenFull /\ IInv /\ CreateTask => IInv'
<1> SUFFICES ASSUME ~CreateWhenFull, IInv, CreateTask PROVE IInv'
  OBVIOUS
<1>1. TypeOK'
  BY NextType DEF IInv, Next
<1>2. /\ TypeOK /\ ReadyMatches /\ SleepingMatches /\ RunningMatches
      /\ WaitersMatch /\ IdleActive
  BY DEF IInv, QueuesMatchTasks, CreateTask, InTask
<1>3. PICK p \in Pids \cup {NOT_FOUND} :
        /\ get_pid_empty(p)
        /\ p # NOT_FOUND
        /\ gdt' = gdt \cup ({p} \cap Pids)
        /\ MakeReady(p)
  BY DEF CreateTask
<1>4. UNCHANGED <<pid_running, sleeping, blocked_pids, panic>>
  BY DEF CreateTask
<1>5. p \in Pids /\ p \notin gdt /\ gdt' = gdt \cup {p}
  BY <1>3 DEF get_pid_empty
<1>6. p \notin Elements(ready)
  BY <1>2, <1>5 DEF ReadyMatches
<1>7. /\ Elements(ready') = Elements(ready) \cup {p}
      /\ NoDuplicates(ready')
  BY <1>2, <1>3, <1>5, <1>6, MakeReadyFacts
<1>8. /\ state'[p] = "READY"
      /\ \A q \in gdt : q # p /\ state'[q] = state[q]
  BY <1>2, <1>3, <1>5 DEF MakeReady, TypeOK
<1>9. ReadyMatches'
  <2>1. Elements(ready') = {q \in gdt' : state'[q] = "READY"}
    BY <1>2, <1>5, <1>7, <1>8 DEF ReadyMatches
  <2> QED BY <1>7, <2>1 DEF ReadyMatches
<1>10. SleepingMatches'
  BY <1>2, <1>4, <1>5, <1>8 DEF SleepingMatches
<1>11. RunningMatches'
  BY <1>2, <1>4, <1>5, <1>8 DEF RunningMatches
<1>12. WaitersMatch'
  BY <1>2, <1>4, <1>5, <1>8 DEF WaitersMatch
<1>13. IdleActive'
  BY <1>2, <1>4, <1>5, <1>8 DEF IdleActive
<1> QED BY <1>1, <1>9, <1>10, <1>11, <1>12, <1>13 DEF IInv, QueuesMatchTasks

(* The running task, when it makes a call, is a task and no idle task. *)
LEMMA InTaskFacts ==
  ASSUME IInv, InTask
  PROVE  /\ pid_running \in gdt /\ pid_running \in Pids \ Idle
         /\ Leaving = {pid_running}
         /\ \A p \in gdt : p = pid_running <=> state[p] = "RUNNING"
<1>1. pid_running \in Pids \ Idle /\ pid_running # NOT_FOUND
  BY PidFacts DEF InTask
<1>2. RunningMatches
  BY DEF IInv, QueuesMatchTasks
<1> QED BY <1>1, <1>2 DEF Leaving, RunningMatches

LEMMA SysSleepInvariant ==
  ASSUME IInv, NEW counter \in SleepArgs, SysSleep(counter)
  PROVE  IInv'
<1>1. TypeOK'
  BY NextType DEF IInv, Next
<1>2. /\ TypeOK /\ ReadyMatches /\ SleepingMatches /\ RunningMatches
      /\ WaitersMatch /\ IdleActive
  BY DEF IInv, QueuesMatchTasks, SysSleep, InTask
<1>3. /\ UNCHANGED <<gdt, blocked_pids>>
      /\ schedule("TASK_SLEEP")
      /\ InTask
  BY DEF SysSleep
<1>4. /\ pid_running \in gdt /\ pid_running \in Pids \ Idle
      /\ Leaving = {pid_running}
      /\ \A p \in gdt : p = pid_running <=> state[p] = "RUNNING"
  BY <1>3, InTaskFacts
<1>5. StateAfter("TASK_SLEEP") = "SLEEPING"
  BY DEF StateAfter
<1>6. /\ panic' = panic
      /\ NoDuplicates(ready') /\ NoDuplicates(sleeping')
      /\ Elements(sleeping') = Elements(sleeping) \cup {pid_running}
  BY <1>3, <1>4, ScheduleEffect
<1>7. PICK best \in gdt :
        /\ state[best] = "READY" /\ best # pid_running
        /\ pid_running' = best
        /\ state' = [p \in Pids |->
                      IF p = best THEN "RUNNING"
                      ELSE IF p = pid_running THEN "SLEEPING"
                      ELSE state[p]]
        /\ Elements(ready') = Elements(ready) \ {best}
  BY <1>3, <1>5, ScheduleEffect
<1>8. \A p \in gdt : state'[p] = IF p = best THEN "RUNNING"
                                 ELSE IF p = pid_running THEN "SLEEPING"
                                 ELSE state[p]
  BY <1>2, <1>7 DEF TypeOK
<1>9. ReadyMatches'
  <2>1. Elements(ready') = {p \in gdt : state'[p] = "READY"}
    BY <1>2, <1>4, <1>7, <1>8 DEF ReadyMatches
  <2> QED BY <1>3, <1>6, <2>1 DEF ReadyMatches
<1>10. SleepingMatches'
  <2>1. Elements(sleeping') = {p \in gdt : state'[p] = "SLEEPING"}
    BY <1>2, <1>4, <1>6, <1>7, <1>8 DEF SleepingMatches
  <2> QED BY <1>3, <1>6, <2>1 DEF SleepingMatches
<1>11. RunningMatches'
  BY <1>2, <1>3, <1>4, <1>7, <1>8, PidFacts DEF RunningMatches, TypeOK
<1>12. WaitersMatch'
  BY <1>2, <1>3, <1>4, <1>7, <1>8 DEF WaitersMatch
<1>13. IdleActive'
  BY <1>2, <1>3, <1>4, <1>6, <1>8 DEF IdleActive
<1> QED BY <1>1, <1>9, <1>10, <1>11, <1>12, <1>13 DEF IInv, QueuesMatchTasks

LEMMA SysExitInvariant == IInv /\ SysExit => IInv'
<1> SUFFICES ASSUME IInv, SysExit PROVE IInv'
  OBVIOUS
<1>1. TypeOK'
  BY NextType DEF IInv, Next
<1>2. /\ TypeOK /\ ReadyMatches /\ SleepingMatches /\ RunningMatches
      /\ WaitersMatch /\ IdleActive
  BY DEF IInv, QueuesMatchTasks, SysExit, InTask
<1>3. /\ gdt' = gdt \ {pid_running}
      /\ UNCHANGED blocked_pids
      /\ schedule("TASK_EXIT")
      /\ InTask
  BY DEF SysExit
<1>4. /\ pid_running \in gdt /\ pid_running \in Pids \ Idle
      /\ \A p \in gdt : p = pid_running <=> state[p] = "RUNNING"
  BY <1>3, InTaskFacts
<1>5. /\ panic' = panic
      /\ NoDuplicates(ready') /\ NoDuplicates(sleeping')
      /\ Elements(sleeping') = Elements(sleeping)
  BY <1>3, ScheduleEffect
<1>6. PICK best \in gdt :
        /\ state[best] = "READY" /\ best # pid_running
        /\ pid_running' = best
        /\ state' = [p \in Pids |->
                      IF p = best THEN "RUNNING"
                      ELSE IF p = pid_running THEN StateAfter("TASK_EXIT")
                      ELSE state[p]]
        /\ Elements(ready') = Elements(ready) \ {best}
  BY <1>3, ScheduleEffect
<1>7. \A p \in gdt' : state'[p] = IF p = best THEN "RUNNING" ELSE state[p]
  BY <1>2, <1>3, <1>6 DEF TypeOK
<1>8. best \in gdt'
  BY <1>3, <1>6
<1>9. ReadyMatches'
  <2>1. Elements(ready') = {p \in gdt' : state'[p] = "READY"}
    BY <1>2, <1>3, <1>4, <1>6, <1>7 DEF ReadyMatches
  <2> QED BY <1>5, <2>1 DEF ReadyMatches
<1>10. SleepingMatches'
  <2>1. Elements(sleeping') = {p \in gdt' : state'[p] = "SLEEPING"}
    BY <1>2, <1>3, <1>4, <1>5, <1>6, <1>7 DEF SleepingMatches
  <2> QED BY <1>5, <2>1 DEF SleepingMatches
<1>11. RunningMatches'
  BY <1>2, <1>3, <1>4, <1>6, <1>7, <1>8, PidFacts DEF RunningMatches, TypeOK
<1>12. WaitersMatch'
  BY <1>2, <1>3, <1>4, <1>6, <1>7 DEF WaitersMatch
<1>13. IdleActive'
  BY <1>2, <1>3, <1>4, <1>5, <1>7 DEF IdleActive
<1> QED BY <1>1, <1>9, <1>10, <1>11, <1>12, <1>13 DEF IInv, QueuesMatchTasks

LEMMA WaitInvariant ==
  ASSUME IInv, NEW s \in Semaphores, Wait(s)
  PROVE  IInv'
<1>1. TypeOK'
  BY NextType DEF IInv, Next
<1>2. /\ TypeOK /\ ReadyMatches /\ SleepingMatches /\ RunningMatches
      /\ WaitersMatch /\ IdleActive
  BY DEF IInv, QueuesMatchTasks, Wait, InTask
<1>3. UNCHANGED gdt /\ InTask
  BY DEF Wait
<1>4. CASE ~MustBlock(count[s] - 1)
  BY <1>1, <1>2, <1>4 DEF Wait, IInv, QueuesMatchTasks, ReadyMatches,
     SleepingMatches, RunningMatches, WaitersMatch, IdleActive
<1>5. CASE MustBlock(count[s] - 1)
  <2>1. schedule("TASK_BLOCKED")
    BY <1>5 DEF Wait
  <2>2. /\ pid_running \in gdt /\ pid_running \in Pids \ Idle
        /\ \A p \in gdt : p = pid_running <=> state[p] = "RUNNING"
    BY <1>3, InTaskFacts
  <2>3. StateAfter("TASK_BLOCKED") = "BLOCKED"
    BY DEF StateAfter
  <2>4. /\ panic' = panic
        /\ NoDuplicates(ready') /\ NoDuplicates(sleeping')
        /\ Elements(sleeping') = Elements(sleeping)
    BY <2>1, ScheduleEffect
  <2>5. PICK best \in gdt :
          /\ state[best] = "READY" /\ best # pid_running
          /\ pid_running' = best
          /\ state' = [p \in Pids |->
                        IF p = best THEN "RUNNING"
                        ELSE IF p = pid_running THEN "BLOCKED"
                        ELSE state[p]]
          /\ Elements(ready') = Elements(ready) \ {best}
    BY <2>1, <2>3, ScheduleEffect
  <2>6. \A p \in gdt : state'[p] = IF p = best THEN "RUNNING"
                                   ELSE IF p = pid_running THEN "BLOCKED"
                                   ELSE state[p]
    BY <1>2, <2>5 DEF TypeOK
  <2>7. ReadyMatches'
    <3>1. Elements(ready') = {p \in gdt : state'[p] = "READY"}
      BY <1>2, <2>2, <2>5, <2>6 DEF ReadyMatches
    <3> QED BY <1>3, <2>4, <3>1 DEF ReadyMatches
  <2>8. SleepingMatches'
    BY <1>2, <1>3, <2>2, <2>4, <2>5, <2>6 DEF SleepingMatches
  <2>9. RunningMatches'
    BY <1>2, <1>3, <2>2, <2>5, <2>6, PidFacts DEF RunningMatches, TypeOK
  <2>10. WaitersMatch'
    <3>0. blocked_pids' = [blocked_pids EXCEPT
                             ![s] = pid_enqueue(@, pid_running)]
      BY <1>5 DEF Wait
    <3>1. blocked_pids[s] \in Seq(Pids) /\ NoDuplicates(blocked_pids[s])
      BY <1>2 DEF TypeOK, WaitersMatch
    <3>2. \A t \in Semaphores : pid_running \notin Elements(blocked_pids[t])
      BY <1>2, <2>2 DEF WaitersMatch
    <3>3. /\ Elements(blocked_pids'[s]) = Elements(blocked_pids[s]) \cup {pid_running}
          /\ NoDuplicates(blocked_pids'[s])
      <4>1. blocked_pids'[s] = pid_enqueue(blocked_pids[s], pid_running)
        BY <1>2, <3>0 DEF TypeOK
      <4> QED BY <2>2, <3>1, <3>2, <4>1, EnqueueNew
    <3>4. \A t \in Semaphores : t # s => blocked_pids'[t] = blocked_pids[t]
      BY <1>2, <3>0 DEF TypeOK
    <3>5. \A t \in Semaphores : NoDuplicates(blocked_pids'[t])
      BY <1>2, <3>3, <3>4 DEF WaitersMatch
    <3>6. \A t \in Semaphores : \A p \in Elements(blocked_pids'[t]) :
            p \in gdt /\ state'[p] = "BLOCKED"
      BY <1>2, <2>2, <2>5, <2>6, <3>3, <3>4 DEF WaitersMatch
    <3>7. \A p \in gdt : state'[p] = "BLOCKED" =>
            \E t \in Semaphores : p \in Elements(blocked_pids'[t])
      BY <1>2, <2>2, <2>5, <2>6, <3>3, <3>4 DEF WaitersMatch
    <3>8. \A t, u \in Semaphores :
            t # u => Elements(blocked_pids'[t]) \cap Elements(blocked_pids'[u]) = {}
      BY <1>2, <3>2, <3>3, <3>4 DEF WaitersMatch
    <3> QED BY <1>3, <3>5, <3>6, <3>7, <3>8 DEF WaitersMatch
  <2>11. IdleActive'
    BY <1>2, <1>3, <2>2, <2>4, <2>6 DEF IdleActive
  <2> QED BY <1>1, <2>7, <2>8, <2>9, <2>10, <2>11 DEF IInv, QueuesMatchTasks
<1> QED BY <1>4, <1>5

LEMMA SignalInvariant ==
  ASSUME IInv, NEW s \in Semaphores, Signal(s)
  PROVE  IInv'
<1>1. TypeOK'
  BY NextType DEF IInv, Next
<1>2. /\ TypeOK /\ ReadyMatches /\ SleepingMatches /\ RunningMatches
      /\ WaitersMatch /\ IdleActive
  BY DEF IInv, QueuesMatchTasks, Signal, InTask
<1>3. /\ UNCHANGED <<gdt, sleeping, pid_running>>
      /\ blocked_pids' = [blocked_pids EXCEPT ![s] = Dequeued(@)]
  BY DEF Signal
<1>4. blocked_pids[s] \in Seq(Pids) /\ NoDuplicates(blocked_pids[s])
  BY <1>2 DEF TypeOK, WaitersMatch
<1> DEFINE w == pid_dequeue(blocked_pids[s])
<1>5. CASE blocked_pids[s] = <<>>
  <2>1. w = NOT_FOUND /\ Dequeued(blocked_pids[s]) = blocked_pids[s]
    BY <1>5 DEF pid_dequeue, Dequeued
  <2>2. UNCHANGED <<state, ready, panic>>
    BY <2>1 DEF Signal
  <2>3. UNCHANGED blocked_pids
    BY <1>2, <1>3, <2>1 DEF TypeOK
  <2> QED BY <1>1, <1>2, <1>3, <2>2, <2>3 DEF IInv, QueuesMatchTasks,
             ReadyMatches, SleepingMatches, RunningMatches, WaitersMatch,
             IdleActive
<1>6. CASE blocked_pids[s] # <<>>
  <2>1. /\ w \in Elements(blocked_pids[s])
        /\ Elements(Dequeued(blocked_pids[s])) = Elements(blocked_pids[s]) \ {w}
        /\ NoDuplicates(Dequeued(blocked_pids[s]))
    BY <1>4, <1>6, DequeueFacts
  <2>2. w \in gdt /\ state[w] = "BLOCKED" /\ w \in Pids
    BY <1>2, <2>1 DEF WaitersMatch, TypeOK
  <2>3. w # NOT_FOUND
    BY <2>2, PidFacts
  <2>4. \/ panic' = "signal" /\ UNCHANGED <<state, ready>>
        \/ UNCHANGED panic /\ MakeReady(w)
    BY <2>3 DEF Signal
  <2> HIDE DEF w
  <2>5. CASE panic' = "signal" /\ UNCHANGED <<state, ready>>
    BY <1>1, <1>2, <1>3, <2>5 DEF IInv, QueuesMatchTasks, ReadyMatches,
       SleepingMatches, RunningMatches, IdleActive
  <2>6. CASE UNCHANGED panic /\ MakeReady(w)
    <3>1. w \notin Elements(ready)
      BY <1>2, <2>2 DEF ReadyMatches
    <3>2. /\ Elements(ready') = Elements(ready) \cup {w}
          /\ NoDuplicates(ready')
      BY <1>2, <2>2, <2>6, <3>1, MakeReadyFacts
    <3>3. \A p \in gdt : state'[p] = IF p = w THEN "READY" ELSE state[p]
      BY <1>2, <2>6 DEF MakeReady, TypeOK
    <3>4. ReadyMatches'
      <4>1. Elements(ready') = {p \in gdt : state'[p] = "READY"}
        BY <1>2, <2>2, <3>2, <3>3 DEF ReadyMatches
      <4> QED BY <1>3, <3>2, <4>1 DEF ReadyMatches
    <3>5. SleepingMatches'
      BY <1>2, <1>3, <2>2, <3>3 DEF SleepingMatches
    <3>6. RunningMatches'
      BY <1>2, <1>3, <2>2, <3>3 DEF RunningMatches
    <3>7. WaitersMatch'
      <4>1. /\ Elements(blocked_pids'[s]) = Elements(blocked_pids[s]) \ {w}
            /\ NoDuplicates(blocked_pids'[s])
        BY <1>2, <1>3, <2>1 DEF TypeOK
      <4>2. \A t \in Semaphores : t # s => blocked_pids'[t] = blocked_pids[t]
        BY <1>2, <1>3 DEF TypeOK
      <4>3. \A t \in Semaphores : t # s => w \notin Elements(blocked_pids[t])
        BY <1>2, <2>1 DEF WaitersMatch
      <4>4. \A t \in Semaphores :
              /\ NoDuplicates(blocked_pids'[t])
              /\ \A p \in Elements(blocked_pids'[t]) :
                   p \in gdt /\ state'[p] = "BLOCKED"
        BY <1>2, <3>3, <4>1, <4>2, <4>3 DEF WaitersMatch
      <4>5. \A p \in gdt : state'[p] = "BLOCKED" =>
              \E t \in Semaphores : p \in Elements(blocked_pids'[t])
        BY <1>2, <3>3, <4>1, <4>2 DEF WaitersMatch
      <4>6. \A t, u \in Semaphores :
              t # u => Elements(blocked_pids'[t]) \cap Elements(blocked_pids'[u]) = {}
        BY <1>2, <4>1, <4>2 DEF WaitersMatch
      <4> QED BY <1>3, <4>4, <4>5, <4>6 DEF WaitersMatch
    <3>8. IdleActive'
      BY <1>2, <1>3, <2>6, <3>3 DEF IdleActive
    <3> QED BY <1>1, <3>4, <3>5, <3>6, <3>7, <3>8 DEF IInv, QueuesMatchTasks
  <2> QED BY <2>4, <2>5, <2>6
<1> QED BY <1>5, <1>6

LEMMA NextInvariant == ~CreateWhenFull /\ IInv /\ [Next]_vars => IInv'
<1> SUFFICES ASSUME ~CreateWhenFull, IInv, [Next]_vars PROVE IInv'
  OBVIOUS
<1>1. CASE UNCHANGED vars
  BY <1>1 DEF vars, IInv, TypeOK, QueuesMatchTasks, ReadyMatches,
     SleepingMatches, RunningMatches, WaitersMatch, IdleActive
<1> QED
  BY <1>1, OnTimerInvariant, CheckWakeupInvariant, CheckScheduleInvariant,
     CreateTaskInvariant, SysSleepInvariant, SysExitInvariant, WaitInvariant,
     SignalInvariant DEF Next, Timer

(***************************************************************************)
(* As long as no task is created on a full GDT, the queues of the task     *)
(* manager agree with the tasks, as sched.h:14 demands: for any number of  *)
(* tasks and semaphores, every interleaving of timer interrupts and kernel *)
(* calls, and although signal may delete the wrong pid from                *)
(* pid_queue_blocked.                                                      *)
(***************************************************************************)
THEOREM QueuesConsistent == ASSUME ~CreateWhenFull PROVE Spec => []QueuesMatchTasks
<1>1. Init => IInv
  BY InitInvariant
<1>2. IInv /\ [Next]_vars => IInv'
  BY NextInvariant
<1>3. IInv => QueuesMatchTasks
  BY DEF IInv
<1> QED BY <1>1, <1>2, <1>3, PTL DEF Spec

(***************************************************************************)
(* The scheduler always finds a task to run: with two idle tasks the ready *)
(* queue is never empty, so schedule never ends in its _DEBUG loop.        *)
(***************************************************************************)
THEOREM SchedulerAlwaysFindsATask ==
  ASSUME ~CreateWhenFull PROVE Spec => []SchedulerNeverStuck
<1>1. Init => IInv
  BY InitInvariant
<1>2. IInv /\ [Next]_vars => IInv'
  BY NextInvariant
<1>3. IInv => SchedulerNeverStuck
  BY ReadyNotEmpty DEF IInv, IdleActive, SchedulerNeverStuck
<1> QED BY <1>1, <1>2, <1>3, PTL DEF Spec

LEMMA StepReusesPids ==
  ASSUME ~CreateWhenFull, IInv, [Next]_vars
  PROVE  \A p \in gdt' \ gdt :
           /\ p # pid_running
           /\ p \notin Elements(ready) \cup Elements(sleeping)
           /\ \A s \in Semaphores : p \notin Elements(blocked_pids[s])
<1>1. CASE CreateTask
  <2>1. /\ ReadyMatches /\ SleepingMatches /\ RunningMatches /\ WaitersMatch
        /\ gdt' \subseteq Pids
    <3>1. TypeOK'
      BY NextType DEF IInv
    <3> QED BY <1>1, <3>1 DEF IInv, QueuesMatchTasks, CreateTask, InTask, TypeOK
  <2> QED BY <2>1, PidFacts DEF ReadyMatches, SleepingMatches, RunningMatches,
             WaitersMatch
<1>2. CASE ~CreateTask
  <2>1. gdt' \subseteq gdt
    BY <1>2 DEF Next, Timer, vars, OnTimer, CheckWakeup, CheckSchedule,
                SysSleep, SysExit, Wait, Signal
  <2> QED BY <2>1
<1> QED BY <1>1, <1>2

(***************************************************************************)
(* A pid that create_task hands out again is free: its last task left no   *)
(* entry in the ready queue, the sleeping queue or a semaphore's queue,    *)
(* and is not running (task.c:58-59, sched.c:124).                         *)
(***************************************************************************)
THEOREM PidsAreReusedSafely == ASSUME ~CreateWhenFull PROVE Spec => PidReuse
<1>1. Init => IInv
  BY InitInvariant
<1>2. IInv /\ [Next]_vars => IInv'
  BY NextInvariant
<1>3. IInv /\ [Next]_vars =>
        [\A p \in gdt' \ gdt :
           /\ p # pid_running
           /\ p \notin Elements(ready) \cup Elements(sleeping)
           /\ \A s \in Semaphores : p \notin Elements(blocked_pids[s])]_vars
  BY StepReusesPids
<1> QED BY <1>1, <1>2, <1>3, PTL DEF Spec, PidReuse
-----------------------------------------------------------------------------
(* Semaphores. *)

(* The balance of one semaphore. *)
Balanced(n, list) == Len(list) = IF n < 0 THEN -n ELSE 0

LEMMA WaitBalance ==
  ASSUME NEW n \in Int, NEW list \in Seq(Pids), NEW p \in Pids,
         Balanced(n, list)
  PROVE  IF MustBlock(n - 1) THEN Balanced(n - 1, pid_enqueue(list, p))
                             ELSE Balanced(n - 1, list)
<1>1. Len(pid_enqueue(list, p)) = Len(list) + 1
  BY EnqueueFacts
<1> QED BY <1>1 DEF Balanced, MustBlock

LEMMA SignalBalance ==
  ASSUME NEW n \in Int, NEW list \in Seq(Pids), Balanced(n, list)
  PROVE  Balanced(n + 1, Dequeued(list))
<1>1. CASE list = <<>>
  <2>1. Dequeued(list) = list /\ Len(list) = 0
    BY <1>1 DEF Dequeued
  <2> QED BY <2>1 DEF Balanced
<1>2. CASE list # <<>>
  <2>1. Len(Dequeued(list)) = Len(list) - 1 /\ Len(list) # 0
    BY <1>2, DequeueFacts
  <2> QED BY <2>1 DEF Balanced
<1> QED BY <1>1, <1>2

LEMMA NextBalance ==
  ASSUME TypeOK, SemaphoreBalance, [Next]_vars
  PROVE  SemaphoreBalance'
<1>1. \A s \in Semaphores : /\ count[s] \in Int
                            /\ blocked_pids[s] \in Seq(Pids)
                            /\ Balanced(count[s], blocked_pids[s])
  BY DEF TypeOK, SemaphoreBalance, Balanced
<1>2. ASSUME NEW s \in Semaphores, Wait(s) PROVE SemaphoreBalance'
  <2>1. /\ count' = [count EXCEPT ![s] = count[s] - 1]
        /\ blocked_pids' = IF MustBlock(count[s] - 1)
             THEN [blocked_pids EXCEPT
                     ![s] = pid_enqueue(blocked_pids[s], pid_running)]
             ELSE blocked_pids
        /\ pid_running \in Pids
    BY <1>2 DEF Wait, InTask
  <2>2. IF MustBlock(count[s] - 1)
          THEN Balanced(count[s] - 1, pid_enqueue(blocked_pids[s], pid_running))
          ELSE Balanced(count[s] - 1, blocked_pids[s])
    BY <1>1, <2>1, WaitBalance
  <2>3. \A t \in Semaphores : Balanced(count'[t], blocked_pids'[t])
    BY <1>1, <2>1, <2>2 DEF TypeOK
  <2> QED BY <2>3 DEF SemaphoreBalance, Balanced
<1>3. ASSUME NEW s \in Semaphores, Signal(s) PROVE SemaphoreBalance'
  <2>1. /\ count' = [count EXCEPT ![s] = count[s] + 1]
        /\ blocked_pids' = [blocked_pids EXCEPT ![s] = Dequeued(blocked_pids[s])]
    BY <1>3 DEF Signal
  <2>2. Balanced(count[s] + 1, Dequeued(blocked_pids[s]))
    BY <1>1, SignalBalance
  <2>3. \A t \in Semaphores : Balanced(count'[t], blocked_pids'[t])
    BY <1>1, <2>1, <2>2 DEF TypeOK
  <2> QED BY <2>3 DEF SemaphoreBalance, Balanced
<1>4. CASE ~\E s \in Semaphores : Wait(s) \/ Signal(s)
  <2>1. UNCHANGED <<count, blocked_pids>>
    BY <1>4 DEF Next, Timer, vars, OnTimer, CheckWakeup, CheckSchedule,
                CreateTask, SysSleep, SysExit
  <2> QED BY <2>1 DEF SemaphoreBalance
<1> QED BY <1>2, <1>3, <1>4

(***************************************************************************)
(* A semaphore's count, when negative, is the number of tasks waiting for  *)
(* it, and nobody waits while it is not: for every number of semaphores    *)
(* and tasks, even if tasks are created on a full GDT.                     *)
(***************************************************************************)
THEOREM SemaphoresBalanced == Spec => []SemaphoreBalance
<1>1. Init => TypeOK /\ SemaphoreBalance
  <2>1. Init => SemaphoreBalance
    BY SchedAssumption DEF Init, semaphore_init, SemaphoreBalance
  <2> QED BY <2>1, InitType
<1>2. TypeOK /\ SemaphoreBalance /\ [Next]_vars => (TypeOK /\ SemaphoreBalance)'
  BY NextType, NextBalance
<1> QED BY <1>1, <1>2, PTL DEF Spec
-----------------------------------------------------------------------------
(* The sleeping and the blocked queue when a task gives up the processor. *)
LEMMA ScheduleQueues ==
  ASSUME IInv, NEW reason, schedule(reason)
  PROVE  /\ sleeping' = Joined(sleeping, reason = "TASK_SLEEP")
         /\ blocked' = Joined(blocked, reason = "TASK_BLOCKED")
<1>1. pid_running' # pid_running
  BY ScheduleEffect
<1>2. switch_to(pid_dequeue(ready), reason)
  BY <1>1 DEF schedule
<1> QED BY <1>1, <1>2 DEF switch_to

(***************************************************************************)
(* Sleeping.  The counter of a sleeping task and the ticks it has slept    *)
(* make up what it asked for; during check_wakeup, the tasks the loop has  *)
(* not come to have slept a tick that their counter does not show yet.     *)
(***************************************************************************)
Owed(k) == IF irq = "check_wakeup" /\ k > wake_i THEN 1 ELSE 0

SleepInv ==
  /\ irq = "check_wakeup" => wake_i <= Len(sleeping)
  /\ \A k \in 1..Len(sleeping) :
       /\ wakeup_counter[sleeping[k]] >= 1
       /\ wakeup_counter[sleeping[k]] + slept[sleeping[k]] = asked[sleeping[k]] + Owed(k)

(***************************************************************************)
(* Blocking on one semaphore.  Its queue and the system-wide one are the   *)
(* same.  signal deletes slot number pid_wake_up of the latter: that is no *)
(* slot of a queue shorter than every pid, so that its first pid is lost.  *)
(***************************************************************************)
FewWait == Len(blocked) < SEGMENTS + 3

BlockInv ==
  /\ panic # "signal"
  /\ \A s \in Semaphores : blocked = blocked_pids[s]

(* What a step may do to the sleepers: WakesOnTime is about every step. *)
OnTime ==
  /\ \A p \in Elements(sleeping) \ Elements(sleeping') : slept[p] = asked[p]
  /\ irq' = "none" => \A p \in Elements(sleeping') : slept'[p] < asked'[p]

LEMMA SleeperTypes ==
  ASSUME TypeOK
  PROVE  /\ Len(sleeping) \in Nat
         /\ \A k \in 1..Len(sleeping) :
              /\ sleeping[k] \in Pids /\ sleeping[k] \in Elements(sleeping)
              /\ wakeup_counter[sleeping[k]] \in 0..(COUNTER_MOD - 1)
              /\ asked[sleeping[k]] \in 0..(COUNTER_MOD - 1)
              /\ slept[sleeping[k]] \in Nat
<1>1. sleeping \in Seq(Pids) /\ Len(sleeping) \in Nat
  BY DEF TypeOK
<1>2. \A k \in 1..Len(sleeping) : sleeping[k] \in Pids /\ sleeping[k] \in Elements(sleeping)
  BY <1>1 DEF Elements
<1> QED BY <1>1, <1>2 DEF TypeOK, Counters

(* Outside the interrupt, a sleeping task has not slept as long as it asked. *)
LEMMA StillSleeping ==
  ASSUME TypeOK, SleepInv, irq = "none" \/ wake_i = Len(sleeping)
  PROVE  \A p \in Elements(sleeping) : slept[p] < asked[p]
<1> SUFFICES ASSUME NEW k \in 1..Len(sleeping) PROVE slept[sleeping[k]] < asked[sleeping[k]]
  BY DEF Elements
<1>1. Owed(k) = 0
  BY SleeperTypes DEF Owed
<1>2. /\ wakeup_counter[sleeping[k]] \in Nat /\ wakeup_counter[sleeping[k]] >= 1
      /\ asked[sleeping[k]] \in Nat /\ slept[sleeping[k]] \in Nat
      /\ wakeup_counter[sleeping[k]] + slept[sleeping[k]] = asked[sleeping[k]] + 0
  BY <1>1, SleeperTypes, ConstantFacts DEF SleepInv
<1> QED BY <1>2

(* A step that concerns neither the sleepers nor the interrupt. *)
LEMMA SleepersAlone ==
  ASSUME TypeOK, SleepInv, irq = "none", sleeping' = sleeping, slept' = slept, asked' = asked,
         wakeup_counter' = wakeup_counter, irq' = irq
  PROVE  SleepInv' /\ OnTime
<1>1. \A p \in Elements(sleeping) : slept[p] < asked[p]
  BY StillSleeping
<1>2. OnTime
  BY <1>1 DEF OnTime
<1>3. \A k : Owed(k) = 0 /\ Owed(k)' = 0
  BY DEF Owed
<1>4. SleepInv'
  BY <1>3 DEF SleepInv
<1> QED BY <1>2, <1>4

LEMMA OnTimerSleep ==
  ASSUME TypeOK, SleepInv, OnTimer
  PROVE  SleepInv' /\ OnTime
<1>1. /\ irq = "none" /\ irq' = "check_wakeup" /\ wake_i' = 0 /\ sleeping' = sleeping
      /\ asked' = asked /\ wakeup_counter' = wakeup_counter
      /\ slept' = [pid \in Pids |->
                     CASE pid \notin Elements(sleeping)  -> 0
                       [] slept[pid] >= COUNTER_MOD      -> slept[pid]
                       [] OTHER                          -> slept[pid] + 1]
  BY DEF OnTimer
<1>2. OnTime
  BY <1>1 DEF OnTime
<1>3. ASSUME NEW k \in 1..Len(sleeping)
      PROVE  /\ wakeup_counter'[sleeping'[k]] >= 1
             /\ wakeup_counter'[sleeping'[k]] + slept'[sleeping'[k]] = asked'[sleeping'[k]] + Owed(k)'
  <2>1. PICK p : p = sleeping[k]
    OBVIOUS
  <2>2. /\ p \in Pids /\ p \in Elements(sleeping) /\ wakeup_counter[p] \in Nat /\ slept[p] \in Nat
        /\ asked[p] \in 0..(COUNTER_MOD - 1) /\ COUNTER_MOD \in Nat
    BY <2>1, SleeperTypes, ConstantFacts
  <2>3. wakeup_counter[p] >= 1 /\ wakeup_counter[p] + slept[p] = asked[p] + 0
    BY <1>1, <2>1 DEF SleepInv, Owed
  <2>4. ~(slept[p] >= COUNTER_MOD)
    BY <2>2, <2>3
  <2>5. slept'[p] = slept[p] + 1
    BY <1>1, <2>2, <2>4
  <2>6. Owed(k)' = 1
    BY <1>1 DEF Owed
  <2>7. wakeup_counter[p] + (slept[p] + 1) = asked[p] + 1
    BY <2>2, <2>3
  <2> QED BY <1>1, <2>1, <2>3, <2>5, <2>6, <2>7
<1>4. wake_i' <= Len(sleeping')
  BY <1>1, SleeperTypes
<1>5. SleepInv'
  BY <1>1, <1>3, <1>4 DEF SleepInv
<1> QED BY <1>2, <1>5

LEMMA CheckWakeupSleep ==
  ASSUME TypeOK, SleepingMatches, SleepInv, CheckWakeup
  PROVE  SleepInv' /\ OnTime
<1>1. PICK pid, left : pid = sleeping[wake_i + 1] /\ left = Decremented(wakeup_counter[pid])
  OBVIOUS
<1>2. /\ irq = "check_wakeup" /\ irq' = irq /\ wake_i < Len(sleeping) /\ wake_i \in Nat
      /\ wakeup_counter' = [wakeup_counter EXCEPT ![pid] = left]
      /\ slept' = slept /\ asked' = asked
      /\ IF left = 0 THEN sleeping' = pid_queue_delete(sleeping, wake_i) /\ wake_i' = wake_i
         ELSE wake_i' = wake_i + 1 /\ sleeping' = sleeping
      /\ Len(sleeping) \in Nat /\ sleeping \in Seq(Pids) /\ NoDuplicates(sleeping)
  BY <1>1, SleeperTypes DEF CheckWakeup, AfterDelete, TypeOK, SleepingMatches
<1>3. wake_i + 1 \in 1..Len(sleeping)
  BY <1>2
<1>4. /\ pid \in Pids /\ pid \in Elements(sleeping) /\ wakeup_counter[pid] \in 1..(COUNTER_MOD - 1)
      /\ asked[pid] \in Nat /\ slept[pid] \in Nat /\ COUNTER_MOD \in Nat
      /\ wakeup_counter[pid] + slept[pid] = asked[pid] + 1
  <2>1. /\ pid \in Pids /\ pid \in Elements(sleeping) /\ wakeup_counter[pid] \in 0..(COUNTER_MOD - 1)
        /\ asked[pid] \in 0..(COUNTER_MOD - 1) /\ slept[pid] \in Nat
    BY <1>1, <1>3, SleeperTypes
  <2>2. Owed(wake_i + 1) = 1
    BY <1>2 DEF Owed
  <2>3. wakeup_counter[pid] >= 1 /\ wakeup_counter[pid] + slept[pid] = asked[pid] + 1
    BY <1>1, <1>3, <2>2 DEF SleepInv
  <2> QED BY <2>1, <2>3, ConstantFacts
<1>5. left = wakeup_counter[pid] - 1
  <2>1. PICK n \in 0..(COUNTER_MOD - 1), m \in Nat \ {0} : n = wakeup_counter[pid] - 1 /\ m = COUNTER_MOD
    BY <1>4
  <2>2. n % m = n
    BY <2>1
  <2> QED BY <1>1, <2>1, <2>2, Zenon DEF Decremented
<1>6. wakeup_counter'[pid] = left /\ \A p \in Pids : p # pid => wakeup_counter'[p] = wakeup_counter[p]
  BY <1>2, <1>4 DEF TypeOK
<1>7. \A k \in 1..Len(sleeping) : sleeping[k] = pid => k = wake_i + 1
  BY <1>1, <1>2, <1>3 DEF NoDuplicates
<1>8. \A k \in 1..Len(sleeping) :
        /\ sleeping[k] \in Pids /\ wakeup_counter[sleeping[k]] >= 1
        /\ wakeup_counter[sleeping[k]] + slept[sleeping[k]] =
             asked[sleeping[k]] + (IF k > wake_i THEN 1 ELSE 0)
  BY <1>2, SleeperTypes DEF SleepInv, Owed
<1>9. CASE left = 0
  <2>1. sleeping' = pid_queue_delete(sleeping, wake_i) /\ wake_i' = wake_i
    BY <1>2, <1>9
  <2>2. /\ Len(sleeping) - 1 \in Nat
        /\ sleeping' = [k \in 1..(Len(sleeping) - 1) |->
                          IF k < wake_i + 1 THEN sleeping[k] ELSE sleeping[k + 1]]
    BY <1>2, <2>1 DEF pid_queue_delete, Dropped
  <2>3. Len(sleeping') = Len(sleeping) - 1 /\ Elements(sleeping') = Elements(sleeping) \ {pid}
    BY <1>1, <1>2, <2>1, DeleteFacts
  <2>4. slept[pid] = asked[pid]
    BY <1>4, <1>5, <1>9
  <2>5. OnTime
    BY <1>2, <2>3, <2>4 DEF OnTime
  <2>6. ASSUME NEW k \in 1..Len(sleeping')
        PROVE  /\ wakeup_counter'[sleeping'[k]] >= 1
               /\ wakeup_counter'[sleeping'[k]] + slept'[sleeping'[k]] = asked'[sleeping'[k]] + Owed(k)'
    <3>1. PICK j \in 1..Len(sleeping) : j = IF k < wake_i + 1 THEN k ELSE k + 1
      BY <1>2, <2>3
    <3>2. sleeping'[k] = sleeping[j] /\ j # wake_i + 1 /\ (j > wake_i <=> k > wake_i)
      <4>1. k \in 1..(Len(sleeping) - 1)
        BY <2>3
      <4>2. sleeping'[k] = sleeping[j]
        BY <2>2, <3>1, <4>1
      <4>3. j # wake_i + 1 /\ (j > wake_i <=> k > wake_i)
        BY <1>2, <3>1, <4>1
      <4> QED BY <4>2, <4>3
    <3>3. wakeup_counter'[sleeping[j]] = wakeup_counter[sleeping[j]]
      BY <1>6, <1>7, <1>8, <3>2
    <3>4. Owed(k)' = IF j > wake_i THEN 1 ELSE 0
      BY <1>2, <2>1, <3>2 DEF Owed
    <3> QED BY <1>2, <1>8, <3>2, <3>3, <3>4
  <2>7. wake_i' <= Len(sleeping')
    BY <1>2, <2>1, <2>3
  <2> QED BY <2>5, <2>6, <2>7 DEF SleepInv
<1>10. CASE left # 0
  <2>1. sleeping' = sleeping /\ wake_i' = wake_i + 1
    BY <1>2, <1>10
  <2>2. OnTime
    BY <1>2, <2>1 DEF OnTime
  <2>3. ASSUME NEW k \in 1..Len(sleeping)
        PROVE  /\ wakeup_counter'[sleeping[k]] >= 1
               /\ wakeup_counter'[sleeping[k]] + slept[sleeping[k]] = asked[sleeping[k]] + Owed(k)'
    <3>1. Owed(k)' = IF k > wake_i + 1 THEN 1 ELSE 0
      BY <1>2, <2>1 DEF Owed
    <3>2. CASE k = wake_i + 1
      <4>1. Owed(k)' = 0 /\ sleeping[k] = pid
        BY <1>1, <1>2, <3>1, <3>2
      <4>2. left >= 1 /\ left + slept[pid] = asked[pid] + 0
        BY <1>4, <1>5, <1>10
      <4> QED BY <1>6, <4>1, <4>2
    <3>3. CASE k # wake_i + 1
      <4>1. wakeup_counter'[sleeping[k]] = wakeup_counter[sleeping[k]]
        BY <1>6, <1>7, <1>8, <3>3
      <4>2. k > wake_i + 1 <=> k > wake_i
        BY <1>2, <3>3
      <4> QED BY <1>8, <3>1, <4>1, <4>2
    <3> QED BY <3>2, <3>3
  <2>4. wake_i' <= Len(sleeping')
    BY <1>2, <2>1
  <2> QED BY <1>2, <2>1, <2>2, <2>3, <2>4 DEF SleepInv
<1> QED BY <1>9, <1>10

LEMMA CheckScheduleSleep ==
  ASSUME IInv, SleepInv, CheckSchedule
  PROVE  SleepInv' /\ OnTime
<1>1. TypeOK
  BY DEF IInv
<1>2. /\ irq = "check_wakeup" /\ wake_i = Len(sleeping) /\ irq' = "none"
      /\ wakeup_counter' = wakeup_counter /\ slept' = slept /\ asked' = asked
  BY DEF CheckSchedule
<1>3. sleeping' = sleeping
  <2>1. CASE TimePieceOver(schdule_counter)
    <3>1. schedule("TIME_PIECE_OVER")
      BY <2>1 DEF CheckSchedule
    <3>2. sleeping' = Joined(sleeping, "TIME_PIECE_OVER" = "TASK_SLEEP")
      BY <3>1, ScheduleQueues
    <3> QED BY <3>2 DEF Joined
  <2>2. CASE ~TimePieceOver(schdule_counter)
    BY <2>2 DEF CheckSchedule
  <2> QED BY <2>1, <2>2
<1>4. \A p \in Elements(sleeping) : slept[p] < asked[p]
  BY <1>1, <1>2, StillSleeping
<1>5. OnTime
  BY <1>2, <1>3, <1>4 DEF OnTime
<1>6. \A k \in 1..Len(sleeping) : Owed(k) = 0 /\ Owed(k)' = 0
  BY <1>1, <1>2, SleeperTypes DEF Owed
<1>7. SleepInv'
  BY <1>2, <1>3, <1>6 DEF SleepInv
<1> QED BY <1>5, <1>7

LEMMA SysSleepSleep ==
  ASSUME IInv, SleepInv, 0 \notin SleepArgs, NEW counter \in SleepArgs, SysSleep(counter)
  PROVE  SleepInv' /\ OnTime
<1>1. /\ TypeOK /\ SleepingMatches /\ InTask /\ irq = "none" /\ irq' = irq
      /\ schedule("TASK_SLEEP")
      /\ wakeup_counter' = [wakeup_counter EXCEPT ![pid_running] = counter]
      /\ asked' = [asked EXCEPT ![pid_running] = counter]
      /\ slept' = [slept EXCEPT ![pid_running] = 0]
  BY DEF IInv, QueuesMatchTasks, SysSleep, InTask
<1>2. /\ pid_running \in Pids /\ pid_running # NOT_FOUND /\ pid_running \notin Elements(sleeping)
  BY <1>1, InTaskFacts, PidFacts DEF SleepingMatches
<1>3. sleeping' = pid_enqueue(sleeping, pid_running)
  <2>1. sleeping' = Joined(sleeping, "TASK_SLEEP" = "TASK_SLEEP")
    BY <1>1, ScheduleQueues
  <2> QED BY <1>2, <2>1 DEF Joined
<1>4. /\ sleeping \in Seq(Pids) /\ Len(sleeping) \in Nat
      /\ Len(sleeping') = Len(sleeping) + 1 /\ sleeping'[Len(sleeping) + 1] = pid_running
      /\ \A k \in 1..Len(sleeping) : sleeping'[k] = sleeping[k]
      /\ Elements(sleeping') = Elements(sleeping) \cup {pid_running}
  <2>1. sleeping \in Seq(Pids) /\ Len(sleeping) \in Nat
    BY <1>1 DEF TypeOK
  <2>2. Elements(sleeping') = Elements(sleeping) \cup {pid_running}
    BY <1>2, <1>3, <2>1, EnqueueFacts
  <2> QED BY <1>2, <1>3, <2>1, <2>2 DEF pid_enqueue
<1>5. counter \in Nat /\ counter >= 1
  BY ConstantFacts
<1>6. /\ wakeup_counter'[pid_running] = counter /\ asked'[pid_running] = counter
      /\ slept'[pid_running] = 0
      /\ \A p \in Elements(sleeping) : /\ wakeup_counter'[p] = wakeup_counter[p]
                                       /\ asked'[p] = asked[p] /\ slept'[p] = slept[p]
  <2>1. Elements(sleeping) \subseteq Pids
    BY <1>1, SleeperTypes DEF Elements
  <2> QED BY <1>1, <1>2, <2>1 DEF TypeOK
<1>7. \A p \in Elements(sleeping) : slept[p] < asked[p]
  BY <1>1, StillSleeping
<1>8. OnTime
  <2>1. \A p \in Elements(sleeping') : slept'[p] < asked'[p]
    BY <1>4, <1>5, <1>6, <1>7
  <2> QED BY <1>4, <2>1 DEF OnTime
<1>9. ASSUME NEW k \in 1..Len(sleeping')
      PROVE  /\ wakeup_counter'[sleeping'[k]] >= 1
             /\ wakeup_counter'[sleeping'[k]] + slept'[sleeping'[k]] = asked'[sleeping'[k]] + Owed(k)'
  <2>1. Owed(k) = 0 /\ Owed(k)' = 0
    BY <1>1 DEF Owed
  <2>2. CASE k = Len(sleeping) + 1
    BY <1>4, <1>5, <1>6, <2>1, <2>2
  <2>3. CASE k \in 1..Len(sleeping)
    <3>1. sleeping'[k] = sleeping[k] /\ sleeping[k] \in Elements(sleeping)
      BY <1>4, <2>3 DEF Elements
    <3> QED BY <1>6, <2>1, <2>3, <3>1 DEF SleepInv
  <2> QED BY <1>4, <2>2, <2>3
<1>10. SleepInv'
  BY <1>1, <1>9 DEF SleepInv
<1> QED BY <1>8, <1>10

LEMMA NextSleep ==
  ASSUME IInv, SleepInv, 0 \notin SleepArgs, [Next]_vars
  PROVE  SleepInv' /\ [OnTime]_vars
<1>1. TypeOK /\ SleepingMatches
  BY DEF IInv, QueuesMatchTasks
<1>2. CASE UNCHANGED vars
  <2>1. UNCHANGED <<sleeping, wakeup_counter, slept, asked, irq, wake_i>>
    BY <1>2 DEF vars
  <2>2. \A k : Owed(k)' = Owed(k)
    BY <2>1 DEF Owed
  <2> QED BY <1>2, <2>1, <2>2 DEF SleepInv
<1>3. CASE OnTimer
  BY <1>1, <1>3, OnTimerSleep
<1>4. CASE CheckWakeup
  BY <1>1, <1>4, CheckWakeupSleep
<1>5. CASE CheckSchedule
  BY <1>5, CheckScheduleSleep
<1>6. ASSUME NEW counter \in SleepArgs, SysSleep(counter) PROVE SleepInv' /\ [OnTime]_vars
  BY <1>6, SysSleepSleep
<1>7. ASSUME NEW reason, reason # "TASK_SLEEP", schedule(reason)
      PROVE  sleeping' = sleeping
  <2>1. sleeping' = Joined(sleeping, reason = "TASK_SLEEP")
    BY <1>7, ScheduleQueues
  <2> QED BY <1>7, <2>1 DEF Joined
<1>8. CASE SysExit
  <2>1. sleeping' = sleeping
    BY <1>7, <1>8 DEF SysExit
  <2> QED BY <1>1, <1>8, <2>1, SleepersAlone DEF SysExit, InTask
<1>9. CASE CreateTask
  BY <1>1, <1>9, SleepersAlone DEF CreateTask, InTask
<1>10. ASSUME NEW s \in Semaphores, Wait(s) PROVE SleepInv' /\ [OnTime]_vars
  <2>1. sleeping' = sleeping
    BY <1>7, <1>10 DEF Wait
  <2> QED BY <1>1, <1>10, <2>1, SleepersAlone DEF Wait, InTask
<1>11. ASSUME NEW s \in Semaphores, Signal(s) PROVE SleepInv' /\ [OnTime]_vars
  BY <1>1, <1>11, SleepersAlone DEF Signal, InTask
<1> QED BY <1>2, <1>3, <1>4, <1>5, <1>6, <1>8, <1>9, <1>10, <1>11 DEF Next, Timer

(***************************************************************************)
(* sched.c:113: unless a task asks for 0 ticks, it wakes up at the very    *)
(* tick it asked for, wherever it is in the sleeping queue and whoever is  *)
(* deleted from it before it in the same run of check_wakeup's loop.       *)
(***************************************************************************)
THEOREM SleepersWakeOnTime ==
  ASSUME ~CreateWhenFull, 0 \notin SleepArgs
  PROVE  Spec => WakesOnTime
<1>1. Init => IInv /\ SleepInv
  <2>1. Init => SleepInv
    BY DEF Init, sched_init, task_manager_init, SleepInv
  <2> QED BY <2>1, InitInvariant
<1>2. IInv /\ SleepInv /\ [Next]_vars => IInv' /\ SleepInv' /\ [OnTime]_vars
  BY NextInvariant, NextSleep
<1>3. Spec => [][OnTime]_vars
  BY <1>1, <1>2, PTL DEF Spec
<1> QED BY <1>3 DEF WakesOnTime, OnTime
-----------------------------------------------------------------------------
(* A slot beyond the end of the list: its first pid is dropped. *)
LEMMA DeleteBeyond ==
  ASSUME NEW S, NEW list \in Seq(S), list # <<>>, NEW i \in Nat, Len(list) < i
  PROVE  pid_queue_delete(list, i) = Dequeued(list)
<1>1. Len(list) \in Nat \ {0} /\ Len(list) - 1 \in Nat
  OBVIOUS
<1>2. Dropped(list, i) = 1
  <2>1. ~(i < Len(list)) /\ i # Len(list) /\ i > Len(list)
    BY <1>1
  <2> QED BY <2>1 DEF Dropped
<1>3. pid_queue_delete(list, i) = [k \in 1..(Len(list) - 1) |-> list[k + 1]]
  BY <1>1, <1>2 DEF pid_queue_delete
<1>4. Tail(list) = [k \in 1..(Len(list) - 1) |-> list[k + 1]]
  <2>1. /\ Tail(list) \in Seq(S) /\ Len(Tail(list)) = Len(list) - 1
        /\ \A k \in 1..(Len(list) - 1) : Tail(list)[k] = list[k + 1]
    BY <1>1
  <2>2. PICK rest \in Seq(S) : rest = Tail(list)
    BY <2>1
  <2>3. rest \in [1..Len(rest) -> S] /\ Len(rest) = Len(list) - 1
    <3>1. Len(rest) = Len(list) - 1
      BY <2>1, <2>2, Zenon
    <3>2. rest \in [1..Len(rest) -> S]
      OBVIOUS
    <3> QED BY <3>1, <3>2
  <2>4. rest = [k \in 1..(Len(list) - 1) |-> rest[k]]
    BY <2>3
  <2>5. \A k \in 1..(Len(list) - 1) : rest[k] = list[k + 1]
    BY <2>1, <2>2
  <2> QED BY <2>2, <2>4, <2>5
<1> QED BY <1>3, <1>4 DEF Dequeued

LEMMA WaitBlock ==
  ASSUME IInv, BlockInv, NEW s, Semaphores = {s}, Wait(s)
  PROVE  BlockInv'
<1>1. TypeOK /\ InTask /\ s \in Semaphores /\ blocked = blocked_pids[s] /\ panic = "none"
  BY DEF IInv, Wait, InTask, BlockInv
<1>2. CASE ~MustBlock(count[s] - 1)
  BY <1>2 DEF Wait, BlockInv
<1>3. CASE MustBlock(count[s] - 1)
  <2>1. /\ schedule("TASK_BLOCKED")
        /\ blocked_pids' = [blocked_pids EXCEPT ![s] = pid_enqueue(blocked_pids[s], pid_running)]
    BY <1>3 DEF Wait
  <2>2. blocked' = Joined(blocked, "TASK_BLOCKED" = "TASK_BLOCKED") /\ panic' = panic
    BY <2>1, ScheduleQueues, ScheduleEffect
  <2>3. blocked' = pid_enqueue(blocked, pid_running)
    BY <1>1, <2>2, PidFacts DEF Joined, InTask
  <2>4. blocked_pids'[s] = pid_enqueue(blocked_pids[s], pid_running)
    BY <1>1, <2>1 DEF TypeOK
  <2> QED BY <1>1, <2>2, <2>3, <2>4 DEF BlockInv
<1> QED BY <1>2, <1>3

LEMMA SignalBlock ==
  ASSUME IInv, BlockInv, FewWait, NEW s, Semaphores = {s}, Signal(s)
  PROVE  BlockInv'
<1>1. /\ TypeOK /\ WaitersMatch /\ IdleActive /\ InTask /\ s \in Semaphores
      /\ blocked = blocked_pids[s] /\ panic = "none"
  BY DEF IInv, QueuesMatchTasks, Signal, InTask, BlockInv
<1>2. blocked \in Seq(Pids)
  BY <1>1 DEF TypeOK
<1>3. blocked_pids'[s] = Dequeued(blocked)
  BY <1>1 DEF Signal, TypeOK
<1>4. CASE blocked = <<>>
  <2>1. pid_dequeue(blocked_pids[s]) = NOT_FOUND
    BY <1>1, <1>4 DEF pid_dequeue
  <2>2. blocked' = blocked /\ panic' = panic
    BY <2>1 DEF Signal
  <2>3. Dequeued(blocked) = blocked
    BY <1>4 DEF Dequeued
  <2> QED BY <1>1, <1>3, <2>2, <2>3 DEF BlockInv
<1>5. CASE blocked # <<>>
  <2>1. PICK w : w = pid_dequeue(blocked)
    OBVIOUS
  <2>2. w \in Pids /\ w \in Elements(blocked)
    BY <1>2, <1>5, <2>1, DequeueFacts
  <2>3. w \in gdt /\ state[w] = "BLOCKED"
    BY <1>1, <2>2 DEF WaitersMatch
  <2>4. w \notin Idle
    BY <1>1, <2>3 DEF IdleActive
  <2>5. w \in Nat /\ w >= SEGMENTS + 3 /\ w # NOT_FOUND
    BY <2>2, <2>4, PidFacts, SchedAssumption DEF Pids, Idle
  <2>6. Len(blocked) < w
    BY <1>2, <2>5, SchedAssumption DEF FewWait
  <2>7. pid_queue_find(blocked, w) = w
    BY <2>2 DEF pid_queue_find, Elements
  <2>8. blocked' = pid_queue_delete(blocked, w) /\ panic' = panic
    BY <1>1, <2>1, <2>5, <2>7 DEF Signal
  <2>9. blocked' = Dequeued(blocked)
    BY <1>2, <1>5, <2>5, <2>6, <2>8, DeleteBeyond
  <2> QED BY <1>1, <1>3, <2>8, <2>9 DEF BlockInv
<1> QED BY <1>4, <1>5

LEMMA NextBlock ==
  ASSUME IInv, BlockInv, FewWait, NEW s, Semaphores = {s}, [Next]_vars
  PROVE  BlockInv'
<1>1. CASE \E t \in Semaphores : Wait(t) \/ Signal(t)
  BY <1>1, WaitBlock, SignalBlock
<1>2. CASE ~\E t \in Semaphores : Wait(t) \/ Signal(t)
  <2>1. blocked_pids' = blocked_pids
    BY <1>2 DEF Next, Timer, vars, OnTimer, CheckWakeup, CheckSchedule, CreateTask, SysSleep, SysExit
  <2>2. ASSUME NEW reason, reason # "TASK_BLOCKED", schedule(reason)
        PROVE  blocked' = blocked /\ panic' = panic
    <3>1. blocked' = Joined(blocked, reason = "TASK_BLOCKED") /\ panic' = panic
      BY <2>2, ScheduleQueues, ScheduleEffect
    <3> QED BY <2>2, <3>1 DEF Joined
  <2>3. blocked' = blocked /\ panic' = panic
    <3>1. CASE CheckSchedule
      BY <2>2, <3>1 DEF CheckSchedule
    <3>2. ASSUME NEW counter \in SleepArgs, SysSleep(counter)
          PROVE  blocked' = blocked /\ panic' = panic
      BY <2>2, <3>2 DEF SysSleep
    <3>3. CASE SysExit
      BY <2>2, <3>3 DEF SysExit
    <3>4. CASE OnTimer \/ CheckWakeup \/ CreateTask \/ UNCHANGED vars
      BY <3>4 DEF OnTimer, CheckWakeup, CreateTask, vars
    <3> QED BY <1>2, <3>1, <3>2, <3>3, <3>4 DEF Next, Timer
  <2> QED BY <2>1, <2>3 DEF BlockInv
<1> QED BY <1>1, <1>2

(***************************************************************************)
(* semaphore.c:29-36: with one semaphore, and as long as fewer tasks wait  *)
(* for it than the lowest pid of a task that may (SEGMENTS + 3), signal    *)
(* takes the task it wakes, and no other, out of pid_queue_blocked,        *)
(* although it deletes by pid; its _DEBUG loop is not entered.  With a     *)
(* second semaphore this fails.                                            *)
(***************************************************************************)
THEOREM BlockedQueueConsistent ==
  ASSUME ~CreateWhenFull, NEW s, Semaphores = {s}
  PROVE  Spec /\ []FewWait => []BlockedMatches
<1>1. Init => IInv /\ BlockInv
  <2>1. Init => BlockInv
    BY DEF Init, sched_init, task_manager_init, semaphore_init, BlockInv
  <2> QED BY <2>1, InitInvariant
<1>2. IInv /\ BlockInv /\ FewWait /\ [Next]_vars => IInv' /\ BlockInv'
  BY NextInvariant, NextBlock
<1>3. IInv /\ BlockInv => BlockedMatches
  <2> SUFFICES ASSUME IInv, BlockInv PROVE BlockedMatches
    OBVIOUS
  <2>1. WaitersMatch /\ blocked = blocked_pids[s] /\ s \in Semaphores
    BY DEF IInv, QueuesMatchTasks, IdleActive, BlockInv, TypeOK
  <2> QED BY <2>1 DEF WaitersMatch, BlockedMatches, BlockInv
<1> QED BY <1>1, <1>2, <1>3, PTL DEF Spec
=============================================================================
