------------------------------- MODULE Sched -------------------------------
(***************************************************************************)
(* Tasks, the scheduler, sleeping and semaphores of WegOS                  *)
(* (kernel/proc/task.c, sched.c, semaphore.c, kernel/time/time.c).         *)
(*                                                                         *)
(* The machine has one processor.  A step is either a kernel call made by  *)
(* the task that is running, or a part of the timer interrupt, which runs  *)
(* with interrupts masked from its entry to its end.  A kernel call is one *)
(* step here: the interrupt arrives before or after it.  Module Preempt    *)
(* lets the interrupt arrive inside a call.                                *)
(*                                                                         *)
(* The queues are the lists of PidList, which PidQueue implements.         *)
(***************************************************************************)
EXTENDS PidList, FiniteSets

CONSTANTS MAX_GDT_TERMS,    \* descriptors of the GDT (8192 in gdt.h)
          SEGMENTS,         \* code and data segments after the null one (4)
          BootTasks,        \* tasks main creates before it enables interrupts
          TIME_PIECE,       \* timer ticks of a time slice (100 in sched.h)
          COUNTER_MOD,      \* values of wakeup_counter (2^32)
          SleepArgs,        \* the arguments tasks give sys_sleep
          Semaphores,       \* the semaphores tasks share
          InitCount,        \* the count semaphore_init gives them
          MaxCount,         \* bound: no signal raises a count above it
          MaxPages,         \* bound: physical pages left for new tasks
          CreateWhenFull    \* do tasks call create_task on a full GDT?

(* A descriptor index is the pid of the task whose TSS it describes. *)
Pids == (SEGMENTS + 1)..(MAX_GDT_TERMS - 1)

OneIdle == {SEGMENTS + 1}

(* The two tasks sched_init creates; they loop and make no kernel call. *)
Idle == {SEGMENTS + 1, SEGMENTS + 2}

ASSUME SchedAssumption ==
  /\ SEGMENTS \in Nat
  /\ MAX_GDT_TERMS \in 1..8192
  /\ BootTasks \in Nat
  /\ SEGMENTS + 2 + BootTasks < MAX_GDT_TERMS
  /\ TIME_PIECE \in Nat \ {0}
  /\ COUNTER_MOD \in Nat \ {0}
  /\ SleepArgs \subseteq 0..(COUNTER_MOD - 1)
  /\ InitCount \in Nat
  /\ MaxCount \in Nat
  /\ MaxPages \in Nat

ASSUME CreateAssumption == CreateWhenFull \in BOOLEAN

VARIABLES
  gdt,               \* the pids whose descriptor is not zero
  state,             \* tasks[pid].state
  wakeup_counter,    \* tasks[pid].wakeup_counter
  ready, blocked, sleeping,   \* task_manager.pid_queue_*
  pid_running,       \* task_manager.pid_running
  schdule_counter,   \* task_manager.schdule_counter
  count,             \* count of every semaphore
  blocked_pids,      \* blocked_pids of every semaphore
  free_pages,        \* pages p_malloc has left
  irq,               \* how far the timer interrupt has got, "none" outside it
  wake_i,            \* the loop index i of check_wakeup
  panic,             \* the endless _DEBUG loop that was entered, or "none"
  asked, slept       \* history: a sleeper's argument and the ticks since,
                     \* counted up to COUNTER_MOD

vars == <<gdt, state, wakeup_counter, ready, blocked, sleeping, pid_running,
          schdule_counter, count, blocked_pids, free_pages, irq, wake_i,
          panic, asked, slept>>

States == {"READY", "RUNNING", "BLOCKED", "SLEEPING"}
Counters == 0..(COUNTER_MOD - 1)

TypeOK ==
  /\ gdt \subseteq Pids
  /\ state \in [Pids -> States]
  /\ wakeup_counter \in [Pids -> Counters]
  /\ ready \in Seq(Pids \cup {NOT_FOUND})
  /\ blocked \in Seq(Pids)
  /\ sleeping \in Seq(Pids)
  /\ pid_running \in Pids \cup {NOT_FOUND}
  /\ schdule_counter \in 1..TIME_PIECE
  /\ count \in [Semaphores -> Int]
  /\ blocked_pids \in [Semaphores -> Seq(Pids)]
  /\ free_pages \in 0..MaxPages
  /\ irq \in {"none", "check_wakeup"}
  /\ wake_i \in Nat
  /\ panic \in {"none", "schedule", "signal"}
  /\ asked \in [Pids -> Counters]
  /\ slept \in [Pids -> Nat]
-----------------------------------------------------------------------------
(***************************************************************************)
(* The state in which main enables interrupts: task_manager_init,          *)
(* sched_init and the boot tasks are done.  main itself is no task, so     *)
(* pid_running is NOT_FOUND until the first switch, which abandons main.   *)
(***************************************************************************)
task_manager_init ==
  /\ blocked = <<>>
  /\ sleeping = <<>>
  /\ pid_running = NOT_FOUND
  /\ schdule_counter = TIME_PIECE

sched_init ==
  /\ task_manager_init
  /\ gdt = (SEGMENTS + 1)..(SEGMENTS + 2 + BootTasks)
  /\ ready = [k \in 1..(2 + BootTasks) |-> SEGMENTS + k]

semaphore_init ==
  /\ count = [s \in Semaphores |-> InitCount]
  /\ blocked_pids = [s \in Semaphores |-> <<>>]

Init ==
  /\ sched_init
  /\ semaphore_init
  /\ state = [pid \in Pids |-> "READY"]
  /\ wakeup_counter = [pid \in Pids |-> 0]
  /\ free_pages = MaxPages
  /\ irq = "none"
  /\ wake_i = 0
  /\ panic = "none"
  /\ asked = [pid \in Pids |-> 0]
  /\ slept = [pid \in Pids |-> 0]
-----------------------------------------------------------------------------
JoinedAtHead(queue, joins) ==
  IF joins /\ pid_running # NOT_FOUND THEN <<pid_running>> \o queue
                                      ELSE queue

(* The queue after the task that is giving up the processor joins it. *)
Joined(queue, joins) ==
  IF joins /\ pid_running # NOT_FOUND THEN pid_enqueue(queue, pid_running)
                                      ELSE queue

(* The state switch_to leaves that task in; an exited one keeps its own. *)
StateAfter(reason) ==
  CASE reason = "TIME_PIECE_OVER" -> "READY"
    [] reason = "TASK_SLEEP"      -> "SLEEPING"
    [] reason = "TASK_BLOCKED"    -> "BLOCKED"
    [] OTHER                      -> "RUNNING"

(***************************************************************************)
(* The task that gives up the processor is set READY, SLEEPING or BLOCKED  *)
(* and joins the queue of that state; then pid is set RUNNING.             *)
(***************************************************************************)
switch_to(pid, reason) ==
  IF pid = pid_running
    THEN /\ ready' = Dequeued(ready)
         /\ UNCHANGED <<pid_running, state, blocked, sleeping>>
    ELSE /\ pid_running' = pid
         /\ state' = [p \in Pids |->
                        CASE p = pid         -> "RUNNING"
                          [] p = pid_running -> StateAfter(reason)
                          [] OTHER           -> state[p]]
         /\ ready' = Joined(Dequeued(ready), reason = "TIME_PIECE_OVER")
         /\ blocked' = Joined(blocked, reason = "TASK_BLOCKED")
         /\ sleeping' = Joined(sleeping, reason = "TASK_SLEEP")

schedule(reason) ==
  LET best_pid == pid_dequeue(ready)
  IN /\ schdule_counter' = TIME_PIECE
     /\ IF best_pid = NOT_FOUND
          THEN /\ panic' = "schedule"
               /\ ready' = Dequeued(ready)
               /\ UNCHANGED <<pid_running, state, blocked, sleeping>>
          ELSE /\ switch_to(best_pid, reason)
               /\ UNCHANGED panic

(* set_task_state(pid, STATE_READY) *)
MakeReady(pid) ==
  /\ state' = [p \in Pids |-> IF p = pid THEN "READY" ELSE state[p]]
  /\ ready' = pid_enqueue(ready, pid)
-----------------------------------------------------------------------------
(* The timer interrupt. *)

(* on_timer enters check_wakeup at the head of the sleeping queue. *)
OnTimer ==
  /\ panic = "none"
  /\ irq = "none"
  /\ irq' = "check_wakeup"
  /\ wake_i' = 0
  /\ slept' = [pid \in Pids |->
                 CASE pid \notin Elements(sleeping)  -> 0
                   [] slept[pid] >= COUNTER_MOD      -> slept[pid]
                   [] OTHER                          -> slept[pid] + 1]
  /\ UNCHANGED <<gdt, state, wakeup_counter, ready, blocked, sleeping,
                 pid_running, schdule_counter, count, blocked_pids,
                 free_pages, panic, asked>>

NotDecremented(n) == n

(* --wakeup_counter on an unsigned integer *)
Decremented(n) == (n - 1) % COUNTER_MOD

AfterDeleteSkips(i) == IF i + 1 < Len(sleeping) THEN i + 1 ELSE i

(* i-- after a deletion, then the loop's increment of i *)
AfterDelete(i) == i

(***************************************************************************)
(* One turn of the loop of check_wakeup.  A task whose counter runs out is *)
(* deleted from the queue and becomes ready; its successor has moved to    *)
(* its slot.                                                               *)
(***************************************************************************)
CheckWakeup ==
  /\ panic = "none"
  /\ irq = "check_wakeup"
  /\ wake_i < Len(sleeping)
  /\ LET pid == sleeping[wake_i + 1]
         left == Decremented(wakeup_counter[pid])
     IN /\ wakeup_counter' = [wakeup_counter EXCEPT ![pid] = left]
        /\ IF left = 0
             THEN /\ sleeping' = pid_queue_delete(sleeping, wake_i)
                  /\ MakeReady(pid)
                  /\ wake_i' = AfterDelete(wake_i)
             ELSE /\ wake_i' = wake_i + 1
                  /\ UNCHANGED <<sleeping, state, ready>>
  /\ UNCHANGED <<gdt, blocked, pid_running, schdule_counter, count,
                 blocked_pids, free_pages, irq, panic, asked, slept>>

ExpiresBelowZero(n) == n - 1 < 0

(* --schdule_counter <= 0 *)
TimePieceOver(n) == n - 1 <= 0

(* The loop is over: check_schedule, and the return from the interrupt. *)
CheckSchedule ==
  /\ panic = "none"
  /\ irq = "check_wakeup"
  /\ wake_i = Len(sleeping)
  /\ irq' = "none"
  /\ wake_i' = 0
  /\ IF TimePieceOver(schdule_counter)
       THEN schedule("TIME_PIECE_OVER")
       ELSE /\ schdule_counter' = schdule_counter - 1
            /\ UNCHANGED <<pid_running, state, ready, blocked, sleeping, panic>>
  /\ UNCHANGED <<gdt, wakeup_counter, count, blocked_pids, free_pages, asked,
                 slept>>
-----------------------------------------------------------------------------
(* Kernel calls of the running task. *)

InTask ==
  /\ panic = "none"
  /\ irq = "none"
  /\ pid_running \in Pids \ Idle

(* get_pid_empty() returns pid: the lowest empty descriptor, if any. *)
get_pid_empty(pid) ==
  IF Pids \subseteq gdt
    THEN pid = NOT_FOUND
    ELSE pid \in Pids \ gdt /\ \A q \in Pids \ gdt : pid <= q

(***************************************************************************)
(* create_task and task_init.  The page of the page directory is never     *)
(* given back.  With pid = NOT_FOUND the descriptor and the PCB are        *)
(* written outside their arrays, and NOT_FOUND joins the ready queue.      *)
(***************************************************************************)
CreateTask ==
  /\ InTask
  /\ free_pages > 0
  /\ free_pages' = free_pages - 1
  /\ \E pid \in Pids \cup {NOT_FOUND} :
       /\ get_pid_empty(pid)
       /\ CreateWhenFull \/ pid # NOT_FOUND
       /\ gdt' = gdt \cup ({pid} \cap Pids)
       /\ MakeReady(pid)
  /\ UNCHANGED <<wakeup_counter, blocked, sleeping, pid_running,
                 schdule_counter, count, blocked_pids, irq, wake_i, panic,
                 asked, slept>>

SysSleep(counter) ==
  /\ InTask
  /\ wakeup_counter' = [wakeup_counter EXCEPT ![pid_running] = counter]
  /\ asked' = [asked EXCEPT ![pid_running] = counter]
  /\ slept' = [slept EXCEPT ![pid_running] = 0]
  /\ schedule("TASK_SLEEP")
  /\ UNCHANGED <<gdt, count, blocked_pids, free_pages, irq, wake_i>>

YieldingExit ==
  /\ InTask
  /\ gdt' = gdt \ {pid_running}
  /\ schedule("TIME_PIECE_OVER")
  /\ UNCHANGED <<wakeup_counter, count, blocked_pids, free_pages, irq, wake_i,
                 asked, slept>>

SysExit ==
  /\ InTask
  /\ gdt' = gdt \ {pid_running}
  /\ schedule("TASK_EXIT")
  /\ UNCHANGED <<wakeup_counter, count, blocked_pids, free_pages, irq, wake_i,
                 asked, slept>>

BlocksAtZero(n) == n <= 0
BlocksLate(n) == n < -1

(* wait: semaphore->count < 0, after the decrement *)
MustBlock(n) == n < 0

Wait(s) ==
  /\ InTask
  /\ count' = [count EXCEPT ![s] = @ - 1]
  /\ IF MustBlock(count[s] - 1)
       THEN /\ blocked_pids' = [blocked_pids EXCEPT
                                  ![s] = pid_enqueue(@, pid_running)]
            /\ schedule("TASK_BLOCKED")
       ELSE UNCHANGED <<blocked_pids, state, ready, blocked, sleeping,
                        pid_running, schdule_counter, panic>>
  /\ UNCHANGED <<gdt, wakeup_counter, free_pages, irq, wake_i, asked, slept>>

(***************************************************************************)
(* The longest waiting task leaves both blocked queues and becomes ready.  *)
(* What is deleted from the system-wide one is what pid_queue_find         *)
(* returned, as an index; NOT_FOUND ends in the _DEBUG loop.               *)
(***************************************************************************)
Signal(s) ==
  /\ InTask
  /\ count[s] < MaxCount
  /\ count' = [count EXCEPT ![s] = @ + 1]
  /\ blocked_pids' = [blocked_pids EXCEPT ![s] = Dequeued(@)]
  /\ LET pid_wake_up == pid_dequeue(blocked_pids[s])
         i == pid_queue_find(blocked, pid_wake_up)
     IN IF pid_wake_up = NOT_FOUND
          THEN UNCHANGED <<blocked, state, ready, panic>>
          ELSE /\ blocked' = pid_queue_delete(blocked, i)
               /\ IF i = NOT_FOUND
                    THEN panic' = "signal" /\ UNCHANGED <<state, ready>>
                    ELSE MakeReady(pid_wake_up) /\ UNCHANGED panic
  /\ UNCHANGED <<gdt, wakeup_counter, sleeping, pid_running, schdule_counter,
                 free_pages, irq, wake_i, asked, slept>>
-----------------------------------------------------------------------------
Timer == OnTimer \/ CheckWakeup \/ CheckSchedule

Next ==
  \/ Timer
  \/ CreateTask
  \/ \E counter \in SleepArgs : SysSleep(counter)
  \/ SysExit
  \/ \E s \in Semaphores : Wait(s) \/ Signal(s)

(* The timer chip raises its interrupt periodically, whatever tasks do. *)
Spec == Init /\ [][Next]_vars /\ WF_vars(Timer)
-----------------------------------------------------------------------------
(***************************************************************************)
(* sched.h:14: the queues and pid_running must agree with the tasks.  A    *)
(* task with a descriptor is in the ready queue, in the sleeping queue or  *)
(* running exactly when its state says so; no pid is queued twice; a       *)
(* blocked task waits in exactly one semaphore's queue, unless signal hung *)
(* in its _DEBUG loop between taking it out and making it ready.  (Whether *)
(* pid_queue_blocked agrees is BlockedMatches.)                            *)
(***************************************************************************)
ReadyMatches ==
  /\ NoDuplicates(ready)
  /\ Elements(ready) = {p \in gdt : state[p] = "READY"}

SleepingMatches ==
  /\ NoDuplicates(sleeping)
  /\ Elements(sleeping) = {p \in gdt : state[p] = "SLEEPING"}

RunningMatches ==
  {pid_running} \ {NOT_FOUND} = {p \in gdt : state[p] = "RUNNING"}

WaitersMatch ==
  /\ \A s \in Semaphores :
       /\ NoDuplicates(blocked_pids[s])
       /\ \A p \in Elements(blocked_pids[s]) : p \in gdt /\ state[p] = "BLOCKED"
  /\ \A p \in gdt : state[p] = "BLOCKED" =>
                    \E s \in Semaphores : p \in Elements(blocked_pids[s])
  /\ \A s, t \in Semaphores :
       s # t => Elements(blocked_pids[s]) \cap Elements(blocked_pids[t]) = {}

QueuesMatchTasks ==
  /\ ReadyMatches /\ SleepingMatches /\ RunningMatches
  /\ panic = "none" => WaitersMatch

(***************************************************************************)
(* The _DEBUG loops of schedule and switch_to ("best_pid calculated to be  *)
(* -1,error!") are never entered: whatever sleeps, blocks, exits and is    *)
(* created, and although the second idle task may itself be running, there *)
(* is always a ready task.                                                 *)
(***************************************************************************)
SchedulerNeverStuck == panic # "schedule" /\ ready # <<>>

(***************************************************************************)
(* The textbook invariant of semaphore.c: a negative count is the number   *)
(* of tasks waiting, and nobody waits while the count is not negative, so  *)
(* no wakeup is lost.                                                      *)
(***************************************************************************)
SemaphoreBalance ==
  \A s \in Semaphores :
    Len(blocked_pids[s]) = IF count[s] < 0 THEN -count[s] ELSE 0

(***************************************************************************)
(* semaphore.c:29-36: a task that leaves a semaphore's queue is in the     *)
(* system-wide blocked queue, so that signal's _DEBUG loop is not entered; *)
(* that queue holds the blocked tasks and nothing else.  signal deletes    *)
(* by pid instead of by position, so this holds only while tasks wait on   *)
(* one semaphore and fewer of them wait than the lowest pid of a task.     *)
(***************************************************************************)
BlockedMatches ==
  /\ panic # "signal"
  /\ NoDuplicates(blocked)
  /\ Elements(blocked) = {p \in gdt : state[p] = "BLOCKED"}

(* signal's _DEBUG loop alone: what semaphore.c:32-36 asserts. *)
SignalNeverStuck == panic # "signal"

(***************************************************************************)
(* task.c:58-59: a pid stands for one task.  A descriptor that is handed   *)
(* out again belongs to no task any queue still refers to, and not to the  *)
(* running one.                                                            *)
(***************************************************************************)
PidReuse ==
  [][\A p \in gdt' \ gdt :
       /\ p # pid_running
       /\ p \notin Elements(ready) \cup Elements(sleeping)
       /\ \A s \in Semaphores : p \notin Elements(blocked_pids[s])]_vars

(***************************************************************************)
(* sched.c:113: a task sleeps as long as it asked to, in timer ticks: it   *)
(* never leaves the sleeping queue earlier, and when the interrupt of its  *)
(* last tick returns it has left.  (It holds for SleepArgs without 0: the  *)
(* counter of a task that asks for 0 wraps.)                               *)
(***************************************************************************)
WakesOnTime ==
  [][/\ \A p \in Elements(sleeping) \ Elements(sleeping') : slept[p] = asked[p]
     /\ irq' = "none" => \A p \in Elements(sleeping') : slept'[p] < asked'[p]]_vars

(* A ready task gets the processor, however many tasks come and go. *)
ReadyRuns == \A p \in Pids : (p \in Elements(ready)) ~> (pid_running = p)

(* A sleeping task becomes ready again. *)
SleeperWakes ==
  \A p \in Pids : (p \in Elements(sleeping)) ~> (p \in Elements(ready))
=============================================================================
