------------------------------ MODULE Preempt ------------------------------
(***************************************************************************)
(* The kernel calls of Sched statement by statement.  WegOS calls are      *)
(* plain functions that run in the caller's task, whose EFLAGS (0x202,     *)
(* task.h) leave interrupts enabled: the timer interrupt may arrive        *)
(* between any two statements, and between the load and the store of a     *)
(* statement like count--, and switch to another task.                     *)
(*                                                                         *)
(* Masked = FALSE is the kernel as it is.  Masked = TRUE is the discipline *)
(* under which a call is one step: callers disable interrupts around it.   *)
(* This module is checked to implement Sched under that discipline.        *)
(*                                                                         *)
(* A queue operation is one step here (its own loads and stores are not    *)
(* interleaved), so a violation is a behaviour of the kernel, while a      *)
(* property that holds with Masked = FALSE would not be one.               *)
(*                                                                         *)
(* Semaphores are used as locks: only the task that holds one signals it.  *)
(***************************************************************************)
EXTENDS Sched

CONSTANT Masked    \* are interrupts disabled during kernel calls?

ASSUME MaskedAssumption == Masked \in BOOLEAN

VARIABLES
  frame,     \* where every task is in a kernel call, and the call's locals
  holders,   \* history: the tasks that hold every semaphore
  before     \* history: Sched's variables when the call in progress began

pvars == <<vars, frame, holders, before>>

(* The statement a task executes next; "user" outside kernel calls. *)
Labels == {"user", "wait", "wait_store", "wait_test", "wait_enqueue",
           "signal", "signal_store", "signal_dequeue", "signal_find",
           "signal_delete", "signal_ready", "sleep", "exit", "create",
           "create_gdt", "create_ready", "schedule", "dequeue", "leave",
           "switch"}

UserFrame ==
  [at |-> "user", s |-> "none", val |-> 0, pid |-> NOT_FOUND,
   i |-> NOT_FOUND, reason |-> "none"]

Frame == IF pid_running \in Pids THEN frame[pid_running] ELSE UserFrame

At(label) == InTask /\ Frame.at = label

(* The running task goes on with frame f. *)
Continue(f) == frame' = [frame EXCEPT ![pid_running] = f]

Schedule(reason) ==
  Continue([UserFrame EXCEPT !.at = "schedule", !.reason = reason])

Snapshot ==
  [gdt |-> gdt, state |-> state, wakeup_counter |-> wakeup_counter,
   ready |-> ready, blocked |-> blocked, sleeping |-> sleeping,
   pid_running |-> pid_running, schdule_counter |-> schdule_counter,
   count |-> count, blocked_pids |-> blocked_pids, free_pages |-> free_pages,
   panic |-> panic, asked |-> asked, slept |-> slept]

(* The lists of variables that most steps leave alone. *)
irqVars == <<irq, wake_i>>
semVars == <<count, blocked_pids>>
sleepVars == <<wakeup_counter, asked, slept>>
taskVars == <<gdt, state, pid_running, schdule_counter, free_pages, panic>>
queueVars == <<ready, blocked, sleeping>>
history == <<holders, before>>

PreemptInit ==
  /\ Init
  /\ frame = [p \in Pids |-> UserFrame]
  /\ holders = [s \in Semaphores |-> {}]
  /\ before = Snapshot
-----------------------------------------------------------------------------
(***************************************************************************)
(* The timer interrupt.  It is masked in a call if calls are masked; and   *)
(* the slice that schedule has just renewed (a second, in WegOS) does not  *)
(* run out during the few instructions before the switch.                  *)
(***************************************************************************)
Interruptible ==
  /\ Masked => Frame.at = "user"
  /\ Frame.at \in {"dequeue", "leave", "switch"} => schdule_counter > 1

TimerStep ==
  /\ \/ Interruptible /\ OnTimer
     \/ CheckWakeup
     \/ CheckSchedule
  /\ UNCHANGED <<frame, history>>

(* A task enters a kernel call. *)
Enter(f) ==
  /\ At("user")
  /\ Continue(f)
  /\ before' = IF Masked THEN Snapshot ELSE before
  /\ UNCHANGED vars

Holding == {s \in Semaphores : pid_running \in holders[s]}

CallWait(s) ==
  /\ s \notin Holding
  /\ Enter([UserFrame EXCEPT !.at = "wait", !.s = s])
  /\ UNCHANGED holders

CallSignal(s) ==
  /\ s \in Holding
  /\ Enter([UserFrame EXCEPT !.at = "signal", !.s = s])
  /\ holders' = [holders EXCEPT ![s] = @ \ {pid_running}]

CallSleep(counter) ==
  /\ Enter([UserFrame EXCEPT !.at = "sleep", !.val = counter])
  /\ UNCHANGED holders

CallExit ==
  /\ Holding = {}
  /\ Enter([UserFrame EXCEPT !.at = "exit"])
  /\ UNCHANGED holders

CallCreate ==
  /\ free_pages > 0
  /\ ~(Pids \subseteq gdt)
  /\ Enter([UserFrame EXCEPT !.at = "create"])
  /\ UNCHANGED holders
-----------------------------------------------------------------------------
(* wait: count--, the test of the count, the enqueueing. *)

WaitLoad ==
  /\ At("wait")
  /\ Continue([Frame EXCEPT !.at = "wait_store", !.val = count[Frame.s]])
  /\ UNCHANGED <<vars, history>>

WaitStore ==
  /\ At("wait_store")
  /\ count' = [count EXCEPT ![Frame.s] = Frame.val - 1]
  /\ Continue([Frame EXCEPT !.at = "wait_test", !.val = 0])
  /\ UNCHANGED <<irqVars, blocked_pids, sleepVars, taskVars, queueVars, history>>

WaitTest ==
  /\ At("wait_test")
  /\ IF MustBlock(count[Frame.s])
       THEN /\ Continue([Frame EXCEPT !.at = "wait_enqueue"])
            /\ UNCHANGED holders
       ELSE /\ Continue(UserFrame)
            /\ holders' = [holders EXCEPT ![Frame.s] = @ \cup {pid_running}]
  /\ UNCHANGED <<vars, before>>

WaitEnqueue ==
  /\ At("wait_enqueue")
  /\ blocked_pids' = [blocked_pids EXCEPT
                        ![Frame.s] = pid_enqueue(@, pid_running)]
  /\ Schedule("TASK_BLOCKED")
  /\ UNCHANGED <<irqVars, count, sleepVars, taskVars, queueVars, history>>
-----------------------------------------------------------------------------
(* signal: count++, and the waking of the longest waiting task. *)

SignalLoad ==
  /\ At("signal")
  /\ Continue([Frame EXCEPT !.at = "signal_store", !.val = count[Frame.s]])
  /\ UNCHANGED <<vars, history>>

SignalStore ==
  /\ At("signal_store")
  /\ count' = [count EXCEPT ![Frame.s] = Frame.val + 1]
  /\ Continue([Frame EXCEPT !.at = "signal_dequeue", !.val = 0])
  /\ UNCHANGED <<irqVars, blocked_pids, sleepVars, taskVars, queueVars, history>>

SignalDequeue ==
  /\ At("signal_dequeue")
  /\ blocked_pids' = [blocked_pids EXCEPT ![Frame.s] = Dequeued(@)]
  /\ LET pid_wake_up == pid_dequeue(blocked_pids[Frame.s])
     IN Continue(IF pid_wake_up = NOT_FOUND
                   THEN UserFrame
                   ELSE [Frame EXCEPT !.at = "signal_find", !.pid = pid_wake_up])
  /\ UNCHANGED <<irqVars, count, sleepVars, taskVars, queueVars, history>>

SignalFind ==
  /\ At("signal_find")
  /\ Continue([Frame EXCEPT !.at = "signal_delete",
                            !.i = pid_queue_find(blocked, Frame.pid)])
  /\ UNCHANGED <<vars, history>>

SignalDelete ==
  /\ At("signal_delete")
  /\ blocked' = pid_queue_delete(blocked, Frame.i)
  /\ IF Frame.i = NOT_FOUND
       THEN panic' = "signal" /\ UNCHANGED frame
       ELSE /\ Continue([Frame EXCEPT !.at = "signal_ready", !.i = NOT_FOUND])
            /\ UNCHANGED panic
  /\ UNCHANGED <<irqVars, semVars, sleepVars, gdt, state, pid_running,
                 schdule_counter, free_pages, ready, sleeping, history>>

SignalReady ==
  /\ At("signal_ready")
  /\ MakeReady(Frame.pid)
  /\ holders' = [holders EXCEPT ![Frame.s] = @ \cup {Frame.pid}]
  /\ Continue(UserFrame)
  /\ UNCHANGED <<irqVars, semVars, sleepVars, gdt, pid_running,
                 schdule_counter, free_pages, panic, blocked, sleeping, before>>
-----------------------------------------------------------------------------
(* sys_sleep, sys_exit and create_task. *)

SleepSet ==
  /\ At("sleep")
  /\ wakeup_counter' = [wakeup_counter EXCEPT ![pid_running] = Frame.val]
  /\ asked' = [asked EXCEPT ![pid_running] = Frame.val]
  /\ slept' = [slept EXCEPT ![pid_running] = 0]
  /\ Schedule("TASK_SLEEP")
  /\ UNCHANGED <<irqVars, semVars, taskVars, queueVars, history>>

ExitClear ==
  /\ At("exit")
  /\ gdt' = gdt \ {pid_running}
  /\ Schedule("TASK_EXIT")
  /\ UNCHANGED <<irqVars, semVars, sleepVars, state, pid_running,
                 schdule_counter, free_pages, panic, queueVars, history>>

CreateFind ==
  /\ At("create")
  /\ \E pid \in Pids \cup {NOT_FOUND} :
       /\ get_pid_empty(pid)
       /\ Continue([Frame EXCEPT !.at = "create_gdt", !.pid = pid])
  /\ UNCHANGED <<vars, history>>

(* The descriptor is installed and the page directory allocated. *)
CreateInstall ==
  /\ At("create_gdt")
  /\ gdt' = gdt \cup ({Frame.pid} \cap Pids)
  /\ free_pages > 0
  /\ free_pages' = free_pages - 1
  /\ Continue([Frame EXCEPT !.at = "create_ready"])
  /\ UNCHANGED <<irqVars, semVars, sleepVars, state, pid_running,
                 schdule_counter, panic, queueVars, history>>

(* The new task starts from the entry point task_init put into its TSS. *)
CreateReady ==
  /\ At("create_ready")
  /\ MakeReady(Frame.pid)
  /\ frame' = [p \in Pids |-> IF p \in {pid_running, Frame.pid} THEN UserFrame
                                                              ELSE frame[p]]
  /\ UNCHANGED <<irqVars, semVars, sleepVars, gdt, pid_running,
                 schdule_counter, free_pages, panic, blocked, sleeping, history>>
-----------------------------------------------------------------------------
(* schedule and switch_to. *)

ScheduleWithoutReset ==
  /\ At("schedule")
  /\ Continue([Frame EXCEPT !.at = "dequeue"])
  /\ UNCHANGED <<vars, history>>

ScheduleReset ==
  /\ At("schedule")
  /\ schdule_counter' = TIME_PIECE
  /\ Continue([Frame EXCEPT !.at = "dequeue"])
  /\ UNCHANGED <<irqVars, semVars, sleepVars, gdt, state, pid_running,
                 free_pages, panic, queueVars, history>>

ScheduleDequeue ==
  /\ At("dequeue")
  /\ ready' = Dequeued(ready)
  /\ LET best_pid == pid_dequeue(ready)
     IN IF best_pid = NOT_FOUND
          THEN panic' = "schedule" /\ UNCHANGED frame
          ELSE /\ Continue(IF best_pid = pid_running
                             THEN UserFrame
                             ELSE [Frame EXCEPT !.at = "leave", !.pid = best_pid])
               /\ UNCHANGED panic
  /\ UNCHANGED <<irqVars, semVars, sleepVars, gdt, state, pid_running,
                 schdule_counter, free_pages, blocked, sleeping, history>>

(* set_task_state of the task that gives up the processor. *)
SwitchLeave ==
  /\ At("leave")
  /\ state' = [state EXCEPT ![pid_running] =
                 IF Frame.reason = "TASK_EXIT" THEN @ ELSE StateAfter(Frame.reason)]
  /\ blocked' = Joined(blocked, Frame.reason = "TASK_BLOCKED")
  /\ sleeping' = Joined(sleeping, Frame.reason = "TASK_SLEEP")
  /\ Continue([Frame EXCEPT !.at = "switch"])
  /\ UNCHANGED <<irqVars, semVars, sleepVars, gdt, pid_running,
                 schdule_counter, free_pages, panic, ready, history>>

(* set_task_state(pid, STATE_RUNNING): the far jump.  When the task that   *)
(* left runs again, it returns from its call.                              *)
SwitchRun ==
  /\ At("switch")
  /\ state' = [state EXCEPT ![Frame.pid] = "RUNNING"]
  /\ pid_running' = Frame.pid
  /\ Continue(UserFrame)
  /\ UNCHANGED <<irqVars, semVars, sleepVars, gdt, schdule_counter,
                 free_pages, panic, queueVars, history>>
-----------------------------------------------------------------------------
CallStep ==
  \/ WaitLoad \/ WaitStore \/ WaitTest \/ WaitEnqueue
  \/ SignalLoad \/ SignalStore \/ SignalDequeue \/ SignalFind
  \/ SignalDelete \/ SignalReady
  \/ SleepSet \/ ExitClear
  \/ CreateFind \/ CreateInstall \/ CreateReady
  \/ ScheduleReset \/ ScheduleDequeue \/ SwitchLeave \/ SwitchRun

PreemptNext ==
  \/ TimerStep
  \/ \E s \in Semaphores : CallWait(s) \/ CallSignal(s)
  \/ \E counter \in SleepArgs : CallSleep(counter)
  \/ CallExit
  \/ CallCreate
  \/ CallStep

PreemptSpec == PreemptInit /\ [][PreemptNext]_pvars
-----------------------------------------------------------------------------
(* A call that is under way has not happened yet. *)
Seen(now, then) == IF Frame.at = "user" THEN now ELSE then

Atomic == INSTANCE Sched WITH
  gdt <- Seen(gdt, before.gdt),
  state <- Seen(state, before.state),
  wakeup_counter <- Seen(wakeup_counter, before.wakeup_counter),
  ready <- Seen(ready, before.ready),
  blocked <- Seen(blocked, before.blocked),
  sleeping <- Seen(sleeping, before.sleeping),
  pid_running <- Seen(pid_running, before.pid_running),
  schdule_counter <- Seen(schdule_counter, before.schdule_counter),
  count <- Seen(count, before.count),
  blocked_pids <- Seen(blocked_pids, before.blocked_pids),
  free_pages <- Seen(free_pages, before.free_pages),
  panic <- Seen(panic, before.panic),
  asked <- Seen(asked, before.asked),
  slept <- Seen(slept, before.slept)

(***************************************************************************)
(* With interrupts masked during calls, the statements of wait, signal,    *)
(* sys_sleep, sys_exit, create_task, schedule and switch_to together do    *)
(* exactly what Sched's atomic actions say.                                *)
(***************************************************************************)
ImplementsSched == Atomic!Init /\ [][Atomic!Next]_(Atomic!vars)

(***************************************************************************)
(* A semaphore initialised to n admits n tasks at a time (semaphore.c:10   *)
(* calls wait the textbook implementation).                                *)
(***************************************************************************)
MutualExclusion ==
  \A s \in Semaphores : Cardinality(holders[s]) <= InitCount
=============================================================================
