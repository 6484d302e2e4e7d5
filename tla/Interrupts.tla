----------------------------- MODULE Interrupts -----------------------------
(***************************************************************************)
(* Interrupts, the order in which main sets them up, and the two handlers  *)
(* (kernel/interrupt, kernel/time, kernel/dev/keyboard.c, init/main.c).    *)
(*                                                                         *)
(* Of the hardware: the two 8259s as sets of interrupt lines (requested,   *)
(* in service, masked; fully nested, the lowest line first), the processor *)
(* with the interrupt flag of EFLAGS and the stack an interrupt pushes on, *)
(* the timer, and a keyboard that delivers scan codes one at a time.       *)
(*                                                                         *)
(* Which task check_task_affairs picks is left open; Sched says.  A key is *)
(* pressed only after time_init, which resets the interrupt controller;    *)
(* the firmware leaves the keyboard's output buffer empty.                 *)
(***************************************************************************)
EXTENDS Integers, Sequences, FiniteSets, FiniteSetsExt

CONSTANTS Tasks,       \* the tasks that share the processor
          Letters,     \* keys with a character, and another in upper case
          Repeating,   \* keys that send their code again while held down
          MaxScan      \* bound: scan codes the keyboard has in store

Lines == 0..15
PIC_START == 32
TIMER_INTERRUPT == 32
KEYBOARD_INTERRUPT == 33
PAGE_FAULT_INTERRUPT == 14
TIMER == TIMER_INTERRUPT - PIC_START
KEYBOARD == KEYBOARD_INTERRUPT - PIC_START
Vectors == {PAGE_FAULT_INTERRUPT} \cup {PIC_START + l : l \in Lines}

(* Handlers are named after the C function they call. *)
Handlers == {"none", "ignore_int", "on_timer", "on_keyboard", "on_page_fault"}

Keys == Letters \cup {"shift", "caps", "backspace"}

ASSUME InterruptsAssumption ==
  /\ Tasks # {} /\ "main" \notin Tasks
  /\ Letters \cap {"shift", "caps", "backspace"} = {}
  /\ Repeating \subseteq Keys
  /\ MaxScan \in Nat \ {0}

VARIABLES
  idt,       \* the handler of every vector
  imr,       \* PIC: masked lines
  irr,       \* PIC: requested lines
  isr,       \* PIC: lines in service
  running,   \* the task on the processor, at first main
  stack,     \* of every task: where it is, and below it what it interrupted
  state,     \* current_keyboard_state
  port,      \* the keyboard's output buffer (0x60), empty or one scan code
  scan,      \* scan codes the keyboard has not delivered
  held,      \* keys held down
  lock,      \* has caps lock been pressed an odd number of times?
  echo       \* history: what the last key did, and what its user expects

pic == <<imr, irr, isr>>
cpu == <<running, stack>>
keyboard == <<port, scan, held, lock>>
vars == <<idt, pic, cpu, state, keyboard, echo>>

BootLabels == {"interrupt_init", "time_init", "tty_init", "memory_init", "sti"}
HandlerLabels == {"ignore_int", "on_timer", "check_task_affairs",
                  "timer_iret", "on_keyboard", "pic_send_eoi", "iret"}
Labels == BootLabels \cup HandlerLabels \cup {"user"}

Effects == {"none", "lower", "upper", "erase"}
ScanCodes == [key : Keys, make : BOOLEAN, want : Effects]

TypeOK ==
  /\ idt \in [Vectors -> Handlers]
  /\ imr \subseteq Lines /\ irr \subseteq Lines /\ isr \subseteq Lines
  /\ running \in Tasks \cup {"main"}
  /\ stack \in [Tasks \cup {"main"} -> Seq([at : Labels, enabled : BOOLEAN])]
  /\ \A t \in Tasks \cup {"main"} : stack[t] # <<>>
  /\ state \in [caps_pressed : BOOLEAN, left_shift_pressed : BOOLEAN]
  /\ port \in Seq(ScanCodes) /\ Len(port) <= 1
  /\ scan \in Seq(ScanCodes) /\ Len(scan) <= MaxScan
  /\ held \subseteq Keys
  /\ lock \in BOOLEAN
  /\ echo \in [got : Effects, want : Effects]
-----------------------------------------------------------------------------
Frame(at, enabled) == [at |-> at, enabled |-> enabled]

Top == Head(stack[running])

At(label) == Top.at = label

(* The running task goes on in frame f instead of the one it is in. *)
Continue(f) == stack' = [stack EXCEPT ![running] = <<f>> \o Tail(@)]

Goto(label) == Continue([Top EXCEPT !.at = label])

(* keyboard_state_init *)
NothingPressed == [caps_pressed |-> FALSE, left_shift_pressed |-> FALSE]

(* Before sched_init there are no tasks; they begin with EFLAGS 0x202. *)
Init ==
  /\ idt = [v \in Vectors |-> "none"]
  /\ imr = {} /\ irr = {} /\ isr = {}
  /\ running = "main"
  /\ stack = [t \in Tasks \cup {"main"} |->
                <<IF t = "main" THEN Frame("interrupt_init", FALSE)
                                ELSE Frame("user", TRUE)>>]
  /\ state = NothingPressed
  /\ port = <<>> /\ scan = <<>> /\ held = {} /\ lock = FALSE
  /\ echo = [got |-> "none", want |-> "none"]
-----------------------------------------------------------------------------
(* main, with interrupts disabled by the loader, up to sti(). *)

SetsVectorBit(mask, n) == mask \cup {n}

EnablesNextLine(mask, n) == mask \ {n - PIC_START + 1}

interrupt_enable(mask, n) == IF n < PIC_START THEN mask ELSE mask \ {n - PIC_START}

set_idt(table, n, handler) == [table EXCEPT ![n] = handler]

(* Both controllers forget what they were doing and take a new mask. *)
Programmed(mask) == imr' = mask /\ irr' = {} /\ isr' = {}

(* Only the line of the second controller is left unmasked. *)
pic_init == Programmed(Lines \ {2})

(* The controllers are programmed again, with masks 0xFE and 0xFF. *)
CMOS_RTC_hardware_init == Programmed(Lines \ {TIMER})

interrupt_init ==
  /\ At("interrupt_init")
  /\ pic_init
  /\ idt' = [v \in Vectors |-> "ignore_int"]
  /\ Goto("time_init")
  /\ UNCHANGED <<running, state, keyboard, echo>>

time_init ==
  /\ At("time_init")
  /\ CMOS_RTC_hardware_init
  /\ idt' = set_idt(idt, TIMER_INTERRUPT, "on_timer")
  /\ Goto("tty_init")
  /\ UNCHANGED <<running, state, keyboard, echo>>

(* cls is the console's; the rest is keyboard_init. *)
tty_init ==
  /\ At("tty_init")
  /\ state' = NothingPressed
  /\ idt' = set_idt(idt, KEYBOARD_INTERRUPT, "on_keyboard")
  /\ imr' = interrupt_enable(imr, KEYBOARD_INTERRUPT)
  /\ Goto("memory_init")
  /\ UNCHANGED <<irr, isr, running, keyboard, echo>>

(* memory_init, sched_init, fs_init and fs_test *)
memory_init ==
  /\ At("memory_init")
  /\ idt' = set_idt(idt, PAGE_FAULT_INTERRUPT, "on_page_fault")
  /\ Goto("sti")
  /\ UNCHANGED <<pic, running, state, keyboard, echo>>

sti ==
  /\ At("sti")
  /\ Continue(Frame("user", TRUE))
  /\ UNCHANGED <<idt, pic, running, state, keyboard, echo>>
-----------------------------------------------------------------------------
(* The hardware. *)

(* A tick's handler (microseconds) ends before the next tick (10 ms). *)
TimerTick ==
  /\ TIMER \notin irr
  /\ Top.at \notin {"on_timer", "check_task_affairs", "timer_iret"}
  /\ irr' = irr \cup {TIMER}
  /\ UNCHANGED <<idt, imr, isr, cpu, state, keyboard, echo>>

(* What a letter, seen from outside, should do. *)
Wanted(key) ==
  IF key \in Letters
    THEN IF ("shift" \in held) # lock THEN "upper" ELSE "lower"
    ELSE IF key = "backspace" THEN "erase" ELSE "none"

Send(key, make, want) ==
  /\ stack["main"][Len(stack["main"])].at \notin {"interrupt_init", "time_init"}
  /\ Len(scan) < MaxScan
  /\ scan' = Append(scan, [key |-> key, make |-> make, want |-> want])
  /\ UNCHANGED <<idt, pic, cpu, state, port, echo>>

Press(key) ==
  /\ key \notin held
  /\ Send(key, TRUE, Wanted(key))
  /\ held' = held \cup {key}
  /\ lock' = (lock # (key = "caps"))

Repeat(key) ==
  /\ key \in held \cap Repeating
  /\ Send(key, TRUE, Wanted(key))
  /\ UNCHANGED <<held, lock>>

Release(key) ==
  /\ key \in held
  /\ Send(key, FALSE, "none")
  /\ held' = held \ {key}
  /\ UNCHANGED lock

(* The next scan code reaches the port, which requests an interrupt. *)
Deliver ==
  /\ port = <<>> /\ scan # <<>>
  /\ port' = <<Head(scan)>>
  /\ scan' = Tail(scan)
  /\ irr' = irr \cup {KEYBOARD}
  /\ UNCHANGED <<idt, imr, isr, cpu, state, held, lock, echo>>

TrapGateFlag == TRUE

(* make_idt_desc, 0x8E00: an interrupt gate, which clears the flag. *)
GateFlag == FALSE

Accept(line) ==
  /\ Top.enabled
  /\ line \in irr \ imr
  /\ \A l \in irr \ imr : line <= l
  /\ \A l \in isr : line < l
  /\ irr' = irr \ {line}
  /\ isr' = isr \cup {line}
  /\ stack' = [stack EXCEPT ![running] =
                 <<Frame(idt[PIC_START + line], GateFlag)>> \o @]
  /\ UNCHANGED <<idt, imr, running, state, keyboard, echo>>
-----------------------------------------------------------------------------
(* The handlers. *)

(* A non-specific end of interrupt, for the highest line in service. *)
pic_send_eoi(service) == IF service = {} THEN {} ELSE service \ {Min(service)}

Iret ==
  /\ Top.at \in {"ignore_int", "timer_iret", "iret"}
  /\ stack' = [stack EXCEPT ![running] = Tail(@)]
  /\ UNCHANGED <<idt, pic, running, state, keyboard, echo>>

on_timer_without_eoi ==
  /\ At("on_timer")
  /\ Goto("check_task_affairs")
  /\ UNCHANGED <<idt, pic, running, state, keyboard, echo>>

(* ticks++ and the end of interrupt, before any task switch. *)
on_timer ==
  /\ At("on_timer")
  /\ isr' = pic_send_eoi(isr)
  /\ Goto("check_task_affairs")
  /\ UNCHANGED <<idt, imr, irr, running, state, keyboard, echo>>

(* The processor goes on with another task where that one was, or not. *)
check_task_affairs ==
  /\ At("check_task_affairs")
  /\ Goto("timer_iret")
  /\ running' \in Tasks \cup {running}
  /\ UNCHANGED <<idt, pic, state, keyboard, echo>>

(* A task leaves the processor in a kernel call (sleep, wait, exit). *)
schedule ==
  /\ At("user")
  /\ running \in Tasks
  /\ running' \in Tasks \ {running}
  /\ UNCHANGED <<idt, pic, stack, state, keyboard, echo>>

should_enable_upper_case == state.caps_pressed # state.left_shift_pressed

is_usual_key(code) == code.key \in Letters

(* What putchar and print_back are called for. *)
Echoed(code) ==
  CASE code.make /\ is_usual_key(code) ->
         IF should_enable_upper_case THEN "upper" ELSE "lower"
    [] code.make /\ code.key = "backspace" -> "erase"
    [] OTHER -> "none"

on_make_code(code) ==
  /\ echo' = [got |-> Echoed(code), want |-> code.want]
  /\ state' = [caps_pressed |->
                 state.caps_pressed # (code.make /\ code.key = "caps"),
               left_shift_pressed |->
                 state.left_shift_pressed # (code.make /\ code.key = "shift")]

on_key(code) ==
  /\ echo' = [got |-> Echoed(code), want |-> code.want]
  /\ state' = [caps_pressed |->
                 state.caps_pressed # (code.make /\ code.key = "caps"),
               left_shift_pressed |->
                 state.left_shift_pressed # (code.key = "shift")]

on_keyboard ==
  /\ At("on_keyboard")
  /\ IF port # <<>> THEN on_key(Head(port)) ELSE UNCHANGED <<state, echo>>
  /\ port' = <<>>
  /\ Goto("pic_send_eoi")
  /\ UNCHANGED <<idt, pic, running, scan, held, lock>>

NoKeyboardEoi ==
  /\ At("pic_send_eoi")
  /\ Goto("iret")
  /\ UNCHANGED <<idt, pic, running, state, keyboard, echo>>

KeyboardEoi ==
  /\ At("pic_send_eoi")
  /\ isr' = pic_send_eoi(isr)
  /\ Goto("iret")
  /\ UNCHANGED <<idt, imr, irr, running, state, keyboard, echo>>
-----------------------------------------------------------------------------
Boot == interrupt_init \/ time_init \/ tty_init \/ memory_init \/ sti

Handle == Iret \/ on_timer \/ check_task_affairs \/ on_keyboard \/ KeyboardEoi

Next ==
  \/ Boot \/ Handle
  \/ TimerTick \/ Deliver
  \/ \E key \in Keys : Press(key) \/ Repeat(key) \/ Release(key)
  \/ \E line \in Lines : Accept(line)
  \/ schedule

(***************************************************************************)
(* The processor executes main and the handlers; the timer ticks; an       *)
(* interrupt that can be accepted is.  A key waits for the timer, which    *)
(* goes first, but as a tick's handler ends before the next tick, the      *)
(* key's turn comes again and again: strong fairness.                      *)
(***************************************************************************)
Spec ==
  /\ Init /\ [][Next]_vars
  /\ WF_vars(Boot) /\ WF_vars(Handle)
  /\ WF_vars(TimerTick) /\ WF_vars(Deliver)
  /\ WF_vars(Accept(TIMER)) /\ SF_vars(Accept(KEYBOARD))
-----------------------------------------------------------------------------
(***************************************************************************)
(* main.c:61, "enabling interrupts comes last": once interrupts are        *)
(* enabled, every line that is not masked has a handler that ends its      *)
(* interrupt (ignore_int does not), and both devices are unmasked,         *)
(* although time_init programs the controllers a second time.              *)
(***************************************************************************)
UnmaskedAreHandled ==
  Top.enabled =>
    /\ {TIMER, KEYBOARD} \cap imr = {}
    /\ \A l \in Lines \ imr :
         idt[PIC_START + l] \notin {"none", "ignore_int", "on_page_fault"}

(* The lines whose handler has not yet sent the end of interrupt. *)
Unacknowledged(label) ==
  CASE label = "on_timer" -> {TIMER}
    [] label \in {"on_keyboard", "pic_send_eoi"} -> {KEYBOARD}
    [] OTHER -> {}

(***************************************************************************)
(* A line is in service only while the processor is in its handler, never  *)
(* in a task that a handler has switched to: on_timer sends the end of     *)
(* interrupt before check_task_affairs, which may not come back for long   *)
(* (time.c:47).                                                            *)
(***************************************************************************)
ServiceEndsInHandler == isr = Unacknowledged(Top.at)

(***************************************************************************)
(* No task runs its own code with interrupts disabled, however it was      *)
(* switched to: from the timer interrupt, out of a kernel call, or for the *)
(* first time with the EFLAGS of task.h; and no handler is interrupted, so *)
(* that a task's stack (a page) holds one handler's frame at most.         *)
(***************************************************************************)
TasksInterruptible ==
  \A t \in Tasks :
    /\ Len(stack[t]) <= 2
    /\ \A k \in 1..Len(stack[t]) :
         stack[t][k].enabled <=> stack[t][k].at = "user"

(***************************************************************************)
(* keyboard.c:122-173: a letter is echoed in upper case exactly if left    *)
(* shift was held or caps lock on, and not both, when it was typed, though *)
(* it is handled later and the state is kept by toggling.                  *)
(***************************************************************************)
EchoesWhatWasTyped == echo.got = echo.want

(* A scan code at the port is read. *)
KeysAreRead == (port # <<>>) ~> (port = <<>>)

(* The timer interrupts for ever: no handler or switch stops the clock. *)
TimerNeverStops == []<>At("check_task_affairs")
=============================================================================
