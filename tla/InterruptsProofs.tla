-------------------------- MODULE InterruptsProofs --------------------------
(***************************************************************************)
(* Theorems about Interrupts, for every set of tasks, of letters and of    *)
(* repeating keys, and for every length of the keyboard's store.           *)
(***************************************************************************)
EXTENDS Interrupts, SequenceTheorems, TLAPS

UserFrame == Frame("user", TRUE)

(* A task is in its own code, or in a handler that interrupted it; main    *)
(* can also be in its initialisation.                                      *)
Stacks(t) ==
  {<<UserFrame>>}
    \cup {<<Frame(l, FALSE), UserFrame>> : l \in HandlerLabels \ {"ignore_int"}}
    \cup {<<Frame(l, FALSE)>> : l \in IF t = "main" THEN BootLabels ELSE {}}

StackShape == \A t \in Tasks \cup {"main"} : stack[t] \in Stacks(t)

Booting(l) == stack["main"] = <<Frame(l, FALSE)>>

(* A task that is not on the processor left it in a kernel call or at the  *)
(* end of the timer's handler.                                             *)
Suspended ==
  \A t \in (Tasks \cup {"main"}) \ {running} :
    Head(stack[t]).at \in {"user", "timer_iret"}

(* What main has set up when it is past the given steps. *)
BootOrder ==
  /\ Booting("interrupt_init") \/ Booting("time_init") =>
       scan = <<>> /\ port = <<>>
  /\ Booting("interrupt_init") \/ Booting("time_init") \/ Booting("tty_init") =>
       state = NothingPressed
  /\ Booting("tty_init") =>
       imr = Lines \ {TIMER} /\ idt[TIMER_INTERRUPT] = "on_timer"
  /\ ~(Booting("interrupt_init") \/ Booting("time_init") \/ Booting("tty_init")) =>
       /\ imr = Lines \ {TIMER, KEYBOARD}
       /\ idt[TIMER_INTERRUPT] = "on_timer"
       /\ idt[KEYBOARD_INTERRUPT] = "on_keyboard"

StackInv == TypeOK /\ StackShape /\ Suspended /\ BootOrder /\ ServiceEndsInHandler
-----------------------------------------------------------------------------
(* The operations on stacks of one or two frames. *)
LEMMA StackOps ==
  ASSUME NEW f, NEW g, NEW h
  PROVE  /\ <<f>> \o Tail(<<g>>) = <<f>>
         /\ <<f>> \o <<g>> = <<f, g>>
         /\ Tail(<<g, h>>) = <<h>>
         /\ Head(<<g>>) = g /\ Head(<<g, h>>) = g
<1>1. /\ Tail(<<g>>) = <<>> /\ Tail(<<g, h>>) = <<h>>
      /\ Head(<<g>>) = g /\ Head(<<g, h>>) = g
  OBVIOUS
<1>2. ASSUME NEW x PROVE <<f>> \o <<x>> = <<f, x>>
  <2>1. /\ <<f>> \in Seq({f, x}) /\ <<x>> \in Seq({f, x}) /\ <<f, x>> \in Seq({f, x})
        /\ Len(<<f>>) = 1 /\ Len(<<x>>) = 1 /\ Len(<<f, x>>) = 2
        /\ <<f>>[1] = f /\ <<x>>[1] = x /\ <<f, x>>[1] = f /\ <<f, x>>[2] = x
    OBVIOUS
  <2>2. /\ <<f>> \o <<x>> \in Seq({f, x})
        /\ Len(<<f>> \o <<x>>) = 2
        /\ \A i \in 1..2 : (<<f>> \o <<x>>)[i] = <<f, x>>[i]
    BY <2>1, ConcatProperties
  <2> QED BY <2>1, <2>2, SeqEqual
<1>3. <<f>> \o <<>> = <<f>>
  <2>1. <<f>> \in Seq({f})
    OBVIOUS
  <2> QED BY <2>1, ConcatEmptySeq
<1> QED BY <1>1, <1>2, <1>3

(* The upper of two frames is replaced. *)
LEMMA UpperReplaced ==
  ASSUME NEW f, NEW g, NEW h
  PROVE  <<f>> \o Tail(<<g, h>>) = <<f, h>>
<1>1. Tail(<<g, h>>) = <<h>>
  OBVIOUS
<1>2. <<f>> \o <<h>> = <<f, h>>
  BY StackOps
<1> QED BY <1>1, <1>2, Zenon

(* The numbers that name lines and vectors. *)
LEMMA LineFacts ==
  /\ TIMER = 0 /\ KEYBOARD = 1 /\ TIMER \in Lines /\ KEYBOARD \in Lines
  /\ TIMER_INTERRUPT = 32 /\ KEYBOARD_INTERRUPT = 33
  /\ PIC_START = 32 /\ PAGE_FAULT_INTERRUPT = 14
  /\ TIMER_INTERRUPT \in Vectors /\ KEYBOARD_INTERRUPT \in Vectors
  /\ PAGE_FAULT_INTERRUPT \in Vectors
  /\ \A l \in Lines : PIC_START + l \in Vectors
  /\ Lines \subseteq Nat
BY DEF TIMER, KEYBOARD, TIMER_INTERRUPT, KEYBOARD_INTERRUPT, PIC_START,
       PAGE_FAULT_INTERRUPT, Lines, Vectors

(* The end of interrupt for the only line in service. *)
LEMMA EoiOfOne ==
  ASSUME NEW line \in Lines
  PROVE  pic_send_eoi({line}) = {}
<1>1. Min({line}) = line
  BY LineFacts DEF Min
<1> QED BY <1>1 DEF pic_send_eoi

(* Where the running task can be. *)
LEMMA RunningStack ==
  ASSUME TypeOK, StackShape, Suspended
  PROVE  \/ stack[running] = <<UserFrame>> /\ Top = UserFrame
         \/ \E l \in HandlerLabels \ {"ignore_int"} :
              stack[running] = <<Frame(l, FALSE), UserFrame>> /\ Top = Frame(l, FALSE)
         \/ \E l \in BootLabels :
              /\ running = "main" /\ Booting(l)
              /\ stack[running] = <<Frame(l, FALSE)>> /\ Top = Frame(l, FALSE)
<1>1. running \in Tasks \cup {"main"}
  BY DEF TypeOK
<1>2. stack[running] \in Stacks(running)
  BY <1>1 DEF StackShape
<1>3. CASE stack[running] = <<UserFrame>>
  BY <1>3 DEF Top
<1>4. ASSUME NEW l \in HandlerLabels \ {"ignore_int"},
             stack[running] = <<Frame(l, FALSE), UserFrame>>
      PROVE  Top = Frame(l, FALSE)
  BY <1>4 DEF Top
<1>5. ASSUME NEW l \in BootLabels, running = "main",
             stack[running] = <<Frame(l, FALSE)>>
      PROVE  Top = Frame(l, FALSE) /\ Booting(l)
  <2>1. Top = Frame(l, FALSE)
    BY <1>5 DEF Top
  <2> QED BY <1>5, <2>1 DEF Booting
<1> QED BY <1>2, <1>3, <1>4, <1>5 DEF Stacks

(* main is on the processor while it boots. *)
LEMMA BootingRuns ==
  ASSUME StackShape, Suspended, NEW l \in BootLabels, Booting(l)
  PROVE  running = "main"
<1>1. stack["main"] = <<Frame(l, FALSE)>>
  BY DEF Booting
<1>2. Head(stack["main"]).at = l
  BY <1>1 DEF Frame
<1> QED BY <1>2 DEF Suspended, BootLabels

(* A processor in a handler or in a task is past main's initialisation. *)
LEMMA NotBooting ==
  ASSUME StackShape, Suspended, Top.at \notin BootLabels, NEW l \in BootLabels
  PROVE  ~Booting(l)
<1> SUFFICES ASSUME Booting(l) PROVE FALSE
  OBVIOUS
<1>1. running = "main"
  BY BootingRuns
<1>2. stack[running] = <<Frame(l, FALSE)>>
  BY <1>1 DEF Booting
<1> QED BY <1>2 DEF Top, Frame

FrameTypes == [at : Labels, enabled : BOOLEAN]

(* The operations on a frame and on a stack that ends with it. *)
LEMMA FrameGoesOn ==
  ASSUME NEW k, NEW b, NEW l
  PROVE  [Frame(k, b) EXCEPT !.at = l] = Frame(l, b)
<1>1. ASSUME NEW x PROVE [[at |-> k, enabled |-> x] EXCEPT !.at = l] = [at |-> l, enabled |-> x]
  OBVIOUS
<1> QED BY <1>1 DEF Frame

LEMMA TupleType ==
  ASSUME NEW S, NEW f \in S, NEW g \in S
  PROVE  /\ <<f>> \in Seq(S) /\ <<f>> # <<>>
         /\ <<f, g>> \in Seq(S) /\ <<f, g>> # <<>>
OBVIOUS

LEMMA StacksType ==
  ASSUME NEW t, NEW s \in Stacks(t)
  PROVE  s \in Seq(FrameTypes) /\ s # <<>>
<1>1. ASSUME NEW l \in Labels, NEW b \in BOOLEAN PROVE Frame(l, b) \in FrameTypes
  BY DEF Frame, FrameTypes
<1>2. UserFrame \in FrameTypes
  BY <1>1 DEF UserFrame, Labels
<1>3. CASE s = <<UserFrame>>
  BY <1>2, <1>3
<1>4. ASSUME NEW l \in HandlerLabels, s = <<Frame(l, FALSE), UserFrame>>
      PROVE  s \in Seq(FrameTypes) /\ s # <<>>
  <2>1. Frame(l, FALSE) \in FrameTypes
    BY <1>1 DEF Labels
  <2> QED BY <1>2, <1>4, <2>1, TupleType
<1>5. ASSUME NEW l \in BootLabels, s = <<Frame(l, FALSE)>>
      PROVE  s \in Seq(FrameTypes) /\ s # <<>>
  <2>1. Frame(l, FALSE) \in FrameTypes
    BY <1>1 DEF Labels
  <2> QED BY <1>5, <2>1, TupleType
<1> QED BY <1>3, <1>4, <1>5 DEF Stacks

(* The running task's stack is replaced. *)
LEMMA NewStack ==
  ASSUME TypeOK, StackShape, NEW s \in Stacks(running),
         stack' = [stack EXCEPT ![running] = s]
  PROVE  /\ StackShape'
         /\ stack' \in [Tasks \cup {"main"} -> Seq(FrameTypes)]
         /\ \A t \in Tasks \cup {"main"} : stack'[t] # <<>>
         /\ \A t \in (Tasks \cup {"main"}) \ {running} : stack'[t] = stack[t]
         /\ stack'[running] = s
<1>1. /\ stack \in [Tasks \cup {"main"} -> Seq(FrameTypes)]
      /\ running \in Tasks \cup {"main"}
  BY DEF TypeOK, FrameTypes
<1>2. s \in Seq(FrameTypes)
  BY StacksType
<1>3. /\ stack' \in [Tasks \cup {"main"} -> Seq(FrameTypes)]
      /\ \A t \in (Tasks \cup {"main"}) \ {running} : stack'[t] = stack[t]
      /\ stack'[running] = s
  BY <1>1, <1>2
<1>4. \A t \in Tasks \cup {"main"} : stack'[t] \in Stacks(t)
  BY <1>3 DEF StackShape
<1>5. StackShape'
  BY <1>4 DEF StackShape, Stacks
<1> QED BY <1>3, <1>4, <1>5, StacksType

StackType ==
  /\ stack \in [Tasks \cup {"main"} -> Seq(FrameTypes)]
  /\ \A t \in Tasks \cup {"main"} : stack[t] # <<>>

(* A handler goes on to its next step. *)
LEMMA HandlerGoesOn ==
  ASSUME TypeOK, StackShape, Suspended,
         NEW k \in HandlerLabels, NEW l \in HandlerLabels \ {"ignore_int"},
         At(k), Goto(l)
  PROVE  /\ StackShape' /\ StackType'
         /\ \A t \in (Tasks \cup {"main"}) \ {running} : stack'[t] = stack[t]
         /\ Head(stack'[running]) = Frame(l, FALSE)
         /\ \A b \in BootLabels : ~Booting(b) /\ ~Booting(b)'
<1>1. k # "user" /\ k \notin BootLabels
  BY DEF HandlerLabels, BootLabels
<1>2. UserFrame.at = "user" /\ \A m : Frame(m, FALSE).at = m
  BY DEF UserFrame, Frame
<1>3. /\ stack[running] = <<Frame(k, FALSE), UserFrame>>
      /\ Top = Frame(k, FALSE)
  BY <1>1, <1>2, RunningStack DEF At
<1>4. [Top EXCEPT !.at = l] = Frame(l, FALSE)
  BY <1>3, FrameGoesOn
<1>5. stack' = [stack EXCEPT ![running] = <<Frame(l, FALSE), UserFrame>>]
  <2>1. stack' = [stack EXCEPT ![running] = <<[Top EXCEPT !.at = l]>> \o Tail(stack[running])]
    BY DEF Goto, Continue
  <2>2. <<Frame(l, FALSE)>> \o Tail(<<Frame(k, FALSE), UserFrame>>)
          = <<Frame(l, FALSE), UserFrame>>
    BY UpperReplaced
  <2> QED BY <1>3, <1>4, <2>1, <2>2, Zenon
<1>6. <<Frame(l, FALSE), UserFrame>> \in Stacks(running)
  BY DEF Stacks
<1>7. /\ StackShape' /\ StackType'
      /\ \A t \in (Tasks \cup {"main"}) \ {running} : stack'[t] = stack[t]
      /\ stack'[running] = <<Frame(l, FALSE), UserFrame>>
  BY <1>5, <1>6, NewStack DEF StackType
<1>8. Head(stack'[running]) = Frame(l, FALSE)
  BY <1>7, StackOps
<1>9. ASSUME NEW b \in BootLabels PROVE ~Booting(b) /\ ~Booting(b)'
  <2>1. ~Booting(b)
    BY <1>1, <1>2, <1>3, NotBooting
  <2>2. <<Frame(l, FALSE), UserFrame>> # <<Frame(b, FALSE)>>
    OBVIOUS
  <2>3. CASE running = "main"
    BY <1>7, <2>1, <2>2, <2>3 DEF Booting
  <2>4. CASE running # "main"
    BY <1>7, <2>1, <2>4 DEF Booting
  <2> QED BY <2>1, <2>3, <2>4
<1> QED BY <1>7, <1>8, <1>9

(* main goes on to its next step, before it enables interrupts. *)
LEMMA MainGoesOn ==
  ASSUME TypeOK, StackShape, Suspended,
         NEW k \in BootLabels, NEW l \in BootLabels, At(k), Goto(l)
  PROVE  /\ StackShape' /\ StackType'
         /\ running = "main"
         /\ \A t \in Tasks : stack'[t] = stack[t]
         /\ Top = Frame(k, FALSE) /\ Head(stack'[running]) = Frame(l, FALSE)
         /\ \A b \in BootLabels : Booting(b) <=> b = k
         /\ \A b \in BootLabels : Booting(b)' <=> b = l
<1>1. k # "user" /\ k \notin HandlerLabels
  BY DEF HandlerLabels, BootLabels
<1>2. UserFrame.at = "user" /\ \A m : Frame(m, FALSE).at = m
  BY DEF UserFrame, Frame
<1>3. /\ stack[running] = <<Frame(k, FALSE)>>
      /\ Top = Frame(k, FALSE)
      /\ running = "main"
  BY <1>1, <1>2, RunningStack DEF At
<1>4. [Top EXCEPT !.at = l] = Frame(l, FALSE)
  BY <1>3, FrameGoesOn
<1>5. stack' = [stack EXCEPT ![running] = <<Frame(l, FALSE)>>]
  <2>1. stack' = [stack EXCEPT ![running] = <<[Top EXCEPT !.at = l]>> \o Tail(stack[running])]
    BY DEF Goto, Continue
  <2>2. <<Frame(l, FALSE)>> \o Tail(<<Frame(k, FALSE)>>) = <<Frame(l, FALSE)>>
    BY StackOps, Zenon
  <2> QED BY <1>3, <1>4, <2>1, <2>2, Zenon
<1>6. <<Frame(l, FALSE)>> \in Stacks(running)
  BY <1>3 DEF Stacks
<1>7. /\ StackShape' /\ StackType'
      /\ \A t \in (Tasks \cup {"main"}) \ {running} : stack'[t] = stack[t]
      /\ stack'[running] = <<Frame(l, FALSE)>>
  BY <1>5, <1>6, NewStack DEF StackType
<1>8. Head(stack'[running]) = Frame(l, FALSE)
  BY <1>7, StackOps
<1>9. ASSUME NEW b \in BootLabels, NEW c \in BootLabels
      PROVE  <<Frame(b, FALSE)>> = <<Frame(c, FALSE)>> <=> b = c
  BY DEF Frame
<1> QED BY <1>3, <1>7, <1>8, <1>9, InterruptsAssumption DEF Booting

(* The conjuncts of TypeOK that are not about stacks. *)
PicType ==
  /\ idt \in [Vectors -> Handlers]
  /\ imr \subseteq Lines /\ irr \subseteq Lines /\ isr \subseteq Lines

KeyboardType ==
  /\ state \in [caps_pressed : BOOLEAN, left_shift_pressed : BOOLEAN]
  /\ port \in Seq(ScanCodes) /\ Len(port) <= 1
  /\ scan \in Seq(ScanCodes) /\ Len(scan) <= MaxScan
  /\ held \subseteq Keys
  /\ lock \in BOOLEAN
  /\ echo \in [got : Effects, want : Effects]

LEMMA TypeParts ==
  /\ TypeOK <=>
       PicType /\ StackType /\ KeyboardType /\ running \in Tasks \cup {"main"}
  /\ TypeOK' <=>
       PicType' /\ StackType' /\ KeyboardType' /\ running' \in Tasks \cup {"main"}
BY DEF TypeOK, PicType, StackType, KeyboardType, FrameTypes

(* Before its boot's end, main is at exactly one step of it. *)
LEMMA BootLabelsDistinct ==
  ASSUME NEW b, NEW c, Booting(b), Booting(c)
  PROVE  b = c
BY DEF Booting, Frame

LEMMA InitStackInv ==
  ASSUME Init
  PROVE  StackInv
<1>1. \A t \in Tasks \cup {"main"} :
        stack[t] = IF t = "main" THEN <<Frame("interrupt_init", FALSE)>> ELSE <<UserFrame>>
  BY DEF Init, UserFrame
<1>2. StackShape
  BY <1>1 DEF StackShape, Stacks, BootLabels
<1>3. StackType
  <2>1. DOMAIN stack = Tasks \cup {"main"} /\ stack = [t \in DOMAIN stack |-> stack[t]]
    BY DEF Init
  <2> QED BY <1>2, <2>1, StacksType DEF StackType, StackShape
<1>4. running = "main" /\ Top = Frame("interrupt_init", FALSE)
  <2>1. running = "main" /\ stack["main"] = <<Frame("interrupt_init", FALSE)>>
    BY <1>1 DEF Init
  <2> QED BY <2>1, StackOps DEF Top
<1>5. PicType
  BY DEF Init, PicType, Handlers
<1>6. KeyboardType
  <2>1. state \in [caps_pressed : BOOLEAN, left_shift_pressed : BOOLEAN]
    BY DEF Init, NothingPressed
  <2>2. port = <<>> /\ scan = <<>> /\ held = {} /\ lock = FALSE
    BY DEF Init
  <2>3. echo \in [got : Effects, want : Effects]
    BY DEF Init, Effects
  <2>4. MaxScan \in Nat \ {0}
    BY InterruptsAssumption
  <2>5. lock \in BOOLEAN
    BY <2>2
  <2>6. /\ port \in Seq(ScanCodes) /\ Len(port) <= 1
        /\ scan \in Seq(ScanCodes) /\ Len(scan) <= MaxScan
    BY <2>2, <2>4
  <2> QED BY <2>1, <2>2, <2>3, <2>5, <2>6 DEF KeyboardType
<1>7. TypeOK
  BY <1>3, <1>4, <1>5, <1>6, TypeParts
<1>8. ServiceEndsInHandler
  BY <1>4 DEF Init, ServiceEndsInHandler, Unacknowledged, Frame
<1>9. Suspended
  <2>1. ASSUME NEW t \in Tasks, t # "main" PROVE Head(stack[t]) = UserFrame
    BY <1>1, <2>1, StackOps
  <2> QED BY <1>4, <2>1 DEF Suspended, UserFrame, Frame
<1>10. BootOrder
  <2>1. Booting("interrupt_init")
    BY <1>1 DEF Booting
  <2>2. ~Booting("tty_init")
    BY <2>1, BootLabelsDistinct
  <2> QED BY <2>1, <2>2 DEF BootOrder, Init
<1> QED BY <1>2, <1>7, <1>8, <1>9, <1>10 DEF StackInv
-----------------------------------------------------------------------------
(* main's steps *)

KeyboardVars == <<state, keyboard, echo>>

LEMMA KeyboardTypeStutters ==
  ASSUME KeyboardType, UNCHANGED KeyboardVars
  PROVE  KeyboardType'
BY DEF KeyboardType, KeyboardVars, keyboard

(* While main boots, every task is still where it begins. *)
LEMMA BootStep ==
  ASSUME StackInv, Boot
  PROVE  StackInv'
<1> USE DEF StackInv
<1>0. /\ TypeOK /\ StackShape /\ Suspended
      /\ PicType /\ StackType /\ KeyboardType /\ running \in Tasks \cup {"main"}
  BY TypeParts
<1>1. ASSUME NEW k \in BootLabels, NEW l \in BootLabels, At(k), Goto(l),
             running' = running, isr' = {}
      PROVE  Suspended' /\ ServiceEndsInHandler'
  <2>1. /\ running = "main" /\ \A t \in Tasks : stack'[t] = stack[t]
        /\ Head(stack'[running]) = Frame(l, FALSE)
    BY <1>0, <1>1, MainGoesOn
  <2>2. Top' = Frame(l, FALSE)
    BY <1>1, <2>1 DEF Top
  <2>3. Suspended'
    BY <1>0, <1>1, <2>1 DEF Suspended
  <2>4. ServiceEndsInHandler'
    BY <1>1, <2>2 DEF ServiceEndsInHandler, Unacknowledged, Frame, BootLabels
  <2> QED BY <2>3, <2>4
<1>2. ASSUME NEW k \in BootLabels, At(k) PROVE isr = {} /\ Booting(k)
  <2>1. Top = Frame(k, FALSE) /\ Booting(k)
    <3>1. k # "user" /\ k \notin HandlerLabels
      BY DEF HandlerLabels, BootLabels
    <3>2. UserFrame.at = "user" /\ \A m : Frame(m, FALSE).at = m
      BY DEF UserFrame, Frame
    <3> QED BY <1>0, <1>2, <3>1, <3>2, RunningStack DEF At
  <2>2. ServiceEndsInHandler
    OBVIOUS
  <2> QED BY <1>2, <2>1, <2>2 DEF ServiceEndsInHandler, Unacknowledged, At, BootLabels
<1>3. CASE interrupt_init
  <2>1. At("interrupt_init") /\ Goto("time_init")
    BY <1>3 DEF interrupt_init
  <2>2. "interrupt_init" \in BootLabels /\ "time_init" \in BootLabels
    BY DEF BootLabels
  <2>3. /\ imr' = Lines \ {2} /\ irr' = {} /\ isr' = {}
        /\ idt' = [v \in Vectors |-> "ignore_int"] /\ UNCHANGED KeyboardVars
        /\ running' = running
    BY <1>3 DEF interrupt_init, pic_init, Programmed, KeyboardVars
  <2>4. /\ StackShape' /\ StackType'
        /\ \A b \in BootLabels : Booting(b) <=> b = "interrupt_init"
        /\ \A b \in BootLabels : Booting(b)' <=> b = "time_init"
    BY <1>0, <2>1, <2>2, MainGoesOn
  <2>5. PicType'
    BY <2>3 DEF PicType, Handlers
  <2>6. BootOrder'
    BY <2>2, <2>3, <2>4 DEF BootOrder, KeyboardVars, keyboard, BootLabels
  <2>7. TypeOK'
    BY <1>0, <2>3, <2>4, <2>5, KeyboardTypeStutters, TypeParts
  <2> QED BY <1>1, <2>1, <2>2, <2>3, <2>4, <2>6, <2>7
<1>4. CASE time_init
  <2>1. At("time_init") /\ Goto("tty_init")
    BY <1>4 DEF time_init
  <2>2. "time_init" \in BootLabels /\ "tty_init" \in BootLabels
    BY DEF BootLabels
  <2>3. /\ imr' = Lines \ {TIMER} /\ irr' = {} /\ isr' = {}
        /\ idt' = [idt EXCEPT ![TIMER_INTERRUPT] = "on_timer"]
        /\ UNCHANGED KeyboardVars /\ running' = running
    BY <1>4 DEF time_init, CMOS_RTC_hardware_init, Programmed, KeyboardVars, set_idt
  <2>4. /\ StackShape' /\ StackType'
        /\ \A b \in BootLabels : Booting(b) <=> b = "time_init"
        /\ \A b \in BootLabels : Booting(b)' <=> b = "tty_init"
    BY <1>0, <2>1, <2>2, MainGoesOn
  <2>5. PicType' /\ idt'[TIMER_INTERRUPT] = "on_timer"
    BY <1>0, <2>3, LineFacts DEF PicType, Handlers
  <2>6. BootOrder'
    BY <2>2, <2>3, <2>4, <2>5 DEF BootOrder, KeyboardVars, keyboard, BootLabels
  <2>7. TypeOK'
    BY <1>0, <2>3, <2>4, <2>5, KeyboardTypeStutters, TypeParts
  <2> QED BY <1>1, <2>1, <2>2, <2>3, <2>4, <2>6, <2>7
<1>5. CASE tty_init
  <2>1. At("tty_init") /\ Goto("memory_init")
    BY <1>5 DEF tty_init
  <2>2. "tty_init" \in BootLabels /\ "memory_init" \in BootLabels
    BY DEF BootLabels
  <2>3. /\ state' = NothingPressed
        /\ idt' = [idt EXCEPT ![KEYBOARD_INTERRUPT] = "on_keyboard"]
        /\ imr' = imr \ {KEYBOARD}
        /\ UNCHANGED <<irr, isr, running, keyboard, echo>>
    BY <1>5, LineFacts DEF tty_init, set_idt, interrupt_enable
  <2>4. /\ StackShape' /\ StackType'
        /\ \A b \in BootLabels : Booting(b) <=> b = "tty_init"
        /\ \A b \in BootLabels : Booting(b)' <=> b = "memory_init"
    BY <1>0, <2>1, <2>2, MainGoesOn
  <2>5. imr = Lines \ {TIMER} /\ idt[TIMER_INTERRUPT] = "on_timer" /\ isr = {}
    BY <1>2, <2>1, <2>2, <2>4 DEF BootOrder
  <2>6. /\ PicType'
        /\ idt'[KEYBOARD_INTERRUPT] = "on_keyboard" /\ idt'[TIMER_INTERRUPT] = "on_timer"
        /\ imr' = Lines \ {TIMER, KEYBOARD}
    BY <1>0, <2>3, <2>5, LineFacts DEF PicType, Handlers
  <2>7. BootOrder'
    BY <2>2, <2>4, <2>6 DEF BootOrder, BootLabels
  <2>8. KeyboardType'
    <3>1. state' \in [caps_pressed : BOOLEAN, left_shift_pressed : BOOLEAN]
      BY <2>3 DEF NothingPressed
    <3> QED BY <1>0, <2>3, <3>1 DEF KeyboardType, keyboard
  <2>9. TypeOK'
    BY <1>0, <2>3, <2>4, <2>6, <2>8, TypeParts
  <2> QED BY <1>1, <2>1, <2>2, <2>3, <2>4, <2>5, <2>7, <2>9
<1>6. CASE memory_init
  <2>1. At("memory_init") /\ Goto("sti")
    BY <1>6 DEF memory_init
  <2>2. "memory_init" \in BootLabels /\ "sti" \in BootLabels
    BY DEF BootLabels
  <2>3. /\ idt' = [idt EXCEPT ![PAGE_FAULT_INTERRUPT] = "on_page_fault"]
        /\ UNCHANGED <<imr, irr, isr, running>> /\ UNCHANGED KeyboardVars
    BY <1>6 DEF memory_init, set_idt, pic, KeyboardVars
  <2>4. /\ StackShape' /\ StackType'
        /\ \A b \in BootLabels : Booting(b) <=> b = "memory_init"
        /\ \A b \in BootLabels : Booting(b)' <=> b = "sti"
    BY <1>0, <2>1, <2>2, MainGoesOn
  <2>5. /\ imr = Lines \ {TIMER, KEYBOARD} /\ isr = {}
        /\ idt[KEYBOARD_INTERRUPT] = "on_keyboard" /\ idt[TIMER_INTERRUPT] = "on_timer"
    BY <1>2, <2>1, <2>2, <2>4 DEF BootOrder, BootLabels
  <2>6. /\ PicType'
        /\ idt'[KEYBOARD_INTERRUPT] = "on_keyboard" /\ idt'[TIMER_INTERRUPT] = "on_timer"
    BY <1>0, <2>3, <2>5, LineFacts DEF PicType, Handlers
  <2>7. BootOrder'
    BY <2>2, <2>3, <2>4, <2>5, <2>6 DEF BootOrder, BootLabels
  <2>8. TypeOK'
    BY <1>0, <2>3, <2>4, <2>6, KeyboardTypeStutters, TypeParts
  <2> QED BY <1>1, <2>1, <2>2, <2>3, <2>4, <2>5, <2>7, <2>8
<1>7. CASE sti
  <2>1. At("sti") /\ Continue(UserFrame) /\ UNCHANGED <<idt, imr, irr, isr, running>>
        /\ UNCHANGED KeyboardVars
    BY <1>7 DEF sti, UserFrame, pic, KeyboardVars
  <2>2. "sti" \in BootLabels
    BY DEF BootLabels
  <2>3. /\ isr = {} /\ Booting("sti") /\ running = "main"
        /\ stack[running] = <<Frame("sti", FALSE)>>
    BY <1>0, <1>2, <2>1, <2>2, BootingRuns DEF Booting
  <2>4. stack' = [stack EXCEPT ![running] = <<UserFrame>>]
    <3>1. stack' = [stack EXCEPT ![running] = <<UserFrame>> \o Tail(stack[running])]
      BY <2>1 DEF Continue
    <3>2. <<UserFrame>> \o Tail(<<Frame("sti", FALSE)>>) = <<UserFrame>>
      BY StackOps, Zenon
    <3> QED BY <2>3, <3>1, <3>2, Zenon
  <2>5. <<UserFrame>> \in Stacks(running)
    BY DEF Stacks
  <2>6. /\ StackShape' /\ StackType'
        /\ \A t \in (Tasks \cup {"main"}) \ {running} : stack'[t] = stack[t]
        /\ stack'[running] = <<UserFrame>>
    BY <1>0, <2>4, <2>5, NewStack DEF StackType
  <2>7. Top' = UserFrame
    BY <2>1, <2>6, StackOps DEF Top
  <2>8. Suspended'
    BY <1>0, <2>1, <2>6 DEF Suspended
  <2>9. ServiceEndsInHandler'
    BY <2>1, <2>3, <2>7 DEF ServiceEndsInHandler, Unacknowledged, UserFrame, Frame
  <2>10. ASSUME NEW b \in BootLabels PROVE ~Booting(b)'
    <3>1. UserFrame # Frame(b, FALSE)
      BY DEF UserFrame, Frame, BootLabels
    <3>2. <<UserFrame>> # <<Frame(b, FALSE)>>
      BY <3>1
    <3> QED BY <2>3, <2>6, <3>2 DEF Booting
  <2>11. /\ imr = Lines \ {TIMER, KEYBOARD}
         /\ idt[KEYBOARD_INTERRUPT] = "on_keyboard" /\ idt[TIMER_INTERRUPT] = "on_timer"
    <3>1. "sti" \notin {"interrupt_init", "time_init", "tty_init"}
      OBVIOUS
    <3> QED BY <2>3, <3>1, BootLabelsDistinct DEF BootOrder
  <2>12. BootOrder'
    BY <2>1, <2>10, <2>11 DEF BootOrder, BootLabels
  <2>13. TypeOK'
    BY <1>0, <2>1, <2>6, KeyboardTypeStutters, TypeParts DEF PicType
  <2> QED BY <2>6, <2>8, <2>9, <2>12, <2>13
<1> QED BY <1>3, <1>4, <1>5, <1>6, <1>7 DEF Boot
-----------------------------------------------------------------------------
(* The handlers' steps *)

(* Past its initialisation, what main has set up stays. *)
LEMMA BootOrderKept ==
  ASSUME BootOrder, \A b \in BootLabels : ~Booting(b) /\ ~Booting(b)',
         UNCHANGED <<imr, idt>>
  PROVE  BootOrder'
BY DEF BootOrder, BootLabels

(* on_key leaves values of the right type. *)
LEMMA OnKeyType ==
  ASSUME KeyboardType, port # <<>>, on_key(Head(port))
  PROVE  /\ state' \in [caps_pressed : BOOLEAN, left_shift_pressed : BOOLEAN]
         /\ echo' \in [got : Effects, want : Effects]
<1>1. Head(port) \in ScanCodes
  BY DEF KeyboardType
<1>2. Echoed(Head(port)) \in Effects
  BY DEF Echoed, Effects
<1>3. echo' \in [got : Effects, want : Effects]
  BY <1>1, <1>2 DEF on_key, ScanCodes
<1>4. ASSUME NEW x, NEW y, NEW z, NEW w
      PROVE  [caps_pressed |-> x # y, left_shift_pressed |-> z # w]
               \in [caps_pressed : BOOLEAN, left_shift_pressed : BOOLEAN]
  OBVIOUS
<1> QED BY <1>3, <1>4 DEF on_key

LEMMA HandleStep ==
  ASSUME StackInv, Handle
  PROVE  StackInv'
<1> USE DEF StackInv
<1>0. /\ TypeOK /\ StackShape /\ Suspended /\ BootOrder /\ ServiceEndsInHandler
      /\ PicType /\ StackType /\ KeyboardType /\ running \in Tasks \cup {"main"}
  BY TypeParts
<1>1. ASSUME NEW k \in HandlerLabels, NEW l \in HandlerLabels \ {"ignore_int"},
             At(k), Goto(l), UNCHANGED <<idt, imr, irr, running>>,
             isr' = Unacknowledged(l), KeyboardType'
      PROVE  StackInv'
  <2>1. /\ StackShape' /\ StackType'
        /\ \A t \in (Tasks \cup {"main"}) \ {running} : stack'[t] = stack[t]
        /\ Head(stack'[running]) = Frame(l, FALSE)
        /\ \A b \in BootLabels : ~Booting(b) /\ ~Booting(b)'
    BY <1>0, <1>1, HandlerGoesOn
  <2>2. Top' = Frame(l, FALSE)
    BY <1>1, <2>1 DEF Top
  <2>3. Suspended'
    BY <1>0, <1>1, <2>1 DEF Suspended
  <2>4. ServiceEndsInHandler'
    BY <1>1, <2>2 DEF ServiceEndsInHandler, Frame
  <2>5. BootOrder'
    BY <1>0, <1>1, <2>1, BootOrderKept
  <2>6. PicType'
    BY <1>0, <1>1, LineFacts DEF PicType, Unacknowledged
  <2> QED BY <1>0, <1>1, <2>1, <2>3, <2>4, <2>5, <2>6, TypeParts
<1>2. ASSUME NEW k, At(k) PROVE isr = Unacknowledged(k)
  BY <1>0, <1>2 DEF ServiceEndsInHandler, At
<1>3. CASE on_timer
  <2>1. At("on_timer") /\ Goto("check_task_affairs")
        /\ UNCHANGED <<idt, imr, irr, running>> /\ UNCHANGED KeyboardVars
        /\ isr' = pic_send_eoi(isr)
    BY <1>3 DEF on_timer, KeyboardVars
  <2>2. isr' = Unacknowledged("check_task_affairs")
    <3>1. isr = {TIMER}
      BY <1>2, <2>1 DEF Unacknowledged
    <3> QED BY <2>1, <3>1, EoiOfOne, LineFacts DEF Unacknowledged
  <2> QED BY <1>0, <1>1, <2>1, <2>2, KeyboardTypeStutters DEF HandlerLabels
<1>4. CASE KeyboardEoi
  <2>1. At("pic_send_eoi") /\ Goto("iret")
        /\ UNCHANGED <<idt, imr, irr, running>> /\ UNCHANGED KeyboardVars
        /\ isr' = pic_send_eoi(isr)
    BY <1>4 DEF KeyboardEoi, KeyboardVars
  <2>2. isr' = Unacknowledged("iret")
    <3>1. isr = {KEYBOARD}
      BY <1>2, <2>1 DEF Unacknowledged
    <3> QED BY <2>1, <3>1, EoiOfOne, LineFacts DEF Unacknowledged
  <2> QED BY <1>0, <1>1, <2>1, <2>2, KeyboardTypeStutters DEF HandlerLabels
<1>5. CASE on_keyboard
  <2>1. At("on_keyboard") /\ Goto("pic_send_eoi")
        /\ UNCHANGED <<idt, imr, irr, running, isr, scan, held, lock>>
        /\ port' = <<>>
        /\ IF port # <<>> THEN on_key(Head(port)) ELSE UNCHANGED <<state, echo>>
    BY <1>5 DEF on_keyboard, pic
  <2>2. isr' = Unacknowledged("pic_send_eoi")
    BY <1>2, <2>1 DEF Unacknowledged
  <2>3. KeyboardType'
    <3>1. /\ state' \in [caps_pressed : BOOLEAN, left_shift_pressed : BOOLEAN]
          /\ echo' \in [got : Effects, want : Effects]
      BY <1>0, <2>1, OnKeyType DEF KeyboardType
    <3> QED BY <1>0, <2>1, <3>1 DEF KeyboardType
  <2> QED BY <1>1, <2>1, <2>2, <2>3 DEF HandlerLabels
<1>6. CASE check_task_affairs
  <2>1. At("check_task_affairs") /\ Goto("timer_iret")
        /\ UNCHANGED <<idt, imr, irr, isr>> /\ UNCHANGED KeyboardVars
        /\ running' \in Tasks \cup {running}
    BY <1>6 DEF check_task_affairs, KeyboardVars, pic
  <2>2. /\ StackShape' /\ StackType'
        /\ \A t \in (Tasks \cup {"main"}) \ {running} : stack'[t] = stack[t]
        /\ Head(stack'[running]) = Frame("timer_iret", FALSE)
        /\ \A b \in BootLabels : ~Booting(b) /\ ~Booting(b)'
    BY <1>0, <2>1, HandlerGoesOn DEF HandlerLabels
  <2>3. \A t \in Tasks \cup {"main"} :
          t # running \/ t # running' => Head(stack'[t]).at \in {"user", "timer_iret"}
    BY <1>0, <2>1, <2>2 DEF Suspended, Frame
  <2>4. Suspended' /\ Top'.at \in {"user", "timer_iret"}
    BY <1>0, <2>1, <2>2, <2>3 DEF Suspended, Top, Frame
  <2>5. ServiceEndsInHandler'
    BY <1>2, <2>1, <2>4 DEF ServiceEndsInHandler, Unacknowledged
  <2>6. BootOrder'
    BY <1>0, <2>1, <2>2, BootOrderKept
  <2>7. running' \in Tasks \cup {"main"}
    BY <1>0, <2>1
  <2>8. TypeOK'
    BY <1>0, <2>1, <2>2, <2>7, KeyboardTypeStutters, TypeParts DEF PicType
  <2> QED BY <2>2, <2>4, <2>5, <2>6, <2>8
<1>7. CASE Iret
  <2>1. /\ Top.at \in {"ignore_int", "timer_iret", "iret"}
        /\ stack' = [stack EXCEPT ![running] = Tail(stack[running])]
        /\ UNCHANGED <<idt, imr, irr, isr, running>> /\ UNCHANGED KeyboardVars
    BY <1>7 DEF Iret, pic, KeyboardVars
  <2>2. PICK k \in HandlerLabels \ {"ignore_int"} :
               stack[running] = <<Frame(k, FALSE), UserFrame>> /\ Top = Frame(k, FALSE)
    <3>1. UserFrame.at = "user" /\ \A m : Frame(m, FALSE).at = m
      BY DEF UserFrame, Frame
    <3>2. Top.at # "user" /\ Top.at \notin BootLabels
      BY <2>1 DEF BootLabels
    <3> QED BY <1>0, <3>1, <3>2, RunningStack
  <2>3. stack' = [stack EXCEPT ![running] = <<UserFrame>>]
    <3>1. Tail(<<Frame(k, FALSE), UserFrame>>) = <<UserFrame>>
      OBVIOUS
    <3> QED BY <2>1, <2>2, <3>1, Zenon
  <2>4. <<UserFrame>> \in Stacks(running)
    BY DEF Stacks
  <2>5. /\ StackShape' /\ StackType'
        /\ \A t \in (Tasks \cup {"main"}) \ {running} : stack'[t] = stack[t]
        /\ stack'[running] = <<UserFrame>>
    BY <1>0, <2>3, <2>4, NewStack DEF StackType
  <2>6. Top' = UserFrame
    BY <2>1, <2>5, StackOps DEF Top
  <2>7. Suspended'
    BY <1>0, <2>1, <2>5 DEF Suspended
  <2>8. ServiceEndsInHandler'
    <3>1. isr = {}
      BY <1>0, <2>1 DEF ServiceEndsInHandler, Unacknowledged
    <3>2. Top'.at = "user"
      BY <2>6 DEF UserFrame, Frame
    <3> QED BY <2>1, <3>1, <3>2 DEF ServiceEndsInHandler, Unacknowledged
  <2>9. ASSUME NEW b \in BootLabels PROVE ~Booting(b) /\ ~Booting(b)'
    <3>1. Top.at \notin BootLabels
      BY <2>1 DEF BootLabels
    <3>2. ~Booting(b)
      BY <1>0, <3>1, NotBooting
    <3>3. UserFrame # Frame(b, FALSE)
      BY DEF UserFrame, Frame, BootLabels
    <3>4. <<UserFrame>> # <<Frame(b, FALSE)>>
      BY <3>3
    <3>5. CASE running = "main"
      BY <2>5, <3>2, <3>4, <3>5 DEF Booting
    <3>6. CASE running # "main"
      BY <2>5, <3>2, <3>6 DEF Booting
    <3> QED BY <3>2, <3>5, <3>6
  <2>10. BootOrder'
    BY <1>0, <2>1, <2>9, BootOrderKept
  <2>11. TypeOK'
    BY <1>0, <2>1, <2>5, KeyboardTypeStutters, TypeParts DEF PicType
  <2> QED BY <2>5, <2>7, <2>8, <2>10, <2>11
<1> QED BY <1>3, <1>4, <1>5, <1>6, <1>7 DEF Handle
-----------------------------------------------------------------------------
(* The hardware's steps *)

(* An interrupt is accepted in a task's own code, for one of two lines. *)
LEMMA AcceptStep ==
  ASSUME StackInv, NEW line \in Lines, Accept(line)
  PROVE  StackInv'
<1> USE DEF StackInv
<1>0. /\ TypeOK /\ StackShape /\ Suspended /\ BootOrder /\ ServiceEndsInHandler
      /\ PicType /\ StackType /\ KeyboardType /\ running \in Tasks \cup {"main"}
  BY TypeParts
<1>1. /\ Top.enabled /\ line \in irr \ imr
      /\ irr' = irr \ {line} /\ isr' = isr \cup {line}
      /\ stack' = [stack EXCEPT ![running] =
                     <<Frame(idt[PIC_START + line], FALSE)>> \o stack[running]]
      /\ UNCHANGED <<idt, imr, running>> /\ UNCHANGED KeyboardVars
  BY DEF Accept, GateFlag, KeyboardVars
<1>2. stack[running] = <<UserFrame>> /\ Top = UserFrame
  <2>1. \A l : Frame(l, FALSE).enabled = FALSE
    BY DEF Frame
  <2> QED BY <1>0, <1>1, <2>1, RunningStack
<1>3. \A b \in BootLabels : ~Booting(b)
  BY <1>0, <1>2, NotBooting DEF UserFrame, Frame, BootLabels
<1>4. /\ imr = Lines \ {TIMER, KEYBOARD}
      /\ idt[TIMER_INTERRUPT] = "on_timer" /\ idt[KEYBOARD_INTERRUPT] = "on_keyboard"
  BY <1>0, <1>3 DEF BootOrder, BootLabels
<1>5. PICK l \in HandlerLabels \ {"ignore_int"} :
             idt[PIC_START + line] = l /\ Unacknowledged(l) = {line}
  <2>1. line = TIMER \/ line = KEYBOARD
    BY <1>1, <1>4
  <2>2. CASE line = TIMER
    BY <1>4, <2>2, LineFacts DEF Unacknowledged, HandlerLabels
  <2>3. CASE line = KEYBOARD
    BY <1>4, <2>3, LineFacts DEF Unacknowledged, HandlerLabels
  <2> QED BY <2>1, <2>2, <2>3
<1>6. stack' = [stack EXCEPT ![running] = <<Frame(l, FALSE), UserFrame>>]
  <2>1. <<Frame(l, FALSE)>> \o <<UserFrame>> = <<Frame(l, FALSE), UserFrame>>
    BY StackOps, Zenon
  <2> QED BY <1>1, <1>2, <1>5, <2>1, Zenon
<1>7. <<Frame(l, FALSE), UserFrame>> \in Stacks(running)
  BY DEF Stacks
<1>8. /\ StackShape' /\ StackType'
      /\ \A t \in (Tasks \cup {"main"}) \ {running} : stack'[t] = stack[t]
      /\ stack'[running] = <<Frame(l, FALSE), UserFrame>>
  BY <1>0, <1>6, <1>7, NewStack DEF StackType
<1>9. Top' = Frame(l, FALSE)
  <2>1. Top' = Head(stack'[running])
    BY <1>1 DEF Top
  <2>2. Head(<<Frame(l, FALSE), UserFrame>>) = Frame(l, FALSE)
    OBVIOUS
  <2> QED BY <1>8, <2>1, <2>2, Zenon
<1>10. Suspended'
  BY <1>0, <1>1, <1>8 DEF Suspended
<1>11. isr = {}
  BY <1>0, <1>2 DEF ServiceEndsInHandler, Unacknowledged, UserFrame, Frame
<1>12. ServiceEndsInHandler'
  BY <1>1, <1>5, <1>9, <1>11 DEF ServiceEndsInHandler, Frame
<1>13. ASSUME NEW b \in BootLabels PROVE ~Booting(b)'
  <2>1. <<Frame(l, FALSE), UserFrame>> # <<Frame(b, FALSE)>>
    OBVIOUS
  <2>2. CASE running = "main"
    BY <1>8, <2>1, <2>2 DEF Booting
  <2>3. CASE running # "main"
    BY <1>3, <1>8, <2>3 DEF Booting
  <2> QED BY <2>2, <2>3
<1>14. BootOrder'
  BY <1>0, <1>1, <1>3, <1>13, BootOrderKept
<1>15. PicType'
  BY <1>0, <1>1 DEF PicType
<1>16. TypeOK'
  BY <1>0, <1>1, <1>8, <1>15, KeyboardTypeStutters, TypeParts
<1> QED BY <1>8, <1>10, <1>12, <1>14, <1>16

(* What the user expects of a key is one of the effects. *)
LEMMA WantedType ==
  ASSUME NEW key \in Keys
  PROVE  Wanted(key) \in Effects
BY DEF Wanted, Effects

(* A scan code is put behind those in store. *)
LEMMA SendFacts ==
  ASSUME KeyboardType, NEW key \in Keys, NEW make \in BOOLEAN, NEW want \in Effects,
         Send(key, make, want)
  PROVE  /\ scan' \in Seq(ScanCodes) /\ Len(scan') <= MaxScan
         /\ Len(scan') = Len(scan) + 1
         /\ \A k \in 1..Len(scan) : scan'[k] = scan[k]
         /\ scan'[Len(scan) + 1] = [key |-> key, make |-> make, want |-> want]
         /\ UNCHANGED <<idt, pic, cpu, state, port, echo>>
         /\ ~Booting("interrupt_init") /\ ~Booting("time_init")
<1>1. [key |-> key, make |-> make, want |-> want] \in ScanCodes
  BY DEF ScanCodes
<1>2. /\ scan \in Seq(ScanCodes) /\ Len(scan) < MaxScan /\ MaxScan \in Nat
      /\ scan' = Append(scan, [key |-> key, make |-> make, want |-> want])
  BY InterruptsAssumption DEF KeyboardType, Send
<1>3. UNCHANGED <<idt, pic, cpu, state, port, echo>>
  BY DEF Send
<1>4. ASSUME NEW l, Booting(l) PROVE stack["main"][Len(stack["main"])].at = l
  <2>1. stack["main"] = <<Frame(l, FALSE)>> /\ Frame(l, FALSE).at = l
    BY <1>4 DEF Booting, Frame
  <2>2. Len(stack["main"]) = 1 /\ stack["main"][1] = Frame(l, FALSE)
    BY <2>1
  <2> QED BY <2>1, <2>2
<1>5. ~Booting("interrupt_init") /\ ~Booting("time_init")
  BY <1>4 DEF Send
<1> HIDE DEF ScanCodes
<1>6. ASSUME NEW c \in ScanCodes, scan' = Append(scan, c)
      PROVE  /\ scan' \in Seq(ScanCodes) /\ Len(scan') <= MaxScan
             /\ Len(scan') = Len(scan) + 1
             /\ \A k \in 1..Len(scan) : scan'[k] = scan[k]
             /\ scan'[Len(scan) + 1] = c
  BY <1>2, <1>6
<1> QED BY <1>1, <1>2, <1>3, <1>5, <1>6

(* A key's step changes only what the keyboard has in store. *)
LEMMA KeyStep ==
  ASSUME StackInv, NEW key \in Keys, Press(key) \/ Repeat(key) \/ Release(key)
  PROVE  StackInv'
<1> USE DEF StackInv
<1>0. /\ TypeOK /\ StackShape /\ Suspended /\ BootOrder /\ ServiceEndsInHandler
      /\ PicType /\ StackType /\ KeyboardType /\ running \in Tasks \cup {"main"}
  BY TypeParts
<1>1. PICK make \in BOOLEAN, want \in Effects : Send(key, make, want)
  <2>1. Wanted(key) \in Effects /\ "none" \in Effects
    BY WantedType DEF Effects
  <2> QED BY <2>1 DEF Press, Repeat, Release
<1>2. /\ scan' \in Seq(ScanCodes) /\ Len(scan') <= MaxScan
      /\ UNCHANGED <<idt, imr, irr, isr, running, stack, state, port, echo>>
      /\ ~Booting("interrupt_init") /\ ~Booting("time_init")
  BY <1>0, <1>1, SendFacts DEF pic, cpu
<1>3. held' \subseteq Keys
  BY <1>0 DEF Press, Repeat, Release, KeyboardType
<1>4. lock' \in BOOLEAN
  <2>1. CASE Press(key)
    BY <2>1 DEF Press
  <2>2. CASE Repeat(key) \/ Release(key)
    BY <1>0, <2>2 DEF Repeat, Release, KeyboardType
  <2> QED BY <2>1, <2>2
<1>5. KeyboardType'
  BY <1>0, <1>2, <1>3, <1>4 DEF KeyboardType
<1>6. TypeOK'
  BY <1>0, <1>2, <1>5, TypeParts DEF PicType, StackType
<1>7. /\ StackShape' /\ Suspended' /\ ServiceEndsInHandler'
  BY <1>0, <1>2 DEF StackShape, Suspended, ServiceEndsInHandler, Top
<1>8. BootOrder'
  BY <1>0, <1>2 DEF BootOrder, Booting
<1> QED BY <1>6, <1>7, <1>8

LEMMA DeliverFacts ==
  ASSUME KeyboardType, Deliver
  PROVE  /\ port = <<>> /\ Len(port) = 0 /\ scan # <<>>
         /\ port' \in Seq(ScanCodes) /\ scan' \in Seq(ScanCodes)
         /\ Len(port') = 1 /\ port'[1] = scan[1]
         /\ Len(scan) \in Nat \ {0} /\ Len(scan') = Len(scan) - 1
         /\ \A k \in 1..Len(scan') : scan'[k] = scan[k + 1]
<1>1. /\ port = <<>> /\ scan # <<>> /\ port' = <<Head(scan)>> /\ scan' = Tail(scan)
      /\ scan \in Seq(ScanCodes)
  BY DEF Deliver, KeyboardType
<1> HIDE DEF ScanCodes
<1> QED BY <1>1

(* The other steps of the hardware, and a task leaving the processor. *)
LEMMA OtherStep ==
  ASSUME StackInv, TimerTick \/ Deliver \/ schedule \/ UNCHANGED vars
  PROVE  StackInv'
<1> USE DEF StackInv
<1>0. /\ TypeOK /\ StackShape /\ Suspended /\ BootOrder /\ ServiceEndsInHandler
      /\ PicType /\ StackType /\ KeyboardType /\ running \in Tasks \cup {"main"}
  BY TypeParts
<1>1. CASE TimerTick
  <2>1. irr' = irr \cup {TIMER} /\ UNCHANGED <<idt, imr, isr, running, stack>>
        /\ UNCHANGED KeyboardVars
    BY <1>1 DEF TimerTick, cpu, KeyboardVars
  <2>2. PicType'
    BY <1>0, <2>1, LineFacts DEF PicType
  <2>3. TypeOK'
    BY <1>0, <2>1, <2>2, KeyboardTypeStutters, TypeParts DEF StackType
  <2>4. StackShape' /\ Suspended' /\ ServiceEndsInHandler'
    BY <1>0, <2>1 DEF StackShape, Suspended, ServiceEndsInHandler, Top
  <2>5. BootOrder'
    BY <1>0, <2>1 DEF BootOrder, Booting, KeyboardVars, keyboard
  <2> QED BY <2>3, <2>4, <2>5
<1>2. CASE Deliver
  <2>1. irr' = irr \cup {KEYBOARD}
        /\ UNCHANGED <<idt, imr, isr, running, stack, state, held, lock, echo>>
    BY <1>2 DEF Deliver, cpu
  <2>2. /\ scan # <<>> /\ port' \in Seq(ScanCodes) /\ scan' \in Seq(ScanCodes)
        /\ Len(port') = 1 /\ Len(scan) \in Nat /\ Len(scan') = Len(scan) - 1
    BY <1>0, <1>2, DeliverFacts
  <2>3. PicType'
    BY <1>0, <2>1, LineFacts DEF PicType
  <2>4. MaxScan \in Nat
    BY InterruptsAssumption
  <2>5. KeyboardType'
    BY <1>0, <2>1, <2>2, <2>4 DEF KeyboardType
  <2>6. TypeOK'
    BY <1>0, <2>1, <2>3, <2>5, TypeParts DEF StackType
  <2>7. StackShape' /\ Suspended' /\ ServiceEndsInHandler'
    BY <1>0, <2>1 DEF StackShape, Suspended, ServiceEndsInHandler, Top
  <2>8. BootOrder'
    BY <1>0, <2>1, <2>2 DEF BootOrder, Booting
  <2> QED BY <2>6, <2>7, <2>8
<1>3. CASE schedule
  <2>1. At("user") /\ running \in Tasks /\ running' \in Tasks \ {running}
        /\ UNCHANGED <<idt, imr, irr, isr, stack>> /\ UNCHANGED KeyboardVars
    BY <1>3 DEF schedule, pic, KeyboardVars
  <2>2. TypeOK'
    BY <1>0, <2>1, KeyboardTypeStutters, TypeParts DEF PicType, StackType
  <2>3. StackShape' /\ Suspended'
    BY <1>0, <2>1 DEF StackShape, Suspended, At, Top
  <2>4. Top'.at \in {"user", "timer_iret"}
    BY <1>0, <2>1 DEF Suspended, Top
  <2>5. ServiceEndsInHandler'
    <3>1. isr = {}
      BY <1>0, <2>1 DEF ServiceEndsInHandler, Unacknowledged, At
    <3> QED BY <2>1, <2>4, <3>1 DEF ServiceEndsInHandler, Unacknowledged
  <2>6. BootOrder'
    BY <1>0, <2>1 DEF BootOrder, Booting, KeyboardVars, keyboard
  <2> QED BY <2>2, <2>3, <2>5, <2>6
<1>4. CASE UNCHANGED vars
  <2>1. UNCHANGED <<idt, imr, irr, isr, running, stack>> /\ UNCHANGED KeyboardVars
    BY <1>4 DEF vars, pic, cpu, KeyboardVars
  <2>2. TypeOK'
    BY <1>0, <2>1, KeyboardTypeStutters, TypeParts DEF PicType, StackType
  <2>3. StackShape' /\ Suspended' /\ ServiceEndsInHandler'
    BY <1>0, <2>1 DEF StackShape, Suspended, ServiceEndsInHandler, Top
  <2>4. BootOrder'
    BY <1>0, <2>1 DEF BootOrder, Booting, KeyboardVars, keyboard
  <2> QED BY <2>2, <2>3, <2>4
<1> QED BY <1>1, <1>2, <1>3, <1>4

(* StackInv is an invariant. *)
LEMMA StackInvariant == Spec => []StackInv
<1>1. ASSUME StackInv, [Next]_vars PROVE StackInv'
  <2>1. CASE Boot
    BY <1>1, <2>1, BootStep
  <2>2. CASE Handle
    BY <1>1, <2>2, HandleStep
  <2>3. ASSUME NEW key \in Keys, Press(key) \/ Repeat(key) \/ Release(key)
        PROVE  StackInv'
    BY <1>1, <2>3, KeyStep
  <2>4. ASSUME NEW line \in Lines, Accept(line) PROVE StackInv'
    BY <1>1, <2>4, AcceptStep
  <2>5. CASE TimerTick \/ Deliver \/ schedule \/ UNCHANGED vars
    BY <1>1, <2>5, OtherStep
  <2> QED BY <1>1, <2>1, <2>2, <2>3, <2>4, <2>5 DEF Next
<1> QED BY <1>1, InitStackInv, PTL DEF Spec
-----------------------------------------------------------------------------
(* Every variable has its type: in particular no interrupt finds a gate    *)
(* that was never set, and the port holds at most one scan code.           *)
THEOREM TypeCorrect == Spec => []TypeOK
<1>1. StackInv => TypeOK
  BY DEF StackInv
<1> QED BY <1>1, StackInvariant, PTL

(* Whenever interrupts are enabled, both devices are unmasked and every    *)
(* unmasked line has a handler that ends its interrupt, although time_init *)
(* programs the controllers again after interrupt_init has (main.c:61).    *)
THEOREM InterruptsReadyWhenEnabled == Spec => []UnmaskedAreHandled
<1>1. ASSUME StackInv PROVE UnmaskedAreHandled
  <2> SUFFICES ASSUME Top.enabled PROVE UnmaskedAreHandled
    BY DEF UnmaskedAreHandled
  <2>1. Top = UserFrame
    <3>1. \A l : Frame(l, FALSE).enabled = FALSE
      BY DEF Frame
    <3> QED BY <1>1, <3>1, RunningStack DEF StackInv
  <2>2. \A b \in BootLabels : ~Booting(b)
    BY <1>1, <2>1, NotBooting DEF StackInv, UserFrame, Frame, BootLabels
  <2>3. /\ imr = Lines \ {TIMER, KEYBOARD}
        /\ idt[TIMER_INTERRUPT] = "on_timer" /\ idt[KEYBOARD_INTERRUPT] = "on_keyboard"
    BY <1>1, <2>2 DEF StackInv, BootOrder, BootLabels
  <2>4. ASSUME NEW l \in Lines \ imr
        PROVE  idt[PIC_START + l] \notin {"none", "ignore_int", "on_page_fault"}
    <3>1. l = 0 \/ l = 1
      BY <2>3, <2>4, LineFacts
    <3> QED BY <2>3, <3>1, LineFacts
  <2> QED BY <2>3, <2>4 DEF UnmaskedAreHandled
<1> QED BY <1>1, StackInvariant, PTL

(* Exactly the lines whose handler the processor is in, and which that     *)
(* handler has not ended, are in service: no task switch leaves a line in  *)
(* service behind, whichever task is chosen (time.c:47).                   *)
THEOREM ServiceEndsWithTheHandler == Spec => []ServiceEndsInHandler
<1>1. StackInv => ServiceEndsInHandler
  BY DEF StackInv
<1> QED BY <1>1, StackInvariant, PTL

(* A task's own code always runs with interrupts enabled, and handlers do  *)
(* not nest.                                                               *)
THEOREM TasksStayInterruptible == Spec => []TasksInterruptible
<1>1. ASSUME StackInv PROVE TasksInterruptible
  <2> SUFFICES ASSUME NEW t \in Tasks
               PROVE  /\ Len(stack[t]) <= 2
                      /\ \A k \in 1..Len(stack[t]) :
                           stack[t][k].enabled <=> stack[t][k].at = "user"
    BY DEF TasksInterruptible
  <2>1. stack[t] \in Stacks(t) /\ t # "main"
    BY <1>1, InterruptsAssumption DEF StackInv, StackShape
  <2>2. UserFrame.at = "user" /\ UserFrame.enabled
    BY DEF UserFrame, Frame
  <2>3. CASE stack[t] = <<UserFrame>>
    BY <2>2, <2>3
  <2>4. ASSUME NEW l \in HandlerLabels, stack[t] = <<Frame(l, FALSE), UserFrame>>
        PROVE  /\ Len(stack[t]) <= 2
               /\ \A k \in 1..Len(stack[t]) :
                    stack[t][k].enabled <=> stack[t][k].at = "user"
    <3>1. PICK f : f = Frame(l, FALSE)
      OBVIOUS
    <3>2. f.at # "user" /\ ~f.enabled
      BY <3>1 DEF Frame, HandlerLabels
    <3>3. stack[t] = <<f, UserFrame>>
      BY <2>4, <3>1
    <3> QED BY <2>2, <3>2, <3>3
  <2> QED BY <2>1, <2>3, <2>4 DEF Stacks
<1> QED BY <1>1, StackInvariant, PTL
-----------------------------------------------------------------------------
(***************************************************************************)
(* The keyboard's modes.  A scan code is handled after others that were    *)
(* sent before it, so that its effect depends on all of them.              *)
(***************************************************************************)

(* The scan codes under way, the one at the port first. *)
Waiting == Len(port) + Len(scan)
Code(k) == IF k <= Len(port) THEN port[k] ELSE scan[k - Len(port)]

Modes == {"shift", "caps"}

(* Does a scan code switch a mode on or off? *)
Toggles(code, m) == code.key = m /\ (m = "caps" => code.make)

(* What a scan code does in a mode, and the mode it leaves behind. *)
Effect(code, mode) ==
  IF ~code.make THEN "none"
  ELSE IF code.key \in Letters
         THEN IF "shift" \in mode <=> "caps" \in mode THEN "lower" ELSE "upper"
         ELSE IF code.key = "backspace" THEN "erase" ELSE "none"

After(code, mode) == {m \in Modes : ~(m \in mode <=> Toggles(code, m))}

(***************************************************************************)
(* The codes under way lead from the mode the driver is in to the mode the *)
(* keys are in, and each says what it does in the mode before it.          *)
(***************************************************************************)
Driver == {m \in Modes : IF m = "shift" THEN state.left_shift_pressed
                                       ELSE state.caps_pressed}
User == {m \in Modes : IF m = "shift" THEN "shift" \in held ELSE lock}

Track(mode) ==
  /\ mode[0] = Driver
  /\ mode[Waiting] = User
  /\ \A k \in 1..Waiting :
       /\ mode[k] = After(Code(k), mode[k - 1])
       /\ Code(k).want = Effect(Code(k), mode[k - 1])

KeyboardInv == \E mode \in [0..Waiting -> SUBSET Modes] : Track(mode)

LEMMA AfterFacts ==
  ASSUME NEW code \in ScanCodes, NEW mode \in SUBSET Modes
  PROVE  /\ After(code, mode) \in SUBSET Modes
         /\ "shift" \in After(code, mode) <=> ~("shift" \in mode <=> code.key = "shift")
         /\ "caps" \in After(code, mode) <=>
              ~("caps" \in mode <=> code.key = "caps" /\ code.make)
<1>1. \A m : m \in After(code, mode) <=> m \in Modes /\ ~(m \in mode <=> Toggles(code, m))
  BY DEF After
<1>2. "shift" \in Modes /\ "caps" \in Modes
  BY DEF Modes
<1>3. Toggles(code, "shift") <=> code.key = "shift"
  BY DEF Toggles
<1>4. Toggles(code, "caps") <=> code.key = "caps" /\ code.make
  BY DEF Toggles
<1>5. After(code, mode) \in SUBSET Modes
  BY DEF After
<1> QED BY <1>1, <1>2, <1>3, <1>4, <1>5

(* Two modes are equal if they agree on shift and caps lock. *)
LEMMA ModesEqual ==
  ASSUME NEW m \in SUBSET Modes, NEW n \in SUBSET Modes,
         "shift" \in m <=> "shift" \in n, "caps" \in m <=> "caps" \in n
  PROVE  m = n
<1>1. \A x \in Modes : x \in m <=> x \in n
  BY DEF Modes
<1>2. m \subseteq n /\ n \subseteq m
  BY <1>1
<1> QED BY <1>2

LEMMA DriverMode ==
  ASSUME KeyboardType
  PROVE  /\ Driver \in SUBSET Modes
         /\ "shift" \in Driver <=> state.left_shift_pressed
         /\ "caps" \in Driver <=> state.caps_pressed
BY DEF Driver, Modes

LEMMA UserMode ==
  ASSUME KeyboardType
  PROVE  /\ User \in SUBSET Modes
         /\ "shift" \in User <=> "shift" \in held
         /\ "caps" \in User <=> lock
BY DEF User, Modes

(* What a user expects is what a code does in the user's mode. *)
LEMMA WantedIsEffect ==
  ASSUME KeyboardType, NEW key \in Keys, NEW want
  PROVE  Wanted(key) = Effect([key |-> key, make |-> TRUE, want |-> want], User)
<1>1. (("shift" \in held) # lock) <=> ~("shift" \in User <=> "caps" \in User)
  <2>1. lock \in BOOLEAN
    BY DEF KeyboardType
  <2> QED BY <2>1, UserMode
<1> QED BY <1>1 DEF Wanted, Effect

(* What on_key does is what a code does in the driver's mode. *)
LEMMA EchoedIsEffect ==
  ASSUME KeyboardType, NEW code \in ScanCodes
  PROVE  Echoed(code) = Effect(code, Driver)
<1>1. should_enable_upper_case <=> ~("shift" \in Driver <=> "caps" \in Driver)
  <2>1. state.caps_pressed \in BOOLEAN /\ state.left_shift_pressed \in BOOLEAN
    BY DEF KeyboardType
  <2> QED BY <2>1, DriverMode DEF should_enable_upper_case
<1>2. code.make \in BOOLEAN
  BY DEF ScanCodes
<1>3. CASE code.make /\ code.key \in Letters
  <2>1. Echoed(code) = IF should_enable_upper_case THEN "upper" ELSE "lower"
    <3>1. code.make /\ is_usual_key(code)
      BY <1>3 DEF is_usual_key
    <3>2. code.key # "backspace"
      BY <1>3, InterruptsAssumption
    <3> QED BY <3>1, <3>2 DEF Echoed
  <2>2. Effect(code, Driver)
          = IF "shift" \in Driver <=> "caps" \in Driver THEN "lower" ELSE "upper"
    BY <1>3 DEF Effect
  <2> QED BY <1>1, <2>1, <2>2
<1>4. CASE ~(code.make /\ code.key \in Letters)
  BY <1>2, <1>4 DEF Echoed, Effect, is_usual_key
<1> QED BY <1>3, <1>4

LEMMA CodeType ==
  ASSUME KeyboardType
  PROVE  /\ Len(port) \in Nat /\ Len(scan) \in Nat /\ Waiting \in Nat
         /\ \A k \in 1..Waiting : Code(k) \in ScanCodes
<1>1. /\ port \in Seq(ScanCodes) /\ scan \in Seq(ScanCodes)
  BY DEF KeyboardType
<1>2. /\ Len(port) \in Nat /\ Len(scan) \in Nat
      /\ \A k \in 1..Len(port) : port[k] \in ScanCodes
      /\ \A k \in 1..Len(scan) : scan[k] \in ScanCodes
  BY <1>1
<1> QED BY <1>2 DEF Waiting, Code

(* A code is sent that does to the user's mode what its key does. *)
LEMMA SentTrack ==
  ASSUME KeyboardType, KeyboardInv, NEW code \in ScanCodes,
         Len(scan') = Len(scan) + 1,
         \A k \in 1..Len(scan) : scan'[k] = scan[k],
         scan'[Len(scan) + 1] = code,
         UNCHANGED <<state, port>>,
         code.want = Effect(code, User), User' = After(code, User)
  PROVE  KeyboardInv'
<1>1. PICK mode \in [0..Waiting -> SUBSET Modes] : Track(mode)
  BY DEF KeyboardInv
<1>2. /\ Len(port) \in Nat /\ Len(scan) \in Nat /\ Waiting \in Nat
      /\ Len(port') = Len(port)
  BY CodeType
<1>n. PICK n \in Nat : n = Waiting
  BY <1>2
<1>3. /\ Waiting' = n + 1
      /\ \A k \in 1..n : Code(k)' = Code(k)
      /\ Code(n + 1)' = code
  BY <1>2, <1>n DEF Waiting, Code
<1>4. User \in SUBSET Modes /\ After(code, User) \in SUBSET Modes
  BY UserMode, AfterFacts
<1>5. PICK longer \in [0..(n + 1) -> SUBSET Modes] :
             /\ \A k \in 0..n : longer[k] = mode[k]
             /\ longer[n + 1] = After(code, User)
  <2> DEFINE f == [k \in 0..(n + 1) |-> IF k <= n THEN mode[k] ELSE After(code, User)]
  <2>1. f \in [0..(n + 1) -> SUBSET Modes]
    BY <1>1, <1>n, <1>4
  <2>2. /\ \A k \in 0..n : f[k] = mode[k]
        /\ f[n + 1] = After(code, User)
    OBVIOUS
  <2> QED BY <2>1, <2>2
<1>7. Driver' = Driver
  BY DEF Driver
<1>8. longer[0] = Driver' /\ longer[n + 1] = User'
  BY <1>1, <1>n, <1>5, <1>7 DEF Track
<1>9. ASSUME NEW k \in 1..(n + 1)
      PROVE  /\ longer[k] = After(Code(k)', longer[k - 1])
             /\ Code(k)'.want = Effect(Code(k)', longer[k - 1])
  <2>1. CASE k \in 1..n
    BY <1>1, <1>n, <1>3, <1>5, <2>1 DEF Track
  <2>2. CASE k = n + 1
    <3>1. longer[k - 1] = User
      BY <1>1, <1>n, <1>5, <2>2 DEF Track
    <3> QED BY <1>3, <1>5, <2>2, <3>1
  <2> QED BY <2>1, <2>2
<1>10. Track(longer)'
  <2>1. Track(longer)' <=>
          /\ longer[0] = Driver'
          /\ longer[Waiting'] = User'
          /\ \A k \in 1..Waiting' :
               /\ longer[k] = After(Code(k)', longer[k - 1])
               /\ Code(k)'.want = Effect(Code(k)', longer[k - 1])
    BY DEF Track, After, Effect, Toggles
  <2> QED BY <1>3, <1>8, <1>9, <2>1
<1> QED BY <1>3, <1>5, <1>10 DEF KeyboardInv

(* A code moves to the port. *)
LEMMA DeliverTrack ==
  ASSUME KeyboardType, KeyboardInv, Deliver
  PROVE  KeyboardInv'
<1>1. PICK mode \in [0..Waiting -> SUBSET Modes] : Track(mode)
  BY DEF KeyboardInv
<1>2. /\ Len(port) = 0 /\ Len(port') = 1 /\ port'[1] = scan[1]
      /\ Len(scan) \in Nat \ {0} /\ Len(scan') = Len(scan) - 1
      /\ \A k \in 1..Len(scan') : scan'[k] = scan[k + 1]
  BY DeliverFacts
<1>3. Waiting' = Waiting /\ \A k \in 1..Waiting : Code(k)' = Code(k)
  BY <1>2 DEF Waiting, Code
<1>4. Driver' = Driver /\ User' = User
  BY DEF Deliver, Driver, User
<1>5. Track(mode)'
  BY <1>1, <1>3, <1>4 DEF Track
<1> QED BY <1>1, <1>3, <1>5 DEF KeyboardInv

(* A buffer for one code that is not empty holds one. *)
LEMMA OneCode ==
  ASSUME NEW S, NEW buffer \in Seq(S), Len(buffer) <= 1, buffer # <<>>
  PROVE  Len(buffer) = 1 /\ Head(buffer) = buffer[1]
<1>1. Len(buffer) \in Nat \ {0}
  BY EmptySeq
<1>2. \A n \in Nat \ {0} : n <= 1 => n = 1
  OBVIOUS
<1>3. Head(buffer) = buffer[1]
  OBVIOUS
<1> QED BY <1>1, <1>2, <1>3

(* The code at the port is read, and changes the driver's mode. *)
LEMMA ReadTrack ==
  ASSUME KeyboardType, KeyboardInv, port # <<>>, port' = <<>>,
         UNCHANGED <<scan, held, lock>>, Driver' = After(Head(port), Driver)
  PROVE  KeyboardInv' /\ Head(port).want = Effect(Head(port), Driver)
<1>1. PICK mode \in [0..Waiting -> SUBSET Modes] : Track(mode)
  BY DEF KeyboardInv
<1>2. /\ Len(port) = 1 /\ Len(port') = 0 /\ Len(scan) \in Nat
      /\ Head(port) = port[1]
  <2>1. port \in Seq(ScanCodes) /\ Len(port) <= 1
    BY DEF KeyboardType
  <2>2. Len(port) = 1 /\ Head(port) = port[1]
    BY <2>1, OneCode
  <2>3. Len(port') = 0
    OBVIOUS
  <2> QED BY <2>2, <2>3, CodeType
<1>n. PICK n \in Nat : n = Len(scan)
  BY <1>2
<1>3. /\ Waiting = n + 1 /\ Waiting' = n
      /\ \A k \in 1..n : Code(k)' = Code(k + 1)
      /\ Code(1) = Head(port)
  BY <1>2, <1>n DEF Waiting, Code
<1>4. User' = User
  BY DEF User
<1>5. PICK shorter \in [0..n -> SUBSET Modes] : \A k \in 0..n : shorter[k] = mode[k + 1]
  <2> DEFINE f == [k \in 0..n |-> mode[k + 1]]
  <2>1. f \in [0..n -> SUBSET Modes]
    BY <1>1, <1>3
  <2>2. \A k \in 0..n : f[k] = mode[k + 1]
    OBVIOUS
  <2> QED BY <2>1, <2>2
<1>7. /\ mode[1] = After(Head(port), Driver)
      /\ Head(port).want = Effect(Head(port), Driver)
  BY <1>1, <1>3 DEF Track
<1>8. shorter[0] = Driver' /\ shorter[n] = User'
  BY <1>1, <1>3, <1>4, <1>5, <1>7 DEF Track
<1>9. ASSUME NEW k \in 1..n
      PROVE  /\ shorter[k] = After(Code(k)', shorter[k - 1])
             /\ Code(k)'.want = Effect(Code(k)', shorter[k - 1])
  <2>1. k + 1 \in 1..(n + 1) /\ k - 1 \in 0..n /\ (k + 1) - 1 = (k - 1) + 1
        /\ k \in 0..n
    OBVIOUS
  <2>2. shorter[k] = mode[k + 1] /\ shorter[k - 1] = mode[(k + 1) - 1]
        /\ Code(k)' = Code(k + 1)
    BY <1>3, <1>5, <2>1
  <2> QED BY <1>1, <1>3, <2>1, <2>2 DEF Track
<1>10. Track(shorter)'
  <2>1. Track(shorter)' <=>
          /\ shorter[0] = Driver'
          /\ shorter[Waiting'] = User'
          /\ \A k \in 1..Waiting' :
               /\ shorter[k] = After(Code(k)', shorter[k - 1])
               /\ Code(k)'.want = Effect(Code(k)', shorter[k - 1])
    BY DEF Track, After, Effect, Toggles
  <2> QED BY <1>3, <1>8, <1>9, <2>1
<1> QED BY <1>3, <1>5, <1>7, <1>10 DEF KeyboardInv

TypingInv == KeyboardInv /\ EchoesWhatWasTyped

(* A key changes the user's mode as its code changes the driver's.  This   *)
(* needs shift and caps lock not to repeat: a repetition toggles the       *)
(* driver's mode, not the user's.                                          *)
LEMMA KeyTrack ==
  ASSUME Repeating \cap Modes = {}, KeyboardType, KeyboardInv,
         NEW key \in Keys, Press(key) \/ Repeat(key) \/ Release(key)
  PROVE  KeyboardInv'
<1>1. User \in SUBSET Modes
  BY UserMode
<1>2. /\ "shift" \in User <=> "shift" \in held
      /\ "caps" \in User <=> lock
  BY UserMode
<1>3. /\ User' \in SUBSET Modes
      /\ "shift" \in User' <=> "shift" \in held'
      /\ "caps" \in User' <=> lock'
  BY DEF User, Modes
<1>4. ASSUME NEW make \in BOOLEAN, NEW want \in Effects, Send(key, make, want),
             want = Effect([key |-> key, make |-> make, want |-> want], User),
             "shift" \in held' <=> ~("shift" \in held <=> key = "shift"),
             lock' <=> ~(lock <=> key = "caps" /\ make)
      PROVE  KeyboardInv'
  <2>1. PICK code \in ScanCodes : code = [key |-> key, make |-> make, want |-> want]
    BY DEF ScanCodes
  <2>2. code.key = key /\ code.make = make /\ code.want = want
    BY <2>1
  <2>3. /\ Len(scan') = Len(scan) + 1
        /\ \A k \in 1..Len(scan) : scan'[k] = scan[k]
        /\ scan'[Len(scan) + 1] = code
        /\ UNCHANGED <<state, port>>
    BY <1>4, <2>1, SendFacts
  <2>4. code.want = Effect(code, User)
    BY <1>4, <2>1, <2>2
  <2>5. /\ After(code, User) \in SUBSET Modes
        /\ "shift" \in After(code, User) <=> ~("shift" \in User <=> key = "shift")
        /\ "caps" \in After(code, User) <=> ~("caps" \in User <=> key = "caps" /\ make)
    BY <1>1, <2>2, AfterFacts
  <2>6. User' = After(code, User)
    <3>1. /\ "shift" \in User' <=> "shift" \in After(code, User)
          /\ "caps" \in User' <=> "caps" \in After(code, User)
      BY <1>2, <1>3, <1>4, <2>5
    <3> QED BY <1>3, <2>5, <3>1, ModesEqual
  <2> QED BY <2>3, <2>4, <2>6, SentTrack
<1>5. Wanted(key) \in Effects /\ "none" \in Effects
  BY WantedType DEF Effects
<1>6. lock \in BOOLEAN
  BY DEF KeyboardType
<1>7. CASE Press(key)
  <2>1. key \notin held /\ held' = held \cup {key} /\ Send(key, TRUE, Wanted(key))
    BY <1>7 DEF Press
  <2>2. lock' = (lock # (key = "caps"))
    BY <1>7 DEF Press
  <2>3. lock' <=> ~(lock <=> key = "caps" /\ TRUE)
    BY <1>6, <2>2
  <2>4. "shift" \in held' <=> ~("shift" \in held <=> key = "shift")
    BY <2>1
  <2> QED BY <1>4, <1>5, <2>1, <2>3, <2>4, WantedIsEffect
<1>8. CASE Repeat(key)
  <2>1. key # "shift" /\ key # "caps" /\ held' = held /\ lock' = lock
        /\ Send(key, TRUE, Wanted(key))
    BY <1>8 DEF Repeat, Modes
  <2> QED BY <1>4, <1>5, <2>1, WantedIsEffect
<1>9. CASE Release(key)
  <2>1. key \in held /\ held' = held \ {key} /\ lock' = lock /\ Send(key, FALSE, "none")
    BY <1>9 DEF Release
  <2>2. "shift" \in held' <=> ~("shift" \in held <=> key = "shift")
    BY <2>1
  <2>3. "none" = Effect([key |-> key, make |-> FALSE, want |-> "none"], User)
    BY DEF Effect
  <2> QED BY <1>4, <1>5, <2>1, <2>2, <2>3
<1> QED BY <1>7, <1>8, <1>9

(* on_keyboard handles the code at the port in the driver's mode. *)
LEMMA OnKeyboardTrack ==
  ASSUME KeyboardType, TypingInv, on_keyboard
  PROVE  TypingInv'
<1>1. /\ port' = <<>> /\ UNCHANGED <<scan, held, lock>>
      /\ IF port # <<>> THEN on_key(Head(port)) ELSE UNCHANGED <<state, echo>>
  BY DEF on_keyboard
<1>2. CASE port = <<>>
  <2>1. UNCHANGED <<state, echo, port, scan, held, lock>>
    BY <1>1, <1>2
  <2>2. UNCHANGED <<Waiting, Driver, User>> /\ \A k : Code(k)' = Code(k)
    BY <2>1 DEF Waiting, Driver, User, Code
  <2>3. PICK mode \in [0..Waiting -> SUBSET Modes] : Track(mode)
    BY DEF TypingInv, KeyboardInv
  <2>4. Track(mode)'
    BY <2>2, <2>3 DEF Track
  <2>5. KeyboardInv'
    BY <2>2, <2>3, <2>4 DEF KeyboardInv
  <2> QED BY <2>1, <2>5 DEF TypingInv, EchoesWhatWasTyped
<1>3. CASE port # <<>>
  <2>1. on_key(Head(port)) /\ Head(port) \in ScanCodes
    BY <1>1, <1>3 DEF KeyboardType
  <2>2. PICK code \in ScanCodes : code = Head(port)
    BY <2>1
  <2>3. state.caps_pressed \in BOOLEAN /\ state.left_shift_pressed \in BOOLEAN
    BY DEF KeyboardType
  <2>4. /\ state'.left_shift_pressed <=> ~(state.left_shift_pressed <=> code.key = "shift")
        /\ state'.caps_pressed <=> ~(state.caps_pressed <=> code.key = "caps" /\ code.make)
    BY <2>1, <2>2, <2>3 DEF on_key, ScanCodes
  <2>5. /\ Driver \in SUBSET Modes /\ Driver' \in SUBSET Modes
        /\ "shift" \in Driver <=> state.left_shift_pressed
        /\ "caps" \in Driver <=> state.caps_pressed
        /\ "shift" \in Driver' <=> state'.left_shift_pressed
        /\ "caps" \in Driver' <=> state'.caps_pressed
    BY DEF Driver, Modes
  <2>6. Driver' = After(code, Driver)
    <3>1. /\ After(code, Driver) \in SUBSET Modes
          /\ "shift" \in After(code, Driver) <=> ~("shift" \in Driver <=> code.key = "shift")
          /\ "caps" \in After(code, Driver) <=>
               ~("caps" \in Driver <=> code.key = "caps" /\ code.make)
      BY <2>5, AfterFacts
    <3>2. /\ "shift" \in Driver' <=> "shift" \in After(code, Driver)
          /\ "caps" \in Driver' <=> "caps" \in After(code, Driver)
      BY <2>4, <2>5, <3>1
    <3> QED BY <2>5, <3>1, <3>2, ModesEqual
  <2>7. KeyboardInv' /\ code.want = Effect(code, Driver)
    BY <1>1, <1>3, <2>2, <2>6, ReadTrack DEF TypingInv
  <2>8. echo' = [got |-> Echoed(code), want |-> code.want]
    BY <2>1, <2>2 DEF on_key
  <2>9. Echoed(code) = code.want
    BY <2>7, EchoedIsEffect
  <2> QED BY <2>7, <2>8, <2>9 DEF TypingInv, EchoesWhatWasTyped
<1> QED BY <1>2, <1>3

(* A step that leaves the keyboard, the driver and the echo alone. *)
LEMMA TypingStutters ==
  ASSUME TypingInv, UNCHANGED KeyboardVars
  PROVE  TypingInv'
<1>1. UNCHANGED <<state, echo, port, scan, held, lock>>
  BY DEF KeyboardVars, keyboard
<1>2. UNCHANGED <<Waiting, Driver, User>> /\ \A k : Code(k)' = Code(k)
  BY <1>1 DEF Waiting, Driver, User, Code
<1>3. PICK mode \in [0..Waiting -> SUBSET Modes] : Track(mode)
  BY DEF TypingInv, KeyboardInv
<1>4. Track(mode)'
  BY <1>2, <1>3 DEF Track
<1>5. KeyboardInv'
  BY <1>2, <1>3, <1>4 DEF KeyboardInv
<1> QED BY <1>1, <1>5 DEF TypingInv, EchoesWhatWasTyped

LEMMA InitTyping ==
  ASSUME Init
  PROVE  TypingInv
<1>1. /\ port = <<>> /\ scan = <<>> /\ held = {} /\ lock = FALSE
      /\ state = NothingPressed /\ echo = [got |-> "none", want |-> "none"]
  BY DEF Init
<1>2. Len(port) = 0 /\ Len(scan) = 0
  BY <1>1
<1>3. Waiting = 0
  BY <1>2 DEF Waiting
<1>4. Driver = {} /\ User = {}
  BY <1>1 DEF Driver, User, NothingPressed, Modes
<1>5. PICK mode \in [0..0 -> SUBSET Modes] : mode[0] = {}
  <2>1. [k \in 0..0 |-> {}] \in [0..0 -> SUBSET Modes]
    OBVIOUS
  <2>2. [k \in 0..0 |-> {}][0] = {}
    OBVIOUS
  <2> QED BY <2>1, <2>2
<1>6. Track(mode)
  BY <1>3, <1>4, <1>5 DEF Track
<1> QED BY <1>1, <1>3, <1>5, <1>6 DEF TypingInv, KeyboardInv, EchoesWhatWasTyped

(***************************************************************************)
(* A letter is echoed in the case its user expects, whatever other keys    *)
(* were pressed and released before and however many codes were under way  *)
(* when it was typed, provided that shift and caps lock do not repeat      *)
(* while they are held: the driver toggles (keyboard.c:122-173).           *)
(***************************************************************************)
THEOREM EchoIsCorrect ==
  ASSUME Repeating \cap {"shift", "caps"} = {}
  PROVE  Spec => []EchoesWhatWasTyped
<1>1. Repeating \cap Modes = {}
  BY DEF Modes
<1>2. ASSUME StackInv, TypingInv, [Next]_vars PROVE TypingInv'
  <2>0. KeyboardType /\ KeyboardInv
    BY <1>2, TypeParts DEF StackInv, TypingInv
  <2>1. CASE Boot
    <3>1. CASE tty_init
      <4>1. At("tty_init") /\ state' = NothingPressed /\ UNCHANGED <<keyboard, echo>>
        BY <3>1 DEF tty_init
      <4>2. Booting("tty_init")
        <5>1. "tty_init" \in BootLabels /\ "tty_init" \notin HandlerLabels
          BY DEF BootLabels, HandlerLabels
        <5>2. UserFrame.at = "user" /\ \A m : Frame(m, FALSE).at = m
          BY DEF UserFrame, Frame
        <5> QED BY <1>2, <4>1, <5>1, <5>2, RunningStack DEF StackInv, At
      <4>3. state = NothingPressed
        BY <1>2, <4>2 DEF StackInv, BootOrder
      <4> QED BY <1>2, <4>1, <4>3, TypingStutters DEF KeyboardVars
    <3>2. CASE interrupt_init \/ time_init \/ memory_init \/ sti
      <4>1. UNCHANGED KeyboardVars
        BY <3>2 DEF interrupt_init, time_init, memory_init, sti, KeyboardVars
      <4> QED BY <1>2, <4>1, TypingStutters
    <3> QED BY <2>1, <3>1, <3>2 DEF Boot
  <2>2. CASE Handle
    <3>1. CASE on_keyboard
      BY <1>2, <2>0, <3>1, OnKeyboardTrack
    <3>2. CASE Iret \/ on_timer \/ check_task_affairs \/ KeyboardEoi
      <4>1. UNCHANGED KeyboardVars
        BY <3>2 DEF Iret, on_timer, check_task_affairs, KeyboardEoi, KeyboardVars
      <4> QED BY <1>2, <4>1, TypingStutters
    <3> QED BY <2>2, <3>1, <3>2 DEF Handle
  <2>3. ASSUME NEW key \in Keys, Press(key) \/ Repeat(key) \/ Release(key)
        PROVE  TypingInv'
    <3>1. KeyboardInv'
      BY <1>1, <2>0, <2>3, KeyTrack
    <3>2. echo' = echo
      BY <2>3 DEF Press, Repeat, Release, Send
    <3> QED BY <1>2, <3>1, <3>2 DEF TypingInv, EchoesWhatWasTyped
  <2>4. CASE Deliver
    <3>1. KeyboardInv' /\ echo' = echo
      BY <2>0, <2>4, DeliverTrack DEF Deliver
    <3> QED BY <1>2, <3>1 DEF TypingInv, EchoesWhatWasTyped
  <2>5. ASSUME NEW line \in Lines, Accept(line) PROVE TypingInv'
    <3>1. UNCHANGED KeyboardVars
      BY <2>5 DEF Accept, KeyboardVars
    <3> QED BY <1>2, <3>1, TypingStutters
  <2>6. CASE TimerTick \/ schedule \/ UNCHANGED vars
    <3>1. UNCHANGED KeyboardVars
      BY <2>6 DEF TimerTick, schedule, vars, KeyboardVars
    <3> QED BY <1>2, <3>1, TypingStutters
  <2> QED BY <1>2, <2>1, <2>2, <2>3, <2>4, <2>5, <2>6 DEF Next
<1>3. TypingInv => EchoesWhatWasTyped
  BY DEF TypingInv
<1> QED BY <1>2, <1>3, InitTyping, StackInvariant, PTL DEF Spec
=============================================================================
