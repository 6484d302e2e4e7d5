------------------------------ MODULE Console ------------------------------
(***************************************************************************)
(* The text console (kernel/dev/console.c): video memory, and a cursor     *)
(* kept three times, as a pointer, as column and row, and in the video     *)
(* controller.  Tasks print, and so does the keyboard's interrupt handler, *)
(* each character being a call of putchar.                                 *)
(*                                                                         *)
(* putchar is modelled statement by statement.  A statement of a task may  *)
(* be followed by the handler, which runs to its end, or by another task.  *)
(* Masked = TRUE is the discipline the commented-out cli and sti of gotoxy *)
(* hint at: interrupts are disabled during putchar.                        *)
(*                                                                         *)
(* A cell holds a character; attributes are left alone by the code.  Video *)
(* memory goes on below the screen, blank since the firmware set the mode. *)
(* Careful callers do not go back beyond the first cell, and do not begin  *)
(* a new line below the last row (scroll_up would show what is there).     *)
(***************************************************************************)
EXTENDS Integers

CONSTANTS ROWS, COLS,   \* 25 and 80
          BYTE,         \* values of a byte of the cursor's position (256)
          Chars,        \* characters that are printed
          Blank,        \* the character ' '
          Tasks,        \* tasks that print
          Masked,       \* are interrupts disabled during putchar?
          Careful       \* do callers keep to the rules above?

ASSUME ConsoleAssumption ==
  /\ ROWS \in Nat \ {0} /\ COLS \in Nat \ {0}
  /\ BYTE \in Nat \ {0}
  /\ Blank \notin Chars
  /\ "irq" \notin Tasks
  /\ Masked \in BOOLEAN /\ Careful \in BOOLEAN

END == ROWS * COLS
Cells == 0..(END - 1)

(* The video memory that is looked at: the screen and the rows below it    *)
(* that unmasked callers can reach between them.                           *)
Memory == 0..(END + 4 * COLS - 1)
Cursor == 0..(END + 4 * COLS - 1)

Writers == Tasks \cup {"irq"}

VARIABLES
  mem,           \* video memory
  p_last_char,   \* the cell that is written next
  cursor_col, cursor_row,
  port,          \* the cursor in the video controller: [high, low]
  frame,         \* where every writer is in putchar
  shown          \* history: screen and cursor when putchar last returned

vars == <<mem, p_last_char, cursor_col, cursor_row, port, frame, shown>>
fields == <<cursor_col, cursor_row>>

Labels == {"idle", "set", "fields", "high", "low", "check", "blank"}

(* then is where set_cursor_state returns to. *)
Frames == [at : Labels, arg : Cursor, then : {"check", "blank"}]

Idle == [at |-> "idle", arg |-> 0, then |-> "check"]

TypeOK ==
  /\ mem \in [Memory -> Chars \cup {Blank}]
  /\ p_last_char \in Cursor
  /\ cursor_col \in 0..(COLS - 1)
  /\ cursor_row \in 0..(ROWS + 3)
  /\ port \in [high : Nat, low : 0..(BYTE - 1)]
  /\ frame \in [Writers -> Frames]
  /\ shown \in [screen : [Cells -> Chars \cup {Blank}], position : Cells \cup {END}]
-----------------------------------------------------------------------------
(* cls, and cursor_state_init *)
Init ==
  /\ mem = [i \in Memory |-> Blank]
  /\ p_last_char = 0
  /\ cursor_col = 0 /\ cursor_row = 0
  /\ port = [high |-> 0, low |-> 0]
  /\ frame = [w \in Writers |-> Idle]
  /\ shown = [screen |-> [i \in Cells |-> Blank], position |-> 0]

At(w, label) == frame[w].at = label

(* The handler runs to its end, masked callers do, too. *)
MayRun(w) ==
  /\ w # "irq" => At("irq", "idle")
  /\ Masked => \A v \in Writers \ {w} : At(v, "idle")

Step(w, label) ==
  /\ MayRun(w)
  /\ At(w, label)

Goto(w, label) == frame' = [frame EXCEPT ![w].at = label]

(* putchar returns. *)
Return(w) ==
  /\ frame' = [frame EXCEPT ![w] = Idle]
  /\ shown' = [screen |-> [i \in Cells |-> mem'[i]], position |-> p_last_char]

(* set_cursor_state(&current_cursor_state, arg) is called. *)
SetCursor(w, arg, then) ==
  frame' = [frame EXCEPT ![w] = [at |-> "set", arg |-> arg, then |-> then]]

(* putchar of a character: it is stored, and the cursor incremented. *)
PutChar(w, c) ==
  /\ Step(w, "idle")
  /\ mem' = [mem EXCEPT ![p_last_char] = c]
  /\ p_last_char' = p_last_char + 1
  /\ SetCursor(w, p_last_char + 1, "check")
  /\ UNCHANGED <<fields, port, shown>>

NextRow(p) == (p \div COLS + 1) * COLS

println(w) ==
  /\ Step(w, "idle")
  /\ Careful => p_last_char # END
  /\ SetCursor(w, NextRow(p_last_char), "check")
  /\ UNCHANGED <<mem, p_last_char, fields, port, shown>>

print_back(w) ==
  /\ Step(w, "idle")
  /\ Careful => p_last_char > 0
  /\ SetCursor(w, p_last_char - 1, "blank")
  /\ UNCHANGED <<mem, p_last_char, fields, port, shown>>

PrintBackBlank(w) ==
  /\ Step(w, "blank")
  /\ mem' = [mem EXCEPT ![p_last_char] = Blank]
  /\ Return(w)
  /\ UNCHANGED <<p_last_char, fields, port>>
-----------------------------------------------------------------------------
(* set_cursor_state and gotoxy, store by store. *)

SetPointer(w) ==
  /\ Step(w, "set")
  /\ p_last_char' = frame[w].arg
  /\ Goto(w, "fields")
  /\ UNCHANGED <<mem, fields, port, shown>>

FieldsSwapped(w) ==
  /\ Step(w, "fields")
  /\ cursor_col' = frame[w].arg \div COLS
  /\ cursor_row' = frame[w].arg % COLS
  /\ Goto(w, "high")
  /\ UNCHANGED <<mem, p_last_char, port, shown>>

SetFields(w) ==
  /\ Step(w, "fields")
  /\ cursor_col' = frame[w].arg % COLS
  /\ cursor_row' = frame[w].arg \div COLS
  /\ Goto(w, "high")
  /\ UNCHANGED <<mem, p_last_char, port, shown>>

ShiftedBySize(w) ==
  /\ Step(w, "high")
  /\ frame' = [frame EXCEPT ![w].at = "low", ![w].arg = cursor_row * COLS + cursor_col]
  /\ port' = [port EXCEPT !.high = (cursor_row * COLS + cursor_col) \div 2]
  /\ UNCHANGED <<mem, p_last_char, fields, shown>>

(* pos is computed from the column and row gotoxy was called with. *)
gotoxy_high(w) ==
  /\ Step(w, "high")
  /\ frame' = [frame EXCEPT ![w].at = "low", ![w].arg = cursor_row * COLS + cursor_col]
  /\ port' = [port EXCEPT !.high = (cursor_row * COLS + cursor_col) \div BYTE]
  /\ UNCHANGED <<mem, p_last_char, fields, shown>>

gotoxy_low(w) ==
  /\ Step(w, "low")
  /\ port' = [port EXCEPT !.low = frame[w].arg % BYTE]
  /\ Goto(w, frame[w].then)
  /\ UNCHANGED <<mem, p_last_char, fields, shown>>
-----------------------------------------------------------------------------
(* Every cell of the screen takes the character COLS cells further on. *)
Scrolled(m) == [i \in Memory |-> IF i \in Cells THEN m[i + COLS] ELSE m[i]]

ScrollsEarly(p) == p >= END
MustScroll(p) == p > END

check_scroll_up(w) ==
  /\ Step(w, "check")
  /\ ~MustScroll(p_last_char)
  /\ UNCHANGED <<mem, p_last_char, fields, port>>
  /\ Return(w)

scroll_up(w) ==
  /\ Step(w, "check")
  /\ MustScroll(p_last_char)
  /\ mem' = Scrolled(mem)
  /\ SetCursor(w, p_last_char - COLS, "check")
  /\ UNCHANGED <<p_last_char, fields, port, shown>>
-----------------------------------------------------------------------------
Next ==
  \E w \in Writers :
    \/ \E c \in Chars : PutChar(w, c)
    \/ println(w) \/ print_back(w) \/ PrintBackBlank(w)
    \/ SetPointer(w) \/ SetFields(w) \/ gotoxy_high(w) \/ gotoxy_low(w)
    \/ check_scroll_up(w) \/ scroll_up(w)

Spec == Init /\ [][Next]_vars
-----------------------------------------------------------------------------
Screen == INSTANCE Terminal WITH screen <- shown.screen, position <- shown.position

(***************************************************************************)
(* Every putchar does to the screen what Terminal says, although a         *)
(* character at the end is stored below the screen, in memory that keeps   *)
(* it, and the comparison in check_scroll_up lets the cursor stand there.  *)
(***************************************************************************)
ImplementsTerminal == Screen!Spec

(***************************************************************************)
(* console.h:12, "the three fields of the cursor must be in step at all    *)
(* times": whenever nobody is in putchar, column, row and the position in  *)
(* the video controller are those of p_last_char.                          *)
(***************************************************************************)
CursorInStep ==
  (\A w \in Writers : At(w, "idle")) =>
    /\ cursor_row * COLS + cursor_col = p_last_char
    /\ port.high * BYTE + port.low = p_last_char
=============================================================================
