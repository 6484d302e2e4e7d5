--------------------------- MODULE ConsoleProofs ---------------------------
(***************************************************************************)
(* Theorems about Console, for a screen and a byte of every size.          *)
(***************************************************************************)
EXTENDS Console, TLAPS

-----------------------------------------------------------------------------
(* Arithmetic *)

LEMMA DivMod ==
  ASSUME NEW a \in Nat, NEW b \in Nat \ {0}
  PROVE  /\ a \div b \in Nat
         /\ a % b \in 0..(b - 1)
         /\ (a \div b) * b + (a % b) = a
<1>1. PICK q \in Nat : q = a \div b
  OBVIOUS
<1>2. PICK r \in 0..(b - 1) : r = a % b
  OBVIOUS
<1>3. a = b * q + r
  BY <1>1, <1>2, SMTT(30)
<1>4. b * q = q * b
  OBVIOUS
<1>5. (a \div b) * b + (a % b) = a
  BY <1>1, <1>2, <1>3, <1>4, Zenon
<1> QED BY <1>1, <1>2, <1>5

LEMMA ProductMonotonic ==
  ASSUME NEW a \in Nat, NEW b \in Nat, NEW c \in Nat, a <= b
  PROVE  a * c <= b * c
OBVIOUS

LEMMA ProductStep ==
  ASSUME NEW a \in Int, NEW c \in Nat
  PROVE  (a + 1) * c = a * c + c /\ (a - 1) * c = a * c - c
OBVIOUS

LEMMA ProductNat ==
  ASSUME NEW a \in Nat, NEW b \in Nat
  PROVE  a * b \in Nat
OBVIOUS

LEMMA DivBound ==
  ASSUME NEW a \in Nat, NEW b \in Nat \ {0}, NEW n \in Nat, a < n * b
  PROVE  a \div b < n
<1>1. (a \div b) * b <= a /\ a \div b \in Nat
  BY DivMod
<1>2. CASE n <= a \div b
  <2>1. n * b <= (a \div b) * b
    BY <1>1, <1>2, ProductMonotonic
  <2> QED BY <1>1, <2>1, ProductNat
<1> QED BY <1>1, <1>2

LEMMA SizeFacts ==
  /\ ROWS \in Nat \ {0} /\ COLS \in Nat \ {0} /\ BYTE \in Nat \ {0}
  /\ END \in Nat /\ COLS <= END
  /\ END + 4 * COLS = (ROWS + 4) * COLS
  /\ (ROWS - 1) * COLS = END - COLS
  /\ END - 1 \in Cells /\ Cells \subseteq Memory /\ Cursor = Memory
  /\ Blank \notin Chars
BY ConsoleAssumption DEF END, Cells, Memory, Cursor

(* A new line begins after the position, and at the screen's end at most. *)
LEMMA NextRowFacts ==
  ASSUME NEW p \in Cells
  PROVE  NextRow(p) \in Nat /\ p < NextRow(p) /\ NextRow(p) <= END
<1>1. p \in Nat /\ p < ROWS * COLS
  BY SizeFacts DEF Cells, END
<1>2. PICK q \in Nat, r \in 0..(COLS - 1) : q = p \div COLS /\ q * COLS + r = p
  BY <1>1, SizeFacts, DivMod
<1>3. q < ROWS
  BY <1>1, <1>2, SizeFacts, DivBound
<1>4. (q + 1) * COLS = q * COLS + COLS /\ q * COLS \in Nat
  BY SizeFacts, ProductStep, ProductNat
<1>5. (q + 1) * COLS <= ROWS * COLS
  BY <1>3, SizeFacts, ProductMonotonic
<1> QED BY <1>2, <1>4, <1>5, SizeFacts DEF NextRow, END
-----------------------------------------------------------------------------
(***************************************************************************)
(* The inductive invariant.  Between two calls everything agrees with what *)
(* was shown last; during a call the cursor's three representations follow *)
(* the argument of set_cursor_state one after the other, and screen and    *)
(* argument are what the call makes of screen and position before it.      *)
(***************************************************************************)

Visible == [i \in Cells |-> mem[i]]

(* The hidden cells stay blank, but for the first. *)
HiddenBlank == \A i \in Memory : i > END => mem[i] = Blank

FieldsAre(p) == cursor_col = p % COLS /\ cursor_row = p \div COLS

Resting ==
  /\ p_last_char = shown.position
  /\ Visible = shown.screen
  /\ FieldsAre(p_last_char)
  /\ port.high = p_last_char \div BYTE /\ port.low = p_last_char % BYTE

(* What the call has made of the screen and the position that were shown. *)
PutInside(p) ==
  /\ shown.position \in Cells
  /\ \E c \in Chars : Visible = [shown.screen EXCEPT ![shown.position] = c]
  /\ p = shown.position + 1

PutBelow(p) ==
  /\ shown.position = END
  /\ mem[END] \in Chars
  /\ Visible = shown.screen
  /\ p = END + 1

PutScrolled(p) ==
  /\ shown.position = END
  /\ \E c \in Chars : Visible = [Screen!MovedUp EXCEPT ![(ROWS - 1) * COLS] = c]
  /\ p = (ROWS - 1) * COLS + 1

LineBegun(p) ==
  /\ shown.position \in Cells
  /\ Visible = shown.screen
  /\ p = NextRow(shown.position)

WentBack(p) ==
  /\ shown.position > 0
  /\ Visible = shown.screen
  /\ p = shown.position - 1

Writing(p) == PutInside(p) \/ PutBelow(p) \/ PutScrolled(p) \/ LineBegun(p)

Calling(f) ==
  /\ f.at \in {"set", "fields", "high", "low", f.then}
  /\ \/ f.then = "check" /\ Writing(f.arg)
     \/ f.then = "blank" /\ WentBack(f.arg)
  /\ f.at # "set" => p_last_char = f.arg
  /\ f.at \notin {"set", "fields"} => FieldsAre(f.arg)
  /\ f.at \notin {"set", "fields", "high"} => port.high = f.arg \div BYTE
  /\ f.at \notin {"set", "fields", "high", "low"} => port.low = f.arg % BYTE

(* At most one writer is in a call. *)
OneAtATime ==
  \/ /\ \A w \in Writers : At(w, "idle")
     /\ Resting
  \/ \E w \in Writers :
       /\ \A v \in Writers \ {w} : At(v, "idle")
       /\ Calling(frame[w])

ConsoleInv == TypeOK /\ HiddenBlank /\ OneAtATime
-----------------------------------------------------------------------------
LEMMA CallingIsNotIdle ==
  ASSUME NEW f, Calling(f)
  PROVE  f.at # "idle"
BY DEF Calling

(* A writer that may run is the only one in a call, or there is none. *)
LEMMA Alone ==
  ASSUME Masked, ConsoleInv, NEW w \in Writers, MayRun(w)
  PROVE  /\ \A v \in Writers \ {w} : At(v, "idle")
         /\ At(w, "idle") => Resting
         /\ ~At(w, "idle") => Calling(frame[w])
<1>1. \A v \in Writers \ {w} : At(v, "idle")
  BY DEF MayRun
<1>2. CASE (\A v \in Writers : At(v, "idle")) /\ Resting
  BY <1>1, <1>2
<1>3. ASSUME NEW u \in Writers, Calling(frame[u])
      PROVE  u = w /\ ~At(w, "idle")
  BY <1>1, <1>3, CallingIsNotIdle DEF At
<1> QED BY <1>1, <1>2, <1>3 DEF ConsoleInv, OneAtATime

(* The writer goes on, in the frame f. *)
LEMMA CallGoesOn ==
  ASSUME TypeOK, NEW w \in Writers, NEW f \in Frames,
         \A v \in Writers \ {w} : At(v, "idle"),
         frame' = [frame EXCEPT ![w] = f], Calling(f)'
  PROVE  OneAtATime' /\ frame' \in [Writers -> Frames]
<1>1. frame \in [Writers -> Frames]
  BY DEF TypeOK
<1>2. /\ frame' \in [Writers -> Frames] /\ frame'[w] = f
      /\ \A v \in Writers \ {w} : frame'[v] = frame[v]
  BY <1>1
<1>3. \A v \in Writers \ {w} : At(v, "idle")'
  BY <1>2 DEF At
<1>4. Calling(frame[w])'
  BY <1>2 DEF Calling
<1> QED BY <1>2, <1>3, <1>4 DEF OneAtATime

(* The writer's call returns. *)
LEMMA CallReturns ==
  ASSUME TypeOK, NEW w \in Writers,
         \A v \in Writers \ {w} : At(v, "idle"),
         frame' = [frame EXCEPT ![w] = Idle], Resting'
  PROVE  OneAtATime' /\ frame' \in [Writers -> Frames]
<1>1. frame \in [Writers -> Frames] /\ Idle \in Frames
  BY SizeFacts DEF TypeOK, Idle, Frames, Labels, Cursor
<1>2. /\ frame' \in [Writers -> Frames] /\ frame'[w] = Idle
      /\ \A v \in Writers \ {w} : frame'[v] = frame[v]
  BY <1>1
<1>3. \A v \in Writers : At(v, "idle")'
  BY <1>2 DEF At, Idle
<1> QED BY <1>2, <1>3 DEF OneAtATime

(* What is known of the positions. *)
LEMMA PositionFacts ==
  ASSUME TypeOK
  PROVE  /\ shown.position \in 0..END
         /\ shown.position \in Cells <=> shown.position < END
         /\ shown.screen \in [Cells -> Chars \cup {Blank}]
         /\ Visible \in [Cells -> Chars \cup {Blank}]
<1>1. shown.position \in Cells \cup {END} /\ shown.screen \in [Cells -> Chars \cup {Blank}]
  BY DEF TypeOK
<1>2. shown.position \in 0..END /\ (shown.position \in Cells <=> shown.position < END)
  BY <1>1, SizeFacts DEF Cells
<1>3. Visible \in [Cells -> Chars \cup {Blank}]
  BY SizeFacts DEF TypeOK, Visible
<1> QED BY <1>1, <1>2, <1>3

(* A position of the cursor has a column and a row in range. *)
LEMMA FieldsType ==
  ASSUME NEW p \in Cursor
  PROVE  /\ p % COLS \in 0..(COLS - 1)
         /\ p \div COLS \in 0..(ROWS + 3)
         /\ (p \div COLS) * COLS + (p % COLS) = p
         /\ p \div BYTE \in Nat
         /\ p % BYTE \in 0..(BYTE - 1)
         /\ (p \div BYTE) * BYTE + (p % BYTE) = p
<1>1. p \in Nat /\ p < (ROWS + 4) * COLS
  BY SizeFacts DEF Cursor
<1>2. p \div COLS < ROWS + 4
  BY <1>1, SizeFacts, DivBound
<1>3. /\ p \div COLS \in Nat /\ p % COLS \in 0..(COLS - 1)
      /\ (p \div COLS) * COLS + (p % COLS) = p
  BY <1>1, SizeFacts, DivMod
<1>4. /\ p \div BYTE \in Nat /\ p % BYTE \in 0..(BYTE - 1)
      /\ (p \div BYTE) * BYTE + (p % BYTE) = p
  BY <1>1, SizeFacts, DivMod
<1>5. p \div COLS \in 0..(ROWS + 3)
  BY <1>2, <1>3, SizeFacts
<1> QED BY <1>3, <1>4, <1>5

LEMMA ConsoleInit ==
  ASSUME Init
  PROVE  ConsoleInv
<1>1. /\ mem = [i \in Memory |-> Blank] /\ p_last_char = 0 /\ cursor_col = 0 /\ cursor_row = 0
      /\ port = [high |-> 0, low |-> 0] /\ frame = [w \in Writers |-> Idle]
      /\ shown = [screen |-> [i \in Cells |-> Blank], position |-> 0]
  BY DEF Init
<1>2. 0 \in Cursor /\ 0 \in Cells
  BY SizeFacts DEF Cursor, Cells
<1>3. 0 % COLS = 0 /\ 0 \div COLS = 0 /\ 0 % BYTE = 0 /\ 0 \div BYTE = 0
  BY SizeFacts
<1>4. /\ 0 \in 0..(COLS - 1) /\ 0 \in 0..(ROWS + 3) /\ 0 \in 0..(BYTE - 1) /\ 0 \in Nat
  BY SizeFacts
<1>5. Idle \in Frames
  BY <1>2 DEF Idle, Frames, Labels
<1>6. mem \in [Memory -> Chars \cup {Blank}]
  BY <1>1
<1>7. shown \in [screen : [Cells -> Chars \cup {Blank}], position : Cells \cup {END}]
  BY <1>1, <1>2
<1>8. TypeOK
  BY <1>1, <1>2, <1>4, <1>5, <1>6, <1>7 DEF TypeOK
<1>9. HiddenBlank
  BY <1>1 DEF HiddenBlank
<1>10. Visible = shown.screen
  BY <1>1, SizeFacts DEF Visible
<1>11. Resting
  BY <1>1, <1>3, <1>10 DEF Resting, FieldsAre
<1>12. \A w \in Writers : At(w, "idle")
  BY <1>1 DEF At, Idle
<1> QED BY <1>8, <1>9, <1>11, <1>12 DEF ConsoleInv, OneAtATime
-----------------------------------------------------------------------------
(* The beginning of a call *)

SetFrame(arg, then) == [at |-> "set", arg |-> arg, then |-> then]

LEMMA CallBegins ==
  ASSUME TypeOK, HiddenBlank', NEW w \in Writers, NEW arg \in Cursor,
         NEW then \in {"check", "blank"}, SetCursor(w, arg, then),
         \A v \in Writers \ {w} : At(v, "idle"),
         UNCHANGED <<fields, port, shown>>,
         mem' \in [Memory -> Chars \cup {Blank}], p_last_char' \in Cursor,
         \/ then = "check" /\ Writing(arg)'
         \/ then = "blank" /\ WentBack(arg)'
  PROVE  ConsoleInv'
<1>1. PICK f : f = SetFrame(arg, then)
  OBVIOUS
<1>2. f \in Frames
  BY <1>1 DEF SetFrame, Frames, Labels
<1>3. f.at = "set" /\ f.arg = arg /\ f.then = then
  BY <1>1 DEF SetFrame
<1>4. frame' = [frame EXCEPT ![w] = f]
  BY <1>1 DEF SetCursor, SetFrame
<1>5. Calling(f)'
  BY <1>3 DEF Calling
<1>6. OneAtATime' /\ frame' \in [Writers -> Frames]
  BY <1>2, <1>4, <1>5, CallGoesOn
<1>7. TypeOK'
  BY <1>6 DEF TypeOK, fields
<1> QED BY <1>6, <1>7 DEF ConsoleInv

LEMMA PutCharStep ==
  ASSUME Masked, ConsoleInv, NEW w \in Writers, NEW c \in Chars, PutChar(w, c)
  PROVE  ConsoleInv'
<1>1. /\ TypeOK /\ HiddenBlank /\ Resting
      /\ \A v \in Writers \ {w} : At(v, "idle")
  BY Alone DEF ConsoleInv, PutChar, Step
<1>2. /\ mem' = [mem EXCEPT ![p_last_char] = c]
      /\ p_last_char' = p_last_char + 1
      /\ SetCursor(w, p_last_char + 1, "check")
      /\ UNCHANGED <<fields, port, shown>>
  BY DEF PutChar
<1>3. PICK p \in 0..END : p = p_last_char /\ p = shown.position
  BY <1>1, PositionFacts DEF Resting
<1>4. p \in Memory /\ p + 1 \in Cursor
  BY SizeFacts DEF Memory, Cursor
<1>5. mem \in [Memory -> Chars \cup {Blank}]
  BY <1>1 DEF TypeOK
<1>6. /\ mem' \in [Memory -> Chars \cup {Blank}]
      /\ mem'[p] = c /\ \A i \in Memory \ {p} : mem'[i] = mem[i]
  BY <1>2, <1>3, <1>4, <1>5
<1>7. HiddenBlank'
  BY <1>1, <1>3, <1>6, SizeFacts DEF HiddenBlank
<1>8. CASE p < END
  <2>1. p \in Cells
    BY <1>8, SizeFacts DEF Cells
  <2>2. Visible' = [shown.screen EXCEPT ![p] = c]
    BY <1>1, <1>6, <2>1, SizeFacts DEF Visible, Resting
  <2>3. PutInside(p + 1)'
    BY <1>2, <1>3, <2>1, <2>2 DEF PutInside
  <2> QED BY <1>1, <1>2, <1>3, <1>4, <1>6, <1>7, <2>3, CallBegins DEF Writing
<1>9. CASE p = END
  <2>1. Visible' = Visible
    BY <1>6, <1>9, SizeFacts DEF Visible, Cells
  <2>2. PutBelow(p + 1)'
    BY <1>1, <1>2, <1>3, <1>6, <1>9, <2>1 DEF PutBelow, Resting
  <2> QED BY <1>1, <1>2, <1>3, <1>4, <1>6, <1>7, <2>2, CallBegins DEF Writing
<1> QED BY <1>3, <1>8, <1>9, SizeFacts

LEMMA PrintlnStep ==
  ASSUME Masked, Careful, ConsoleInv, NEW w \in Writers, println(w)
  PROVE  ConsoleInv'
<1>1. /\ TypeOK /\ HiddenBlank /\ Resting
      /\ \A v \in Writers \ {w} : At(v, "idle")
  BY Alone DEF ConsoleInv, println, Step
<1>2. /\ p_last_char # END
      /\ SetCursor(w, NextRow(p_last_char), "check")
      /\ UNCHANGED <<mem, p_last_char, fields, port, shown>>
  BY DEF println
<1>3. PICK p \in 0..END : p = p_last_char /\ p = shown.position
  BY <1>1, PositionFacts DEF Resting
<1>4. p \in Cells
  BY <1>2, <1>3, SizeFacts DEF Cells
<1>5. NextRow(p) \in Cursor
  BY <1>4, NextRowFacts, SizeFacts DEF Cursor
<1>6. Visible' = shown.screen
  BY <1>1, <1>2 DEF Visible, Resting
<1>7. PICK q \in Cursor : q = NextRow(p)
  BY <1>5
<1>8. LineBegun(q)'
  BY <1>2, <1>3, <1>4, <1>6, <1>7 DEF LineBegun, NextRow
<1>9. HiddenBlank'
  BY <1>1, <1>2 DEF HiddenBlank
<1>10. mem' \in [Memory -> Chars \cup {Blank}] /\ p_last_char' \in Cursor
  BY <1>1, <1>2 DEF TypeOK
<1> QED BY <1>1, <1>2, <1>3, <1>7, <1>8, <1>9, <1>10, CallBegins DEF Writing

LEMMA PrintBackStep ==
  ASSUME Masked, Careful, ConsoleInv, NEW w \in Writers, print_back(w)
  PROVE  ConsoleInv'
<1>1. /\ TypeOK /\ HiddenBlank /\ Resting
      /\ \A v \in Writers \ {w} : At(v, "idle")
  BY Alone DEF ConsoleInv, print_back, Step
<1>2. /\ p_last_char > 0
      /\ SetCursor(w, p_last_char - 1, "blank")
      /\ UNCHANGED <<mem, p_last_char, fields, port, shown>>
  BY DEF print_back
<1>3. PICK p \in 0..END : p = p_last_char /\ p = shown.position
  BY <1>1, PositionFacts DEF Resting
<1>4. p - 1 \in Cursor
  BY <1>2, <1>3, SizeFacts DEF Cursor
<1>5. Visible' = shown.screen
  BY <1>1, <1>2 DEF Visible, Resting
<1>6. WentBack(p - 1)'
  BY <1>2, <1>3, <1>5 DEF WentBack
<1>7. HiddenBlank'
  BY <1>1, <1>2 DEF HiddenBlank
<1>8. mem' \in [Memory -> Chars \cup {Blank}] /\ p_last_char' \in Cursor
  BY <1>1, <1>2 DEF TypeOK
<1> QED BY <1>1, <1>2, <1>3, <1>4, <1>6, <1>7, <1>8, CallBegins
-----------------------------------------------------------------------------
(* set_cursor_state and gotoxy *)

(* A step of the cursor leaves memory and what was shown alone. *)
LEMMA SameCall ==
  ASSUME NEW p, UNCHANGED <<mem, shown>>
  PROVE  /\ HiddenBlank => HiddenBlank'
         /\ Writing(p) => Writing(p)'
         /\ WentBack(p) => WentBack(p)'
<1>1. Visible' = Visible
  BY DEF Visible
<1>2. Screen!MovedUp' = Screen!MovedUp
  BY DEF Screen!MovedUp
<1>3. HiddenBlank => HiddenBlank'
  BY DEF HiddenBlank
<1>4. PutInside(p) => PutInside(p)'
  BY <1>1 DEF PutInside
<1>5. PutBelow(p) => PutBelow(p)'
  BY <1>1 DEF PutBelow
<1>6. PutScrolled(p) => PutScrolled(p)'
  BY <1>1, <1>2 DEF PutScrolled
<1>7. LineBegun(p) => LineBegun(p)'
  BY <1>1 DEF LineBegun
<1>8. WentBack(p) => WentBack(p)'
  BY <1>1 DEF WentBack
<1> QED BY <1>3, <1>4, <1>5, <1>6, <1>7, <1>8 DEF Writing

LEMMA CursorStep ==
  ASSUME Masked, ConsoleInv, NEW w \in Writers,
         SetPointer(w) \/ SetFields(w) \/ gotoxy_high(w) \/ gotoxy_low(w)
  PROVE  ConsoleInv'
<1>1. /\ MayRun(w) /\ ~At(w, "idle") /\ UNCHANGED <<mem, shown>>
  BY DEF SetPointer, SetFields, gotoxy_high, gotoxy_low, Step, At
<1>2. /\ TypeOK /\ HiddenBlank /\ Calling(frame[w])
      /\ \A v \in Writers \ {w} : At(v, "idle")
  BY <1>1, Alone DEF ConsoleInv
<1>3. PICK f \in Frames : f = frame[w]
  BY <1>2 DEF TypeOK
<1>4. f.at \in Labels /\ f.arg \in Cursor /\ f.then \in {"check", "blank"}
  BY DEF Frames
<1>5. /\ HiddenBlank'
      /\ \/ f.then = "check" /\ Writing(f.arg)'
         \/ f.then = "blank" /\ WentBack(f.arg)'
  BY <1>1, <1>2, <1>3, SameCall DEF Calling
<1>6. ASSUME NEW l \in {"set", "fields", "high", "low", f.then},
             frame' = [frame EXCEPT ![w] = [f EXCEPT !.at = l]],
             l # "set" => p_last_char' = f.arg,
             l \notin {"set", "fields"} => FieldsAre(f.arg)',
             l \notin {"set", "fields", "high"} => port'.high = f.arg \div BYTE,
             l \notin {"set", "fields", "high", "low"} => port'.low = f.arg % BYTE
      PROVE  OneAtATime' /\ frame' \in [Writers -> Frames]
  <2>1. PICK g : g = [f EXCEPT !.at = l]
    OBVIOUS
  <2>2. g \in Frames /\ g.at = l /\ g.arg = f.arg /\ g.then = f.then
    BY <1>4, <2>1 DEF Frames, Labels
  <2>3. Calling(g)'
    BY <1>5, <1>6, <2>2 DEF Calling
  <2> QED BY <1>2, <1>6, <2>1, <2>2, <2>3, CallGoesOn
<1>7. /\ f.arg % COLS \in 0..(COLS - 1) /\ f.arg \div COLS \in 0..(ROWS + 3)
      /\ (f.arg \div COLS) * COLS + (f.arg % COLS) = f.arg
      /\ f.arg \div BYTE \in Nat /\ f.arg % BYTE \in 0..(BYTE - 1)
  BY <1>4, FieldsType
<1>8. mem' \in [Memory -> Chars \cup {Blank}]
      /\ shown' \in [screen : [Cells -> Chars \cup {Blank}], position : Cells \cup {END}]
  BY <1>1, <1>2 DEF TypeOK
<1>9. CASE SetPointer(w)
  <2>1. /\ p_last_char' = f.arg /\ UNCHANGED <<fields, port>>
        /\ frame' = [frame EXCEPT ![w] = [f EXCEPT !.at = "fields"]]
    BY <1>3, <1>9 DEF SetPointer, Goto
  <2>2. OneAtATime' /\ frame' \in [Writers -> Frames]
    BY <1>6, <2>1
  <2>3. TypeOK'
    BY <1>2, <1>4, <1>8, <2>1, <2>2 DEF TypeOK, fields
  <2> QED BY <1>5, <2>2, <2>3 DEF ConsoleInv
<1>10. CASE SetFields(w)
  <2>1. /\ cursor_col' = f.arg % COLS /\ cursor_row' = f.arg \div COLS
        /\ UNCHANGED <<p_last_char, port>> /\ f.at = "fields"
        /\ frame' = [frame EXCEPT ![w] = [f EXCEPT !.at = "high"]]
    BY <1>3, <1>10 DEF SetFields, Goto, Step, At
  <2>2. FieldsAre(f.arg)' /\ p_last_char' = f.arg
    BY <1>2, <1>3, <2>1 DEF FieldsAre, Calling
  <2>3. OneAtATime' /\ frame' \in [Writers -> Frames]
    BY <1>6, <2>1, <2>2
  <2>4. TypeOK'
    BY <1>2, <1>7, <1>8, <2>1, <2>3 DEF TypeOK
  <2> QED BY <1>5, <2>3, <2>4 DEF ConsoleInv
<1>11. CASE gotoxy_high(w)
  <2>1. f.at = "high" /\ UNCHANGED <<p_last_char, fields>>
    BY <1>3, <1>11 DEF gotoxy_high, Step, At
  <2>2. p_last_char = f.arg /\ FieldsAre(f.arg)
    BY <1>2, <1>3, <2>1 DEF Calling
  <2>3. cursor_row * COLS + cursor_col = f.arg
    BY <1>7, <2>2 DEF FieldsAre
  <2>4. /\ port' = [port EXCEPT !.high = f.arg \div BYTE]
        /\ frame' = [frame EXCEPT ![w].at = "low", ![w].arg = f.arg]
    BY <1>11, <2>3 DEF gotoxy_high
  <2>5. frame' = [frame EXCEPT ![w] = [f EXCEPT !.at = "low"]]
    <3>1. [[f EXCEPT !.at = "low"] EXCEPT !.arg = f.arg] = [f EXCEPT !.at = "low"]
      BY <1>4 DEF Frames
    <3>2. frame' = [frame EXCEPT ![w] = [[f EXCEPT !.at = "low"] EXCEPT !.arg = f.arg]]
      BY <1>2, <1>3, <2>4 DEF TypeOK
    <3> QED BY <3>1, <3>2
  <2>6. FieldsAre(f.arg)' /\ p_last_char' = f.arg /\ port'.high = f.arg \div BYTE
        /\ port' \in [high : Nat, low : 0..(BYTE - 1)]
    BY <1>2, <1>7, <2>1, <2>2, <2>4 DEF FieldsAre, TypeOK, fields
  <2>7. OneAtATime' /\ frame' \in [Writers -> Frames]
    BY <1>6, <2>5, <2>6
  <2>8. TypeOK'
    BY <1>2, <1>8, <2>1, <2>6, <2>7 DEF TypeOK, fields
  <2> QED BY <1>5, <2>7, <2>8 DEF ConsoleInv
<1>12. CASE gotoxy_low(w)
  <2>1. /\ f.at = "low" /\ UNCHANGED <<p_last_char, fields>>
        /\ port' = [port EXCEPT !.low = f.arg % BYTE]
        /\ frame' = [frame EXCEPT ![w] = [f EXCEPT !.at = f.then]]
    BY <1>3, <1>12 DEF gotoxy_low, Step, At, Goto
  <2>2. p_last_char = f.arg /\ FieldsAre(f.arg) /\ port.high = f.arg \div BYTE
    BY <1>2, <1>3, <2>1 DEF Calling
  <2>3. /\ port'.high = f.arg \div BYTE /\ port'.low = f.arg % BYTE
        /\ port' \in [high : Nat, low : 0..(BYTE - 1)]
    BY <1>2, <1>7, <2>1, <2>2 DEF TypeOK
  <2>4. FieldsAre(f.arg)' /\ p_last_char' = f.arg
    BY <2>1, <2>2 DEF FieldsAre, fields
  <2>5. OneAtATime' /\ frame' \in [Writers -> Frames]
    BY <1>6, <2>1, <2>3, <2>4
  <2>6. TypeOK'
    BY <1>2, <1>8, <2>1, <2>3, <2>5 DEF TypeOK, fields
  <2> QED BY <1>5, <2>5, <2>6 DEF ConsoleInv
<1> QED BY <1>9, <1>10, <1>11, <1>12
-----------------------------------------------------------------------------
(* The end of a call: every return is one step of the terminal. *)

ScreenStep == [Screen!Next]_(Screen!vars)

(* The frame of a writer that has moved the cursor. *)
LEMMA CursorMoved ==
  ASSUME Masked, ConsoleInv, NEW w \in Writers, NEW l \in {"check", "blank"}, Step(w, l)
  PROVE  /\ TypeOK /\ HiddenBlank /\ \A v \in Writers \ {w} : At(v, "idle")
         /\ l = "check" => Writing(p_last_char)
         /\ l = "blank" => WentBack(p_last_char)
         /\ FieldsAre(p_last_char)
         /\ port.high = p_last_char \div BYTE /\ port.low = p_last_char % BYTE
<1>1. /\ TypeOK /\ HiddenBlank /\ Calling(frame[w])
      /\ \A v \in Writers \ {w} : At(v, "idle")
      /\ frame[w].at = l
  BY Alone DEF ConsoleInv, Step, At
<1>2. frame[w].then = l /\ p_last_char = frame[w].arg
  BY <1>1 DEF Calling
<1> QED BY <1>1, <1>2 DEF Calling

LEMMA PrintBackBlankStep ==
  ASSUME Masked, ConsoleInv, NEW w \in Writers, PrintBackBlank(w)
  PROVE  ConsoleInv' /\ ScreenStep
<1>1. /\ TypeOK /\ HiddenBlank /\ WentBack(p_last_char) /\ FieldsAre(p_last_char)
      /\ \A v \in Writers \ {w} : At(v, "idle")
      /\ port.high = p_last_char \div BYTE /\ port.low = p_last_char % BYTE
  BY CursorMoved DEF PrintBackBlank
<1>2. /\ mem' = [mem EXCEPT ![p_last_char] = Blank]
      /\ frame' = [frame EXCEPT ![w] = Idle]
      /\ shown' = [screen |-> [i \in Cells |-> mem'[i]], position |-> p_last_char]
      /\ UNCHANGED <<p_last_char, fields, port>>
  BY DEF PrintBackBlank, Return
<1>3. PICK p : p = p_last_char
  OBVIOUS
<1>4. /\ p \in Cells /\ p \in Memory /\ p = shown.position - 1 /\ shown.position > 0
      /\ Visible = shown.screen /\ shown.position \in Nat
  BY <1>1, <1>3, PositionFacts, SizeFacts DEF WentBack, Cells
<1>5. mem \in [Memory -> Chars \cup {Blank}]
  BY <1>1 DEF TypeOK
<1>6. /\ mem' \in [Memory -> Chars \cup {Blank}]
      /\ mem'[p] = Blank /\ \A i \in Memory \ {p} : mem'[i] = mem[i]
  BY <1>2, <1>3, <1>4, <1>5
<1>7. HiddenBlank'
  BY <1>1, <1>6 DEF HiddenBlank
<1>8. shown'.screen = Visible' /\ shown'.position = p
  BY <1>2, <1>3 DEF Visible
<1>9. Visible' = [shown.screen EXCEPT ![p] = Blank]
  BY <1>4, <1>6, SizeFacts DEF Visible
<1>10. Resting'
  BY <1>1, <1>2, <1>3, <1>8 DEF Resting, FieldsAre, fields
<1>11. OneAtATime' /\ frame' \in [Writers -> Frames]
  BY <1>1, <1>2, <1>10, CallReturns
<1>12. shown' \in [screen : [Cells -> Chars \cup {Blank}], position : Cells \cup {END}]
  <2>1. [i \in Cells |-> mem'[i]] \in [Cells -> Chars \cup {Blank}]
    BY <1>6, SizeFacts
  <2> QED BY <1>2, <1>3, <1>4, <2>1
<1>13. TypeOK'
  BY <1>1, <1>2, <1>6, <1>11, <1>12 DEF TypeOK, fields
<1>14. Screen!Back
  BY <1>4, <1>8, <1>9 DEF Screen!Back
<1> QED BY <1>7, <1>11, <1>13, <1>14 DEF ConsoleInv, ScreenStep, Screen!Next

LEMMA CheckScrollUpStep ==
  ASSUME Masked, ConsoleInv, NEW w \in Writers, check_scroll_up(w)
  PROVE  ConsoleInv' /\ ScreenStep
<1>1. /\ TypeOK /\ HiddenBlank /\ Writing(p_last_char) /\ FieldsAre(p_last_char)
      /\ \A v \in Writers \ {w} : At(v, "idle")
      /\ port.high = p_last_char \div BYTE /\ port.low = p_last_char % BYTE
  BY CursorMoved DEF check_scroll_up
<1>2. /\ ~(p_last_char > END)
      /\ frame' = [frame EXCEPT ![w] = Idle]
      /\ shown' = [screen |-> [i \in Cells |-> mem'[i]], position |-> p_last_char]
      /\ UNCHANGED <<mem, p_last_char, fields, port>>
  BY DEF check_scroll_up, Return, MustScroll
<1>3. p_last_char \in Cells \cup {END}
  BY <1>1, <1>2, SizeFacts DEF TypeOK, Cells, Cursor
<1>4. /\ Visible' = Visible
      /\ shown'.screen = Visible /\ shown'.position = p_last_char
  BY <1>2 DEF Visible
<1>5. HiddenBlank'
  BY <1>1, <1>2 DEF HiddenBlank
<1>6. Resting'
  BY <1>1, <1>2, <1>4 DEF Resting, FieldsAre, fields
<1>7. OneAtATime' /\ frame' \in [Writers -> Frames]
  BY <1>1, <1>2, <1>6, CallReturns
<1>8. shown' \in [screen : [Cells -> Chars \cup {Blank}], position : Cells \cup {END}]
  <2>1. [i \in Cells |-> mem'[i]] \in [Cells -> Chars \cup {Blank}]
    BY <1>1, <1>2, SizeFacts DEF TypeOK
  <2> QED BY <1>2, <1>3, <2>1
<1>9. TypeOK'
  BY <1>1, <1>2, <1>7, <1>8 DEF TypeOK, fields
<1>10. END \notin Cells /\ Cells = Screen!Cells
  BY SizeFacts DEF Cells, Screen!Cells, END
<1>11. Screen!Next
  <2>1. CASE PutInside(p_last_char)
    BY <1>4, <1>10, <2>1 DEF PutInside, Screen!Next, Screen!Put
  <2>2. CASE PutBelow(p_last_char)
    BY <1>2, <2>2, SizeFacts DEF PutBelow
  <2>3. CASE PutScrolled(p_last_char)
    BY <1>4, <1>10, <2>3 DEF PutScrolled, Screen!Next, Screen!Put
  <2>4. CASE LineBegun(p_last_char)
    BY <1>4, <1>10, <2>4 DEF LineBegun, NextRow, Screen!Next, Screen!NewLine
  <2> QED BY <1>1, <2>1, <2>2, <2>3, <2>4 DEF Writing
<1> QED BY <1>5, <1>7, <1>9, <1>11 DEF ConsoleInv, ScreenStep

(* Only a character stored below the screen makes it scroll. *)
LEMMA ScrollUpStep ==
  ASSUME Masked, ConsoleInv, NEW w \in Writers, scroll_up(w)
  PROVE  ConsoleInv'
<1>1. /\ TypeOK /\ HiddenBlank /\ Writing(p_last_char) /\ FieldsAre(p_last_char)
      /\ \A v \in Writers \ {w} : At(v, "idle")
  BY CursorMoved DEF scroll_up
<1>2. /\ p_last_char > END
      /\ mem' = Scrolled(mem)
      /\ SetCursor(w, p_last_char - COLS, "check")
      /\ UNCHANGED <<p_last_char, fields, port, shown>>
  BY DEF scroll_up, MustScroll
<1>3. PutBelow(p_last_char)
  <2>1. ASSUME PutInside(p_last_char) PROVE FALSE
    BY <1>2, <2>1, SizeFacts DEF PutInside, Cells
  <2>2. ASSUME PutScrolled(p_last_char) PROVE FALSE
    BY <1>2, <2>2, SizeFacts DEF PutScrolled
  <2>3. ASSUME LineBegun(p_last_char) PROVE FALSE
    <3>1. NextRow(shown.position) \in Nat /\ NextRow(shown.position) <= END
      BY <2>3, NextRowFacts DEF LineBegun
    <3> QED BY <1>2, <2>3, <3>1, SizeFacts DEF LineBegun
  <2> QED BY <1>1, <2>1, <2>2, <2>3 DEF Writing
<1>4. /\ shown.position = END /\ mem[END] \in Chars /\ Visible = shown.screen
      /\ p_last_char = END + 1
  BY <1>3 DEF PutBelow
<1>5. mem \in [Memory -> Chars \cup {Blank}]
  BY <1>1 DEF TypeOK
<1>6. \A i \in Cells : i + COLS \in Memory
  BY SizeFacts DEF Cells, Memory
<1>7. /\ mem' \in [Memory -> Chars \cup {Blank}]
      /\ \A i \in Cells : mem'[i] = mem[i + COLS]
      /\ \A i \in Memory \ Cells : mem'[i] = mem[i]
  BY <1>2, <1>5, <1>6, SizeFacts DEF Scrolled
<1>8. HiddenBlank'
  BY <1>1, <1>7, SizeFacts DEF HiddenBlank, Cells
<1>9. Visible' = [Screen!MovedUp EXCEPT ![(ROWS - 1) * COLS] = mem[END]]
  <2>1. Screen!Cells = Cells
    BY DEF Screen!Cells, Cells, END
  <2>2. Screen!MovedUp = [i \in Cells |-> IF i + COLS \in Cells THEN mem[i + COLS] ELSE Blank]
    BY <1>4, <2>1 DEF Screen!MovedUp, Visible
  <2>3. ASSUME NEW i \in Cells
        PROVE  mem[i + COLS] = IF i = END - COLS THEN mem[END]
                               ELSE IF i + COLS \in Cells THEN mem[i + COLS] ELSE Blank
    <3>1. CASE i = END - COLS
      BY <3>1, SizeFacts
    <3>2. CASE i # END - COLS /\ i + COLS \notin Cells
      <4>1. i + COLS > END
        BY <3>2, SizeFacts DEF Cells
      <4> QED BY <1>1, <1>6, <3>2, <4>1 DEF HiddenBlank
    <3> QED BY <3>1, <3>2
  <2>4. (ROWS - 1) * COLS = END - COLS
    BY SizeFacts
  <2>5. Visible' = [i \in Cells |-> mem[i + COLS]]
    BY <1>7 DEF Visible
  <2> QED BY <2>2, <2>3, <2>4, <2>5
<1>10. PICK p \in Cursor : p = p_last_char - COLS
  BY <1>4, SizeFacts DEF Cursor
<1>11. PutScrolled(p)'
  <2>1. Screen!MovedUp' = Screen!MovedUp
    BY <1>2 DEF Screen!MovedUp
  <2>2. p = (ROWS - 1) * COLS + 1
    BY <1>4, <1>10, SizeFacts
  <2>3. PICK c \in Chars : c = mem[END]
    BY <1>4
  <2>4. Visible' = [Screen!MovedUp' EXCEPT ![(ROWS - 1) * COLS] = c]
    BY <1>9, <2>1, <2>3
  <2> QED BY <1>2, <1>4, <2>2, <2>4 DEF PutScrolled
<1>12. p_last_char' \in Cursor
  BY <1>1, <1>2 DEF TypeOK
<1> QED BY <1>1, <1>2, <1>7, <1>8, <1>10, <1>11, <1>12, CallBegins DEF Writing
-----------------------------------------------------------------------------
(* Every step keeps the invariant and is a step of the terminal or none. *)
LEMMA ConsoleStep ==
  ASSUME Masked, Careful, ConsoleInv, [Next]_vars
  PROVE  ConsoleInv' /\ ScreenStep
<1>1. CASE UNCHANGED vars
  <2>1. UNCHANGED <<mem, p_last_char, cursor_col, cursor_row, port, frame, shown>>
    BY <1>1 DEF vars
  <2>2. TypeOK'
    BY <2>1 DEF ConsoleInv, TypeOK
  <2>3. HiddenBlank'
    BY <2>1 DEF ConsoleInv, HiddenBlank
  <2>4. OneAtATime'
    <3>1. \A w : At(w, "idle")' <=> At(w, "idle")
      BY <2>1 DEF At
    <3>2. Resting' <=> Resting
      BY <2>1 DEF Resting, Visible, FieldsAre
    <3>3. ASSUME NEW f, Calling(f) PROVE Calling(f)'
      BY <2>1, <3>3, SameCall DEF Calling, FieldsAre
    <3>4. ASSUME NEW w \in Writers, Calling(frame[w]) PROVE Calling(frame[w])'
      <4>1. PICK f : f = frame[w]
        OBVIOUS
      <4>2. Calling(f)' /\ frame'[w] = f
        BY <2>1, <3>3, <3>4, <4>1
      <4> QED BY <4>2 DEF Calling
    <3> QED BY <3>1, <3>2, <3>4 DEF ConsoleInv, OneAtATime
  <2> QED BY <2>1, <2>2, <2>3, <2>4 DEF ConsoleInv, ScreenStep, Screen!vars
<1>2. ASSUME NEW w \in Writers, NEW c \in Chars, PutChar(w, c)
      PROVE  ConsoleInv' /\ ScreenStep
  <2>1. UNCHANGED shown
    BY <1>2 DEF PutChar
  <2> QED BY <1>2, <2>1, PutCharStep DEF ScreenStep, Screen!vars
<1>3. ASSUME NEW w \in Writers, println(w) PROVE ConsoleInv' /\ ScreenStep
  <2>1. UNCHANGED shown
    BY <1>3 DEF println
  <2> QED BY <1>3, <2>1, PrintlnStep DEF ScreenStep, Screen!vars
<1>4. ASSUME NEW w \in Writers, print_back(w) PROVE ConsoleInv' /\ ScreenStep
  <2>1. UNCHANGED shown
    BY <1>4 DEF print_back
  <2> QED BY <1>4, <2>1, PrintBackStep DEF ScreenStep, Screen!vars
<1>5. ASSUME NEW w \in Writers,
             SetPointer(w) \/ SetFields(w) \/ gotoxy_high(w) \/ gotoxy_low(w)
      PROVE  ConsoleInv' /\ ScreenStep
  <2>1. UNCHANGED shown
    BY <1>5 DEF SetPointer, SetFields, gotoxy_high, gotoxy_low
  <2> QED BY <1>5, <2>1, CursorStep DEF ScreenStep, Screen!vars
<1>6. ASSUME NEW w \in Writers, scroll_up(w) PROVE ConsoleInv' /\ ScreenStep
  <2>1. UNCHANGED shown
    BY <1>6 DEF scroll_up
  <2> QED BY <1>6, <2>1, ScrollUpStep DEF ScreenStep, Screen!vars
<1>7. ASSUME NEW w \in Writers, check_scroll_up(w) PROVE ConsoleInv' /\ ScreenStep
  BY <1>7, CheckScrollUpStep
<1>8. ASSUME NEW w \in Writers, PrintBackBlank(w) PROVE ConsoleInv' /\ ScreenStep
  BY <1>8, PrintBackBlankStep
<1> QED BY <1>1, <1>2, <1>3, <1>4, <1>5, <1>6, <1>7, <1>8 DEF Next

LEMMA ConsoleInvariant ==
  ASSUME Masked, Careful
  PROVE  Spec => []ConsoleInv
<1>1. ConsoleInv /\ [Next]_vars => ConsoleInv'
  BY ConsoleStep
<1> QED BY <1>1, ConsoleInit, PTL DEF Spec

(* Cursor, memory and frames stay in range: no character is stored beyond  *)
(* the cell after the screen, if callers are masked and careful.           *)
THEOREM TypeCorrect ==
  ASSUME Masked, Careful
  PROVE  Spec => []TypeOK
<1>1. ConsoleInv => TypeOK
  BY DEF ConsoleInv
<1> QED BY <1>1, ConsoleInvariant, PTL

(* console.h:12: whenever nobody is in putchar, the pointer, the column    *)
(* and row and the two bytes of the hardware cursor name the same cell.    *)
THEOREM CursorStaysInStep ==
  ASSUME Masked, Careful
  PROVE  Spec => []CursorInStep
<1>1. ASSUME ConsoleInv PROVE CursorInStep
  <2> SUFFICES ASSUME \A w \in Writers : At(w, "idle") PROVE CursorInStep
    BY DEF CursorInStep
  <2>1. Resting
    BY <1>1, CallingIsNotIdle DEF ConsoleInv, OneAtATime, At
  <2>2. p_last_char \in Cursor
    BY <1>1 DEF ConsoleInv, TypeOK
  <2> QED BY <2>1, <2>2, FieldsType DEF Resting, FieldsAre, CursorInStep
<1> QED BY <1>1, ConsoleInvariant, PTL

(* putchar, println and print_back, store by store, do to the screen what  *)
(* Terminal says, on a screen of every size: the character that does not   *)
(* fit scrolls in, and nothing else from below the screen ever does.       *)
THEOREM ConsoleImplementsTerminal ==
  ASSUME Masked, Careful
  PROVE  Spec => ImplementsTerminal
<1>1. ASSUME Init PROVE Screen!Init
  <2>1. Screen!Cells = Cells
    BY DEF Screen!Cells, Cells, END
  <2> QED BY <1>1, <2>1 DEF Init, Screen!Init
<1>2. ConsoleInv /\ [Next]_vars => [Screen!Next]_(Screen!vars)
  BY ConsoleStep DEF ScreenStep
<1> QED BY <1>1, <1>2, ConsoleInvariant, PTL DEF Spec, ImplementsTerminal, Screen!Spec
=============================================================================
