------------------------------ MODULE Terminal ------------------------------
(***************************************************************************)
(* What the text console promises: a screen of ROWS rows, written from a   *)
(* position that goes from cell to cell.  The position may be the one      *)
(* after the last cell; what is written there goes to a new, blank row     *)
(* that the other rows make room for by moving up.                         *)
(***************************************************************************)
EXTENDS Integers

CONSTANTS ROWS, COLS, Chars, Blank

Cells == 0..(ROWS * COLS - 1)

VARIABLES screen, position
vars == <<screen, position>>

Init ==
  /\ screen = [i \in Cells |-> Blank]
  /\ position = 0

(* The rows have moved up, and the last one is blank. *)
MovedUp == [i \in Cells |-> IF i + COLS \in Cells THEN screen[i + COLS] ELSE Blank]

Put(c) ==
  \/ /\ position \in Cells
     /\ screen' = [screen EXCEPT ![position] = c]
     /\ position' = position + 1
  \/ /\ position \notin Cells
     /\ screen' = [MovedUp EXCEPT ![(ROWS - 1) * COLS] = c]
     /\ position' = (ROWS - 1) * COLS + 1

NewLine ==
  \/ /\ position \in Cells
     /\ position' = (position \div COLS + 1) * COLS
     /\ UNCHANGED screen
  \/ /\ position \notin Cells
     /\ screen' = MovedUp
     /\ UNCHANGED position

(* The character before the position is erased, in whatever row. *)
Back ==
  /\ position > 0
  /\ position' = position - 1
  /\ screen' = [screen EXCEPT ![position - 1] = Blank]

Next == NewLine \/ Back \/ \E c \in Chars : Put(c)

Spec == Init /\ [][Next]_vars
=============================================================================
