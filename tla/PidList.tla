------------------------------ MODULE PidList ------------------------------
(***************************************************************************)
(* The list view of pid_queue_t (kernel/lib/data_struct.c): a queue of     *)
(* pids as a sequence, oldest first.  Module PidQueue models the ring      *)
(* buffer itself and is checked to implement these operators, for the two  *)
(* ways the kernel uses a queue:                                           *)
(*   - enqueue and dequeue only (the ready queue, a semaphore's queue);    *)
(*   - enqueue and delete only (the blocked and the sleeping queue), where *)
(*     head stays 0, so that a slot number is a position in the list.      *)
(***************************************************************************)
EXTENDS Integers, Sequences

(* stdint.h: ((uint16_t)(-1)) *)
NOT_FOUND == 65535

pid_enqueue(list, pid) == Append(list, pid)

(* The value pid_dequeue returns, and the list it leaves. *)
pid_dequeue(list) == IF list = <<>> THEN NOT_FOUND ELSE Head(list)

Dequeued(list) == IF list = <<>> THEN list ELSE Tail(list)

(* The body of pid_queue_find returns pid, not the slot i it was found in. *)
pid_queue_find(list, pid) ==
  IF \E k \in 1..Len(list) : list[k] = pid THEN pid ELSE NOT_FOUND

DropsLast(list, i) == IF i < Len(list) THEN i + 1 ELSE Len(list)

(***************************************************************************)
(* The position of the list that pid_queue_delete(list, i) drops.  A slot  *)
(* of the list is dropped itself; when i is the tail the shifting loop     *)
(* does not run and the decrement of tail drops the last pid; from a slot  *)
(* beyond the tail (or NOT_FOUND) the loop wraps around and shifts the     *)
(* whole list over its first pid.                                          *)
(***************************************************************************)
Dropped(list, i) ==
  CASE i < Len(list) -> i + 1
    [] i = Len(list) -> Len(list)
    [] i > Len(list) -> 1

pid_queue_delete(list, i) ==
  [k \in 1..(Len(list) - 1) |->
     IF k < Dropped(list, i) THEN list[k] ELSE list[k + 1]]

(* The pids in a queue. *)
Elements(list) == {list[k] : k \in 1..Len(list)}

(* No pid is queued twice. *)
NoDuplicates(list) ==
  \A j, k \in 1..Len(list) : list[j] = list[k] => j = k
=============================================================================
