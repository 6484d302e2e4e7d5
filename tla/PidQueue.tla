------------------------------ MODULE PidQueue ------------------------------
(***************************************************************************)
(* The ring buffer pid_queue_t of kernel/lib/data_struct.c and             *)
(* include/comm/data_struct.h: head and tail are uint16_t indices into     *)
(* pids, tail is the next slot to fill, and the ring is empty when both    *)
(* are equal.  The callers are the ones listed in PidQueueSpec, which this *)
(* module is shown to implement.                                           *)
(*                                                                         *)
(* pid_enqueue stores the pid and then advances the tail; a task can be    *)
(* interrupted between the two, and the timer's handler calls pid_enqueue  *)
(* and pid_dequeue itself.  Masked = TRUE says that callers disable        *)
(* interrupts, so that nothing comes in between.                           *)
(***************************************************************************)
EXTENDS Integers, Sequences, FiniteSets

CONSTANTS MAX_GDT_TERMS,   \* slots of the ring (8192 in gdt.h)
          Pids,            \* the pids a task may have
          Usages,          \* sets of removing operations a queue is used with
          Masked           \* are interrupts disabled during pid_enqueue?

U16 == 65536
NOT_FOUND == 65535
Slots == 0..(MAX_GDT_TERMS - 1)

(***************************************************************************)
(* The ring size divides 2^16, so index arithmetic that wraps at 16 bits   *)
(* also wraps at the ring; pids are slot numbers of the GDT, which never   *)
(* are all tasks, so that a queue of distinct pids leaves a slot free.     *)
(***************************************************************************)
ASSUME PidQueueAssumption ==
  /\ MAX_GDT_TERMS \in 1..8192
  /\ U16 % MAX_GDT_TERMS = 0
  /\ Pids \subseteq Slots
  /\ Cardinality(Pids) < MAX_GDT_TERMS
  /\ \A u \in Usages : u = {"dequeue"} \/ u \subseteq {"position", "lookup"}
  /\ Masked \in BOOLEAN

VARIABLES queue,   \* [head, tail, pids]
          storing, \* the pid a task has stored, before it advances the tail
          ret,     \* the value the last call returned
          usage    \* the removing operations this queue is used with
vars == <<queue, storing, ret, usage>>

TypeOK ==
  /\ queue \in [head : Slots, tail : Slots, pids : [Slots -> Pids \cup {NOT_FOUND}]]
  /\ {storing, ret} \subseteq Pids \cup {NOT_FOUND}
  /\ usage \in Usages
-----------------------------------------------------------------------------
INC_PID_QUEUE_INDEX(i) == (i + 1) % MAX_GDT_TERMS

(* C's % truncates towards zero and the result is a uint16_t. *)
pid_queue_length(q) ==
  IF q.tail >= q.head
    THEN (q.tail - q.head) % MAX_GDT_TERMS
    ELSE (U16 - ((q.head - q.tail) % MAX_GDT_TERMS)) % U16

pid_queue_init ==
  [head |-> 0, tail |-> 0, pids |-> [i \in Slots |-> NOT_FOUND]]

(* The two statements of pid_enqueue *)
Stored(q, pid) == [q EXCEPT !.pids[q.tail] = pid]
NotWrapped(q) == [q EXCEPT !.tail = (@ + 1) % U16]
Advanced(q) == [q EXCEPT !.tail = INC_PID_QUEUE_INDEX(@)]

pid_enqueue(q, pid) == Advanced(Stored(q, pid))

pid_dequeue(q) ==
  IF pid_queue_length(q) = 0 THEN NOT_FOUND ELSE q.pids[q.head]

Dequeued(q) ==
  IF pid_queue_length(q) = 0 THEN q
                             ELSE [q EXCEPT !.head = INC_PID_QUEUE_INDEX(@)]

(* Slots from i up to, not including, the tail, going round the ring. *)
UpToTail(q, i) ==
  {j \in Slots : (j - i) % MAX_GDT_TERMS < (q.tail - i) % MAX_GDT_TERMS}

pid_queue_find(q, pid) ==
  IF \E j \in UpToTail(q, q.head) : q.pids[j] = pid THEN pid ELSE NOT_FOUND

ShiftPastTail(q, i) ==
  [q EXCEPT !.pids = [j \in Slots |->
                        IF j \in UpToTail(q, INC_PID_QUEUE_INDEX(i))
                          THEN @[INC_PID_QUEUE_INDEX(j)] ELSE @[j]],
            !.tail = (@ - 1) % U16]

(***************************************************************************)
(* Every slot from i to the tail takes its successor's pid, then tail is   *)
(* decremented as a uint16_t, without wrapping at the ring.  From          *)
(* i = NOT_FOUND the first store falls outside pids (memory that is not    *)
(* part of the queue) and the loop goes on from slot 0, as 2^16 is a       *)
(* multiple of the ring size.                                              *)
(***************************************************************************)
pid_queue_delete(q, i) ==
  LET start == IF i \in Slots THEN i ELSE INC_PID_QUEUE_INDEX(i)
  IN [q EXCEPT !.pids = [j \in Slots |->
                           IF j \in UpToTail(q, start)
                             THEN @[INC_PID_QUEUE_INDEX(j)] ELSE @[j]],
               !.tail = (@ - 1) % U16]
-----------------------------------------------------------------------------
(* The pids in the ring, oldest first: the list the callers see. *)
Contents ==
  [k \in 1..((queue.tail - queue.head) % MAX_GDT_TERMS) |->
     queue.pids[(queue.head + k - 1) % MAX_GDT_TERMS]]

Queued == {Contents[k] : k \in 1..Len(Contents)}

Init ==
  /\ queue = pid_queue_init
  /\ storing = NOT_FOUND
  /\ ret = NOT_FOUND
  /\ usage \in Usages

(* Other calls come from the timer's handler while a task is storing. *)
MayCall == Masked => storing = NOT_FOUND

Absent(pid) == pid \notin Queued \cup {storing}

(* A task's pid_enqueue, in two steps *)
EnqueueStore(pid) ==
  /\ storing = NOT_FOUND
  /\ Absent(pid)
  /\ queue' = Stored(queue, pid)
  /\ storing' = pid
  /\ UNCHANGED <<ret, usage>>

EnqueueAdvance ==
  /\ storing # NOT_FOUND
  /\ queue' = Advanced(queue)
  /\ storing' = NOT_FOUND
  /\ UNCHANGED <<ret, usage>>

(* The handler's pid_enqueue *)
Enqueue(pid) ==
  /\ MayCall
  /\ Absent(pid)
  /\ queue' = pid_enqueue(queue, pid)
  /\ UNCHANGED <<storing, ret, usage>>

Dequeue ==
  /\ MayCall
  /\ "dequeue" \in usage
  /\ ret' = pid_dequeue(queue)
  /\ queue' = Dequeued(queue)
  /\ UNCHANGED <<storing, usage>>

DeleteAt(k) ==
  /\ MayCall
  /\ "position" \in usage
  /\ queue' = pid_queue_delete(queue, (queue.head + k - 1) % MAX_GDT_TERMS)
  /\ UNCHANGED <<storing, ret, usage>>

FindAndDelete(pid) ==
  /\ MayCall
  /\ "lookup" \in usage
  /\ Queued # {}
  /\ ret' = pid_queue_find(queue, pid)
  /\ queue' = pid_queue_delete(queue, pid_queue_find(queue, pid))
  /\ UNCHANGED <<storing, usage>>

Next ==
  \/ \E pid \in Pids : EnqueueStore(pid) \/ Enqueue(pid) \/ FindAndDelete(pid)
  \/ EnqueueAdvance
  \/ Dequeue
  \/ \E k \in 1..Len(Contents) : DeleteAt(k)

Spec == Init /\ [][Next]_vars
-----------------------------------------------------------------------------
List == INSTANCE PidQueueSpec WITH list <- Contents

(***************************************************************************)
(* The ring implements the list: whatever garbage earlier calls left in    *)
(* the slots and wherever head and tail have wrapped to, every operation   *)
(* has the effect and the result its list view states.                     *)
(***************************************************************************)
ImplementsList == List!Spec
=============================================================================
