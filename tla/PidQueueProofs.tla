--------------------------- MODULE PidQueueProofs ---------------------------
(***************************************************************************)
(* Theorems about PidQueue, for a ring of every size that divides 2^16 and *)
(* every set of pids that leaves a slot free.                              *)
(***************************************************************************)
EXTENDS PidQueue, FiniteSetTheorems, TLAPS

LEMMA RingFacts ==
  /\ MAX_GDT_TERMS \in Nat \ {0} /\ MAX_GDT_TERMS <= 8192
  /\ Slots \subseteq Nat /\ 0 \in Slots
  /\ Pids \subseteq Slots
  /\ NOT_FOUND \in Nat \ Slots /\ NOT_FOUND \notin Pids
BY PidQueueAssumption DEF Slots, NOT_FOUND
-----------------------------------------------------------------------------
(* Arithmetic on the ring *)

LEMMA RemainderIsUnique ==
  ASSUME NEW n \in Nat \ {0}, NEW a \in Int, NEW q \in Int, NEW r \in 0..(n - 1),
         a = n * q + r
  PROVE  a % n = r
<1>1. PICK p \in Int, s \in 0..(n - 1) : p = a \div n /\ s = a % n
  OBVIOUS
<1>2. a = n * p + s
  BY <1>1, SMTT(30)
<1>3. n * (p - q) = r - s
  <2>1. n * (p - q) = n * p - n * q
    BY SMTT(30)
  <2> QED BY <1>2, <2>1, n * p \in Int, n * q \in Int
<1>4. CASE p - q >= 1
  <2>1. n * (p - q) >= n
    BY <1>4, SMTT(30)
  <2> QED BY <1>3, <2>1
<1>5. CASE p - q <= -1
  <2>1. n * (p - q) <= -n
    BY <1>5, SMTT(30)
  <2> QED BY <1>3, <2>1
<1>6. CASE p = q
  <2>1. n * (p - q) = 0
    BY <1>6, SMTT(30)
  <2> QED BY <1>1, <1>3, <2>1
<1> QED BY <1>4, <1>5, <1>6

(* The remainders that indices go through: at most once around the ring. *)
LEMMA Around ==
  ASSUME NEW a \in Int
  PROVE  /\ a \in Slots => a % MAX_GDT_TERMS = a
         /\ a - MAX_GDT_TERMS \in Slots => a % MAX_GDT_TERMS = a - MAX_GDT_TERMS
         /\ a + MAX_GDT_TERMS \in Slots => a % MAX_GDT_TERMS = a + MAX_GDT_TERMS
<1> DEFINE N == MAX_GDT_TERMS
<1> USE RingFacts
<1>1. a = N * 0 + a /\ a = N * 1 + (a - N) /\ a = N * (-1) + (a + N)
  OBVIOUS
<1>2. a \in Slots => a % N = a
  BY <1>1, RemainderIsUnique DEF Slots
<1>3. a - N \in Slots => a % N = a - N
  <2> SUFFICES ASSUME a - N \in Slots PROVE a % N = a - N
    OBVIOUS
  <2>1. a - N \in 0..(N - 1)
    BY DEF Slots
  <2> QED BY <1>1, <2>1, RemainderIsUnique
<1>4. a + N \in Slots => a % N = a + N
  <2> SUFFICES ASSUME a + N \in Slots PROVE a % N = a + N
    OBVIOUS
  <2>1. a + N \in 0..(N - 1)
    BY DEF Slots
  <2> QED BY <1>1, <2>1, RemainderIsUnique
<1> QED BY <1>2, <1>3, <1>4

LEMMA Difference ==
  ASSUME NEW a \in Slots, NEW b \in Slots
  PROVE  (a - b) % MAX_GDT_TERMS = IF a >= b THEN a - b ELSE a - b + MAX_GDT_TERMS
<1>1. PICK d \in Int : d = a - b
  BY RingFacts
<1>2. (a >= b => d \in Slots) /\ (a < b => d + MAX_GDT_TERMS \in Slots)
  BY <1>1, RingFacts DEF Slots
<1>3. CASE a >= b
  BY <1>1, <1>2, <1>3, Around, Zenon
<1>4. CASE a < b
  <2>1. ~(a >= b)
    BY <1>4, RingFacts
  <2> QED BY <1>1, <1>2, <1>4, <2>1, Around, Zenon
<1> QED BY <1>3, <1>4, RingFacts

LEMMA Successor ==
  ASSUME NEW i \in Slots
  PROVE  /\ INC_PID_QUEUE_INDEX(i) = IF i = MAX_GDT_TERMS - 1 THEN 0 ELSE i + 1
         /\ INC_PID_QUEUE_INDEX(i) \in Slots
<1>1. i = MAX_GDT_TERMS - 1 => (i + 1) - MAX_GDT_TERMS \in Slots
  BY RingFacts
<1>2. i # MAX_GDT_TERMS - 1 => i + 1 \in Slots
  BY RingFacts DEF Slots
<1>3. i + 1 \in Int
  BY RingFacts
<1>4. (i + 1) % MAX_GDT_TERMS = IF i = MAX_GDT_TERMS - 1 THEN 0 ELSE i + 1
  BY <1>1, <1>2, <1>3, Around, RingFacts
<1> QED BY <1>2, <1>4, RingFacts DEF INC_PID_QUEUE_INDEX

(* No 16-bit value is changed by wrapping at 16 bits. *)
LEMMA Fits ==
  ASSUME NEW x \in 0..(U16 - 1)
  PROVE  x % U16 = x
<1>1. U16 \in Nat \ {0} /\ x \in Int /\ x = U16 * 0 + x
  BY DEF U16
<1> QED BY <1>1, RemainderIsUnique

(* NOT_FOUND + 1 is a multiple of the ring's size. *)
LEMMA AfterNotFound == INC_PID_QUEUE_INDEX(NOT_FOUND) = 0
BY PidQueueAssumption DEF INC_PID_QUEUE_INDEX, NOT_FOUND, U16
-----------------------------------------------------------------------------
(* A ring and the list it stands for *)

Rings == [head : Slots, tail : Slots, pids : [Slots -> Pids \cup {NOT_FOUND}]]

Size(q) == (q.tail - q.head) % MAX_GDT_TERMS
SlotOf(q, k) == (q.head + k - 1) % MAX_GDT_TERMS
View(q) == [k \in 1..Size(q) |-> q.pids[SlotOf(q, k)]]

LEMMA IndexFacts ==
  ASSUME NEW q \in Rings
  PROVE  /\ q.head \in Slots /\ q.head \in Nat /\ q.head < MAX_GDT_TERMS
         /\ q.tail \in Slots /\ q.tail \in Nat /\ q.tail < MAX_GDT_TERMS
<1>1. q.head \in Slots /\ q.tail \in Slots
  BY DEF Rings
<1>2. \A i \in Slots : i \in Nat /\ i < MAX_GDT_TERMS
  BY RingFacts DEF Slots
<1> QED BY <1>1, <1>2

LEMMA SizeFacts ==
  ASSUME NEW q \in Rings
  PROVE  /\ Size(q) = IF q.tail >= q.head THEN q.tail - q.head
                                          ELSE q.tail - q.head + MAX_GDT_TERMS
         /\ Size(q) \in Slots
<1>1. q.tail \in Slots /\ q.head \in Slots
  BY DEF Rings
<1> QED BY <1>1, Difference, RingFacts DEF Size, Slots

LEMMA OnceAround ==
  ASSUME NEW x \in Nat, x < 2 * MAX_GDT_TERMS
  PROVE  /\ x % MAX_GDT_TERMS = IF x < MAX_GDT_TERMS THEN x ELSE x - MAX_GDT_TERMS
         /\ x % MAX_GDT_TERMS \in Slots
<1>1. (x < MAX_GDT_TERMS => x \in Slots) /\ (x >= MAX_GDT_TERMS => x - MAX_GDT_TERMS \in Slots)
  BY RingFacts DEF Slots
<1>2. x \in Int
  OBVIOUS
<1>3. CASE x < MAX_GDT_TERMS
  BY <1>1, <1>2, <1>3, Around, Zenon
<1>4. CASE x >= MAX_GDT_TERMS
  <2>1. ~(x < MAX_GDT_TERMS)
    BY <1>4, RingFacts
  <2>2. x % MAX_GDT_TERMS = x - MAX_GDT_TERMS /\ x - MAX_GDT_TERMS \in Slots
    BY <1>1, <1>2, <1>4, Around, Zenon
  <2> QED BY <2>1, <2>2, Zenon
<1> QED BY <1>3, <1>4, RingFacts

LEMMA SlotFacts ==
  ASSUME NEW h \in Slots, NEW k \in 1..MAX_GDT_TERMS
  PROVE  /\ (h + k - 1) % MAX_GDT_TERMS =
              IF h + k - 1 < MAX_GDT_TERMS THEN h + k - 1
                                           ELSE (h + k - 1) - MAX_GDT_TERMS
         /\ (h + k - 1) % MAX_GDT_TERMS \in Slots
<1>1. h + k - 1 \in Nat /\ h + k - 1 < 2 * MAX_GDT_TERMS
  BY RingFacts DEF Slots
<1> QED BY <1>1, OnceAround, Zenon

LEMMA ViewFacts ==
  ASSUME NEW q \in Rings
  PROVE  /\ View(q) \in Seq(Pids \cup {NOT_FOUND})
         /\ Len(View(q)) = Size(q)
         /\ Size(q) \in Nat /\ Size(q) < MAX_GDT_TERMS
         /\ \A k \in 1..Size(q) : SlotOf(q, k) \in Slots /\ View(q)[k] = q.pids[SlotOf(q, k)]
<1>1. Size(q) \in Nat /\ Size(q) < MAX_GDT_TERMS
  BY SizeFacts, RingFacts DEF Slots
<1>2. ASSUME NEW k \in 1..Size(q)
      PROVE  SlotOf(q, k) \in Slots /\ q.pids[SlotOf(q, k)] \in Pids \cup {NOT_FOUND}
  <2>1. q.head \in Slots /\ q.pids \in [Slots -> Pids \cup {NOT_FOUND}]
        /\ k \in 1..MAX_GDT_TERMS
    BY <1>1, RingFacts DEF Rings
  <2> QED BY <2>1, SlotFacts DEF SlotOf
<1>3. \A k \in 1..Size(q) : SlotOf(q, k) \in Slots
                            /\ q.pids[SlotOf(q, k)] \in Pids \cup {NOT_FOUND}
  BY <1>2
<1> QED BY <1>1, <1>3 DEF View

LEMMA ContentsAreView == Contents = View(queue) /\ Contents' = View(queue')
BY DEF Contents, View, Size, SlotOf

(* The slot pid_enqueue stores to is not part of the list yet. *)
LEMMA StoredFacts ==
  ASSUME NEW q \in Rings, NEW pid \in Pids
  PROVE  /\ Stored(q, pid) \in Rings
         /\ Stored(q, pid).head = q.head
         /\ Stored(q, pid).tail = q.tail
         /\ Stored(q, pid).pids[q.tail] = pid
         /\ View(Stored(q, pid)) = View(q)
<1> DEFINE s == Stored(q, pid)
<1>1. s \in Rings /\ s.head = q.head /\ s.tail = q.tail /\ s.pids[q.tail] = pid
      /\ \A j \in Slots : j # q.tail => s.pids[j] = q.pids[j]
  BY DEF Stored, Rings
<1>2. Size(s) = Size(q)
  BY <1>1 DEF Size
<1>3. ASSUME NEW k \in 1..Size(q)
      PROVE  s.pids[SlotOf(s, k)] = q.pids[SlotOf(q, k)]
  <2>1. k \in 1..MAX_GDT_TERMS /\ q.head \in Slots /\ q.tail \in Slots
    BY SizeFacts, RingFacts DEF Rings, Slots
  <2>2. SlotOf(q, k) = (IF q.head + k - 1 < MAX_GDT_TERMS THEN q.head + k - 1
                        ELSE (q.head + k - 1) - MAX_GDT_TERMS)
        /\ SlotOf(q, k) \in Slots
    BY <2>1, SlotFacts DEF SlotOf
  <2>3. SlotOf(q, k) # q.tail
    BY <2>1, <2>2, SizeFacts, RingFacts DEF Slots
  <2>4. SlotOf(s, k) = SlotOf(q, k)
    BY <1>1 DEF SlotOf
  <2> QED BY <1>1, <2>2, <2>3, <2>4
<1>4. View(s) = View(q)
  BY <1>2, <1>3 DEF View
<1> QED BY <1>1, <1>4

(* Advancing the tail appends what its slot holds, if a slot stays free. *)
LEMMA AdvancedFacts ==
  ASSUME NEW q \in Rings
  PROVE  /\ Advanced(q) \in Rings
         /\ Advanced(q).head = q.head
         /\ Size(q) + 1 < MAX_GDT_TERMS =>
              View(Advanced(q)) = Append(View(q), q.pids[q.tail])
<1> DEFINE a == Advanced(q)
<1>1. q.tail \in Slots /\ q.head \in Slots /\ q.pids \in [Slots -> Pids \cup {NOT_FOUND}]
  BY DEF Rings
<1>2. a.tail = INC_PID_QUEUE_INDEX(q.tail) /\ a.head = q.head /\ a.pids = q.pids
      /\ a = [head |-> a.head, tail |-> a.tail, pids |-> a.pids]
  BY DEF Advanced, Rings
<1>3. a.tail = (IF q.tail = MAX_GDT_TERMS - 1 THEN 0 ELSE q.tail + 1) /\ a.tail \in Slots
  BY <1>1, <1>2, Successor
<1>4. a \in Rings
  BY <1>1, <1>2, <1>3 DEF Rings
<1>5. ASSUME Size(q) + 1 < MAX_GDT_TERMS
      PROVE  View(a) = Append(View(q), q.pids[q.tail])
  <2>1. Size(a) = Size(q) + 1 /\ Size(q) \in Nat
    <3> HIDE DEF a
    <3>1. /\ Size(a) = IF a.tail >= q.head THEN a.tail - q.head
                                           ELSE a.tail - q.head + MAX_GDT_TERMS
          /\ Size(q) = IF q.tail >= q.head THEN q.tail - q.head
                                           ELSE q.tail - q.head + MAX_GDT_TERMS
      BY <1>2, <1>4, SizeFacts
    <3> QED BY <1>1, <1>3, <1>5, <3>1, RingFacts DEF Slots
  <2>2. \A k : SlotOf(a, k) = SlotOf(q, k)
    BY <1>2 DEF SlotOf
  <2>3. SlotOf(q, Size(q) + 1) = q.tail
    <3>1. Size(q) + 1 \in 1..MAX_GDT_TERMS
      BY <1>5, <2>1, RingFacts
    <3>2. SlotOf(q, Size(q) + 1) =
            IF q.head + (Size(q) + 1) - 1 < MAX_GDT_TERMS
              THEN q.head + (Size(q) + 1) - 1
              ELSE (q.head + (Size(q) + 1) - 1) - MAX_GDT_TERMS
      BY <1>1, <3>1, SlotFacts DEF SlotOf
    <3> QED BY <1>1, <1>5, <2>1, <3>2, SizeFacts, RingFacts DEF Slots
  <2>4. View(q) \in Seq(Pids \cup {NOT_FOUND}) /\ Len(View(q)) = Size(q)
    BY ViewFacts
  <2>5. View(a) \in Seq(Pids \cup {NOT_FOUND}) /\ Len(View(a)) = Size(q) + 1
    BY <1>4, <2>1, ViewFacts
  <2>6. \A k \in 1..(Size(q) + 1) : View(a)[k] = Append(View(q), q.pids[q.tail])[k]
    <3> TAKE k \in 1..(Size(q) + 1)
    <3>1. View(a)[k] = q.pids[SlotOf(q, k)]
      BY <1>2, <1>4, <2>1, <2>2, ViewFacts
    <3>2. CASE k = Size(q) + 1
      BY <2>3, <2>4, <3>1, <3>2
    <3>3. CASE k \in 1..Size(q)
      BY <2>4, <3>1, <3>3, ViewFacts
    <3>4. k = Size(q) + 1 \/ k \in 1..Size(q)
      BY <2>1
    <3> QED BY <3>2, <3>3, <3>4
  <2>7. q.pids[q.tail] \in Pids \cup {NOT_FOUND}
    BY <1>1
  <2>8. Append(View(q), q.pids[q.tail]) \in Seq(Pids \cup {NOT_FOUND})
        /\ Len(Append(View(q), q.pids[q.tail])) = Size(q) + 1
    BY <2>4, <2>7
  <2> QED BY <2>5, <2>6, <2>8
<1> QED BY <1>2, <1>4, <1>5

(* What the ring's operations do, as operations on the list *)

LEMMA DequeuedFacts ==
  ASSUME NEW q \in Rings
  PROVE  /\ Dequeued(q) \in Rings
         /\ pid_dequeue(q) = List!pid_dequeue(View(q))
         /\ View(Dequeued(q)) = List!Dequeued(View(q))
<1>1. q.tail \in Slots /\ q.head \in Slots /\ q.pids \in [Slots -> Pids \cup {NOT_FOUND}]
  BY DEF Rings
<1>2. /\ View(q) \in Seq(Pids \cup {NOT_FOUND}) /\ Len(View(q)) = Size(q)
      /\ Size(q) \in Nat /\ Size(q) < MAX_GDT_TERMS
  BY ViewFacts
<1>3. pid_queue_length(q) = 0 <=> Size(q) = 0
  <2>1. CASE q.tail >= q.head
    BY <2>1 DEF pid_queue_length, Size
  <2>2. CASE q.tail < q.head
    <3>1. (q.head - q.tail) % MAX_GDT_TERMS = q.head - q.tail
      <4>1. q.head >= q.tail
        BY <2>2, IndexFacts
      <4> QED BY <1>1, <4>1, Difference, Zenon
    <3> DEFINE x == q.head - q.tail
    <3>2. x \in Int /\ 1 <= x /\ x < MAX_GDT_TERMS
      BY <2>2, IndexFacts, RingFacts
    <3>3. (U16 - x) % U16 = U16 - x /\ U16 - x # 0
      <4> HIDE DEF x
      <4>1. U16 \in Nat /\ MAX_GDT_TERMS < U16
        BY RingFacts DEF U16
      <4>2. U16 - x \in 0..(U16 - 1) /\ U16 - x # 0
        BY <3>2, <4>1, RingFacts
      <4> QED BY <4>2, Fits
    <3>4. ~(q.tail >= q.head)
      BY <2>2, IndexFacts
    <3>5. pid_queue_length(q) # 0
      BY <3>1, <3>2, <3>3, <3>4 DEF pid_queue_length
    <3>6. Size(q) # 0
      BY <1>1, <2>2, SizeFacts, RingFacts DEF Slots
    <3> QED BY <3>5, <3>6
  <2> QED BY <2>1, <2>2, IndexFacts
<1>4. CASE Size(q) = 0
  <2>1. View(q) = <<>>
    BY <1>2, <1>4
  <2> QED BY <1>3, <1>4, <2>1
       DEF pid_dequeue, Dequeued, List!pid_dequeue, List!Dequeued, NOT_FOUND, List!NOT_FOUND
<1>5. CASE Size(q) # 0
  <2>1. View(q) # <<>>
    BY <1>2, <1>5
  <2>2. 1 \in 1..Size(q) /\ Size(q) - 1 \in Nat
    BY <1>2, <1>5
  <2>3. SlotOf(q, 1) = q.head
    <3>1. 1 \in 1..MAX_GDT_TERMS /\ q.head + 1 - 1 = q.head /\ q.head < MAX_GDT_TERMS
      BY <1>1, RingFacts DEF Slots
    <3>2. q.head % MAX_GDT_TERMS = q.head
      <4>1. q.head \in Int
        BY IndexFacts
      <4> QED BY <1>1, <4>1, Around, Zenon
    <3> QED BY <3>1, <3>2 DEF SlotOf
  <2>4. pid_dequeue(q) = List!pid_dequeue(View(q))
    <3>1. Head(View(q)) = View(q)[1]
      BY <1>2, <2>1
    <3>2. View(q)[1] = q.pids[q.head]
      BY <2>2, <2>3, ViewFacts
    <3> QED BY <1>3, <1>5, <2>1, <3>1, <3>2 DEF pid_dequeue, List!pid_dequeue
  <2> DEFINE d == [q EXCEPT !.head = INC_PID_QUEUE_INDEX(@)]
  <2>5. Dequeued(q) = d
    BY <1>3, <1>5 DEF Dequeued
  <2>6. d.head = INC_PID_QUEUE_INDEX(q.head) /\ d.tail = q.tail /\ d.pids = q.pids
        /\ d = [head |-> d.head, tail |-> d.tail, pids |-> d.pids]
    BY DEF Rings
  <2> HIDE DEF d
  <2>7. d.head = (IF q.head = MAX_GDT_TERMS - 1 THEN 0 ELSE q.head + 1) /\ d.head \in Slots
    BY <1>1, <2>6, Successor
  <2>8. d \in Rings
    BY <1>1, <2>6, <2>7 DEF Rings
  <2>9. Size(d) = Size(q) - 1
    <3>1. /\ Size(d) = IF q.tail >= d.head THEN q.tail - d.head
                                           ELSE q.tail - d.head + MAX_GDT_TERMS
          /\ Size(q) = IF q.tail >= q.head THEN q.tail - q.head
                                           ELSE q.tail - q.head + MAX_GDT_TERMS
      BY <2>6, <2>8, SizeFacts
    <3> QED BY <1>1, <1>5, <2>7, <3>1, RingFacts DEF Slots
  <2>10. ASSUME NEW k \in 1..(Size(q) - 1)
         PROVE  View(d)[k] = View(q)[k + 1]
    <3>1. k \in 1..MAX_GDT_TERMS /\ k + 1 \in 1..MAX_GDT_TERMS /\ k + 1 \in 1..Size(q)
      BY <1>2, <2>2, RingFacts
    <3>2. SlotOf(d, k) = IF d.head + k - 1 < MAX_GDT_TERMS THEN d.head + k - 1
                                                          ELSE (d.head + k - 1) - MAX_GDT_TERMS
      BY <2>7, <3>1, SlotFacts DEF SlotOf
    <3>3. SlotOf(q, k + 1) = IF q.head + (k + 1) - 1 < MAX_GDT_TERMS
                               THEN q.head + (k + 1) - 1
                               ELSE (q.head + (k + 1) - 1) - MAX_GDT_TERMS
      BY <1>1, <3>1, SlotFacts DEF SlotOf
    <3>4. SlotOf(d, k) = SlotOf(q, k + 1)
      BY <2>7, <2>8, <3>1, <3>2, <3>3, RingFacts, IndexFacts
    <3>5. View(d)[k] = d.pids[SlotOf(d, k)]
      BY <2>8, <2>9, ViewFacts
    <3>6. View(q)[k + 1] = q.pids[SlotOf(q, k + 1)]
      BY <3>1, ViewFacts
    <3> QED BY <2>6, <3>4, <3>5, <3>6
  <2>11. View(d) \in Seq(Pids \cup {NOT_FOUND}) /\ Len(View(d)) = Size(q) - 1
    BY <2>8, <2>9, ViewFacts
  <2>12. /\ Tail(View(q)) \in Seq(Pids \cup {NOT_FOUND}) /\ Len(Tail(View(q))) = Size(q) - 1
         /\ \A k \in 1..(Size(q) - 1) : Tail(View(q))[k] = View(q)[k + 1]
    BY <1>2, <2>1, <2>2
  <2>13. View(d) = Tail(View(q))
    BY <2>10, <2>11, <2>12
  <2> QED BY <2>1, <2>4, <2>5, <2>8, <2>13 DEF List!Dequeued
<1> QED BY <1>4, <1>5

LEMMA FindFacts ==
  ASSUME NEW q \in Rings, NEW pid \in Pids
  PROVE  /\ pid_queue_find(q, pid) = List!pid_queue_find(View(q), pid)
         /\ pid_queue_find(q, pid) \in Pids \cup {NOT_FOUND}
         /\ pid_queue_find(q, pid) \in Slots \cup {NOT_FOUND}
         /\ pid_queue_find(q, pid) \in Nat
<1>1. q.tail \in Slots /\ q.head \in Slots
  BY DEF Rings
<1>2. Len(View(q)) = Size(q) /\ Size(q) \in Nat /\ Size(q) < MAX_GDT_TERMS
  BY ViewFacts
<1>3. ASSUME NEW j \in UpToTail(q, q.head), q.pids[j] = pid
      PROVE  \E k \in 1..Size(q) : View(q)[k] = pid
  <2>1. j \in Slots /\ (j - q.head) % MAX_GDT_TERMS < Size(q)
    BY DEF UpToTail, Size
  <2>2. PICK x \in Nat : /\ x = (j - q.head) % MAX_GDT_TERMS
                         /\ x = IF j >= q.head THEN j - q.head ELSE j - q.head + MAX_GDT_TERMS
    <3>1. (IF j >= q.head THEN j - q.head ELSE j - q.head + MAX_GDT_TERMS) \in Nat
      BY <1>1, <2>1, RingFacts DEF Slots
    <3> QED BY <1>1, <2>1, <3>1, Difference
  <2>3. x + 1 \in 1..Size(q) /\ x + 1 \in 1..MAX_GDT_TERMS
    <3>1. x < Size(q)
      BY <2>1, <2>2, Zenon
    <3> QED BY <1>2, <3>1, RingFacts
  <2>4. SlotOf(q, x + 1) = IF q.head + (x + 1) - 1 < MAX_GDT_TERMS
                             THEN q.head + (x + 1) - 1
                             ELSE (q.head + (x + 1) - 1) - MAX_GDT_TERMS
    BY <1>1, <2>3, SlotFacts DEF SlotOf
  <2>5. SlotOf(q, x + 1) = j
    BY <1>1, <2>1, <2>2, <2>4, RingFacts DEF Slots
  <2> QED BY <1>3, <2>3, <2>5, ViewFacts
<1>4. ASSUME NEW k \in 1..Size(q), View(q)[k] = pid
      PROVE  \E j \in UpToTail(q, q.head) : q.pids[j] = pid
  <2>1. k \in 1..MAX_GDT_TERMS
    BY <1>2, RingFacts
  <2>2. PICK j \in Slots : /\ j = SlotOf(q, k)
                           /\ j = IF q.head + k - 1 < MAX_GDT_TERMS THEN q.head + k - 1
                                  ELSE (q.head + k - 1) - MAX_GDT_TERMS
    BY <1>1, <2>1, SlotFacts DEF SlotOf
  <2>3. (j - q.head) % MAX_GDT_TERMS =
          IF j >= q.head THEN j - q.head ELSE j - q.head + MAX_GDT_TERMS
    BY <1>1, Difference
  <2>4. (j - q.head) % MAX_GDT_TERMS = k - 1
    <3>1. (IF j >= q.head THEN j - q.head ELSE j - q.head + MAX_GDT_TERMS) = k - 1
      BY <1>1, <1>2, <2>1, <2>2, RingFacts DEF Slots
    <3> QED BY <2>3, <3>1
  <2>5. k - 1 < Size(q)
    BY <1>2
  <2>6. j \in UpToTail(q, q.head)
    BY <2>4, <2>5 DEF UpToTail, Size
  <2> QED BY <1>4, <2>2, <2>6, ViewFacts
<1>5. (\E j \in UpToTail(q, q.head) : q.pids[j] = pid)
        <=> \E k \in 1..Len(View(q)) : View(q)[k] = pid
  BY <1>2, <1>3, <1>4
<1>6. pid \in Slots /\ pid \in Nat /\ NOT_FOUND \in Nat
  BY RingFacts
<1>7. pid_queue_find(q, pid) = pid \/ pid_queue_find(q, pid) = NOT_FOUND
  BY DEF pid_queue_find
<1>8. pid_queue_find(q, pid) = List!pid_queue_find(View(q), pid)
  BY <1>5 DEF pid_queue_find, List!pid_queue_find, NOT_FOUND, List!NOT_FOUND
<1> QED BY <1>6, <1>7, <1>8

(* The slots that pid_queue_delete shifts, when the head is at slot 0 *)
LEMMA ShiftedSlots ==
  ASSUME NEW q \in Rings, q.head = 0, NEW i \in Slots, NEW j \in Slots
  PROVE  j \in UpToTail(q, i) <=> (\/ i <= j /\ j < q.tail
                                   \/ q.tail < i /\ (j < q.tail \/ i <= j))
<1>1. /\ (j - i) % MAX_GDT_TERMS = IF j >= i THEN j - i ELSE j - i + MAX_GDT_TERMS
      /\ (q.tail - i) % MAX_GDT_TERMS =
           IF q.tail >= i THEN q.tail - i ELSE q.tail - i + MAX_GDT_TERMS
  BY IndexFacts, Difference
<1>2. j \in Nat /\ j < MAX_GDT_TERMS /\ i \in Nat /\ i < MAX_GDT_TERMS
  BY RingFacts DEF Slots
<1>3. (IF j >= i THEN j - i ELSE j - i + MAX_GDT_TERMS)
          < (IF q.tail >= i THEN q.tail - i ELSE q.tail - i + MAX_GDT_TERMS)
        <=> (\/ i <= j /\ j < q.tail
             \/ q.tail < i /\ (j < q.tail \/ i <= j))
  BY <1>2, IndexFacts, RingFacts
<1>4. j \in UpToTail(q, i)
        <=> (j - i) % MAX_GDT_TERMS < (q.tail - i) % MAX_GDT_TERMS
  BY DEF UpToTail
<1> QED BY <1>1, <1>3, <1>4

LEMMA DeletedFacts ==
  ASSUME NEW q \in Rings, q.head = 0, Size(q) # 0,
         NEW i \in Slots \cup {NOT_FOUND}
  PROVE  /\ pid_queue_delete(q, i) \in Rings
         /\ pid_queue_delete(q, i).head = 0
         /\ View(pid_queue_delete(q, i)) = List!pid_queue_delete(View(q), i)
<1> DEFINE d == pid_queue_delete(q, i)
           start == IF i \in Slots THEN i ELSE INC_PID_QUEUE_INDEX(i)
           n == q.tail
<1>1. /\ View(q) \in Seq(Pids \cup {NOT_FOUND}) /\ Len(View(q)) = Size(q)
      /\ q.pids \in [Slots -> Pids \cup {NOT_FOUND}]
  BY ViewFacts DEF Rings
<1>2. Size(q) = n /\ n \in Nat /\ n < MAX_GDT_TERMS /\ n >= 1 /\ n - 1 \in Slots
  <2>1. Size(q) = n /\ n \in Nat /\ n < MAX_GDT_TERMS
    BY SizeFacts, IndexFacts
  <2> QED BY <2>1, RingFacts DEF Slots
<1>3. start \in Slots /\ (i \in Slots => start = i) /\ (i = NOT_FOUND => start = 0)
  BY RingFacts, AfterNotFound
<1>4. (n - 1) % U16 = n - 1
  <2>1. U16 \in Nat /\ MAX_GDT_TERMS < U16
    BY RingFacts DEF U16
  <2>2. n - 1 \in 0..(U16 - 1)
    BY <1>2, <2>1, RingFacts
  <2> QED BY <2>2, Fits
<1> HIDE DEF start
<1>5. /\ d = [head |-> 0, tail |-> n - 1, pids |-> d.pids]
      /\ d.pids = [j \in Slots |-> IF j \in UpToTail(q, start)
                                     THEN q.pids[INC_PID_QUEUE_INDEX(j)] ELSE q.pids[j]]
  <2> DEFINE shifted == [j \in Slots |-> IF j \in UpToTail(q, start)
                                          THEN q.pids[INC_PID_QUEUE_INDEX(j)] ELSE q.pids[j]]
  <2>1. d = [q EXCEPT !.pids = shifted, !.tail = (n - 1) % U16]
    BY DEF pid_queue_delete, start
  <2> HIDE DEF shifted, d
  <2>2. d = [head |-> 0, tail |-> n - 1, pids |-> shifted]
    BY <1>4, <2>1 DEF Rings
  <2> QED BY <2>2 DEF shifted
<1>6. d.pids \in [Slots -> Pids \cup {NOT_FOUND}]
  <2>1. \A j \in Slots : INC_PID_QUEUE_INDEX(j) \in Slots
    BY Successor
  <2> HIDE DEF d
  <2> QED BY <1>1, <1>5, <2>1
<1> HIDE DEF d
<1>7. d \in Rings /\ d.head = 0 /\ d.tail = n - 1
  BY <1>2, <1>5, <1>6, RingFacts DEF Rings
<1>8. Size(d) = n - 1
  BY <1>2, <1>7, SizeFacts
<1>9. View(d) \in Seq(Pids \cup {NOT_FOUND}) /\ Len(View(d)) = n - 1
  BY <1>7, <1>8, ViewFacts
<1>10. \A k \in 1..(n - 1) : View(d)[k] = d.pids[k - 1]
  <2> TAKE k \in 1..(n - 1)
  <2>1. k - 1 \in Slots /\ d.head + k - 1 = k - 1
    BY <1>2, <1>7, RingFacts DEF Slots
  <2>2. SlotOf(d, k) = k - 1
    BY <2>1, Around DEF SlotOf
  <2> QED BY <1>7, <1>8, <2>2, ViewFacts
<1>11. \A k \in 1..n : View(q)[k] = q.pids[k - 1]
  <2> TAKE k \in 1..n
  <2>1. k - 1 \in Slots /\ q.head + k - 1 = k - 1
    BY <1>2, RingFacts DEF Slots
  <2>2. SlotOf(q, k) = k - 1
    BY <2>1, Around DEF SlotOf
  <2> QED BY <1>2, <2>2, ViewFacts
<1>12. ASSUME NEW k \in 1..(n - 1)
       PROVE  View(d)[k] = IF k < List!Dropped(View(q), i) THEN View(q)[k] ELSE View(q)[k + 1]
  <2>1. k - 1 \in Slots /\ k \in Slots /\ k \in 1..n /\ k + 1 \in 1..n
    BY <1>2, RingFacts DEF Slots
  <2>2. View(q)[k] = q.pids[k - 1] /\ View(q)[k + 1] = q.pids[k]
    BY <1>2, <1>11, <2>1
  <2>3. INC_PID_QUEUE_INDEX(k - 1) = k
    BY <1>2, <2>1, Successor, RingFacts
  <2>4. View(d)[k] = IF k - 1 \in UpToTail(q, start) THEN q.pids[k] ELSE q.pids[k - 1]
    BY <1>5, <1>10, <2>1, <2>3
  <2>5. k - 1 \in UpToTail(q, start) <=> ~(k < List!Dropped(View(q), i))
    <3>1. k - 1 \in UpToTail(q, start)
            <=> (\/ start <= k - 1 /\ k - 1 < n
                 \/ n < start /\ (k - 1 < n \/ start <= k - 1))
      BY <1>3, <2>1, ShiftedSlots
    <3>2. CASE i \in Slots
      <4>1. start = i /\ i \in Nat
        BY <1>3, <3>2, RingFacts
      <4>2. List!Dropped(View(q), i) =
              CASE i < n -> i + 1 [] i = n -> n [] i > n -> 1
        BY <1>1, <1>2 DEF List!Dropped
      <4> QED BY <1>2, <3>1, <4>1, <4>2
    <3>3. CASE i = NOT_FOUND
      <4>1. start = 0 /\ i > n
        BY <1>2, <1>3, <3>3, RingFacts DEF NOT_FOUND
      <4>2. List!Dropped(View(q), i) = 1
        BY <1>1, <1>2, <3>3, <4>1, RingFacts DEF List!Dropped
      <4> QED BY <1>2, <3>1, <4>1, <4>2
    <3> QED BY <3>2, <3>3
  <2> QED BY <2>2, <2>4, <2>5
<1>13. View(d) = List!pid_queue_delete(View(q), i)
  <2>1. View(d) = [k \in 1..(n - 1) |-> View(d)[k]]
    BY <1>2, <1>9
  <2> QED BY <1>1, <1>2, <1>12, <2>1 DEF List!pid_queue_delete
<1> QED BY <1>7, <1>13 DEF d
-----------------------------------------------------------------------------
(***************************************************************************)
(* A queue that is never dequeued keeps its head at slot 0, which makes    *)
(* the decrement of tail safe: the list is not empty, so the tail is not 0 *)
(* when pid_queue_delete decrements it without wrapping at the ring.       *)
(***************************************************************************)
HeadStays == "dequeue" \notin usage => queue.head = 0

LEMMA TypeParts ==
  /\ TypeOK <=> /\ queue \in Rings
                /\ {storing, ret} \subseteq Pids \cup {NOT_FOUND}
                /\ usage \in Usages
  /\ TypeOK' <=> /\ queue' \in Rings
                 /\ {storing', ret'} \subseteq Pids \cup {NOT_FOUND}
                 /\ usage' \in Usages
BY DEF TypeOK, Rings

LEMMA UsageFacts ==
  ASSUME usage \in Usages
  PROVE  "position" \in usage \/ "lookup" \in usage => "dequeue" \notin usage
BY PidQueueAssumption

LEMMA InitialRing ==
  /\ pid_queue_init \in Rings
  /\ pid_queue_init.head = 0
  /\ View(pid_queue_init) = <<>>
<1>1. pid_queue_init \in Rings /\ pid_queue_init.head = 0 /\ pid_queue_init.tail = 0
  BY RingFacts DEF pid_queue_init, Rings
<1>2. Size(pid_queue_init) = 0
  BY <1>1, SizeFacts
<1>3. Len(View(pid_queue_init)) = 0 /\ View(pid_queue_init) \in Seq(Pids \cup {NOT_FOUND})
  BY <1>1, <1>2, ViewFacts
<1> QED BY <1>1, <1>3

(* A position of the list is a slot, and a list that is not empty has one. *)
LEMMA PositionFacts ==
  ASSUME queue \in Rings, NEW k \in 1..Len(Contents)
  PROVE  /\ (queue.head + k - 1) % MAX_GDT_TERMS \in Slots
         /\ Size(queue) # 0
         /\ queue.head = 0 => (queue.head + k - 1) % MAX_GDT_TERMS = k - 1
<1>1. Len(Contents) = Size(queue) /\ Size(queue) \in Nat /\ Size(queue) < MAX_GDT_TERMS
  BY ContentsAreView, ViewFacts
<1>2. k \in 1..MAX_GDT_TERMS
  BY <1>1, RingFacts
<1>3. queue.head = 0 => queue.head + k - 1 \in Slots /\ queue.head + k - 1 = k - 1
  BY <1>1, RingFacts DEF Slots
<1>4. queue.head = 0 => (queue.head + k - 1) % MAX_GDT_TERMS = k - 1
  <2> SUFFICES ASSUME queue.head = 0 PROVE (queue.head + k - 1) % MAX_GDT_TERMS = k - 1
    OBVIOUS
  <2>1. k - 1 \in Slots /\ k - 1 \in Int /\ queue.head + k - 1 = k - 1
    BY <1>3, RingFacts
  <2> QED BY <2>1, Around
<1> QED BY <1>1, <1>2, <1>4, IndexFacts, SlotFacts

LEMMA NotEmptyFacts ==
  ASSUME queue \in Rings
  PROVE  (Queued # {} <=> Size(queue) # 0) /\ (Queued # {} <=> Contents # <<>>)
<1>1. Len(Contents) = Size(queue) /\ Size(queue) \in Nat
      /\ Contents \in Seq(Pids \cup {NOT_FOUND})
  BY ContentsAreView, ViewFacts
<1>2. CASE Size(queue) = 0
  BY <1>1, <1>2 DEF Queued
<1>3. CASE Size(queue) # 0
  <2>1. 1 \in 1..Len(Contents)
    BY <1>1, <1>3
  <2>2. Contents[1] \in Queued
    BY <2>1 DEF Queued
  <2> QED BY <1>1, <1>3, <2>2
<1> QED BY <1>2, <1>3

LEMMA TypePreserved ==
  TypeOK /\ HeadStays /\ [Next]_vars => TypeOK' /\ HeadStays'
<1> SUFFICES ASSUME TypeOK, HeadStays, [Next]_vars PROVE TypeOK' /\ HeadStays'
  OBVIOUS
<1>1. /\ queue \in Rings /\ {storing, ret} \subseteq Pids \cup {NOT_FOUND}
      /\ usage \in Usages
  BY TypeParts
<1>2. ASSUME NEW pid \in Pids, EnqueueStore(pid) PROVE TypeOK' /\ HeadStays'
  BY <1>1, <1>2, StoredFacts, TypeParts DEF EnqueueStore, HeadStays
<1>3. ASSUME NEW pid \in Pids, Enqueue(pid) PROVE TypeOK' /\ HeadStays'
  BY <1>1, <1>3, StoredFacts, AdvancedFacts, TypeParts DEF Enqueue, pid_enqueue, HeadStays
<1>4. CASE EnqueueAdvance
  BY <1>1, <1>4, AdvancedFacts, TypeParts DEF EnqueueAdvance, HeadStays
<1>5. CASE Dequeue
  <2>1. pid_dequeue(queue) \in Pids \cup {NOT_FOUND}
    BY <1>1, IndexFacts DEF pid_dequeue, Rings
  <2> QED BY <1>1, <1>5, <2>1, DequeuedFacts, TypeParts DEF Dequeue, HeadStays
<1>6. ASSUME NEW k \in 1..Len(Contents), DeleteAt(k) PROVE TypeOK' /\ HeadStays'
  <2>1. queue.head = 0
    BY <1>1, <1>6, UsageFacts DEF DeleteAt, HeadStays
  <2>2. (queue.head + k - 1) % MAX_GDT_TERMS \in Slots /\ Size(queue) # 0
    BY <1>1, PositionFacts
  <2> QED BY <1>1, <1>6, <2>1, <2>2, DeletedFacts, TypeParts DEF DeleteAt, HeadStays
<1>7. ASSUME NEW pid \in Pids, FindAndDelete(pid) PROVE TypeOK' /\ HeadStays'
  <2>1. queue.head = 0 /\ Size(queue) # 0
    <3>1. "lookup" \in usage /\ Queued # {}
      BY <1>7 DEF FindAndDelete
    <3> QED BY <1>1, <3>1, UsageFacts, NotEmptyFacts DEF HeadStays
  <2>2. pid_queue_find(queue, pid) \in Slots \cup {NOT_FOUND}
        /\ pid_queue_find(queue, pid) \in Pids \cup {NOT_FOUND}
    BY <1>1, FindFacts
  <2> QED BY <1>1, <1>7, <2>1, <2>2, DeletedFacts, TypeParts DEF FindAndDelete, HeadStays
<1>8. CASE UNCHANGED vars
  BY <1>8 DEF vars, TypeOK, HeadStays
<1> QED BY <1>2, <1>3, <1>4, <1>5, <1>6, <1>7, <1>8 DEF Next

(***************************************************************************)
(* data_struct.c: head and tail are slots of the ring after every call,    *)
(* whether or not an interrupt comes in the middle of pid_enqueue; in      *)
(* particular pid_queue_delete never takes the tail to 65535.              *)
(***************************************************************************)
THEOREM TypeCorrect == Spec => []TypeOK
<1>1. Init => TypeOK /\ HeadStays
  BY InitialRing, TypeParts DEF Init, HeadStays
<1> QED BY <1>1, TypePreserved, PTL DEF Spec
-----------------------------------------------------------------------------
(* Lists of distinct pids *)

Distinct(l) ==
  /\ \A j \in 1..Len(l) : l[j] \in Pids
  /\ \A j, k \in 1..Len(l) : l[j] = l[k] => j = k

Lists == Seq(Pids \cup {NOT_FOUND})

LEMMA AppendDistinct ==
  ASSUME NEW l \in Lists, Distinct(l), NEW pid \in Pids, pid \notin List!Elements(l)
  PROVE  Distinct(Append(l, pid))
<1>1. /\ Len(l) \in Nat /\ Len(Append(l, pid)) = Len(l) + 1
      /\ \A k \in 1..Len(l) : Append(l, pid)[k] = l[k]
      /\ Append(l, pid)[Len(l) + 1] = pid
  BY DEF Lists
<1>2. \A k \in 1..Len(l) : l[k] # pid
  BY DEF List!Elements
<1> QED BY <1>1, <1>2 DEF Distinct

LEMMA DequeuedDistinct ==
  ASSUME NEW l \in Lists, Distinct(l)
  PROVE  Distinct(List!Dequeued(l))
<1>1. CASE l = <<>>
  BY <1>1 DEF List!Dequeued
<1>2. CASE l # <<>>
  <2>1. /\ List!Dequeued(l) = Tail(l) /\ Len(l) \in Nat /\ Len(Tail(l)) = Len(l) - 1
        /\ \A k \in 1..(Len(l) - 1) : Tail(l)[k] = l[k + 1]
    BY <1>2 DEF List!Dequeued, Lists
  <2> QED BY <2>1 DEF Distinct
<1> QED BY <1>1, <1>2

LEMMA DeletedDistinct ==
  ASSUME NEW l \in Lists, Distinct(l), Len(l) # 0, NEW i \in Nat
  PROVE  Distinct(List!pid_queue_delete(l, i))
<1> DEFINE d == List!pid_queue_delete(l, i)
           x == List!Dropped(l, i)
<1>1. Len(l) \in Nat /\ Len(l) - 1 \in Nat
  BY DEF Lists
<1>2. x \in Int
  BY <1>1 DEF List!Dropped
<1> HIDE DEF x
<1>3. /\ Len(d) = Len(l) - 1
      /\ \A k \in 1..(Len(l) - 1) : d[k] = IF k < x THEN l[k] ELSE l[k + 1]
  BY <1>1 DEF List!pid_queue_delete, x
<1> HIDE DEF d
<1>4. \A j \in 1..(Len(l) - 1) : d[j] \in Pids
  BY <1>1, <1>2, <1>3 DEF Distinct
<1>5. \A j, k \in 1..(Len(l) - 1) : d[j] = d[k] => j = k
  BY <1>1, <1>2, <1>3 DEF Distinct
<1>6. Distinct(d)
  BY <1>3, <1>4, <1>5 DEF Distinct
<1> QED BY <1>6 DEF d

(* There is a pid fewer than slots, so a list of distinct pids never fills *)
(* the ring, not even with one more pid.                                   *)
LEMMA Room ==
  ASSUME NEW l \in Lists, Distinct(l), NEW pid \in Pids, pid \notin List!Elements(l)
  PROVE  Len(l) + 1 < MAX_GDT_TERMS
<1> DEFINE a == Append(l, pid)
           n == Len(l) + 1
<1>1. Len(l) \in Nat /\ Len(a) = n /\ a \in [1..n -> Pids \cup {NOT_FOUND}]
  <2>1. a \in Seq(Pids \cup {NOT_FOUND}) /\ Len(a) = n /\ Len(l) \in Nat
    BY DEF Lists
  <2> HIDE DEF a, n
  <2> QED BY <2>1
<1>2. Distinct(a)
  BY AppendDistinct
<1> HIDE DEF a
<1>3. a \in [1..n -> Pids]
  BY <1>1, <1>2 DEF Distinct
<1>4. IsFiniteSet(Pids)
  <2>1. IsFiniteSet(Slots)
    BY RingFacts, FS_Interval DEF Slots
  <2>2. Pids \in SUBSET Slots
    BY RingFacts
  <2> QED BY <2>1, <2>2, FS_Subset
<1>5. IsFiniteSet(1..n) /\ Cardinality(1..n) = n
  <2>1. 1 \in Int /\ n \in Int /\ n >= 1 /\ n - 1 + 1 = n
    BY <1>1
  <2> QED BY <2>1, FS_Interval
<1>6. CASE Cardinality(Pids) < Cardinality(1..n)
  <2>1. PICK x, y \in 1..n : x # y /\ a[x] = a[y]
    BY <1>3, <1>4, <1>5, <1>6, FS_PigeonHole
  <2> QED BY <1>1, <1>2, <2>1 DEF Distinct
<1>7. Cardinality(Pids) \in Nat /\ Cardinality(Pids) < MAX_GDT_TERMS
  BY <1>4, FS_CardinalityType, PidQueueAssumption
<1> QED BY <1>1, <1>5, <1>6, <1>7, RingFacts
-----------------------------------------------------------------------------
(***************************************************************************)
(* The inductive invariant of the refinement: the list holds distinct      *)
(* pids, and between the two statements of pid_enqueue the pid waits in    *)
(* the tail's slot, where it is still there when the tail advances.        *)
(***************************************************************************)
StoredAtTail ==
  storing # NOT_FOUND => storing = queue.pids[queue.tail] /\ storing \notin Queued

ListInv == TypeOK /\ HeadStays /\ Distinct(Contents) /\ StoredAtTail

LEMMA QueuedAreElements ==
  /\ Queued = List!Elements(Contents)
  /\ Queued' = List!Elements(Contents')
BY DEF Queued, List!Elements

LEMMA ListInitial == Init => ListInv /\ List!Init
<1> SUFFICES ASSUME Init PROVE ListInv /\ List!Init
  OBVIOUS
<1>1. TypeOK /\ HeadStays
  BY InitialRing, TypeParts DEF Init, HeadStays
<1>2. Contents = <<>>
  BY InitialRing, ContentsAreView DEF Init
<1>3. Distinct(Contents)
  BY <1>2 DEF Distinct
<1> QED BY <1>1, <1>2, <1>3 DEF Init, List!Init, ListInv, StoredAtTail, NOT_FOUND, List!NOT_FOUND

(* One more pid at the tail, in the list as in the ring *)
LEMMA ListGrows ==
  ASSUME NEW q \in Rings, Distinct(View(q)), q.pids[q.tail] \in Pids,
         q.pids[q.tail] \notin List!Elements(View(q))
  PROVE  /\ View(Advanced(q)) = Append(View(q), q.pids[q.tail])
         /\ Distinct(View(Advanced(q)))
<1>1. View(q) \in Lists /\ Len(View(q)) = Size(q)
  BY ViewFacts DEF Lists
<1>2. Size(q) + 1 < MAX_GDT_TERMS
  BY <1>1, Room
<1>3. View(Advanced(q)) = Append(View(q), q.pids[q.tail])
  BY <1>2, AdvancedFacts
<1> QED BY <1>1, <1>3, AppendDistinct

LEMMA ListStep ==
  ASSUME Masked, ListInv, [Next]_vars
  PROVE  ListInv' /\ [List!Next]_(List!vars)
<1> DEFINE Goal == Distinct(Contents') /\ StoredAtTail' /\ [List!Next]_(List!vars)
<1>1. /\ queue \in Rings /\ {storing, ret} \subseteq Pids \cup {NOT_FOUND}
      /\ usage \in Usages /\ HeadStays /\ Distinct(View(queue)) /\ StoredAtTail
      /\ View(queue) \in Lists
  BY TypeParts, ContentsAreView, ViewFacts DEF ListInv, Lists
<1>2. ASSUME NEW pid \in Pids, EnqueueStore(pid) PROVE Goal
  <2>1. View(queue') = View(queue) /\ queue'.tail = queue.tail
        /\ queue'.pids[queue.tail] = pid
    BY <1>1, <1>2, StoredFacts DEF EnqueueStore
  <2>2. Contents' = Contents /\ Queued' = Queued
    BY <2>1, ContentsAreView, QueuedAreElements
  <2>3. StoredAtTail'
    BY <1>2, <2>1, <2>2 DEF StoredAtTail, EnqueueStore, Absent
  <2>4. UNCHANGED List!vars
    BY <1>2, <2>2 DEF List!vars, EnqueueStore
  <2> QED BY <1>1, <2>1, <2>3, <2>4, ContentsAreView
<1>3. ASSUME NEW pid \in Pids, Enqueue(pid) PROVE Goal
  <2> DEFINE s == Stored(queue, pid)
  <2>1. /\ s \in Rings /\ s.tail = queue.tail /\ s.pids[s.tail] = pid
        /\ View(s) = View(queue)
    BY <1>1, StoredFacts
  <2>2. pid \notin List!Elements(View(queue)) /\ queue' = Advanced(s)
        /\ storing = NOT_FOUND /\ storing' = NOT_FOUND
    BY <1>3, ContentsAreView, QueuedAreElements DEF Enqueue, Absent, pid_enqueue, MayCall
  <2> HIDE DEF s
  <2>3. View(queue') = Append(View(queue), pid) /\ Distinct(View(queue'))
    BY <1>1, <2>1, <2>2, ListGrows
  <2>4. List!Enqueue(pid)
    BY <1>3, <2>2, <2>3, ContentsAreView DEF List!Enqueue, Enqueue, List!pid_enqueue
  <2>5. StoredAtTail'
    BY <2>2 DEF StoredAtTail
  <2> QED BY <2>3, <2>4, <2>5, ContentsAreView DEF List!Next
<1>4. ASSUME EnqueueAdvance PROVE Goal
  <2>1. storing = queue.pids[queue.tail] /\ storing \notin List!Elements(View(queue))
        /\ storing \in Pids /\ queue' = Advanced(queue) /\ storing' = NOT_FOUND
    BY <1>1, <1>4, ContentsAreView, QueuedAreElements DEF EnqueueAdvance, StoredAtTail
  <2>2. View(queue') = Append(View(queue), storing) /\ Distinct(View(queue'))
    BY <1>1, <2>1, ListGrows
  <2>3. List!Enqueue(storing)
    BY <1>4, <2>1, <2>2, ContentsAreView DEF List!Enqueue, EnqueueAdvance, List!pid_enqueue
  <2>4. StoredAtTail'
    BY <2>1 DEF StoredAtTail
  <2>5. List!Next
    BY <2>1, <2>3 DEF List!Next
  <2> QED BY <2>2, <2>4, <2>5, ContentsAreView
<1>5. ASSUME Dequeue PROVE Goal
  <2>1. View(queue') = List!Dequeued(View(queue)) /\ ret' = List!pid_dequeue(View(queue))
    BY <1>1, <1>5, DequeuedFacts DEF Dequeue
  <2>2. Distinct(View(queue'))
    BY <1>1, <2>1, DequeuedDistinct
  <2>3. List!Dequeue
    BY <1>5, <2>1, ContentsAreView DEF List!Dequeue, Dequeue
  <2>4. StoredAtTail'
    BY <1>5 DEF StoredAtTail, Dequeue, MayCall
  <2>5. List!Next
    BY <2>3 DEF List!Next
  <2> QED BY <2>2, <2>4, <2>5, ContentsAreView
<1>6. ASSUME NEW k \in 1..Len(Contents), DeleteAt(k) PROVE Goal
  <2>1. queue.head = 0
    BY <1>1, <1>6, UsageFacts DEF DeleteAt, HeadStays
  <2>2. k - 1 \in Slots /\ Size(queue) # 0 /\ queue' = pid_queue_delete(queue, k - 1)
    BY <1>1, <1>6, <2>1, PositionFacts DEF DeleteAt
  <2>3. View(queue') = List!pid_queue_delete(View(queue), k - 1)
    BY <1>1, <2>1, <2>2, DeletedFacts
  <2>4. Distinct(View(queue'))
    <3>1. Len(View(queue)) # 0 /\ k - 1 \in Nat
      BY <1>1, <2>2, ViewFacts, RingFacts
    <3> QED BY <1>1, <2>3, <3>1, DeletedDistinct
  <2>5. List!DeleteAt(k)
    BY <1>6, <2>3, ContentsAreView DEF List!DeleteAt, DeleteAt
  <2>6. StoredAtTail'
    BY <1>6 DEF StoredAtTail, DeleteAt, MayCall
  <2> QED BY <2>4, <2>5, <2>6, ContentsAreView DEF List!Next
<1>7. ASSUME NEW pid \in Pids, FindAndDelete(pid) PROVE Goal
  <2> DEFINE i == pid_queue_find(queue, pid)
  <2>1. "lookup" \in usage /\ Queued # {} /\ queue' = pid_queue_delete(queue, i) /\ ret' = i
        /\ usage' = usage /\ storing = NOT_FOUND /\ storing' = NOT_FOUND
    BY <1>7 DEF FindAndDelete, MayCall
  <2>2. queue.head = 0 /\ Size(queue) # 0 /\ Contents # <<>>
    BY <1>1, <2>1, UsageFacts, NotEmptyFacts DEF HeadStays
  <2>3. i = List!pid_queue_find(View(queue), pid) /\ i \in Slots \cup {NOT_FOUND} /\ i \in Nat
    BY <1>1, FindFacts
  <2> HIDE DEF i
  <2>4. View(queue') = List!pid_queue_delete(View(queue), i)
    BY <1>1, <2>1, <2>2, <2>3, DeletedFacts
  <2>5. Distinct(View(queue'))
    <3>1. Len(View(queue)) # 0 /\ i \in Nat
      BY <1>1, <2>2, <2>3, ViewFacts
    <3> QED BY <1>1, <2>4, <3>1, DeletedDistinct
  <2>6. List!FindAndDelete(pid)
    BY <2>1, <2>2, <2>3, <2>4, ContentsAreView DEF List!FindAndDelete
  <2>7. StoredAtTail'
    BY <2>1 DEF StoredAtTail
  <2> QED BY <2>5, <2>6, <2>7, ContentsAreView DEF List!Next
<1>8. ASSUME UNCHANGED vars PROVE Goal
  <2>1. queue' = queue /\ storing' = storing /\ ret' = ret /\ usage' = usage
    BY <1>8 DEF vars
  <2>2. Contents' = Contents /\ Queued' = Queued
    BY <2>1, ContentsAreView, QueuedAreElements
  <2>3. StoredAtTail'
    BY <1>1, <2>1, <2>2 DEF StoredAtTail
  <2>4. UNCHANGED List!vars
    BY <2>1, <2>2 DEF List!vars
  <2> QED BY <1>1, <2>2, <2>3, <2>4, ContentsAreView
<1> HIDE DEF Goal
<1>9. Goal
  BY <1>2, <1>3, <1>4, <1>5, <1>6, <1>7, <1>8 DEF Next
<1>10. TypeOK' /\ HeadStays'
  BY TypePreserved DEF ListInv
<1>11. Distinct(Contents)'
  BY <1>9 DEF Goal, Distinct
<1> QED BY <1>9, <1>10, <1>11 DEF Goal, ListInv

(***************************************************************************)
(* data_struct.c: with interrupts disabled during its calls the ring is    *)
(* the list its callers see, for every ring size, every number of pids and *)
(* every sequence of calls: it never fills up, nothing that earlier calls  *)
(* left in the slots comes back, and every result is the list's.           *)
(***************************************************************************)
THEOREM RingImplementsList ==
  ASSUME Masked
  PROVE  Spec => ImplementsList
<1>1. Init => ListInv /\ List!Init
  BY ListInitial
<1>2. ListInv /\ [Next]_vars => ListInv' /\ [List!Next]_(List!vars)
  BY ListStep
<1> QED BY <1>1, <1>2, PTL DEF Spec, ImplementsList, List!Spec
=============================================================================
