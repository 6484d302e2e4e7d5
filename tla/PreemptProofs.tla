--------------------------- MODULE PreemptProofs ---------------------------
(***************************************************************************)
(* Theorems about Preempt, for every number of tasks and semaphores, if    *)
(* interrupts are disabled during kernel calls.                            *)
(***************************************************************************)
EXTENDS Preempt, FiniteSetTheorems, TLAPS

IsFrame(f) ==
  f = [at |-> f.at, s |-> f.s, val |-> f.val, pid |-> f.pid, i |-> f.i, reason |-> f.reason]

(* The labels at which a call owes a semaphore something. *)
Involved ==
  {"wait_store", "wait_test", "wait_enqueue", "signal", "signal_store", "signal_dequeue",
   "signal_find", "signal_delete", "signal_ready"}

IdleOrIn(f) ==
  /\ IsFrame(f)
  /\ f.at = "user" => f = UserFrame
  /\ f.at \in Involved \cup {"wait"} => f.s \in Semaphores

(* The calls under way: only the running task can be in one, and not while *)
(* the timer interrupt runs.                                               *)
CallsMasked ==
  /\ DOMAIN frame = Pids
  /\ \A p \in Pids : IdleOrIn(frame[p]) /\ (p # pid_running => frame[p] = UserFrame)
  /\ irq # "none" => Frame.at = "user"

SemaphoreTypes ==
  /\ DOMAIN count = Semaphores /\ DOMAIN blocked_pids = Semaphores /\ DOMAIN holders = Semaphores
  /\ \A s \in Semaphores : count[s] \in Int /\ blocked_pids[s] \in Seq(Pids)
                           /\ IsFiniteSet(holders[s])

(***************************************************************************)
(* What a semaphore with count n and queue q lets h tasks hold: a count    *)
(* above zero is the number of tasks that may still pass, one below zero   *)
(* the number of tasks in the queue.                                       *)
(***************************************************************************)
Allows(n, q, h) ==
  /\ h + (IF n < 0 THEN 0 ELSE n) <= InitCount
  /\ Len(q) = IF n < 0 THEN -n ELSE 0

Between(f, labels, s) == f.at \in labels /\ f.s = s

(***************************************************************************)
(* A wait with frame f that has decremented the count has neither enqueued *)
(* its task nor let it pass; the task that signals holds the semaphore no  *)
(* more, and neither does yet the one that it wakes.                       *)
(***************************************************************************)
Admits(f, s, n, q, h) ==
  /\ Between(f, {"wait_store", "signal_store"}, s) => f.val = n
  /\ Between(f, {"wait_enqueue"}, s) => n < 0
  /\ IF Between(f, {"wait_test", "wait_enqueue"}, s) THEN Allows(n + 1, q, h)
     ELSE IF Between(f, {"signal", "signal_store", "signal_find", "signal_delete",
                         "signal_ready"}, s) THEN Allows(n, q, h + 1)
     ELSE IF Between(f, {"signal_dequeue"}, s) THEN Allows(n - 1, q, h + 1)
     ELSE Allows(n, q, h)

SemaphoresAdmit ==
  \A s \in Semaphores :
    Admits(Frame, s, count[s], blocked_pids[s], Cardinality(holders[s]))

HoldInv == CallsMasked /\ SemaphoreTypes /\ SemaphoresAdmit
-----------------------------------------------------------------------------
(* A set of tasks grows by at most one member when a task joins it. *)
LEMMA OneMore ==
  ASSUME NEW S, IsFiniteSet(S), NEW p
  PROVE  /\ IsFiniteSet(S \cup {p})
         /\ Cardinality(S) \in Nat /\ Cardinality(S \cup {p}) \in Nat
         /\ Cardinality(S \cup {p}) <= Cardinality(S) + 1
<1>1. /\ IsFiniteSet(S \cup {p})
      /\ Cardinality(S \cup {p}) = Cardinality(S) \/ Cardinality(S \cup {p}) = Cardinality(S) + 1
  BY FS_AddElement
<1>2. Cardinality(S) \in Nat /\ Cardinality(S \cup {p}) \in Nat
  BY <1>1, FS_CardinalityType
<1> QED BY <1>1, <1>2

LEMMA OneLess ==
  ASSUME NEW S, IsFiniteSet(S), NEW p \in S
  PROVE  /\ IsFiniteSet(S \ {p})
         /\ Cardinality(S) \in Nat /\ Cardinality(S \ {p}) \in Nat
         /\ Cardinality(S \ {p}) + 1 = Cardinality(S)
<1>1. IsFiniteSet(S \ {p}) /\ Cardinality(S \ {p}) = Cardinality(S) - 1
  BY FS_RemoveElement
<1>2. Cardinality(S) \in Nat /\ Cardinality(S \ {p}) \in Nat
  BY <1>1, FS_CardinalityType
<1> QED BY <1>1, <1>2

(* A step of a masked call changes the frame of the running task only. *)
LEMMA Continues ==
  ASSUME CallsMasked, InTask, NEW f, Continue(f), IdleOrIn(f), UNCHANGED <<pid_running, irq>>
  PROVE  CallsMasked' /\ Frame' = f
<1>1. pid_running \in Pids /\ irq = "none"
  BY DEF InTask
<1>2. DOMAIN frame' = Pids /\ frame'[pid_running] = f
      /\ \A p \in Pids : p # pid_running => frame'[p] = frame[p]
  BY <1>1 DEF Continue, CallsMasked
<1>3. Frame' = f
  BY <1>1, <1>2 DEF Frame
<1>4. \A p \in Pids : IdleOrIn(frame'[p]) /\ (p # pid_running' => frame'[p] = UserFrame)
  BY <1>1, <1>2 DEF CallsMasked
<1> QED BY <1>1, <1>2, <1>3, <1>4 DEF CallsMasked

(* What one semaphore looks like after a step that leaves the others alone. *)
LEMMA OthersAdmit ==
  ASSUME NEW f, NEW g, NEW s, NEW t, s # t, f.s = t \/ f.at = "user", g.s = t \/ g.at = "user",
         NEW n, NEW q, NEW h, Admits(f, s, n, q, h)
  PROVE  Admits(g, s, n, q, h)
BY DEF Admits, Between

(* A step outside the semaphore code. *)
LEMMA Elsewhere ==
  ASSUME HoldInv, CallsMasked', Frame.at \notin Involved, Frame'.at \notin Involved,
         UNCHANGED <<count, blocked_pids, holders>>
  PROVE  HoldInv'
<1>1. SemaphoreTypes'
  BY DEF HoldInv, SemaphoreTypes
<1>2. ASSUME NEW s \in Semaphores, NEW f, NEW g, f.at \notin Involved, g.at \notin Involved,
             NEW n, NEW q, NEW h, Admits(f, s, n, q, h)
      PROVE  Admits(g, s, n, q, h)
  BY <1>2 DEF Admits, Between, Involved
<1>3. SemaphoresAdmit'
  BY <1>2 DEF HoldInv, SemaphoresAdmit
<1> QED BY <1>1, <1>3 DEF HoldInv

(***************************************************************************)
(* A step of a call on semaphore s, from frame f to frame g: the others    *)
(* are left alone, so s is all there is to look at.                        *)
(***************************************************************************)
LEMMA OnlyOne ==
  ASSUME HoldInv, NEW s, CallsMasked', SemaphoreTypes',
         Frame.s = s \/ Frame.at = "user", Frame'.s = s \/ Frame'.at = "user",
         \A t \in Semaphores \ {s} : /\ count'[t] = count[t]
                                     /\ blocked_pids'[t] = blocked_pids[t]
                                     /\ holders'[t] = holders[t],
         s \in Semaphores =>
           Admits(Frame', s, count'[s], blocked_pids'[s], Cardinality(holders'[s]))
  PROVE  HoldInv'
<1>1. ASSUME NEW t \in Semaphores, t # s
      PROVE  Admits(Frame', t, count'[t], blocked_pids'[t], Cardinality(holders'[t]))
  <2>1. Admits(Frame, t, count[t], blocked_pids[t], Cardinality(holders[t]))
    BY DEF HoldInv, SemaphoresAdmit
  <2>2. Admits(Frame', t, count[t], blocked_pids[t], Cardinality(holders[t]))
    BY <1>1, <2>1, OthersAdmit
  <2> QED BY <1>1, <2>2
<1>2. SemaphoresAdmit'
  BY <1>1 DEF SemaphoresAdmit
<1> QED BY <1>2 DEF HoldInv

LEMMA HoldInit == PreemptInit => HoldInv
<1> SUFFICES ASSUME PreemptInit PROVE HoldInv
  OBVIOUS
<1>1. frame = [p \in Pids |-> UserFrame] /\ Frame = UserFrame
  BY DEF PreemptInit, Frame
<1>2. IdleOrIn(UserFrame) /\ UserFrame.at = "user"
  BY DEF IdleOrIn, IsFrame, UserFrame, Involved
<1>3. CallsMasked
  BY <1>1, <1>2 DEF CallsMasked
<1>4. /\ count = [s \in Semaphores |-> InitCount]
      /\ blocked_pids = [s \in Semaphores |-> <<>>]
      /\ holders = [s \in Semaphores |-> {}]
      /\ InitCount \in Nat
  BY SchedAssumption DEF PreemptInit, Init, semaphore_init
<1>5. SemaphoreTypes
  BY <1>4, FS_EmptySet DEF SemaphoreTypes
<1>6. Allows(InitCount, <<>>, 0)
  BY <1>4 DEF Allows
<1>7. \A s \in Semaphores : Admits(UserFrame, s, InitCount, <<>>, 0)
  BY <1>2, <1>6 DEF Admits, Between
<1>8. SemaphoresAdmit
  BY <1>1, <1>4, <1>7, FS_EmptySet DEF SemaphoresAdmit
<1> QED BY <1>3, <1>5, <1>8 DEF HoldInv

(* The timer interrupt finds every task outside the kernel. *)
LEMMA HoldTimer == ASSUME Masked, HoldInv, TimerStep PROVE HoldInv'
<1>1. UNCHANGED <<frame, holders, count, blocked_pids>>
  BY DEF TimerStep, history, OnTimer, CheckWakeup, CheckSchedule
<1>2. Frame.at = "user"
  BY DEF TimerStep, Interruptible, HoldInv, CallsMasked, CheckWakeup, CheckSchedule
<1>3. \A p \in Pids : frame[p] = UserFrame
  BY <1>2 DEF HoldInv, CallsMasked, IdleOrIn, Frame
<1>4. Frame' = UserFrame /\ UserFrame.at = "user" /\ IdleOrIn(UserFrame)
  BY <1>1, <1>3 DEF Frame, UserFrame, IdleOrIn, IsFrame, Involved
<1>5. CallsMasked'
  BY <1>1, <1>3, <1>4 DEF HoldInv, CallsMasked
<1> QED BY <1>1, <1>2, <1>4, <1>5, Elsewhere DEF Involved

(***************************************************************************)
(* A frame with one component changed, and its components.                 *)
(***************************************************************************)
PutAt(f, x) == [f EXCEPT !.at = x]
PutS(f, x) == [f EXCEPT !.s = x]
PutVal(f, x) == [f EXCEPT !.val = x]
PutPid(f, x) == [f EXCEPT !.pid = x]
PutI(f, x) == [f EXCEPT !.i = x]
PutReason(f, x) == [f EXCEPT !.reason = x]

Made(a, s, v, p, i, r) == [at |-> a, s |-> s, val |-> v, pid |-> p, i |-> i, reason |-> r]

Consists(f, a, s, v, p, i, r) ==
  /\ IsFrame(f)
  /\ f.at = a /\ f.s = s /\ f.val = v /\ f.pid = p /\ f.i = i /\ f.reason = r

LEMMA MadeConsists ==
  ASSUME NEW a, NEW s, NEW v, NEW p, NEW i, NEW r
  PROVE  Consists(Made(a, s, v, p, i, r), a, s, v, p, i, r)
BY DEF Consists, Made, IsFrame

LEMMA Put ==
  ASSUME NEW f, IsFrame(f), NEW x
  PROVE  /\ Consists(PutAt(f, x), x, f.s, f.val, f.pid, f.i, f.reason)
         /\ Consists(PutS(f, x), f.at, x, f.val, f.pid, f.i, f.reason)
         /\ Consists(PutVal(f, x), f.at, f.s, x, f.pid, f.i, f.reason)
         /\ Consists(PutPid(f, x), f.at, f.s, f.val, x, f.i, f.reason)
         /\ Consists(PutI(f, x), f.at, f.s, f.val, f.pid, x, f.reason)
         /\ Consists(PutReason(f, x), f.at, f.s, f.val, f.pid, f.i, x)
<1>1. PICK a, s, v, p, i, r : f = Made(a, s, v, p, i, r)
  BY DEF IsFrame, Made
<1>2. Consists(f, a, s, v, p, i, r)
  BY <1>1, MadeConsists
<1>3. PutAt(f, x) = Made(x, s, v, p, i, r)
  <2>1. [Made(a, s, v, p, i, r) EXCEPT !.at = x] = Made(x, s, v, p, i, r)
    BY DEF Made
  <2> QED BY <1>1, <2>1, Zenon DEF PutAt
<1>4. PutS(f, x) = Made(a, x, v, p, i, r)
  <2>1. [Made(a, s, v, p, i, r) EXCEPT !.s = x] = Made(a, x, v, p, i, r)
    BY DEF Made
  <2> QED BY <1>1, <2>1, Zenon DEF PutS
<1>5. PutVal(f, x) = Made(a, s, x, p, i, r)
  <2>1. [Made(a, s, v, p, i, r) EXCEPT !.val = x] = Made(a, s, x, p, i, r)
    BY DEF Made
  <2> QED BY <1>1, <2>1, Zenon DEF PutVal
<1>6. PutPid(f, x) = Made(a, s, v, x, i, r)
  <2>1. [Made(a, s, v, p, i, r) EXCEPT !.pid = x] = Made(a, s, v, x, i, r)
    BY DEF Made
  <2> QED BY <1>1, <2>1, Zenon DEF PutPid
<1>7. PutI(f, x) = Made(a, s, v, p, x, r)
  <2>1. [Made(a, s, v, p, i, r) EXCEPT !.i = x] = Made(a, s, v, p, x, r)
    BY DEF Made
  <2> QED BY <1>1, <2>1, Zenon DEF PutI
<1>8. PutReason(f, x) = Made(a, s, v, p, i, x)
  <2>1. [Made(a, s, v, p, i, r) EXCEPT !.reason = x] = Made(a, s, v, p, i, x)
    BY DEF Made
  <2> QED BY <1>1, <2>1, Zenon DEF PutReason
<1> QED BY <1>2, <1>3, <1>4, <1>5, <1>6, <1>7, <1>8, MadeConsists DEF Consists

LEMMA NoCall == Consists(UserFrame, "user", "none", 0, NOT_FOUND, NOT_FOUND, "none")
BY DEF Consists, UserFrame, IsFrame

(* The entry of a call that concerns no semaphore, or of wait. *)
LEMMA HoldEnter ==
  ASSUME HoldInv, NEW f, Enter(f), IdleOrIn(f), f.at \notin Involved, UNCHANGED holders
  PROVE  HoldInv'
<1>1. InTask /\ Frame.at = "user" /\ Continue(f)
      /\ UNCHANGED <<pid_running, irq, count, blocked_pids>>
  BY DEF Enter, At, vars
<1>2. CallsMasked' /\ Frame' = f
  BY <1>1, Continues DEF HoldInv
<1> QED BY <1>1, <1>2, Elsewhere DEF Involved

LEMMA HoldCalls ==
  ASSUME HoldInv,
         \/ \E s \in Semaphores : CallWait(s)
         \/ \E counter \in SleepArgs : CallSleep(counter)
         \/ CallExit
         \/ CallCreate
  PROVE  HoldInv'
<1>1. ASSUME NEW f, NEW s, NEW v, NEW a \in {"wait", "sleep", "exit", "create"},
             a = "wait" => s \in Semaphores,
             Consists(f, a, s, v, NOT_FOUND, NOT_FOUND, "none")
      PROVE  IdleOrIn(f) /\ f.at \notin Involved
  BY <1>1 DEF Consists, IdleOrIn, Involved
<1>2. ASSUME NEW x
      PROVE  /\ Consists(PutAt(UserFrame, x), x, "none", 0, NOT_FOUND, NOT_FOUND, "none")
             /\ \A s : Consists(PutS(PutAt(UserFrame, x), s), x, s, 0, NOT_FOUND, NOT_FOUND, "none")
             /\ \A v : Consists(PutVal(PutAt(UserFrame, x), v), x, "none", v, NOT_FOUND,
                                NOT_FOUND, "none")
  BY NoCall, Put DEF Consists
<1>3. CASE \E s \in Semaphores : CallWait(s)
  <2>1. PICK s \in Semaphores : CallWait(s)
    BY <1>3
  <2>2. Enter(PutS(PutAt(UserFrame, "wait"), s)) /\ UNCHANGED holders
    BY <2>1, Zenon DEF CallWait, PutS, PutAt
  <2> QED BY <1>1, <1>2, <2>2, HoldEnter
<1>4. CASE \E counter \in SleepArgs : CallSleep(counter)
  <2>1. PICK counter \in SleepArgs : CallSleep(counter)
    BY <1>4
  <2>2. Enter(PutVal(PutAt(UserFrame, "sleep"), counter)) /\ UNCHANGED holders
    BY <2>1, Zenon DEF CallSleep, PutVal, PutAt
  <2> QED BY <1>1, <1>2, <2>2, HoldEnter
<1>5. CASE CallExit
  <2>1. Enter(PutAt(UserFrame, "exit")) /\ UNCHANGED holders
    BY <1>5, Zenon DEF CallExit, PutAt
  <2> QED BY <1>1, <1>2, <2>1, HoldEnter
<1>6. CASE CallCreate
  <2>1. Enter(PutAt(UserFrame, "create")) /\ UNCHANGED holders
    BY <1>6, Zenon DEF CallCreate, PutAt
  <2> QED BY <1>1, <1>2, <2>1, HoldEnter
<1> QED BY <1>3, <1>4, <1>5, <1>6

(* The task that calls signal gives up what it holds. *)
LEMMA HoldSignal ==
  ASSUME HoldInv, NEW s \in Semaphores, CallSignal(s)
  PROVE  HoldInv'
<1> DEFINE f == PutS(PutAt(UserFrame, "signal"), s)
           h == Cardinality(holders[s])
<1>1. InTask /\ Frame.at = "user"
      /\ UNCHANGED <<pid_running, irq, count, blocked_pids>>
  BY DEF CallSignal, Enter, At, vars
<1>2. Continue(f)
  BY Zenon DEF CallSignal, Enter, PutS, PutAt
<1> HIDE DEF f
<1>3. Consists(f, "signal", s, 0, NOT_FOUND, NOT_FOUND, "none")
  BY NoCall, Put DEF Consists, f
<1>4. IdleOrIn(f) /\ f.at = "signal" /\ f.s = s
  BY <1>3 DEF Consists, IdleOrIn
<1>5. CallsMasked' /\ Frame' = f
  BY <1>1, <1>2, <1>4, Continues DEF HoldInv
<1>6. holders' = [holders EXCEPT ![s] = @ \ {pid_running}] /\ pid_running \in holders[s]
  BY DEF CallSignal, Holding
<1>7. IsFiniteSet(holders[s] \ {pid_running}) /\ h \in Nat
      /\ Cardinality(holders[s] \ {pid_running}) \in Nat
      /\ Cardinality(holders[s] \ {pid_running}) + 1 = h
  BY <1>6, OneLess DEF HoldInv, SemaphoreTypes
<1>8. DOMAIN holders' = Semaphores /\ holders'[s] = holders[s] \ {pid_running}
      /\ \A t \in Semaphores \ {s} : holders'[t] = holders[t]
  BY <1>6 DEF HoldInv, SemaphoreTypes
<1>9. SemaphoreTypes'
  BY <1>1, <1>7, <1>8 DEF HoldInv, SemaphoreTypes
<1>10. Allows(count[s], blocked_pids[s], h)
  BY <1>1 DEF HoldInv, SemaphoresAdmit, Admits, Between
<1>11. Admits(f, s, count[s], blocked_pids[s], Cardinality(holders'[s]))
  BY <1>4, <1>7, <1>8, <1>10 DEF Admits, Between
<1> QED BY <1>1, <1>4, <1>5, <1>8, <1>9, <1>11, OnlyOne


(* A call at work on a semaphore. *)
LEMMA Working ==
  ASSUME HoldInv, InTask, Frame.at \in Involved \cup {"wait"}
  PROVE  /\ IsFrame(Frame)
         /\ Frame.s \in Semaphores
         /\ count[Frame.s] \in Int
         /\ blocked_pids[Frame.s] \in Seq(Pids)
         /\ IsFiniteSet(holders[Frame.s]) /\ Cardinality(holders[Frame.s]) \in Nat
         /\ Admits(Frame, Frame.s, count[Frame.s], blocked_pids[Frame.s],
                   Cardinality(holders[Frame.s]))
<1>1. IsFrame(Frame) /\ Frame.s \in Semaphores
  BY DEF HoldInv, CallsMasked, InTask, Frame, IdleOrIn
<1> HIDE DEF Frame
<1>2. count[Frame.s] \in Int /\ blocked_pids[Frame.s] \in Seq(Pids)
      /\ IsFiniteSet(holders[Frame.s])
  BY <1>1 DEF HoldInv, SemaphoreTypes
<1>3. Cardinality(holders[Frame.s]) \in Nat
  BY <1>2, FS_CardinalityType
<1> QED BY <1>1, <1>2, <1>3 DEF HoldInv, SemaphoresAdmit

(* The functions f and g on the semaphores differ in that g[s] is x. *)
Only(f, g, s, x) ==
  DOMAIN g = Semaphores /\ g[s] = x /\ \A t \in Semaphores \ {s} : g[t] = f[t]

LEMMA Replaces ==
  ASSUME NEW f, DOMAIN f = Semaphores, NEW s \in Semaphores, NEW x
  PROVE  Only(f, [f EXCEPT ![s] = x], s, x)
BY DEF Only

LEMMA Keeps ==
  ASSUME NEW f, DOMAIN f = Semaphores, NEW s
  PROVE  Only(f, f, s, f[s])
BY DEF Only

(***************************************************************************)
(* The running task goes on with g and leaves its semaphore with count n,  *)
(* queue q and holders H.                                                  *)
(***************************************************************************)
LEMMA Works ==
  ASSUME HoldInv, InTask, Frame.at \in Involved \cup {"wait"}, UNCHANGED <<pid_running, irq>>,
         NEW g, Continue(g), IsFrame(g),
         g = UserFrame \/ (g.at # "user" /\ g.s = Frame.s) \/ g.at = "schedule",
         NEW n \in Int, NEW q \in Seq(Pids), NEW H, IsFiniteSet(H),
         Only(count, count', Frame.s, n),
         Only(blocked_pids, blocked_pids', Frame.s, q),
         Only(holders, holders', Frame.s, H),
         Admits(g, Frame.s, n, q, Cardinality(H))
  PROVE  HoldInv'
<1>1. PICK s \in Semaphores : s = Frame.s
  BY Working
<1>2. IdleOrIn(g)
  BY <1>1, NoCall DEF IdleOrIn, Consists, Involved
<1>3. CallsMasked' /\ Frame' = g
  BY <1>2, Continues DEF HoldInv
<1>4. /\ Only(count, count', s, n)
      /\ Only(blocked_pids, blocked_pids', s, q)
      /\ Only(holders, holders', s, H)
      /\ Admits(g, s, n, q, Cardinality(H))
  BY <1>1, Zenon
<1>5. SemaphoreTypes'
  BY <1>4 DEF HoldInv, SemaphoreTypes, Only
<1>6. ASSUME NEW t \in Semaphores
      PROVE  Admits(g, t, count'[t], blocked_pids'[t], Cardinality(holders'[t]))
  <2>1. CASE t = s
    <3>1. count'[t] = n /\ blocked_pids'[t] = q /\ holders'[t] = H
      BY <1>4, <2>1 DEF Only
    <3> QED BY <1>4, <2>1, <3>1
  <2>2. CASE t # s
    <3>1. Admits(Frame, t, count[t], blocked_pids[t], Cardinality(holders[t]))
      BY DEF HoldInv, SemaphoresAdmit
    <3>2. Allows(count[t], blocked_pids[t], Cardinality(holders[t]))
      BY <1>1, <2>2, <3>1 DEF Admits, Between
    <3>3. g.at = "user" \/ g.at = "schedule" \/ g.s # t
      BY <1>1, <2>2, NoCall DEF Consists
    <3>4. Admits(g, t, count[t], blocked_pids[t], Cardinality(holders[t]))
      BY <3>2, <3>3 DEF Admits, Between
    <3>5. count'[t] = count[t] /\ blocked_pids'[t] = blocked_pids[t] /\ holders'[t] = holders[t]
      BY <1>4, <2>2 DEF Only
    <3> QED BY <3>4, <3>5
  <2> QED BY <2>1, <2>2
<1> QED BY <1>3, <1>5, <1>6 DEF HoldInv, SemaphoresAdmit

(* wait. *)
LEMMA HoldWaitLoad == ASSUME HoldInv, WaitLoad PROVE HoldInv'
<1> DEFINE f == Frame
           g == PutVal(PutAt(Frame, "wait_store"), count[Frame.s])
           s == Frame.s
<1>1. InTask /\ f.at = "wait" /\ UNCHANGED <<pid_running, irq, count, blocked_pids, holders>>
  BY DEF WaitLoad, At, vars, history
<1>2. Continue(g)
  BY Zenon DEF WaitLoad, PutVal, PutAt
<1> HIDE DEF g
<1>3. /\ IsFrame(f) /\ s \in Semaphores /\ count[s] \in Int /\ blocked_pids[s] \in Seq(Pids)
      /\ IsFiniteSet(holders[s])
      /\ Admits(f, s, count[s], blocked_pids[s], Cardinality(holders[s]))
  BY <1>1, Working
<1>4. IsFrame(g) /\ g.at = "wait_store" /\ g.s = s /\ g.val = count[s]
  BY <1>3, Put DEF Consists, g
<1>5. Admits(g, s, count[s], blocked_pids[s], Cardinality(holders[s]))
  BY <1>1, <1>3, <1>4 DEF Admits, Between
<1>6. /\ Only(count, count', s, count[s]) /\ Only(holders, holders', s, holders[s])
      /\ Only(blocked_pids, blocked_pids', s, blocked_pids[s])
  BY <1>1, Keeps DEF HoldInv, SemaphoreTypes
<1> QED BY <1>1, <1>2, <1>3, <1>4, <1>5, <1>6, Works

LEMMA HoldWaitStore == ASSUME HoldInv, WaitStore PROVE HoldInv'
<1> DEFINE f == Frame
           g == PutVal(PutAt(Frame, "wait_test"), 0)
           s == Frame.s
<1>1. InTask /\ f.at = "wait_store" /\ UNCHANGED <<pid_running, irq, blocked_pids, holders>>
      /\ count' = [count EXCEPT ![s] = f.val - 1]
  BY DEF WaitStore, At, irqVars, taskVars, history
<1>2. Continue(g)
  BY Zenon DEF WaitStore, PutVal, PutAt
<1> HIDE DEF g
<1>3. /\ IsFrame(f) /\ s \in Semaphores /\ count[s] \in Int /\ blocked_pids[s] \in Seq(Pids)
      /\ IsFiniteSet(holders[s])
      /\ Admits(f, s, count[s], blocked_pids[s], Cardinality(holders[s]))
  BY <1>1, Working DEF Involved
<1>4. IsFrame(g) /\ g.at = "wait_test" /\ g.s = s
  BY <1>3, Put DEF Consists, g
<1>5. f.val = count[s] /\ f.val - 1 \in Int /\ (f.val - 1) + 1 = count[s]
      /\ Allows(count[s], blocked_pids[s], Cardinality(holders[s]))
  BY <1>1, <1>3 DEF Admits, Between
<1>6. Admits(g, s, f.val - 1, blocked_pids[s], Cardinality(holders[s]))
  BY <1>4, <1>5 DEF Admits, Between
<1>7. /\ Only(count, count', s, f.val - 1) /\ Only(holders, holders', s, holders[s])
      /\ Only(blocked_pids, blocked_pids', s, blocked_pids[s])
  BY <1>1, <1>3, Keeps, Replaces DEF HoldInv, SemaphoreTypes
<1> QED BY <1>1, <1>2, <1>3, <1>4, <1>5, <1>6, <1>7, Works DEF Involved

(* The task that waits is let in while the count was above zero. *)
LEMMA HoldWaitTest == ASSUME HoldInv, WaitTest PROVE HoldInv'
<1> DEFINE f == Frame
           s == Frame.s
           n == count[s]
           q == blocked_pids[s]
           h == Cardinality(holders[s])
<1>1. InTask /\ f.at = "wait_test" /\ UNCHANGED <<pid_running, irq, count, blocked_pids>>
  BY DEF WaitTest, At, vars
<1>2. /\ IsFrame(f) /\ s \in Semaphores /\ n \in Int /\ q \in Seq(Pids) /\ Len(q) \in Nat
      /\ IsFiniteSet(holders[s]) /\ h \in Nat
      /\ Allows(n + 1, q, h)
  BY <1>1, Working DEF Involved, Admits, Between
<1>3. Only(count, count', s, n) /\ Only(blocked_pids, blocked_pids', s, q)
  BY <1>1, Keeps DEF HoldInv, SemaphoreTypes
<1>4. CASE MustBlock(n)
  <2> DEFINE g == PutAt(Frame, "wait_enqueue")
  <2>1. Continue(g) /\ UNCHANGED holders
    BY <1>4, Zenon DEF WaitTest, PutAt
  <2> HIDE DEF g
  <2>2. IsFrame(g) /\ g.at = "wait_enqueue" /\ g.s = s
    BY <1>2, Put DEF Consists, g
  <2>3. Admits(g, s, n, q, h)
    BY <1>2, <1>4, <2>2 DEF Admits, Between, MustBlock
  <2>4. Only(holders, holders', s, holders[s])
    BY <2>1, Keeps DEF HoldInv, SemaphoreTypes
  <2> QED BY <1>1, <1>2, <1>3, <2>1, <2>2, <2>3, <2>4, Works DEF Involved
<1>5. CASE ~MustBlock(n)
  <2> DEFINE H == holders[s] \cup {pid_running}
             k == Cardinality(H)
  <2>1. Continue(UserFrame) /\ holders' = [holders EXCEPT ![s] = H]
    BY <1>5 DEF WaitTest
  <2>2. IsFiniteSet(H) /\ k \in Nat /\ k <= h + 1
    BY <1>2, OneMore
  <2> HIDE DEF H
  <2>3. Only(holders, holders', s, H)
    BY <1>2, <2>1, Replaces DEF HoldInv, SemaphoreTypes
  <2> HIDE DEF k, n, q, h
  <2>4. Allows(n, q, k)
    BY <1>2, <1>5, <2>2, SchedAssumption DEF Allows, MustBlock
  <2>5. Admits(UserFrame, s, n, q, k) /\ IsFrame(UserFrame)
    BY <2>4, NoCall DEF Admits, Between, Consists
  <2> USE DEF k, n, q, h
  <2> QED BY <1>1, <1>2, <1>3, <2>1, <2>2, <2>3, <2>5, Works DEF Involved
<1> QED BY <1>4, <1>5

LEMMA HoldWaitEnqueue == ASSUME HoldInv, WaitEnqueue PROVE HoldInv'
<1> DEFINE f == Frame
           g == PutReason(PutAt(UserFrame, "schedule"), "TASK_BLOCKED")
           s == Frame.s
           n == count[s]
           h == Cardinality(holders[s])
           q == blocked_pids[s]
           r == Append(blocked_pids[s], pid_running)
<1>1. InTask /\ f.at = "wait_enqueue" /\ UNCHANGED <<pid_running, irq, count, holders>>
      /\ blocked_pids' = [blocked_pids EXCEPT ![s] = r]
  BY DEF WaitEnqueue, At, irqVars, taskVars, history, pid_enqueue
<1>2. Continue(g)
  BY Zenon DEF WaitEnqueue, Schedule, PutReason, PutAt
<1> HIDE DEF g
<1>3. /\ s \in Semaphores /\ n \in Int /\ q \in Seq(Pids) /\ IsFiniteSet(holders[s]) /\ h \in Nat
      /\ Allows(n + 1, q, h) /\ n < 0
  BY <1>1, Working DEF Involved, Admits, Between
<1>4. IsFrame(g) /\ g.at = "schedule"
  BY NoCall, Put DEF Consists, g
<1>5. r \in Seq(Pids) /\ Len(r) = Len(q) + 1 /\ Len(q) \in Nat
  BY <1>1, <1>3 DEF InTask
<1>6. Only(count, count', s, n) /\ Only(holders, holders', s, holders[s])
      /\ Only(blocked_pids, blocked_pids', s, r)
  BY <1>1, <1>3, Keeps, Replaces DEF HoldInv, SemaphoreTypes
<1> HIDE DEF n, h, q, r
<1>7. Allows(n, r, h)
  BY <1>3, <1>5, SchedAssumption DEF Allows
<1>8. Admits(g, s, n, r, h)
  BY <1>4, <1>7 DEF Admits, Between
<1> USE DEF n, h
<1> QED BY <1>1, <1>2, <1>3, <1>4, <1>5, <1>6, <1>8, Works DEF Involved

(* signal. *)
LEMMA HoldSignalLoad == ASSUME HoldInv, SignalLoad PROVE HoldInv'
<1> DEFINE f == Frame
           g == PutVal(PutAt(Frame, "signal_store"), count[Frame.s])
           s == Frame.s
<1>1. InTask /\ f.at = "signal" /\ UNCHANGED <<pid_running, irq, count, blocked_pids, holders>>
  BY DEF SignalLoad, At, vars, history
<1>2. Continue(g)
  BY Zenon DEF SignalLoad, PutVal, PutAt
<1> HIDE DEF g
<1>3. /\ IsFrame(f) /\ s \in Semaphores /\ count[s] \in Int /\ blocked_pids[s] \in Seq(Pids)
      /\ IsFiniteSet(holders[s])
      /\ Admits(f, s, count[s], blocked_pids[s], Cardinality(holders[s]))
  BY <1>1, Working DEF Involved
<1>4. IsFrame(g) /\ g.at = "signal_store" /\ g.s = s /\ g.val = count[s]
  BY <1>3, Put DEF Consists, g
<1>5. Admits(g, s, count[s], blocked_pids[s], Cardinality(holders[s]))
  BY <1>1, <1>3, <1>4 DEF Admits, Between
<1>6. /\ Only(count, count', s, count[s]) /\ Only(holders, holders', s, holders[s])
      /\ Only(blocked_pids, blocked_pids', s, blocked_pids[s])
  BY <1>1, Keeps DEF HoldInv, SemaphoreTypes
<1> QED BY <1>1, <1>2, <1>3, <1>4, <1>5, <1>6, Works DEF Involved

LEMMA HoldSignalStore == ASSUME HoldInv, SignalStore PROVE HoldInv'
<1> DEFINE f == Frame
           g == PutVal(PutAt(Frame, "signal_dequeue"), 0)
           s == Frame.s
<1>1. InTask /\ f.at = "signal_store" /\ UNCHANGED <<pid_running, irq, blocked_pids, holders>>
      /\ count' = [count EXCEPT ![s] = f.val + 1]
  BY DEF SignalStore, At, irqVars, taskVars, history
<1>2. Continue(g)
  BY Zenon DEF SignalStore, PutVal, PutAt
<1> HIDE DEF g
<1>3. /\ IsFrame(f) /\ s \in Semaphores /\ count[s] \in Int /\ blocked_pids[s] \in Seq(Pids)
      /\ IsFiniteSet(holders[s])
      /\ Admits(f, s, count[s], blocked_pids[s], Cardinality(holders[s]))
  BY <1>1, Working DEF Involved
<1>4. IsFrame(g) /\ g.at = "signal_dequeue" /\ g.s = s
  BY <1>3, Put DEF Consists, g
<1>5. f.val = count[s] /\ f.val + 1 \in Int /\ (f.val + 1) - 1 = count[s]
      /\ Allows(count[s], blocked_pids[s], Cardinality(holders[s]) + 1)
  BY <1>1, <1>3 DEF Admits, Between
<1>6. Admits(g, s, f.val + 1, blocked_pids[s], Cardinality(holders[s]))
  BY <1>4, <1>5 DEF Admits, Between
<1>7. /\ Only(count, count', s, f.val + 1) /\ Only(holders, holders', s, holders[s])
      /\ Only(blocked_pids, blocked_pids', s, blocked_pids[s])
  BY <1>1, <1>3, Keeps, Replaces DEF HoldInv, SemaphoreTypes
<1> QED BY <1>1, <1>2, <1>3, <1>4, <1>5, <1>6, <1>7, Works DEF Involved

(* The place given up goes to the first task in the queue, or is free. *)
LEMMA HoldSignalDequeue == ASSUME HoldInv, SignalDequeue PROVE HoldInv'
<1> DEFINE f == Frame
           s == Frame.s
           n == count[s]
           q == blocked_pids[s]
           h == Cardinality(holders[s])
<1>1. InTask /\ f.at = "signal_dequeue" /\ UNCHANGED <<pid_running, irq, count, holders>>
      /\ blocked_pids' = [blocked_pids EXCEPT ![s] = Dequeued(q)]
  BY DEF SignalDequeue, At, irqVars, taskVars, history
<1>2. /\ IsFrame(f) /\ s \in Semaphores /\ n \in Int /\ q \in Seq(Pids) /\ Len(q) \in Nat
      /\ IsFiniteSet(holders[s]) /\ h \in Nat
      /\ Allows(n - 1, q, h + 1)
  BY <1>1, Working DEF Involved, Admits, Between
<1>3. Only(count, count', s, n) /\ Only(holders, holders', s, holders[s])
  BY <1>1, Keeps DEF HoldInv, SemaphoreTypes
<1>4. Only(blocked_pids, blocked_pids', s, Dequeued(q))
  BY <1>1, <1>2, Replaces DEF HoldInv, SemaphoreTypes
<1>5. CASE q = <<>>
  <2>1. Continue(UserFrame)
    BY <1>5 DEF SignalDequeue, pid_dequeue
  <2>2. Dequeued(q) = q /\ Len(q) = 0
    BY <1>5 DEF Dequeued
  <2>3. Allows(n, q, h)
    <3> HIDE DEF n, q, h
    <3> QED BY <1>2, <2>2, SchedAssumption DEF Allows
  <2>4. Admits(UserFrame, s, n, Dequeued(q), h) /\ IsFrame(UserFrame)
    BY <2>2, <2>3, NoCall DEF Admits, Between, Consists
  <2> QED BY <1>1, <1>2, <1>3, <1>4, <2>1, <2>2, <2>4, Works DEF Involved
<1>6. CASE q # <<>>
  <2> DEFINE g == PutPid(PutAt(Frame, "signal_find"), Head(blocked_pids[Frame.s]))
  <2>1. Head(q) \in Pids /\ Head(q) # NOT_FOUND
    <3>1. Head(q) \in Pids
      BY <1>2, <1>6
    <3> QED BY <3>1, SchedAssumption DEF Pids, NOT_FOUND
  <2>2. pid_dequeue(blocked_pids[Frame.s]) = Head(blocked_pids[Frame.s])
        /\ pid_dequeue(blocked_pids[Frame.s]) # NOT_FOUND
    BY <1>6, <2>1 DEF pid_dequeue
  <2>3. Continue(g)
    BY <2>2, Zenon DEF SignalDequeue, PutPid, PutAt
  <2> HIDE DEF g
  <2>4. IsFrame(g) /\ g.at = "signal_find" /\ g.s = s
    BY <1>2, Put DEF Consists, g
  <2>5. Dequeued(q) = Tail(q) /\ Tail(q) \in Seq(Pids) /\ Len(Tail(q)) = Len(q) - 1 /\ Len(q) # 0
    BY <1>2, <1>6 DEF Dequeued
  <2>6. Allows(n, Tail(q), h + 1)
    <3> HIDE DEF n, q, h
    <3>1. n <= 0 /\ Len(q) = 1 - n /\ h + 1 <= InitCount
      BY <1>2, <2>5, SchedAssumption DEF Allows
    <3>2. Len(Tail(q)) = IF n < 0 THEN -n ELSE 0
      BY <1>2, <2>5, <3>1
    <3> QED BY <1>2, <3>1, <3>2, SchedAssumption DEF Allows
  <2>7. Admits(g, s, n, Dequeued(q), h)
    BY <2>4, <2>5, <2>6 DEF Admits, Between
  <2> QED BY <1>1, <1>2, <1>3, <1>4, <2>3, <2>4, <2>5, <2>7, Works DEF Involved
<1> QED BY <1>5, <1>6

LEMMA HoldSignalFind == ASSUME HoldInv, SignalFind PROVE HoldInv'
<1> DEFINE f == Frame
           g == PutI(PutAt(Frame, "signal_delete"), pid_queue_find(blocked, Frame.pid))
           s == Frame.s
<1>1. InTask /\ f.at = "signal_find" /\ UNCHANGED <<pid_running, irq, count, blocked_pids, holders>>
  BY DEF SignalFind, At, vars, history
<1>2. Continue(g)
  BY Zenon DEF SignalFind, PutI, PutAt
<1> HIDE DEF g
<1>3. /\ IsFrame(f) /\ s \in Semaphores /\ count[s] \in Int /\ blocked_pids[s] \in Seq(Pids)
      /\ IsFiniteSet(holders[s])
      /\ Admits(f, s, count[s], blocked_pids[s], Cardinality(holders[s]))
  BY <1>1, Working DEF Involved
<1>4. IsFrame(g) /\ g.at = "signal_delete" /\ g.s = s
  BY <1>3, Put DEF Consists, g
<1>5. Admits(g, s, count[s], blocked_pids[s], Cardinality(holders[s]))
  BY <1>1, <1>3, <1>4 DEF Admits, Between
<1>6. /\ Only(count, count', s, count[s]) /\ Only(holders, holders', s, holders[s])
      /\ Only(blocked_pids, blocked_pids', s, blocked_pids[s])
  BY <1>1, Keeps DEF HoldInv, SemaphoreTypes
<1> QED BY <1>1, <1>2, <1>3, <1>4, <1>5, <1>6, Works DEF Involved

LEMMA HoldSignalDelete == ASSUME HoldInv, SignalDelete PROVE HoldInv'
<1> DEFINE f == Frame
           g == PutI(PutAt(Frame, "signal_ready"), NOT_FOUND)
           s == Frame.s
<1>1. InTask /\ f.at = "signal_delete"
      /\ UNCHANGED <<pid_running, irq, count, blocked_pids, holders>>
  BY DEF SignalDelete, At, irqVars, semVars, history
<1>2. /\ IsFrame(f) /\ s \in Semaphores /\ count[s] \in Int /\ blocked_pids[s] \in Seq(Pids)
      /\ IsFiniteSet(holders[s])
      /\ Admits(f, s, count[s], blocked_pids[s], Cardinality(holders[s]))
  BY <1>1, Working DEF Involved
<1>3. CASE UNCHANGED frame
  <2>1. Frame' = Frame
    BY <1>1, <1>3 DEF Frame
  <2> QED BY <1>1, <1>3, <2>1 DEF HoldInv, CallsMasked, SemaphoreTypes, SemaphoresAdmit
<1>4. CASE ~UNCHANGED frame
  <2>1. Continue(g)
    BY <1>4, Zenon DEF SignalDelete, PutI, PutAt
  <2> HIDE DEF g
  <2>2. IsFrame(g) /\ g.at = "signal_ready" /\ g.s = s
    BY <1>2, Put DEF Consists, g
  <2>3. Admits(g, s, count[s], blocked_pids[s], Cardinality(holders[s]))
    BY <1>1, <1>2, <2>2 DEF Admits, Between
  <2>4. /\ Only(count, count', s, count[s]) /\ Only(holders, holders', s, holders[s])
        /\ Only(blocked_pids, blocked_pids', s, blocked_pids[s])
    BY <1>1, Keeps DEF HoldInv, SemaphoreTypes
  <2> QED BY <1>1, <1>2, <2>1, <2>2, <2>3, <2>4, Works DEF Involved
<1> QED BY <1>3, <1>4

(* The task that was woken takes the place. *)
LEMMA HoldSignalReady == ASSUME HoldInv, SignalReady PROVE HoldInv'
<1> DEFINE f == Frame
           s == Frame.s
           n == count[s]
           q == blocked_pids[s]
           h == Cardinality(holders[s])
           H == holders[s] \cup {Frame.pid}
           k == Cardinality(H)
<1>1. InTask /\ f.at = "signal_ready" /\ UNCHANGED <<pid_running, irq, count, blocked_pids>>
      /\ Continue(UserFrame) /\ holders' = [holders EXCEPT ![s] = H]
  BY DEF SignalReady, At, irqVars, semVars
<1>2. /\ s \in Semaphores /\ n \in Int /\ q \in Seq(Pids) /\ IsFiniteSet(holders[s]) /\ h \in Nat
      /\ Allows(n, q, h + 1)
  BY <1>1, Working DEF Involved, Admits, Between
<1>3. IsFiniteSet(H) /\ k \in Nat /\ k <= h + 1
  BY <1>2, OneMore
<1> HIDE DEF H
<1>4. /\ Only(count, count', s, n) /\ Only(blocked_pids, blocked_pids', s, q)
      /\ Only(holders, holders', s, H)
  BY <1>1, <1>2, Keeps, Replaces DEF HoldInv, SemaphoreTypes
<1>5. Allows(n, q, k)
  <2> HIDE DEF n, q, h, k
  <2> QED BY <1>2, <1>3, SchedAssumption DEF Allows
<1>6. Admits(UserFrame, s, n, q, k) /\ IsFrame(UserFrame)
  BY <1>5, NoCall DEF Admits, Between, Consists
<1> QED BY <1>1, <1>2, <1>3, <1>4, <1>6, Works DEF Involved

(* The steps of the other calls, of schedule and of switch_to. *)
LEMMA Passes ==
  ASSUME HoldInv, InTask, Frame.at \notin Involved, NEW g, Continue(g), IsFrame(g),
         g = UserFrame \/ g.at \notin Involved \cup {"user", "wait"},
         UNCHANGED <<pid_running, irq, count, blocked_pids, holders>>
  PROVE  HoldInv'
<1>1. IdleOrIn(g) /\ g.at \notin Involved
  BY NoCall DEF IdleOrIn, Consists, Involved
<1>2. CallsMasked' /\ Frame' = g
  BY <1>1, Continues DEF HoldInv
<1> QED BY <1>1, <1>2, Elsewhere

LEMMA HoldOthers ==
  ASSUME HoldInv,
         SleepSet \/ ExitClear \/ CreateFind \/ CreateInstall \/ ScheduleReset \/ SwitchLeave
  PROVE  HoldInv'
<1>1. /\ InTask
      /\ Frame.at \in {"sleep", "exit", "create", "create_gdt", "schedule", "leave"}
      /\ UNCHANGED <<pid_running, irq, count, blocked_pids, holders>>
  BY DEF SleepSet, ExitClear, CreateFind, CreateInstall, ScheduleReset, SwitchLeave, At, irqVars,
         semVars, taskVars, vars, history
<1>2. IsFrame(Frame)
  BY <1>1 DEF HoldInv, CallsMasked, InTask, Frame, IdleOrIn
<1>3. ASSUME NEW x, x \notin Involved \cup {"user", "wait"}
      PROVE  /\ Continue(PutReason(PutAt(UserFrame, x), "TASK_SLEEP")) => HoldInv'
             /\ Continue(PutReason(PutAt(UserFrame, x), "TASK_EXIT")) => HoldInv'
  <2>1. /\ IsFrame(PutReason(PutAt(UserFrame, x), "TASK_SLEEP"))
        /\ PutReason(PutAt(UserFrame, x), "TASK_SLEEP").at = x
        /\ IsFrame(PutReason(PutAt(UserFrame, x), "TASK_EXIT"))
        /\ PutReason(PutAt(UserFrame, x), "TASK_EXIT").at = x
    BY NoCall, Put DEF Consists
  <2> QED BY <1>1, <1>3, <2>1, Passes DEF Involved
<1>4. ASSUME NEW x, x \notin Involved \cup {"user", "wait"}
      PROVE  /\ Continue(PutAt(Frame, x)) => HoldInv'
             /\ \A p : Continue(PutPid(PutAt(Frame, x), p)) => HoldInv'
  <2>1. /\ IsFrame(PutAt(Frame, x)) /\ PutAt(Frame, x).at = x
        /\ \A p : IsFrame(PutPid(PutAt(Frame, x), p)) /\ PutPid(PutAt(Frame, x), p).at = x
    BY <1>2, Put DEF Consists
  <2> QED BY <1>1, <1>4, <2>1, Passes DEF Involved
<1>5. CASE SleepSet
  <2>1. Continue(PutReason(PutAt(UserFrame, "schedule"), "TASK_SLEEP"))
    BY <1>5, Zenon DEF SleepSet, Schedule, PutReason, PutAt
  <2> QED BY <1>3, <2>1 DEF Involved
<1>6. CASE ExitClear
  <2>1. Continue(PutReason(PutAt(UserFrame, "schedule"), "TASK_EXIT"))
    BY <1>6, Zenon DEF ExitClear, Schedule, PutReason, PutAt
  <2> QED BY <1>3, <2>1 DEF Involved
<1>7. CASE CreateFind
  <2>1. PICK p : Continue(PutPid(PutAt(Frame, "create_gdt"), p))
    BY <1>7, Zenon DEF CreateFind, PutPid, PutAt
  <2> QED BY <1>4, <2>1 DEF Involved
<1>8. CASE CreateInstall
  <2>1. Continue(PutAt(Frame, "create_ready"))
    BY <1>8, Zenon DEF CreateInstall, PutAt
  <2> QED BY <1>4, <2>1 DEF Involved
<1>9. CASE ScheduleReset
  <2>1. Continue(PutAt(Frame, "dequeue"))
    BY <1>9, Zenon DEF ScheduleReset, PutAt
  <2> QED BY <1>4, <2>1 DEF Involved
<1>10. CASE SwitchLeave
  <2>1. Continue(PutAt(Frame, "switch"))
    BY <1>10, Zenon DEF SwitchLeave, PutAt
  <2> QED BY <1>4, <2>1 DEF Involved
<1> QED BY <1>5, <1>6, <1>7, <1>8, <1>9, <1>10

LEMMA HoldDequeue == ASSUME HoldInv, ScheduleDequeue PROVE HoldInv'
<1> DEFINE g == PutPid(PutAt(Frame, "leave"), pid_dequeue(ready))
<1>1. /\ InTask /\ Frame.at = "dequeue"
      /\ UNCHANGED <<pid_running, irq, count, blocked_pids, holders>>
  BY DEF ScheduleDequeue, At, irqVars, semVars, history
<1>2. IsFrame(Frame)
  BY <1>1 DEF HoldInv, CallsMasked, InTask, Frame, IdleOrIn
<1>3. UNCHANGED frame \/ Continue(UserFrame) \/ Continue(g)
  BY Zenon DEF ScheduleDequeue, PutPid, PutAt
<1> HIDE DEF g
<1>4. IsFrame(g) /\ g.at = "leave" /\ IsFrame(UserFrame)
  BY <1>2, NoCall, Put DEF Consists, g
<1>5. CASE UNCHANGED frame
  <2>1. Frame' = Frame
    BY <1>1, <1>5 DEF Frame
  <2> QED BY <1>1, <1>5, <2>1 DEF HoldInv, CallsMasked, SemaphoreTypes, SemaphoresAdmit
<1>6. CASE Continue(UserFrame) \/ Continue(g)
  BY <1>1, <1>4, <1>6, Passes DEF Involved
<1> QED BY <1>3, <1>5, <1>6

LEMMA HoldCreateReady == ASSUME HoldInv, CreateReady PROVE HoldInv'
<1>1. /\ InTask /\ Frame.at = "create_ready"
      /\ UNCHANGED <<pid_running, irq, count, blocked_pids, holders>>
      /\ frame' = [p \in Pids |-> IF p \in {pid_running, Frame.pid} THEN UserFrame ELSE frame[p]]
  BY DEF CreateReady, At, irqVars, semVars, history
<1>2. IdleOrIn(UserFrame) /\ UserFrame.at = "user"
  BY NoCall DEF IdleOrIn, Consists, Involved
<1>3. Frame' = UserFrame
  BY <1>1 DEF Frame
<1>4. CallsMasked'
  BY <1>1, <1>2, <1>3 DEF HoldInv, CallsMasked
<1> QED BY <1>1, <1>2, <1>3, <1>4, Elsewhere DEF Involved

(* Whoever runs next is outside the kernel. *)
LEMMA HoldSwitchRun == ASSUME HoldInv, SwitchRun PROVE HoldInv'
<1>1. /\ InTask /\ Frame.at = "switch" /\ frame' = [frame EXCEPT ![pid_running] = UserFrame]
      /\ UNCHANGED <<irq, count, blocked_pids, holders>>
  BY DEF SwitchRun, At, irqVars, semVars, history, Continue
<1>2. IdleOrIn(UserFrame) /\ UserFrame.at = "user"
  BY NoCall DEF IdleOrIn, Consists, Involved
<1>3. DOMAIN frame' = Pids /\ \A p \in Pids : frame'[p] = UserFrame
  BY <1>1 DEF HoldInv, CallsMasked, InTask
<1>4. Frame' = UserFrame
  BY <1>3 DEF Frame
<1>5. CallsMasked'
  BY <1>1, <1>2, <1>3, <1>4 DEF CallsMasked
<1> QED BY <1>1, <1>2, <1>4, <1>5, Elsewhere DEF Involved

LEMMA HoldNext == ASSUME Masked, HoldInv, [PreemptNext]_pvars PROVE HoldInv'
<1>1. CASE TimerStep
  BY <1>1, HoldTimer
<1>2. CASE \E s \in Semaphores : CallSignal(s)
  BY <1>2, HoldSignal
<1>3. CASE \/ \E s \in Semaphores : CallWait(s)
           \/ \E counter \in SleepArgs : CallSleep(counter)
           \/ CallExit
           \/ CallCreate
  BY <1>3, HoldCalls
<1>4. CASE CallStep
  BY <1>4, HoldWaitLoad, HoldWaitStore, HoldWaitTest, HoldWaitEnqueue, HoldSignalLoad,
     HoldSignalStore, HoldSignalDequeue, HoldSignalFind, HoldSignalDelete, HoldSignalReady,
     HoldOthers, HoldDequeue, HoldCreateReady, HoldSwitchRun
     DEF CallStep
<1>5. CASE UNCHANGED pvars
  <2>1. UNCHANGED <<frame, holders, pid_running, irq, count, blocked_pids>>
    BY <1>5 DEF pvars, vars
  <2>2. Frame' = Frame
    BY <2>1 DEF Frame
  <2> QED BY <2>1, <2>2 DEF HoldInv, CallsMasked, SemaphoreTypes, SemaphoresAdmit
<1> QED BY <1>1, <1>2, <1>3, <1>4, <1>5 DEF PreemptNext

(* Whatever the count, no more tasks are in than semaphore_init let in. *)
LEMMA HoldSafe == ASSUME HoldInv PROVE MutualExclusion
<1> SUFFICES ASSUME NEW s \in Semaphores
             PROVE  Cardinality(holders[s]) <= InitCount
  BY DEF MutualExclusion
<1> DEFINE h == Cardinality(holders[s])
           n == count[s]
<1>1. h \in Nat /\ n \in Int
  BY FS_CardinalityType DEF HoldInv, SemaphoreTypes
<1>2. Admits(Frame, s, n, blocked_pids[s], h)
  BY DEF HoldInv, SemaphoresAdmit
<1>3. \E m \in Int : Allows(m, blocked_pids[s], h) \/ Allows(m, blocked_pids[s], h + 1)
  BY <1>1, <1>2 DEF Admits
<1> HIDE DEF h
<1>4. h <= InitCount
  BY <1>1, <1>3, SchedAssumption DEF Allows
<1> QED BY <1>4 DEF h

(***************************************************************************)
(* semaphore.c with interrupts masked during wait and signal, statement by *)
(* statement: a semaphore never admits more tasks than semaphore_init      *)
(* said, for every number of tasks, of semaphores and every initial count, *)
(* although the place a signal gives up is handed to a task that is only   *)
(* ready.  (The kernel as it is does not mask them: run preempt_lock.)     *)
(***************************************************************************)
THEOREM SemaphoresExclude ==
  ASSUME Masked
  PROVE  PreemptSpec => []MutualExclusion
<1>1. PreemptInit => HoldInv
  BY HoldInit
<1>2. HoldInv /\ [PreemptNext]_pvars => HoldInv'
  BY HoldNext
<1>3. HoldInv => MutualExclusion
  BY HoldSafe
<1> QED BY <1>1, <1>2, <1>3, PTL DEF PreemptSpec
-----------------------------------------------------------------------------
(***************************************************************************)
(* That Preempt implements Sched.  What a call has done since it began, at *)
(* the statement of frame f, in terms of the variables as they were then.  *)
(***************************************************************************)
SleepSame ==
  /\ wakeup_counter = before.wakeup_counter
  /\ asked = before.asked
  /\ slept = before.slept
SemSame == count = before.count /\ blocked_pids = before.blocked_pids
GdtSame == gdt = before.gdt /\ free_pages = before.free_pages

Scheduling == {"schedule", "dequeue", "leave", "switch"}

Slept(counter) ==
  /\ wakeup_counter = [before.wakeup_counter EXCEPT ![pid_running] = counter]
  /\ asked = [before.asked EXCEPT ![pid_running] = counter]
  /\ slept = [before.slept EXCEPT ![pid_running] = 0]

Queued(s) ==
  /\ MustBlock(before.count[s] - 1)
  /\ count = [before.count EXCEPT ![s] = @ - 1]
  /\ blocked_pids = [before.blocked_pids EXCEPT ![s] = pid_enqueue(@, pid_running)]

(* What sys_sleep, sys_exit and wait do before they call schedule. *)
Gave(reason) ==
  \/ /\ reason = "TASK_SLEEP" /\ SemSame /\ GdtSame
     /\ \E counter \in SleepArgs : Slept(counter)
  \/ /\ reason = "TASK_EXIT" /\ SemSame /\ SleepSame
     /\ gdt = before.gdt \ {pid_running} /\ free_pages = before.free_pages
  \/ /\ reason = "TASK_BLOCKED" /\ SleepSame /\ GdtSame
     /\ \E s \in Semaphores : Queued(s)

SinceWait(f) ==
  /\ f.at \in {"wait_test", "wait_enqueue"} =>
       /\ count = [before.count EXCEPT ![f.s] = @ - 1]
       /\ blocked_pids = before.blocked_pids
  /\ f.at = "wait_enqueue" => MustBlock(count[f.s])

SinceSignal(f) ==
  /\ f.at \in {"signal_dequeue", "signal_find", "signal_delete", "signal_ready"} =>
       count = [before.count EXCEPT ![f.s] = @ + 1]
  /\ f.at = "signal_dequeue" => blocked_pids = before.blocked_pids
  /\ f.at \in {"signal_find", "signal_delete", "signal_ready"} =>
       /\ blocked_pids = [before.blocked_pids EXCEPT ![f.s] = Dequeued(@)]
       /\ f.pid = pid_dequeue(before.blocked_pids[f.s])
       /\ f.pid # NOT_FOUND
  /\ f.at = "signal_delete" => f.i = pid_queue_find(before.blocked, f.pid)
  /\ f.at = "signal_ready" =>
       /\ pid_queue_find(before.blocked, f.pid) # NOT_FOUND
       /\ blocked = pid_queue_delete(before.blocked, pid_queue_find(before.blocked, f.pid))

SinceCreate(f) ==
  /\ f.at \in {"create", "create_gdt", "create_ready"} =>
       before.free_pages > 0 /\ ~(Pids \subseteq before.gdt)
  /\ f.at \in {"create_gdt", "create_ready"} =>
       f.pid \in Pids \ before.gdt /\ \A q \in Pids \ before.gdt : f.pid <= q
  /\ f.at = "create_ready" =>
       /\ gdt = before.gdt \cup ({f.pid} \cap Pids)
       /\ free_pages = before.free_pages - 1

SinceSchedule(f) ==
  /\ f.at = "sleep" => f.val \in SleepArgs
  /\ f.at \in Scheduling => Gave(f.reason)
  /\ f.at \in Scheduling \ {"schedule"} => schdule_counter = TIME_PIECE
  /\ f.at \in {"leave", "switch"} =>
       /\ ready = Dequeued(before.ready)
       /\ f.pid = pid_dequeue(before.ready)
       /\ f.pid \notin {NOT_FOUND, pid_running}
  /\ f.at = "switch" =>
       /\ state = [before.state EXCEPT ![pid_running] =
                     IF f.reason = "TASK_EXIT" THEN @ ELSE StateAfter(f.reason)]
       /\ blocked = Joined(before.blocked, f.reason = "TASK_BLOCKED")
       /\ sleeping = Joined(before.sleeping, f.reason = "TASK_SLEEP")

(* What it has not changed yet. *)
Untouched(f) ==
  /\ f.at # "switch" => state = before.state /\ sleeping = before.sleeping
  /\ f.at \notin {"switch", "signal_ready"} => blocked = before.blocked
  /\ f.at \notin {"leave", "switch"} => ready = before.ready
  /\ f.at \notin {"dequeue", "leave", "switch"} => schdule_counter = before.schdule_counter
  /\ f.at \notin Scheduling => SleepSame
  /\ f.at \notin Scheduling \cup {"create_ready"} => GdtSame
  /\ f.at \notin Scheduling \cup (Involved \ {"signal", "signal_store", "wait_store"}) => SemSame

Since(f) == SinceWait(f) /\ SinceSignal(f) /\ SinceCreate(f) /\ SinceSchedule(f) /\ Untouched(f)

(* A call that has ended in a _DEBUG loop never ends. *)
CallsTraced ==
  Frame.at # "user" =>
    /\ before.pid_running = pid_running
    /\ before.panic = "none"
    /\ panic = "none" => Since(Frame)

(* The theorems of SchedProofs about what Sched sees of a call. *)
AtomicProofs == INSTANCE SchedProofs WITH
  gdt <- Seen(gdt, before.gdt),
  state <- Seen(state, before.state),
  wakeup_counter <- Seen(wakeup_counter, before.wakeup_counter),
  ready <- Seen(ready, before.ready),
  blocked <- Seen(blocked, before.blocked),
  sleeping <- Seen(sleeping, before.sleeping),
  pid_running <- Seen(pid_running, before.pid_running),
  schdule_counter <- Seen(schdule_counter, before.schdule_counter),
  count <- Seen(count, before.count),
  blocked_pids <- Seen(blocked_pids, before.blocked_pids),
  free_pages <- Seen(free_pages, before.free_pages),
  panic <- Seen(panic, before.panic),
  asked <- Seen(asked, before.asked),
  slept <- Seen(slept, before.slept)

(* The invariant of the refinement. *)
RefInv == HoldInv /\ AtomicProofs!IInv /\ CallsTraced

(* Sched sees the variables as they are, or as they were. *)
ShowsNow ==
  /\ Seen(gdt, before.gdt) = gdt
  /\ Seen(state, before.state) = state
  /\ Seen(wakeup_counter, before.wakeup_counter) = wakeup_counter
  /\ Seen(ready, before.ready) = ready
  /\ Seen(blocked, before.blocked) = blocked
  /\ Seen(sleeping, before.sleeping) = sleeping
  /\ Seen(pid_running, before.pid_running) = pid_running
  /\ Seen(schdule_counter, before.schdule_counter) = schdule_counter
  /\ Seen(count, before.count) = count
  /\ Seen(blocked_pids, before.blocked_pids) = blocked_pids
  /\ Seen(free_pages, before.free_pages) = free_pages
  /\ Seen(panic, before.panic) = panic
  /\ Seen(asked, before.asked) = asked
  /\ Seen(slept, before.slept) = slept

ShowsBefore ==
  /\ Seen(gdt, before.gdt) = before.gdt
  /\ Seen(state, before.state) = before.state
  /\ Seen(wakeup_counter, before.wakeup_counter) = before.wakeup_counter
  /\ Seen(ready, before.ready) = before.ready
  /\ Seen(blocked, before.blocked) = before.blocked
  /\ Seen(sleeping, before.sleeping) = before.sleeping
  /\ Seen(pid_running, before.pid_running) = before.pid_running
  /\ Seen(schdule_counter, before.schdule_counter) = before.schdule_counter
  /\ Seen(count, before.count) = before.count
  /\ Seen(blocked_pids, before.blocked_pids) = before.blocked_pids
  /\ Seen(free_pages, before.free_pages) = before.free_pages
  /\ Seen(panic, before.panic) = before.panic
  /\ Seen(asked, before.asked) = before.asked
  /\ Seen(slept, before.slept) = before.slept

LEMMA Shows ==
  /\ Frame.at = "user" => ShowsNow
  /\ Frame.at # "user" => ShowsBefore
  /\ Frame'.at = "user" => ShowsNow'
  /\ Frame'.at # "user" => ShowsBefore'
BY DEF ShowsNow, ShowsBefore, Seen

(* Sched's operators are those of the instance. *)
LEMMA SameOperators ==
  /\ Atomic!Pids = Pids /\ Atomic!NOT_FOUND = NOT_FOUND /\ Atomic!Idle = Idle
  /\ \A q, x : /\ Atomic!pid_enqueue(q, x) = pid_enqueue(q, x)
              /\ Atomic!pid_queue_find(q, x) = pid_queue_find(q, x)
              /\ Atomic!pid_queue_delete(q, x) = pid_queue_delete(q, x)
  /\ \A q : /\ Atomic!pid_dequeue(q) = pid_dequeue(q)
            /\ Atomic!Dequeued(q) = Dequeued(q)
            /\ Atomic!Elements(q) = Elements(q)
            /\ Atomic!StateAfter(q) = StateAfter(q)
<1>1. Atomic!Pids = Pids
  BY DEF Atomic!Pids, Pids
<1>2. Atomic!NOT_FOUND = NOT_FOUND
  BY DEF Atomic!NOT_FOUND, NOT_FOUND
<1>3. Atomic!Idle = Idle
  BY DEF Atomic!Idle, Idle
<1>4. \A q, x : Atomic!pid_enqueue(q, x) = pid_enqueue(q, x)
  BY DEF Atomic!pid_enqueue, pid_enqueue
<1>5. \A q, x : Atomic!pid_queue_find(q, x) = pid_queue_find(q, x)
  BY <1>2 DEF Atomic!pid_queue_find, pid_queue_find
<1>6. \A q, x : Atomic!pid_queue_delete(q, x) = pid_queue_delete(q, x)
  BY DEF Atomic!pid_queue_delete, pid_queue_delete, Atomic!Dropped, Dropped
<1>7. \A q : Atomic!pid_dequeue(q) = pid_dequeue(q)
  BY <1>2 DEF Atomic!pid_dequeue, pid_dequeue
<1>8. \A q : Atomic!Dequeued(q) = Dequeued(q)
  BY DEF Atomic!Dequeued, Dequeued
<1>9. \A q : Atomic!Elements(q) = Elements(q)
  BY DEF Atomic!Elements, Elements
<1>10. \A r : Atomic!StateAfter(r) = StateAfter(r)
  BY DEF Atomic!StateAfter, StateAfter
<1> QED BY <1>1, <1>2, <1>3, <1>4, <1>5, <1>6, <1>7, <1>8, <1>9, <1>10

(* The timer interrupt outside calls. *)
LEMMA OnTimerShown == ASSUME ShowsNow, ShowsNow', OnTimer PROVE Atomic!OnTimer
BY SameOperators DEF OnTimer, Atomic!OnTimer, ShowsNow

LEMMA CheckWakeupShown == ASSUME ShowsNow, ShowsNow', CheckWakeup PROVE Atomic!CheckWakeup
BY SameOperators DEF CheckWakeup, Atomic!CheckWakeup, ShowsNow, MakeReady, Atomic!MakeReady,
   AfterDelete, Atomic!AfterDelete, Decremented, Atomic!Decremented

LEMMA CheckScheduleShown == ASSUME ShowsNow, ShowsNow', CheckSchedule PROVE Atomic!CheckSchedule
BY SameOperators DEF CheckSchedule, Atomic!CheckSchedule, ShowsNow, schedule, Atomic!schedule,
   switch_to, Atomic!switch_to, Joined, Atomic!Joined, TimePieceOver, Atomic!TimePieceOver

LEMMA NotAPid == NOT_FOUND \notin Pids
<1>1. AtomicProofs!NOT_FOUND \notin AtomicProofs!Pids
  BY AtomicProofs!PidFacts, SchedAssumption, CreateAssumption
<1>2. AtomicProofs!NOT_FOUND = NOT_FOUND
  BY DEF AtomicProofs!NOT_FOUND, NOT_FOUND
<1>3. AtomicProofs!Pids = Pids
  BY DEF AtomicProofs!Pids, Pids
<1> QED BY <1>1, <1>2, <1>3

(* A step inside a call, and the step that enters one, are invisible. *)
LEMMA Hidden ==
  ASSUME Frame.at # "user", Frame'.at # "user", UNCHANGED <<before, irq, wake_i>>
  PROVE  UNCHANGED Atomic!vars
BY Shows DEF ShowsBefore, Atomic!vars

LEMMA Entered ==
  ASSUME Frame.at = "user", Frame'.at # "user", before' = Snapshot, UNCHANGED <<irq, wake_i>>
  PROVE  UNCHANGED Atomic!vars
BY Shows DEF ShowsNow, ShowsBefore, Snapshot, Atomic!vars

LEMMA Inside ==
  ASSUME CallsTraced, InTask, Frame.at # "user", Frame'.at # "user",
         UNCHANGED <<before, pid_running, irq, wake_i>>, panic' = "none" => Since(Frame)'
  PROVE  CallsTraced' /\ UNCHANGED Atomic!vars
BY Hidden DEF CallsTraced

LEMMA Moves ==
  ASSUME HoldInv, InTask, NEW g, Continue(g), UNCHANGED pid_running
  PROVE  Frame' = g
BY DEF HoldInv, CallsMasked, InTask, Continue, Frame

(* What is known at a statement of a call. *)
LEMMA Tracing ==
  ASSUME HoldInv, CallsTraced, InTask, Frame.at # "user"
  PROVE  /\ IsFrame(Frame) /\ before.pid_running = pid_running /\ before.panic = "none"
         /\ Since(Frame)
BY DEF HoldInv, CallsMasked, InTask, IdleOrIn, CallsTraced, Frame

LEMMA StepEnter ==
  ASSUME Masked, HoldInv, NEW f, Enter(f), f.at # "user",
         f.at \in {"wait", "signal", "sleep", "exit", "create"},
         f.at = "sleep" => f.val \in SleepArgs,
         f.at = "create" => free_pages > 0 /\ ~(Pids \subseteq gdt)
  PROVE  CallsTraced' /\ UNCHANGED Atomic!vars
<1>1. /\ InTask /\ Frame.at = "user" /\ Continue(f) /\ before' = Snapshot
      /\ UNCHANGED vars
  BY DEF Enter, At
<1>2. Frame' = f
  BY <1>1, Moves DEF vars
<1>3. before'.pid_running = pid_running' /\ before'.panic = "none"
  BY <1>1 DEF Snapshot, vars, InTask
<1>4. SinceWait(Frame)' /\ SinceSignal(Frame)'
  BY <1>2 DEF SinceWait, SinceSignal
<1>5. SinceCreate(Frame)' /\ SinceSchedule(Frame)'
  BY <1>1, <1>2 DEF SinceCreate, SinceSchedule, Scheduling, Snapshot, vars
<1>6. Untouched(Frame)'
  BY <1>1 DEF Untouched, Snapshot, vars, SleepSame, SemSame, GdtSame
<1>7. UNCHANGED Atomic!vars
  BY <1>1, <1>2, Entered DEF vars
<1> QED BY <1>3, <1>4, <1>5, <1>6, <1>7 DEF CallsTraced, Since

LEMMA StepEnters ==
  ASSUME Masked, HoldInv,
         \/ \E s \in Semaphores : CallWait(s) \/ CallSignal(s)
         \/ \E counter \in SleepArgs : CallSleep(counter)
         \/ CallExit
         \/ CallCreate
  PROVE  CallsTraced' /\ UNCHANGED Atomic!vars
<1>1. ASSUME NEW x
      PROVE  /\ PutAt(UserFrame, x).at = x
             /\ \A s : PutS(PutAt(UserFrame, x), s).at = x
             /\ \A v : /\ PutVal(PutAt(UserFrame, x), v).at = x
                       /\ PutVal(PutAt(UserFrame, x), v).val = v
  BY NoCall, Put DEF Consists
<1>2. CASE \E s \in Semaphores : CallWait(s) \/ CallSignal(s)
  <2>1. PICK s : \/ Enter(PutS(PutAt(UserFrame, "wait"), s))
                 \/ Enter(PutS(PutAt(UserFrame, "signal"), s))
    BY <1>2, Zenon DEF CallWait, CallSignal, PutS, PutAt
  <2> QED BY <1>1, <2>1, StepEnter
<1>3. CASE \E counter \in SleepArgs : CallSleep(counter)
  <2>1. PICK counter \in SleepArgs : Enter(PutVal(PutAt(UserFrame, "sleep"), counter))
    BY <1>3, Zenon DEF CallSleep, PutVal, PutAt
  <2> QED BY <1>1, <2>1, StepEnter
<1>4. CASE CallExit
  <2>1. Enter(PutAt(UserFrame, "exit"))
    BY <1>4, Zenon DEF CallExit, PutAt
  <2> QED BY <1>1, <2>1, StepEnter
<1>5. CASE CallCreate
  <2>1. Enter(PutAt(UserFrame, "create")) /\ free_pages > 0 /\ ~(Pids \subseteq gdt)
    BY <1>5, Zenon DEF CallCreate, PutAt
  <2> QED BY <1>1, <2>1, StepEnter
<1> QED BY <1>2, <1>3, <1>4, <1>5
(* wait. *)
LEMMA StepWaitLoad ==
  ASSUME HoldInv, CallsTraced, WaitLoad PROVE CallsTraced' /\ UNCHANGED Atomic!vars
<1> DEFINE g == PutVal(PutAt(Frame, "wait_store"), count[Frame.s])
<1>1. InTask /\ Frame.at = "wait" /\ UNCHANGED vars /\ UNCHANGED before
  BY DEF WaitLoad, At, history
<1>2. Continue(g)
  BY Zenon DEF WaitLoad, PutVal, PutAt
<1> HIDE DEF g
<1>3. IsFrame(Frame) /\ Since(Frame)
  BY <1>1, Tracing
<1>4. g.at = "wait_store" /\ Frame' = g
  BY <1>1, <1>2, <1>3, Put, Moves DEF Consists, g, vars
<1>5. Since(Frame)'
  BY <1>1, <1>3, <1>4 DEF Since, SinceWait, SinceSignal, SinceCreate, SinceSchedule, Scheduling,
     Untouched, Involved, vars, SleepSame, SemSame, GdtSame
<1> QED BY <1>1, <1>4, <1>5, Inside DEF vars

LEMMA StepWaitStore ==
  ASSUME HoldInv, CallsTraced, WaitStore PROVE CallsTraced' /\ UNCHANGED Atomic!vars
<1> DEFINE g == PutVal(PutAt(Frame, "wait_test"), 0)
<1>1. /\ InTask /\ Frame.at = "wait_store"
      /\ count' = [count EXCEPT ![Frame.s] = Frame.val - 1]
      /\ UNCHANGED <<irq, wake_i, blocked_pids, wakeup_counter, asked, slept, gdt, state,
                     pid_running, schdule_counter, free_pages, ready, blocked, sleeping, before>>
  BY DEF WaitStore, At, irqVars, sleepVars, taskVars, queueVars, history
<1>2. Continue(g)
  BY Zenon DEF WaitStore, PutVal, PutAt
<1> HIDE DEF g
<1>3. IsFrame(Frame) /\ Since(Frame)
  BY <1>1, Tracing
<1>4. g.at = "wait_test" /\ g.s = Frame.s /\ Frame' = g
  BY <1>1, <1>2, <1>3, Put, Moves DEF Consists, g
<1>5. Frame.s \in Semaphores /\ Frame.val = count[Frame.s]
  BY <1>1, Working DEF Involved, Admits, Between
<1>6. SinceWait(Frame)'
  BY <1>1, <1>3, <1>4, <1>5 DEF Since, Untouched, Scheduling, Involved, SemSame, SinceWait
<1>7. SinceSignal(Frame)' /\ SinceCreate(Frame)' /\ SinceSchedule(Frame)'
  BY <1>4 DEF SinceSignal, SinceCreate, SinceSchedule, Scheduling
<1>8. Untouched(Frame)'
  BY <1>1, <1>3, <1>4 DEF Since, Untouched, Scheduling, Involved, SleepSame, GdtSame
<1> QED BY <1>1, <1>4, <1>6, <1>7, <1>8, Inside DEF Since

LEMMA StepWaitTest ==
  ASSUME HoldInv, CallsTraced, WaitTest PROVE CallsTraced' /\ [Atomic!Next]_(Atomic!vars)
<1> DEFINE g == PutAt(Frame, "wait_enqueue")
           s == Frame.s
<1>1. InTask /\ Frame.at = "wait_test" /\ UNCHANGED vars /\ UNCHANGED before
  BY DEF WaitTest, At
<1>2. IsFrame(Frame) /\ Since(Frame) /\ before.pid_running = pid_running /\ before.panic = "none"
  BY <1>1, Tracing
<1>3. CASE MustBlock(count[s])
  <2>1. Continue(g)
    BY <1>3, Zenon DEF WaitTest, PutAt
  <2> HIDE DEF g
  <2>2. g.at = "wait_enqueue" /\ g.s = s /\ Frame' = g
    BY <1>1, <1>2, <2>1, Put, Moves DEF Consists, g, vars
  <2>3. SinceWait(Frame)'
    BY <1>1, <1>2, <1>3, <2>2 DEF Since, SinceWait, vars
  <2>4. SinceSignal(Frame)' /\ SinceCreate(Frame)' /\ SinceSchedule(Frame)'
    BY <2>2 DEF SinceSignal, SinceCreate, SinceSchedule, Scheduling
  <2>5. Untouched(Frame)'
    BY <1>1, <1>2, <2>2 DEF Since, Untouched, Scheduling, Involved, SleepSame, GdtSame, vars
  <2> QED BY <1>1, <2>2, <2>3, <2>4, <2>5, Inside DEF Since, vars
<1>4. CASE ~MustBlock(count[s])
  <2>1. Continue(UserFrame)
    BY <1>4 DEF WaitTest
  <2>2. Frame' = UserFrame /\ Frame'.at = "user"
    BY <1>1, <2>1, NoCall, Moves DEF Consists, vars
  <2>3. ShowsBefore /\ ShowsNow'
    BY <1>1, <2>2, Shows
  <2>4. s \in Semaphores /\ DOMAIN before.count = Semaphores
        /\ count = [before.count EXCEPT ![s] = before.count[s] - 1]
        /\ count[s] = before.count[s] - 1
    <3>1. s \in Semaphores /\ DOMAIN count = Semaphores
      BY <1>1, Working DEF Involved, HoldInv, SemaphoreTypes
    <3>2. count = [before.count EXCEPT ![s] = before.count[s] - 1]
      BY <1>1, <1>2 DEF Since, SinceWait
    <3> QED BY <3>1, <3>2
  <2>5. Atomic!Wait(s)
    BY <1>1, <1>2, <1>4, <2>3, <2>4, SameOperators
    DEF Atomic!Wait, Atomic!InTask, InTask, Atomic!MustBlock, MustBlock, ShowsBefore, ShowsNow,
       vars,
        Since, SinceWait, Untouched, Scheduling, Involved, SleepSame, GdtSame
  <2> QED BY <2>2, <2>4, <2>5 DEF CallsTraced, Atomic!Next
<1> QED BY <1>3, <1>4

LEMMA StepWaitEnqueue ==
  ASSUME HoldInv, CallsTraced, WaitEnqueue PROVE CallsTraced' /\ UNCHANGED Atomic!vars
<1> DEFINE g == PutReason(PutAt(UserFrame, "schedule"), "TASK_BLOCKED")
<1>0. PICK s : s = Frame.s
  OBVIOUS
<1>1. /\ InTask /\ Frame.at = "wait_enqueue"
      /\ blocked_pids' = [blocked_pids EXCEPT ![s] = pid_enqueue(@, pid_running)]
      /\ UNCHANGED <<irq, wake_i, count, wakeup_counter, asked, slept, gdt, state,
                     pid_running, schdule_counter, free_pages, ready, blocked, sleeping, before>>
  BY <1>0 DEF WaitEnqueue, At, irqVars, sleepVars, taskVars, queueVars, history
<1>2. Continue(g)
  BY Zenon DEF WaitEnqueue, Schedule, PutReason, PutAt
<1> HIDE DEF g
<1>3. IsFrame(Frame) /\ Since(Frame)
  BY <1>1, Tracing
<1>4. g.at = "schedule" /\ g.reason = "TASK_BLOCKED" /\ Frame' = g
  BY <1>1, <1>2, NoCall, Put, Moves DEF Consists, g
<1>5. s \in Semaphores /\ DOMAIN before.count = Semaphores
      /\ count = [before.count EXCEPT ![s] = before.count[s] - 1]
      /\ count[s] = before.count[s] - 1 /\ MustBlock(count[s])
      /\ blocked_pids = before.blocked_pids
  <2>1. s \in Semaphores /\ DOMAIN count = Semaphores
    BY <1>0, <1>1, Working DEF Involved, HoldInv, SemaphoreTypes
  <2>2. count = [before.count EXCEPT ![s] = before.count[s] - 1]
        /\ MustBlock(count[s]) /\ blocked_pids = before.blocked_pids
    BY <1>0, <1>1, <1>3 DEF Since, SinceWait
  <2> QED BY <2>1, <2>2
<1>6. Queued(s)'
  BY <1>1, <1>5 DEF Queued
<1>7. Gave(Frame.reason)'
  BY <1>1, <1>3, <1>4, <1>5, <1>6 DEF Since, Untouched, Scheduling, Involved, Gave, SleepSame,
     GdtSame
<1>8. SinceWait(Frame)' /\ SinceSignal(Frame)' /\ SinceCreate(Frame)' /\ SinceSchedule(Frame)'
  BY <1>4, <1>7 DEF SinceWait, SinceSignal, SinceCreate, SinceSchedule, Scheduling
<1>9. Untouched(Frame)'
  BY <1>1, <1>3, <1>4 DEF Since, Untouched, Scheduling, Involved
<1> QED BY <1>1, <1>4, <1>8, <1>9, Inside DEF Since
(* signal. *)
LEMMA StepSignalLoad ==
  ASSUME HoldInv, CallsTraced, SignalLoad PROVE CallsTraced' /\ UNCHANGED Atomic!vars
<1> DEFINE g == PutVal(PutAt(Frame, "signal_store"), count[Frame.s])
<1>1. InTask /\ Frame.at = "signal" /\ UNCHANGED vars /\ UNCHANGED before
  BY DEF SignalLoad, At, history
<1>2. Continue(g)
  BY Zenon DEF SignalLoad, PutVal, PutAt
<1> HIDE DEF g
<1>3. IsFrame(Frame) /\ Since(Frame)
  BY <1>1, Tracing
<1>4. g.at = "signal_store" /\ Frame' = g
  BY <1>1, <1>2, <1>3, Put, Moves DEF Consists, g, vars
<1>5. Since(Frame)'
  BY <1>1, <1>3, <1>4 DEF Since, SinceWait, SinceSignal, SinceCreate, SinceSchedule, Scheduling,
     Untouched, Involved, vars, SleepSame, SemSame, GdtSame
<1> QED BY <1>1, <1>4, <1>5, Inside DEF vars

LEMMA StepSignalStore ==
  ASSUME HoldInv, CallsTraced, SignalStore PROVE CallsTraced' /\ UNCHANGED Atomic!vars
<1> DEFINE g == PutVal(PutAt(Frame, "signal_dequeue"), 0)
<1>1. /\ InTask /\ Frame.at = "signal_store"
      /\ count' = [count EXCEPT ![Frame.s] = Frame.val + 1]
      /\ UNCHANGED <<irq, wake_i, blocked_pids, wakeup_counter, asked, slept, gdt, state,
                     pid_running, schdule_counter, free_pages, ready, blocked, sleeping, before>>
  BY DEF SignalStore, At, irqVars, sleepVars, taskVars, queueVars, history
<1>2. Continue(g)
  BY Zenon DEF SignalStore, PutVal, PutAt
<1> HIDE DEF g
<1>3. IsFrame(Frame) /\ Since(Frame)
  BY <1>1, Tracing
<1>4. g.at = "signal_dequeue" /\ g.s = Frame.s /\ Frame' = g
  BY <1>1, <1>2, <1>3, Put, Moves DEF Consists, g
<1>5. Frame.s \in Semaphores /\ Frame.val = count[Frame.s]
  BY <1>1, Working DEF Involved, Admits, Between
<1>6. SinceSignal(Frame)'
  BY <1>1, <1>3, <1>4, <1>5 DEF Since, Untouched, Scheduling, Involved, SemSame, SinceSignal
<1>7. SinceWait(Frame)' /\ SinceCreate(Frame)' /\ SinceSchedule(Frame)'
  BY <1>4 DEF SinceWait, SinceCreate, SinceSchedule, Scheduling
<1>8. Untouched(Frame)'
  BY <1>1, <1>3, <1>4 DEF Since, Untouched, Scheduling, Involved, SleepSame, GdtSame
<1> QED BY <1>1, <1>4, <1>6, <1>7, <1>8, Inside DEF Since

(* What is known of the state in which the call under way began. *)
LEMMA BeforeTypes ==
  ASSUME AtomicProofs!IInv, Frame.at # "user"
  PROVE  /\ before.count \in [Semaphores -> Int]
         /\ DOMAIN before.state = Pids
         /\ before.pid_running \in Pids => before.state[before.pid_running] = "RUNNING"
<1>1. ShowsBefore
  BY Shows
<1>2. AtomicProofs!Pids = Pids /\ NOT_FOUND \notin Pids
  <2>1. AtomicProofs!Pids = Pids
    BY DEF AtomicProofs!Pids, Pids
  <2>2. NOT_FOUND \notin Pids
    BY NotAPid
  <2> QED BY <2>1, <2>2
<1>3. AtomicProofs!TypeOK /\ AtomicProofs!RunningMatches
  BY DEF AtomicProofs!IInv, AtomicProofs!QueuesMatchTasks
<1>4. before.count \in [Semaphores -> Int] /\ DOMAIN before.state = Pids
  BY <1>1, <1>2, <1>3 DEF AtomicProofs!TypeOK, ShowsBefore
<1>5. before.pid_running \in Pids => before.state[before.pid_running] = "RUNNING"
  BY <1>1, <1>2, <1>3 DEF AtomicProofs!RunningMatches, AtomicProofs!NOT_FOUND, NOT_FOUND,
     ShowsBefore
<1> QED BY <1>4, <1>5

(* The count that a signal under way has raised was below its bound. *)
LEMMA Raised ==
  ASSUME InitCount <= MaxCount, RefInv, InTask, NEW s, s = Frame.s,
         Frame.at \in {"signal_dequeue", "signal_ready"}
  PROVE  /\ s \in Semaphores /\ DOMAIN before.count = Semaphores
         /\ count = [before.count EXCEPT ![s] = before.count[s] + 1]
         /\ before.count[s] < MaxCount
<1>1. PICK n, q, h : n = count[s] /\ q = blocked_pids[s] /\ h = Cardinality(holders[s])
  OBVIOUS
<1>2. /\ s \in Semaphores /\ DOMAIN count = Semaphores /\ n \in Int /\ h \in Nat
      /\ Admits(Frame, s, n, q, h)
  BY <1>1, Working DEF RefInv, Involved, HoldInv, SemaphoreTypes
<1>3. Allows(n - 1, q, h + 1) \/ Allows(n, q, h + 1)
  BY <1>2 DEF Admits, Between
<1>4. n - 1 < MaxCount
  BY <1>2, <1>3, SchedAssumption DEF Allows
<1>5. count = [before.count EXCEPT ![s] = before.count[s] + 1]
  BY Tracing DEF RefInv, Since, SinceSignal
<1>6. DOMAIN before.count = Semaphores /\ n = before.count[s] + 1
  BY <1>1, <1>2, <1>5
<1>7. before.count[s] \in Int
  BY <1>2, BeforeTypes DEF RefInv
<1> QED BY <1>2, <1>4, <1>5, <1>6, <1>7

LEMMA StepSignalDequeue ==
  ASSUME InitCount <= MaxCount, RefInv, SignalDequeue
  PROVE  CallsTraced' /\ [Atomic!Next]_(Atomic!vars)
<1>0. PICK s, pid : s = Frame.s /\ pid = pid_dequeue(blocked_pids[s])
  OBVIOUS
<1> DEFINE g == PutPid(PutAt(Frame, "signal_find"), pid)
<1>1. /\ InTask /\ Frame.at = "signal_dequeue" /\ HoldInv /\ CallsTraced
      /\ blocked_pids' = [blocked_pids EXCEPT ![s] = Dequeued(@)]
      /\ UNCHANGED <<irq, wake_i, count, wakeup_counter, asked, slept, gdt, state, panic,
                     pid_running, schdule_counter, free_pages, ready, blocked, sleeping, before>>
  BY <1>0 DEF RefInv, SignalDequeue, At, irqVars, sleepVars, taskVars, queueVars, history
<1>2. IF pid = NOT_FOUND THEN Continue(UserFrame) ELSE Continue(g)
  BY <1>0, Zenon DEF SignalDequeue, PutPid, PutAt
<1> HIDE DEF g
<1>3. IsFrame(Frame) /\ Since(Frame) /\ before.pid_running = pid_running /\ before.panic = "none"
  BY <1>1, Tracing
<1>4. blocked_pids = before.blocked_pids
  BY <1>1, <1>3 DEF Since, SinceSignal
<1>5. CASE pid # NOT_FOUND
  <2>1. g.at = "signal_find" /\ g.s = s /\ g.pid = pid /\ Frame' = g
    BY <1>0, <1>1, <1>2, <1>3, <1>5, Put, Moves DEF Consists, g
  <2>2. SinceSignal(Frame)'
    BY <1>0, <1>1, <1>3, <1>4, <1>5, <2>1 DEF Since, SinceSignal
  <2>3. SinceWait(Frame)' /\ SinceCreate(Frame)' /\ SinceSchedule(Frame)'
    BY <2>1 DEF SinceWait, SinceCreate, SinceSchedule, Scheduling
  <2>4. Untouched(Frame)'
    BY <1>1, <1>3, <2>1 DEF Since, Untouched, Scheduling, Involved, SleepSame, GdtSame
  <2> QED BY <1>1, <2>1, <2>2, <2>3, <2>4, Inside DEF Since
<1>6. CASE pid = NOT_FOUND
  <2>1. Frame' = UserFrame /\ Frame'.at = "user"
    BY <1>1, <1>2, <1>6, NoCall, Moves DEF Consists
  <2>2. ShowsBefore /\ ShowsNow'
    BY <1>1, <2>1, Shows
  <2>3. /\ s \in Semaphores /\ before.count[s] < MaxCount
        /\ count = [before.count EXCEPT ![s] = before.count[s] + 1]
    BY <1>0, <1>1, Raised
  <2>4. Atomic!Signal(s)
    BY <1>0, <1>1, <1>3, <1>4, <1>6, <2>2, <2>3, SameOperators
    DEF Atomic!Signal, Atomic!InTask, InTask, ShowsBefore, ShowsNow,
        Since, Untouched, Scheduling, Involved, SleepSame, GdtSame
  <2> QED BY <2>1, <2>3, <2>4 DEF CallsTraced, Atomic!Next
<1> QED BY <1>5, <1>6

LEMMA StepSignalFind ==
  ASSUME HoldInv, CallsTraced, SignalFind PROVE CallsTraced' /\ UNCHANGED Atomic!vars
<1> DEFINE g == PutI(PutAt(Frame, "signal_delete"), pid_queue_find(blocked, Frame.pid))
<1>1. InTask /\ Frame.at = "signal_find" /\ UNCHANGED vars /\ UNCHANGED before
  BY DEF SignalFind, At, history
<1>2. Continue(g)
  BY Zenon DEF SignalFind, PutI, PutAt
<1> HIDE DEF g
<1>3. IsFrame(Frame) /\ Since(Frame)
  BY <1>1, Tracing
<1>4. /\ g.at = "signal_delete" /\ g.s = Frame.s /\ g.pid = Frame.pid
      /\ g.i = pid_queue_find(blocked, Frame.pid) /\ Frame' = g
  BY <1>1, <1>2, <1>3, Put, Moves DEF Consists, g, vars
<1>5. blocked = before.blocked
  BY <1>1, <1>3 DEF Since, Untouched
<1>6. SinceSignal(Frame)'
  BY <1>1, <1>3, <1>4, <1>5 DEF Since, SinceSignal, vars
<1>7. SinceWait(Frame)' /\ SinceCreate(Frame)' /\ SinceSchedule(Frame)'
  BY <1>4 DEF SinceWait, SinceCreate, SinceSchedule, Scheduling
<1>8. Untouched(Frame)'
  BY <1>1, <1>3, <1>4 DEF Since, Untouched, Scheduling, Involved, SleepSame, GdtSame, vars
<1> QED BY <1>1, <1>4, <1>6, <1>7, <1>8, Inside DEF Since, vars

LEMMA StepSignalDelete ==
  ASSUME HoldInv, CallsTraced, SignalDelete PROVE CallsTraced' /\ UNCHANGED Atomic!vars
<1> DEFINE g == PutI(PutAt(Frame, "signal_ready"), NOT_FOUND)
<1>1. /\ InTask /\ Frame.at = "signal_delete" /\ blocked' = pid_queue_delete(blocked, Frame.i)
      /\ UNCHANGED <<irq, wake_i, count, blocked_pids, wakeup_counter, asked, slept, gdt, state,
                     pid_running, schdule_counter, free_pages, ready, sleeping, before>>
  BY DEF SignalDelete, At, irqVars, semVars, sleepVars, history
<1>2. IF Frame.i = NOT_FOUND THEN panic' = "signal" /\ UNCHANGED frame ELSE Continue(g)
  BY Zenon DEF SignalDelete, PutI, PutAt
<1> HIDE DEF g
<1>3. IsFrame(Frame) /\ Since(Frame)
  BY <1>1, Tracing
<1>4. CASE Frame.i = NOT_FOUND
  <2>1. Frame' = Frame /\ panic' # "none"
    BY <1>1, <1>2, <1>4 DEF Frame
  <2> QED BY <1>1, <2>1, Inside
<1>5. CASE Frame.i # NOT_FOUND
  <2>1. g.at = "signal_ready" /\ g.s = Frame.s /\ g.pid = Frame.pid /\ Frame' = g
    BY <1>1, <1>2, <1>3, <1>5, Put, Moves DEF Consists, g
  <2>2. blocked = before.blocked /\ Frame.i = pid_queue_find(before.blocked, Frame.pid)
    BY <1>1, <1>3 DEF Since, Untouched, SinceSignal
  <2>3. SinceSignal(Frame)'
    BY <1>1, <1>3, <1>5, <2>1, <2>2 DEF Since, SinceSignal
  <2>4. SinceWait(Frame)' /\ SinceCreate(Frame)' /\ SinceSchedule(Frame)'
    BY <2>1 DEF SinceWait, SinceCreate, SinceSchedule, Scheduling
  <2>5. Untouched(Frame)'
    BY <1>1, <1>3, <2>1 DEF Since, Untouched, Scheduling, Involved, SleepSame, GdtSame
  <2> QED BY <1>1, <2>1, <2>3, <2>4, <2>5, Inside DEF Since
<1> QED BY <1>4, <1>5

LEMMA StepSignalReady ==
  ASSUME InitCount <= MaxCount, RefInv, SignalReady
  PROVE  CallsTraced' /\ [Atomic!Next]_(Atomic!vars)
<1>0. PICK s, pid : s = Frame.s /\ pid = Frame.pid
  OBVIOUS
<1>1. /\ InTask /\ Frame.at = "signal_ready" /\ HoldInv /\ CallsTraced
      /\ Continue(UserFrame) /\ MakeReady(pid)
      /\ UNCHANGED <<irq, wake_i, count, blocked_pids, wakeup_counter, asked, slept, gdt, panic,
                     pid_running, schdule_counter, free_pages, blocked, sleeping, before>>
  BY <1>0 DEF RefInv, SignalReady, At, irqVars, semVars, sleepVars
<1>2. IsFrame(Frame) /\ Since(Frame) /\ before.pid_running = pid_running /\ before.panic = "none"
  BY <1>1, Tracing
<1>3. Frame' = UserFrame /\ Frame'.at = "user"
  BY <1>1, NoCall, Moves DEF Consists
<1>4. ShowsBefore /\ ShowsNow'
  BY <1>1, <1>3, Shows
<1>5. /\ s \in Semaphores /\ before.count[s] < MaxCount
      /\ count = [before.count EXCEPT ![s] = before.count[s] + 1]
  BY <1>0, <1>1, Raised
<1>6. /\ blocked_pids = [before.blocked_pids EXCEPT ![s] = Dequeued(@)]
      /\ pid = pid_dequeue(before.blocked_pids[s]) /\ pid # NOT_FOUND
      /\ pid_queue_find(before.blocked, pid) # NOT_FOUND
      /\ blocked = pid_queue_delete(before.blocked, pid_queue_find(before.blocked, pid))
  BY <1>0, <1>1, <1>2 DEF Since, SinceSignal
<1>7. Atomic!Signal(s)
  BY <1>1, <1>2, <1>4, <1>5, <1>6, SameOperators
  DEF Atomic!Signal, Atomic!InTask, InTask, Atomic!MakeReady, MakeReady, ShowsBefore, ShowsNow,
      Since, Untouched, Scheduling, Involved, SleepSame, GdtSame
<1> QED BY <1>3, <1>5, <1>7 DEF CallsTraced, Atomic!Next
(* sys_sleep and sys_exit, as far as the call of schedule. *)
LEMMA StepSleepSet ==
  ASSUME HoldInv, CallsTraced, SleepSet PROVE CallsTraced' /\ UNCHANGED Atomic!vars
<1> DEFINE g == PutReason(PutAt(UserFrame, "schedule"), "TASK_SLEEP")
<1>0. PICK counter : counter = Frame.val
  OBVIOUS
<1>1. /\ InTask /\ Frame.at = "sleep"
      /\ wakeup_counter' = [wakeup_counter EXCEPT ![pid_running] = counter]
      /\ asked' = [asked EXCEPT ![pid_running] = counter]
      /\ slept' = [slept EXCEPT ![pid_running] = 0]
      /\ UNCHANGED <<irq, wake_i, count, blocked_pids, gdt, state,
                     pid_running, schdule_counter, free_pages, ready, blocked, sleeping, before>>
  BY <1>0 DEF SleepSet, At, irqVars, semVars, taskVars, queueVars, history
<1>2. Continue(g)
  BY Zenon DEF SleepSet, Schedule, PutReason, PutAt
<1> HIDE DEF g
<1>3. IsFrame(Frame) /\ Since(Frame)
  BY <1>1, Tracing
<1>4. g.at = "schedule" /\ g.reason = "TASK_SLEEP" /\ Frame' = g
  BY <1>1, <1>2, NoCall, Put, Moves DEF Consists, g
<1>5. SleepSame /\ SemSame /\ GdtSame /\ counter \in SleepArgs
  BY <1>0, <1>1, <1>3 DEF Since, SinceSchedule, Untouched, Scheduling, Involved
<1>6. Slept(counter)' /\ SemSame' /\ GdtSame'
  BY <1>1, <1>5 DEF Slept, SleepSame, SemSame, GdtSame
<1>7. Gave(Frame.reason)'
  BY <1>4, <1>5, <1>6 DEF Gave
<1>8. SinceWait(Frame)' /\ SinceSignal(Frame)' /\ SinceCreate(Frame)' /\ SinceSchedule(Frame)'
  BY <1>4, <1>7 DEF SinceWait, SinceSignal, SinceCreate, SinceSchedule, Scheduling
<1>9. Untouched(Frame)'
  BY <1>1, <1>3, <1>4 DEF Since, Untouched, Scheduling, Involved
<1> QED BY <1>1, <1>4, <1>8, <1>9, Inside DEF Since

LEMMA StepExitClear ==
  ASSUME HoldInv, CallsTraced, ExitClear PROVE CallsTraced' /\ UNCHANGED Atomic!vars
<1> DEFINE g == PutReason(PutAt(UserFrame, "schedule"), "TASK_EXIT")
<1>1. /\ InTask /\ Frame.at = "exit" /\ gdt' = gdt \ {pid_running}
      /\ UNCHANGED <<irq, wake_i, count, blocked_pids, wakeup_counter, asked, slept, state,
                     pid_running, schdule_counter, free_pages, ready, blocked, sleeping, before>>
  BY DEF ExitClear, At, irqVars, semVars, sleepVars, queueVars, history
<1>2. Continue(g)
  BY Zenon DEF ExitClear, Schedule, PutReason, PutAt
<1> HIDE DEF g
<1>3. IsFrame(Frame) /\ Since(Frame)
  BY <1>1, Tracing
<1>4. g.at = "schedule" /\ g.reason = "TASK_EXIT" /\ Frame' = g
  BY <1>1, <1>2, NoCall, Put, Moves DEF Consists, g
<1>5. SleepSame /\ SemSame /\ GdtSame
  BY <1>1, <1>3 DEF Since, Untouched, Scheduling, Involved
<1>6. Gave(Frame.reason)'
  BY <1>1, <1>4, <1>5 DEF Gave, SleepSame, SemSame, GdtSame
<1>7. SinceWait(Frame)' /\ SinceSignal(Frame)' /\ SinceCreate(Frame)' /\ SinceSchedule(Frame)'
  BY <1>4, <1>6 DEF SinceWait, SinceSignal, SinceCreate, SinceSchedule, Scheduling
<1>8. Untouched(Frame)'
  BY <1>1, <1>3, <1>4 DEF Since, Untouched, Scheduling, Involved
<1> QED BY <1>1, <1>4, <1>7, <1>8, Inside DEF Since

(* create_task. *)
LEMMA StepCreateFind ==
  ASSUME HoldInv, CallsTraced, CreateFind PROVE CallsTraced' /\ UNCHANGED Atomic!vars
<1>1. InTask /\ Frame.at = "create" /\ UNCHANGED vars /\ UNCHANGED before
  BY DEF CreateFind, At, history
<1>2. PICK pid : get_pid_empty(pid) /\ Continue(PutPid(PutAt(Frame, "create_gdt"), pid))
  BY Zenon DEF CreateFind, PutPid, PutAt
<1> DEFINE g == PutPid(PutAt(Frame, "create_gdt"), pid)
<1> HIDE DEF g
<1>3. IsFrame(Frame) /\ Since(Frame)
  BY <1>1, Tracing
<1>4. g.at = "create_gdt" /\ g.pid = pid /\ Frame' = g
  BY <1>1, <1>2, <1>3, Put, Moves DEF Consists, g, vars
<1>5. GdtSame /\ before.free_pages > 0 /\ ~(Pids \subseteq before.gdt)
  BY <1>1, <1>3 DEF Since, SinceCreate, Untouched, Scheduling, Involved
<1>6. SinceCreate(Frame)'
  BY <1>1, <1>2, <1>4, <1>5 DEF SinceCreate, get_pid_empty, GdtSame, vars
<1>7. SinceWait(Frame)' /\ SinceSignal(Frame)' /\ SinceSchedule(Frame)'
  BY <1>4 DEF SinceWait, SinceSignal, SinceSchedule, Scheduling
<1>8. Untouched(Frame)'
  BY <1>1, <1>3, <1>4 DEF Since, Untouched, Scheduling, Involved, SleepSame, SemSame, GdtSame, vars
<1> QED BY <1>1, <1>4, <1>6, <1>7, <1>8, Inside DEF Since, vars

LEMMA StepCreateInstall ==
  ASSUME HoldInv, CallsTraced, CreateInstall PROVE CallsTraced' /\ UNCHANGED Atomic!vars
<1> DEFINE g == PutAt(Frame, "create_ready")
<1>1. /\ InTask /\ Frame.at = "create_gdt" /\ gdt' = gdt \cup ({Frame.pid} \cap Pids)
      /\ free_pages' = free_pages - 1
      /\ UNCHANGED <<irq, wake_i, count, blocked_pids, wakeup_counter, asked, slept, state,
                     pid_running, schdule_counter, ready, blocked, sleeping, before>>
  BY DEF CreateInstall, At, irqVars, semVars, sleepVars, queueVars, history
<1>2. Continue(g)
  BY Zenon DEF CreateInstall, PutAt
<1> HIDE DEF g
<1>3. IsFrame(Frame) /\ Since(Frame)
  BY <1>1, Tracing
<1>4. g.at = "create_ready" /\ g.pid = Frame.pid /\ Frame' = g
  BY <1>1, <1>2, <1>3, Put, Moves DEF Consists, g
<1>5. SinceCreate(Frame)'
  BY <1>1, <1>3, <1>4 DEF Since, SinceCreate, Untouched, Scheduling, Involved, GdtSame
<1>6. SinceWait(Frame)' /\ SinceSignal(Frame)' /\ SinceSchedule(Frame)'
  BY <1>4 DEF SinceWait, SinceSignal, SinceSchedule, Scheduling
<1>7. Untouched(Frame)'
  BY <1>1, <1>3, <1>4 DEF Since, Untouched, Scheduling, Involved, SleepSame, SemSame
<1> QED BY <1>1, <1>4, <1>5, <1>6, <1>7, Inside DEF Since

LEMMA StepCreateReady ==
  ASSUME HoldInv, CallsTraced, CreateReady PROVE CallsTraced' /\ [Atomic!Next]_(Atomic!vars)
<1>0. PICK pid : pid = Frame.pid
  OBVIOUS
<1>1. /\ InTask /\ Frame.at = "create_ready" /\ MakeReady(pid)
      /\ frame' = [p \in Pids |-> IF p \in {pid_running, pid} THEN UserFrame ELSE frame[p]]
      /\ UNCHANGED <<irq, wake_i, count, blocked_pids, wakeup_counter, asked, slept, gdt, panic,
                     pid_running, schdule_counter, free_pages, blocked, sleeping, before>>
  BY <1>0 DEF CreateReady, At, irqVars, semVars, sleepVars, history
<1>2. IsFrame(Frame) /\ Since(Frame) /\ before.pid_running = pid_running /\ before.panic = "none"
  BY <1>1, Tracing
<1>3. Frame' = UserFrame /\ Frame'.at = "user"
  BY <1>1, NoCall DEF Consists, Frame, InTask
<1>4. ShowsBefore /\ ShowsNow'
  BY <1>1, <1>3, Shows
<1>5. /\ before.free_pages > 0 /\ free_pages = before.free_pages - 1
      /\ pid \in Pids \ before.gdt /\ \A q \in Pids \ before.gdt : pid <= q
      /\ gdt = before.gdt \cup ({pid} \cap Pids)
  BY <1>0, <1>1, <1>2 DEF Since, SinceCreate
<1>6. NOT_FOUND \notin Pids
  BY NotAPid
<1>7. Atomic!get_pid_empty(pid)
  BY <1>4, <1>5, SameOperators DEF Atomic!get_pid_empty, ShowsBefore
<1>8. /\ Atomic!InTask /\ Atomic!MakeReady(pid)
      /\ Seen(gdt, before.gdt)' = Seen(gdt, before.gdt) \cup ({pid} \cap Atomic!Pids)
  BY <1>1, <1>2, <1>4, <1>5, SameOperators
  DEF Atomic!InTask, InTask, Atomic!MakeReady, MakeReady,
      ShowsBefore, ShowsNow, Since, Untouched
<1>9. Atomic!CreateTask
  <2>1. pid \in Atomic!Pids \cup {Atomic!NOT_FOUND} /\ pid # Atomic!NOT_FOUND
    BY <1>5, <1>6, SameOperators
  <2>2. /\ Seen(free_pages, before.free_pages) > 0
        /\ Seen(free_pages, before.free_pages)' = Seen(free_pages, before.free_pages) - 1
    BY <1>1, <1>4, <1>5 DEF ShowsBefore, ShowsNow
  <2>3. UNCHANGED <<Seen(wakeup_counter, before.wakeup_counter), Seen(blocked, before.blocked),
                    Seen(sleeping, before.sleeping), Seen(pid_running, before.pid_running),
                    Seen(schdule_counter, before.schdule_counter), Seen(count, before.count),
                    Seen(blocked_pids, before.blocked_pids), irq, wake_i,
                    Seen(panic, before.panic), Seen(asked, before.asked),
                    Seen(slept, before.slept)>>
    BY <1>1, <1>2, <1>4 DEF ShowsBefore, ShowsNow, Since, Untouched, Scheduling, Involved,
                            SleepSame, SemSame, InTask
  <2> QED BY <1>7, <1>8, <2>1, <2>2, <2>3 DEF Atomic!CreateTask
<1> QED BY <1>3, <1>9 DEF CallsTraced, Atomic!Next
(* schedule and switch_to. *)
LEMMA GaveKept ==
  ASSUME Gave(Frame.reason), Frame'.reason = Frame.reason,
         UNCHANGED <<wakeup_counter, asked, slept, count, blocked_pids, gdt, free_pages,
                     pid_running, before>>
  PROVE  Gave(Frame.reason)'
<1>1. UNCHANGED <<SleepSame, SemSame, GdtSame>>
  BY DEF SleepSame, SemSame, GdtSame
<1>2. \A x : UNCHANGED <<Slept(x), Queued(x)>>
  BY DEF Slept, Queued
<1> QED BY <1>1, <1>2 DEF Gave

(* The step that ends a call of schedule is the call's step of Sched. *)
LEMMA Schedules ==
  ASSUME HoldInv, CallsTraced, InTask, Frame.at \in Scheduling, Frame'.at = "user",
         UNCHANGED <<irq, wake_i, wakeup_counter, asked, slept, count, blocked_pids, gdt,
                     free_pages>>,
         Atomic!schedule(Frame.reason)
  PROVE  CallsTraced' /\ Atomic!Next
<1>1. /\ Gave(Frame.reason) /\ before.pid_running = pid_running /\ before.panic = "none"
      /\ Frame.at # "user"
  BY Tracing DEF Scheduling, Since, SinceSchedule
<1>2. ShowsBefore /\ ShowsNow'
  BY <1>1, Shows
<1>3. Atomic!InTask
  BY <1>1, <1>2, SameOperators DEF Atomic!InTask, InTask, ShowsBefore
<1>4. CASE Frame.reason = "TASK_SLEEP"
  <2>1. PICK counter \in SleepArgs : SemSame /\ GdtSame /\ Slept(counter)
    BY <1>1, <1>4 DEF Gave
  <2>2. Atomic!schedule("TASK_SLEEP")
    BY <1>4
  <2>3. Atomic!SysSleep(counter)
    BY <1>1, <1>2, <1>3, <2>1, <2>2
    DEF Atomic!SysSleep, ShowsBefore, ShowsNow, SemSame, GdtSame, Slept
  <2> QED BY <2>3 DEF Atomic!Next, CallsTraced
<1>5. CASE Frame.reason = "TASK_EXIT"
  <2>1. SemSame /\ SleepSame /\ gdt = before.gdt \ {pid_running} /\ free_pages = before.free_pages
    BY <1>1, <1>5 DEF Gave
  <2>2. Atomic!schedule("TASK_EXIT")
    BY <1>5
  <2>3. Atomic!SysExit
    BY <1>1, <1>2, <1>3, <2>1, <2>2
    DEF Atomic!SysExit, ShowsBefore, ShowsNow, SemSame, SleepSame
  <2> QED BY <2>3 DEF Atomic!Next, CallsTraced
<1>6. CASE Frame.reason = "TASK_BLOCKED"
  <2>1. PICK s \in Semaphores : SleepSame /\ GdtSame /\ Queued(s)
    BY <1>1, <1>6 DEF Gave
  <2>2. Atomic!schedule("TASK_BLOCKED")
    BY <1>6
  <2>3. Atomic!Wait(s)
    BY <1>1, <1>2, <1>3, <2>1, <2>2, SameOperators
    DEF Atomic!Wait, Atomic!MustBlock, MustBlock, ShowsBefore, ShowsNow, GdtSame, SleepSame, Queued
  <2> QED BY <2>1, <2>3 DEF Atomic!Next, CallsTraced
<1> QED BY <1>1, <1>4, <1>5, <1>6 DEF Gave

LEMMA StepScheduleReset ==
  ASSUME HoldInv, CallsTraced, ScheduleReset PROVE CallsTraced' /\ UNCHANGED Atomic!vars
<1> DEFINE g == PutAt(Frame, "dequeue")
<1>1. /\ InTask /\ Frame.at = "schedule" /\ schdule_counter' = TIME_PIECE
      /\ UNCHANGED <<irq, wake_i, count, blocked_pids, wakeup_counter, asked, slept, gdt, state,
                     pid_running, free_pages, ready, blocked, sleeping, before>>
  BY DEF ScheduleReset, At, irqVars, semVars, sleepVars, queueVars, history
<1>2. Continue(g)
  BY Zenon DEF ScheduleReset, PutAt
<1> HIDE DEF g
<1>3. IsFrame(Frame) /\ Since(Frame)
  BY <1>1, Tracing
<1>4. g.at = "dequeue" /\ g.reason = Frame.reason /\ Frame' = g
  BY <1>1, <1>2, <1>3, Put, Moves DEF Consists, g
<1>5. Gave(Frame.reason)'
  BY <1>1, <1>3, <1>4, GaveKept DEF Since, SinceSchedule, Scheduling
<1>6. SinceWait(Frame)' /\ SinceSignal(Frame)' /\ SinceCreate(Frame)' /\ SinceSchedule(Frame)'
  BY <1>1, <1>4, <1>5 DEF SinceWait, SinceSignal, SinceCreate, SinceSchedule, Scheduling
<1>7. Untouched(Frame)'
  BY <1>1, <1>3, <1>4 DEF Since, Untouched, Scheduling, Involved
<1> QED BY <1>1, <1>4, <1>6, <1>7, Inside DEF Since

LEMMA StepScheduleDequeue ==
  ASSUME HoldInv, CallsTraced, ScheduleDequeue
  PROVE  CallsTraced' /\ [Atomic!Next]_(Atomic!vars)
<1>0. PICK pid : pid = pid_dequeue(ready)
  OBVIOUS
<1> DEFINE g == PutPid(PutAt(Frame, "leave"), pid)
<1>1. /\ InTask /\ Frame.at = "dequeue" /\ ready' = Dequeued(ready)
      /\ UNCHANGED <<irq, wake_i, count, blocked_pids, wakeup_counter, asked, slept, gdt, state,
                     pid_running, schdule_counter, free_pages, blocked, sleeping, before>>
  BY DEF ScheduleDequeue, At, irqVars, semVars, sleepVars, history
<1>2. IF pid = NOT_FOUND THEN panic' = "schedule" /\ UNCHANGED frame
      ELSE panic' = panic /\ IF pid = pid_running THEN Continue(UserFrame) ELSE Continue(g)
  BY <1>0, Zenon DEF ScheduleDequeue, PutPid, PutAt
<1> HIDE DEF g
<1>3. IsFrame(Frame) /\ Since(Frame) /\ before.pid_running = pid_running /\ before.panic = "none"
  BY <1>1, Tracing
<1>4. ready = before.ready /\ schdule_counter = TIME_PIECE /\ Gave(Frame.reason)
      /\ state = before.state /\ blocked = before.blocked /\ sleeping = before.sleeping
  BY <1>1, <1>3 DEF Since, Untouched, SinceSchedule, Scheduling
<1>5. CASE pid = NOT_FOUND
  <2>1. Frame' = Frame /\ panic' # "none"
    BY <1>1, <1>2, <1>5 DEF Frame
  <2> QED BY <1>1, <2>1, Inside
<1>6. CASE pid # NOT_FOUND /\ pid # pid_running
  <2>1. g.at = "leave" /\ g.pid = pid /\ g.reason = Frame.reason /\ Frame' = g
    BY <1>1, <1>2, <1>3, <1>6, Put, Moves DEF Consists, g
  <2>2. Gave(Frame.reason)'
    BY <1>1, <1>4, <2>1, GaveKept
  <2>3. SinceWait(Frame)' /\ SinceSignal(Frame)' /\ SinceCreate(Frame)' /\ SinceSchedule(Frame)'
    BY <1>0, <1>1, <1>4, <1>6, <2>1, <2>2
    DEF SinceWait, SinceSignal, SinceCreate, SinceSchedule, Scheduling
  <2>4. Untouched(Frame)'
    BY <1>1, <1>4, <2>1 DEF Untouched, Scheduling, Involved
  <2> QED BY <1>1, <2>1, <2>3, <2>4, Inside DEF Since
<1>7. CASE pid # NOT_FOUND /\ pid = pid_running
  <2>1. Frame' = UserFrame /\ Frame'.at = "user"
    BY <1>1, <1>2, <1>7, NoCall, Moves DEF Consists
  <2>2. ShowsBefore /\ ShowsNow' /\ panic' = panic /\ panic = "none"
    BY <1>1, <1>2, <1>7, <2>1, Shows DEF InTask
  <2>3. Atomic!schedule(Frame.reason)
    BY <1>0, <1>1, <1>3, <1>4, <1>7, <2>2, SameOperators
    DEF Atomic!schedule, Atomic!switch_to, ShowsBefore, ShowsNow
  <2> QED BY <1>1, <2>1, <2>3, Schedules DEF Scheduling
<1> QED BY <1>5, <1>6, <1>7

LEMMA StepSwitchLeave ==
  ASSUME HoldInv, CallsTraced, SwitchLeave PROVE CallsTraced' /\ UNCHANGED Atomic!vars
<1> DEFINE g == PutAt(Frame, "switch")
<1>1. /\ InTask /\ Frame.at = "leave"
      /\ state' = [state EXCEPT ![pid_running] =
                    IF Frame.reason = "TASK_EXIT" THEN @ ELSE StateAfter(Frame.reason)]
      /\ blocked' = Joined(blocked, Frame.reason = "TASK_BLOCKED")
      /\ sleeping' = Joined(sleeping, Frame.reason = "TASK_SLEEP")
      /\ UNCHANGED <<irq, wake_i, count, blocked_pids, wakeup_counter, asked, slept, gdt,
                     pid_running, schdule_counter, free_pages, ready, before>>
  BY DEF SwitchLeave, At, irqVars, semVars, sleepVars, history
<1>2. Continue(g)
  BY Zenon DEF SwitchLeave, PutAt
<1> HIDE DEF g
<1>3. IsFrame(Frame) /\ Since(Frame)
  BY <1>1, Tracing
<1>4. g.at = "switch" /\ g.pid = Frame.pid /\ g.reason = Frame.reason /\ Frame' = g
  BY <1>1, <1>2, <1>3, Put, Moves DEF Consists, g
<1>5. Gave(Frame.reason)'
  BY <1>1, <1>3, <1>4, GaveKept DEF Since, SinceSchedule, Scheduling
<1>6. SinceSchedule(Frame)'
  BY <1>1, <1>3, <1>4, <1>5 DEF Since, Untouched, SinceSchedule, Scheduling, Joined
<1>7. SinceWait(Frame)' /\ SinceSignal(Frame)' /\ SinceCreate(Frame)' /\ Untouched(Frame)'
  BY <1>4 DEF SinceWait, SinceSignal, SinceCreate, Untouched, Scheduling, Involved
<1> QED BY <1>1, <1>4, <1>6, <1>7, Inside DEF Since

LEMMA StepSwitchRun ==
  ASSUME RefInv, SwitchRun PROVE CallsTraced' /\ [Atomic!Next]_(Atomic!vars)
<1>0. PICK pid, reason : pid = Frame.pid /\ reason = Frame.reason
  OBVIOUS
<1>1. /\ InTask /\ Frame.at = "switch" /\ state' = [state EXCEPT ![pid] = "RUNNING"]
      /\ pid_running' = pid /\ Continue(UserFrame) /\ HoldInv /\ CallsTraced
      /\ UNCHANGED <<irq, wake_i, count, blocked_pids, wakeup_counter, asked, slept, gdt, panic,
                     schdule_counter, free_pages, ready, blocked, sleeping, before>>
  BY <1>0 DEF RefInv, SwitchRun, At, irqVars, semVars, sleepVars, queueVars, history
<1>2. IsFrame(Frame) /\ Since(Frame) /\ before.pid_running = pid_running /\ before.panic = "none"
  BY <1>1, Tracing
<1>3. Frame' = UserFrame /\ Frame'.at = "user"
  <2>1. \A p \in Pids : frame'[p] = UserFrame
    BY <1>1 DEF HoldInv, CallsMasked, InTask, Continue
  <2> QED BY <2>1, NoCall DEF Frame, Consists
<1>4. ShowsBefore /\ ShowsNow'
  BY <1>1, <1>3, Shows
<1>5. /\ schdule_counter = TIME_PIECE /\ ready = Dequeued(before.ready)
      /\ pid = pid_dequeue(before.ready) /\ pid # NOT_FOUND /\ pid # pid_running
      /\ state = [before.state EXCEPT ![pid_running] =
                    IF reason = "TASK_EXIT" THEN @ ELSE StateAfter(reason)]
      /\ blocked = Joined(before.blocked, reason = "TASK_BLOCKED")
      /\ sleeping = Joined(before.sleeping, reason = "TASK_SLEEP")
      /\ Gave(reason)
  BY <1>0, <1>1, <1>2 DEF Since, SinceSchedule, Scheduling
<1>6. /\ DOMAIN before.state = Pids /\ before.state[pid_running] = "RUNNING"
      /\ pid_running \in Pids
  BY <1>1, <1>2, BeforeTypes DEF RefInv, InTask
<1>7. reason \in {"TASK_SLEEP", "TASK_EXIT", "TASK_BLOCKED"}
  BY <1>5 DEF Gave
<1>8. state[pid_running] = StateAfter(reason)
  BY <1>5, <1>6, <1>7 DEF StateAfter
<1>9. state' = [p \in Pids |-> CASE p = pid         -> "RUNNING"
                                 [] p = pid_running -> StateAfter(reason)
                                 [] OTHER           -> before.state[p]]
  <2>1. DOMAIN state = Pids /\ \A p \in Pids : p # pid_running => state[p] = before.state[p]
    BY <1>5, <1>6
  <2>2. state' = [p \in Pids |-> IF p = pid THEN "RUNNING" ELSE state[p]]
    BY <1>1, <2>1
  <2>3. \A p \in Pids : (IF p = pid THEN "RUNNING" ELSE state[p]) =
          CASE p = pid         -> "RUNNING"
            [] p = pid_running -> StateAfter(reason)
            [] OTHER           -> before.state[p]
    BY <1>5, <1>8, <2>1
  <2> QED BY <2>2, <2>3
<1>10. Atomic!switch_to(pid, reason)
  BY <1>1, <1>2, <1>4, <1>5, <1>7, <1>9, SameOperators
  DEF Atomic!switch_to, Atomic!Joined, Joined, ShowsBefore, ShowsNow
<1>11. Atomic!schedule(reason)
  BY <1>1, <1>2, <1>4, <1>5, <1>10, SameOperators
  DEF Atomic!schedule, ShowsBefore, ShowsNow, InTask
<1> QED BY <1>0, <1>1, <1>3, <1>11, Schedules DEF Scheduling
(* The interrupt arrives outside calls: its steps are Sched's. *)
LEMMA StepTimer ==
  ASSUME Masked, HoldInv, TimerStep PROVE CallsTraced' /\ Atomic!Next
<1>1. Frame.at = "user" /\ UNCHANGED frame
  BY DEF TimerStep, Interruptible, HoldInv, CallsMasked, CheckWakeup, CheckSchedule
<1>2. \A p \in Pids : frame[p] = UserFrame
  BY <1>1 DEF HoldInv, CallsMasked, IdleOrIn, Frame
<1>3. Frame'.at = "user"
  BY <1>1, <1>2, NoCall DEF Frame, Consists
<1>4. ShowsNow /\ ShowsNow'
  BY <1>1, <1>3, Shows
<1>5. Atomic!Timer
  BY <1>4, OnTimerShown, CheckWakeupShown, CheckScheduleShown DEF TimerStep, Atomic!Timer
<1> QED BY <1>3, <1>5 DEF CallsTraced, Atomic!Next

(* The two instances of Sched are the same. *)
LEMMA SameSchedule ==
  \A reason : Atomic!schedule(reason) <=> AtomicProofs!schedule(reason)
BY DEF Atomic!schedule, AtomicProofs!schedule, Atomic!switch_to, AtomicProofs!switch_to,
       Atomic!pid_dequeue, AtomicProofs!pid_dequeue, Atomic!NOT_FOUND, AtomicProofs!NOT_FOUND,
       Atomic!Dequeued, AtomicProofs!Dequeued, Atomic!Joined, AtomicProofs!Joined,
       Atomic!pid_enqueue, AtomicProofs!pid_enqueue,
       Atomic!Pids, AtomicProofs!Pids, Atomic!StateAfter, AtomicProofs!StateAfter

LEMMA SameTimer == Atomic!Timer <=> AtomicProofs!Timer
BY SameSchedule
DEF Atomic!Timer, AtomicProofs!Timer, Atomic!OnTimer, AtomicProofs!OnTimer, 
       Atomic!CheckWakeup, AtomicProofs!CheckWakeup, Atomic!CheckSchedule,
          AtomicProofs!CheckSchedule,
       Atomic!MakeReady, AtomicProofs!MakeReady, Atomic!Elements, AtomicProofs!Elements,
       Atomic!Decremented, AtomicProofs!Decremented, Atomic!AfterDelete, AtomicProofs!AfterDelete,
       Atomic!TimePieceOver, AtomicProofs!TimePieceOver, Atomic!pid_queue_delete,
       AtomicProofs!pid_queue_delete, Atomic!Dropped, AtomicProofs!Dropped, Atomic!pid_enqueue,
       AtomicProofs!pid_enqueue, Atomic!Pids, AtomicProofs!Pids

LEMMA SameInTask == Atomic!InTask <=> AtomicProofs!InTask
BY DEF Atomic!InTask, AtomicProofs!InTask, Atomic!Pids, AtomicProofs!Pids, Atomic!Idle,
       AtomicProofs!Idle

LEMMA SameHelpers ==
  /\ Atomic!Pids = AtomicProofs!Pids /\ Atomic!NOT_FOUND = AtomicProofs!NOT_FOUND
  /\ \A pid : Atomic!MakeReady(pid) <=> AtomicProofs!MakeReady(pid)
  /\ \A pid : Atomic!get_pid_empty(pid) <=> AtomicProofs!get_pid_empty(pid)
  /\ \A q : Atomic!Dequeued(q) = AtomicProofs!Dequeued(q)
  /\ \A q : Atomic!pid_dequeue(q) = AtomicProofs!pid_dequeue(q)
  /\ \A q, x : Atomic!pid_queue_find(q, x) = AtomicProofs!pid_queue_find(q, x)
  /\ \A q, x : Atomic!pid_queue_delete(q, x) = AtomicProofs!pid_queue_delete(q, x)
<1>1. Atomic!Pids = AtomicProofs!Pids
  BY DEF Atomic!Pids, AtomicProofs!Pids
<1>2. Atomic!NOT_FOUND = AtomicProofs!NOT_FOUND
  BY DEF Atomic!NOT_FOUND, AtomicProofs!NOT_FOUND
<1>3. \A pid : Atomic!MakeReady(pid) <=> AtomicProofs!MakeReady(pid)
  BY <1>1 DEF Atomic!MakeReady, AtomicProofs!MakeReady, Atomic!pid_enqueue,
              AtomicProofs!pid_enqueue
<1>4. \A pid : Atomic!get_pid_empty(pid) <=> AtomicProofs!get_pid_empty(pid)
  BY <1>1, <1>2 DEF Atomic!get_pid_empty, AtomicProofs!get_pid_empty
<1>5. \A q : Atomic!Dequeued(q) = AtomicProofs!Dequeued(q)
  BY DEF Atomic!Dequeued, AtomicProofs!Dequeued
<1>6. \A q : Atomic!pid_dequeue(q) = AtomicProofs!pid_dequeue(q)
  BY <1>2 DEF Atomic!pid_dequeue, AtomicProofs!pid_dequeue
<1>7. \A q, x : Atomic!pid_queue_find(q, x) = AtomicProofs!pid_queue_find(q, x)
  BY <1>2 DEF Atomic!pid_queue_find, AtomicProofs!pid_queue_find
<1>8. \A q, x : Atomic!pid_queue_delete(q, x) = AtomicProofs!pid_queue_delete(q, x)
  BY DEF Atomic!pid_queue_delete, AtomicProofs!pid_queue_delete, Atomic!Dropped,
         AtomicProofs!Dropped
<1> QED BY <1>1, <1>2, <1>3, <1>4, <1>5, <1>6, <1>7, <1>8

LEMMA SameCalls ==
  /\ Atomic!CreateTask <=> AtomicProofs!CreateTask
  /\ \A counter : Atomic!SysSleep(counter) <=> AtomicProofs!SysSleep(counter)
  /\ Atomic!SysExit <=> AtomicProofs!SysExit
  /\ \A s : Atomic!Wait(s) <=> AtomicProofs!Wait(s)
  /\ \A s : Atomic!Signal(s) <=> AtomicProofs!Signal(s)
<1>1. Atomic!CreateTask <=> AtomicProofs!CreateTask
  BY SameInTask, SameHelpers, Zenon DEF Atomic!CreateTask, AtomicProofs!CreateTask
<1>2. \A counter : Atomic!SysSleep(counter) <=> AtomicProofs!SysSleep(counter)
  BY SameInTask, SameSchedule DEF Atomic!SysSleep, AtomicProofs!SysSleep
<1>3. Atomic!SysExit <=> AtomicProofs!SysExit
  BY SameInTask, SameSchedule DEF Atomic!SysExit, AtomicProofs!SysExit
<1>4. \A s : Atomic!Wait(s) <=> AtomicProofs!Wait(s)
  BY SameInTask, SameSchedule DEF Atomic!Wait, AtomicProofs!Wait, Atomic!MustBlock,
     AtomicProofs!MustBlock, Atomic!pid_enqueue, AtomicProofs!pid_enqueue
<1>5. \A s : Atomic!Signal(s) <=> AtomicProofs!Signal(s)
  BY SameInTask, SameHelpers DEF Atomic!Signal, AtomicProofs!Signal
<1> QED BY <1>1, <1>2, <1>3, <1>4, <1>5

LEMMA SameInstances ==
  /\ Atomic!Init <=> AtomicProofs!Init
  /\ Atomic!Next <=> AtomicProofs!Next
  /\ UNCHANGED Atomic!vars <=> UNCHANGED AtomicProofs!vars
<1>1. Atomic!Init <=> AtomicProofs!Init
  BY DEF Atomic!Init, AtomicProofs!Init, Atomic!sched_init, AtomicProofs!sched_init,
     Atomic!task_manager_init, AtomicProofs!task_manager_init, Atomic!semaphore_init,
     AtomicProofs!semaphore_init, Atomic!Pids, AtomicProofs!Pids, Atomic!NOT_FOUND,
     AtomicProofs!NOT_FOUND
<1>2. Atomic!Next <=> AtomicProofs!Next
  BY SameTimer, SameCalls DEF Atomic!Next, AtomicProofs!Next
<1>3. UNCHANGED Atomic!vars <=> UNCHANGED AtomicProofs!vars
  BY DEF Atomic!vars, AtomicProofs!vars
<1> QED BY <1>1, <1>2, <1>3

LEMMA RefInit == ASSUME PreemptInit PROVE RefInv /\ Atomic!Init
<1>1. Frame = UserFrame /\ Frame.at = "user"
  BY NoCall DEF PreemptInit, Frame, Consists
<1>2. ShowsNow
  BY <1>1, Shows
<1>3. Atomic!Init
  BY <1>2, SameOperators DEF PreemptInit, Init, sched_init, task_manager_init, semaphore_init,
     Atomic!Init, Atomic!sched_init, Atomic!task_manager_init, Atomic!semaphore_init, ShowsNow
<1>4. AtomicProofs!IInv
  BY <1>3, SameInstances, AtomicProofs!InitInvariant, SchedAssumption, CreateAssumption
<1> QED BY <1>1, <1>3, <1>4, HoldInit DEF RefInv, CallsTraced

LEMMA RefNext ==
  ASSUME Masked, ~CreateWhenFull, InitCount <= MaxCount, RefInv, [PreemptNext]_pvars
  PROVE  RefInv' /\ [Atomic!Next]_(Atomic!vars)
<1>1. HoldInv /\ CallsTraced /\ HoldInv'
  BY HoldNext DEF RefInv
<1>2. CallsTraced' /\ [Atomic!Next]_(Atomic!vars)
  <2>1. CASE TimerStep
    BY <1>1, <2>1, StepTimer
  <2>2. CASE \/ \E s \in Semaphores : CallWait(s) \/ CallSignal(s)
             \/ \E counter \in SleepArgs : CallSleep(counter)
             \/ CallExit
             \/ CallCreate
    BY <1>1, <2>2, StepEnters
  <2>3. CASE CallStep
    <3>1. CASE WaitLoad \/ WaitStore \/ WaitTest \/ WaitEnqueue
      BY <1>1, <3>1, StepWaitLoad, StepWaitStore, StepWaitTest, StepWaitEnqueue
    <3>2. CASE SignalLoad \/ SignalStore \/ SignalDequeue \/ SignalFind \/ SignalDelete
               \/ SignalReady
      BY <1>1, <3>2, StepSignalLoad, StepSignalStore, StepSignalDequeue, StepSignalFind,
         StepSignalDelete, StepSignalReady
    <3>3. CASE SleepSet \/ ExitClear \/ CreateFind \/ CreateInstall \/ CreateReady
      BY <1>1, <3>3, StepSleepSet, StepExitClear, StepCreateFind, StepCreateInstall,
         StepCreateReady
    <3>4. CASE ScheduleReset \/ ScheduleDequeue \/ SwitchLeave \/ SwitchRun
      BY <1>1, <3>4, StepScheduleReset, StepScheduleDequeue, StepSwitchLeave, StepSwitchRun
    <3> QED BY <2>3, <3>1, <3>2, <3>3, <3>4 DEF CallStep
  <2>4. CASE UNCHANGED pvars
    <3>1. UNCHANGED vars /\ UNCHANGED <<frame, before>>
      BY <2>4 DEF pvars
    <3>2. Frame' = Frame
      BY <3>1 DEF Frame, vars
    <3>3. UNCHANGED Atomic!vars
      BY <3>1, <3>2, Shows DEF ShowsNow, ShowsBefore, Atomic!vars, vars
    <3>4. Since(Frame)' = Since(Frame)
      BY <3>1, <3>2 DEF Since, SinceWait, SinceSignal, SinceCreate, SinceSchedule, Untouched, Gave,
         SleepSame, SemSame, GdtSame, Slept, Queued, Joined, vars
    <3> QED BY <1>1, <3>1, <3>2, <3>3, <3>4 DEF CallsTraced, vars
  <2> QED BY <2>1, <2>2, <2>3, <2>4 DEF PreemptNext
<1>3. AtomicProofs!IInv'
  <2>1. [AtomicProofs!Next]_(AtomicProofs!vars)
    BY <1>2, SameInstances
  <2> QED BY <2>1, AtomicProofs!NextInvariant, SchedAssumption, CreateAssumption DEF RefInv
<1> QED BY <1>1, <1>2, <1>3 DEF RefInv

(***************************************************************************)
(* Kernel calls with interrupts masked, statement by statement, are the    *)
(* atomic calls of Sched, for every number of tasks and semaphores: the    *)
(* statements of wait, signal, sys_sleep, sys_exit, create_task, schedule  *)
(* and switch_to end, with every order of timer interrupts between calls,  *)
(* in a state in which Sched's action would have ended.  The bound on the  *)
(* count (InitCount <= MaxCount) is no restriction: masked semaphores used *)
(* as locks never exceed their initial count.                              *)
(***************************************************************************)
THEOREM PreemptImplementsSched ==
  ASSUME Masked, ~CreateWhenFull, InitCount <= MaxCount
  PROVE  PreemptSpec => ImplementsSched
<1>1. PreemptInit => RefInv /\ Atomic!Init
  BY RefInit
<1>2. RefInv /\ [PreemptNext]_pvars => RefInv' /\ [Atomic!Next]_(Atomic!vars)
  BY RefNext
<1> QED BY <1>1, <1>2, PTL DEF PreemptSpec, ImplementsSched
=============================================================================
