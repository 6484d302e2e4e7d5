---------------------------- MODULE PidQueueSpec ----------------------------
(***************************************************************************)
(* What a pid queue promises its callers: a list of distinct pids, changed *)
(* by the operators of PidList.  ret is the value the last call returned.  *)
(***************************************************************************)
EXTENDS PidList

CONSTANTS Pids,    \* the pids a task may have
          Usages   \* sets of removing operations a queue is used with

VARIABLES list, ret, usage
vars == <<list, ret, usage>>

Init ==
  /\ list = <<>>
  /\ ret = NOT_FOUND
  /\ usage \in Usages

(* set_task_state, wait: a pid enters a queue it is not in. *)
Enqueue(pid) ==
  /\ pid \notin Elements(list)
  /\ list' = pid_enqueue(list, pid)
  /\ UNCHANGED <<ret, usage>>

(* schedule, signal: the oldest pid leaves. *)
Dequeue ==
  /\ "dequeue" \in usage
  /\ ret' = pid_dequeue(list)
  /\ list' = Dequeued(list)
  /\ UNCHANGED usage

(* check_wakeup: the pid at a known position leaves. *)
DeleteAt(k) ==
  /\ "position" \in usage
  /\ list' = pid_queue_delete(list, k - 1)
  /\ UNCHANGED <<ret, usage>>

(* signal: the pid is looked up, and what the lookup returned is deleted. *)
FindAndDelete(pid) ==
  /\ "lookup" \in usage
  /\ list # <<>>
  /\ ret' = pid_queue_find(list, pid)
  /\ list' = pid_queue_delete(list, pid_queue_find(list, pid))
  /\ UNCHANGED usage

Next ==
  \/ \E pid \in Pids : Enqueue(pid) \/ FindAndDelete(pid)
  \/ Dequeue
  \/ \E k \in 1..Len(list) : DeleteAt(k)

Spec == Init /\ [][Next]_vars
=============================================================================
