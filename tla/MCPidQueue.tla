----------------------------- MODULE MCPidQueue -----------------------------
(***************************************************************************)
(* A ring of four slots, used as the kernel uses its queues: the ready     *)
(* queue and a semaphore's queue are dequeued, the sleeping queue is       *)
(* deleted from by position, the blocked queue by lookup.                  *)
(***************************************************************************)
EXTENDS PidQueue

KernelUsages == {{"dequeue"}, {"position"}, {"lookup"}, {"position", "lookup"}}
=============================================================================
