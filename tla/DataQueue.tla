------------------------------ MODULE DataQueue ------------------------------
(***************************************************************************)
(* The queue of messages a client has to write: container::DataQueue under *)
(* net::SessionQueue, used on the strand only, so without a lock (NoLock). *)
(* The value is held by the module that owns it.                           *)
(***************************************************************************)
EXTENDS Naturals, Sequences

Enqueue(q, m) == Append(q, m)

\* Dequeue takes the oldest; on an empty queue it gives an empty pointer.
Dequeued(q) == IF q = <<>> THEN q ELSE Tail(q)

Cleared == <<>>

\* The test of CheckSize; 0 is no limit.
LimitExceeded(q, limit) == limit # 0 /\ Len(q) > limit
=============================================================================
