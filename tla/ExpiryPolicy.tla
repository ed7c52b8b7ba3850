---------------------------- MODULE ExpiryPolicy -----------------------------
(***************************************************************************)
(* The two policies of BasicTimer, as the times at which the handlers of a *)
(* recursive timer end: delays[k] is how long the k-th runs once its wait  *)
(* is over, and the next wait begins where it ends.  The timer is started  *)
(* at time 0; setting the expiry time is taken to succeed.                 *)
(***************************************************************************)
EXTENDS Naturals, Sequences, FiniteSetsExt

\* Mutant: the next point is counted from now.
DueFromNow(k, at, origin, interval) == IF k = 1 THEN origin ELSE at + interval

\* ExpireAtPoint: the expiry time of wait k, begun at time at; expiry_time_ starts
\* at origin and moves on by the interval, whatever the time is.
DueAtPoint(k, at, origin, interval) == origin + (k - 1) * interval

\* ExpireAfter.
DueAfter(at, interval) == at + interval

\* A wait is over at its expiry time, or at once if that has passed.
Over(due, at) == IF due > at THEN due ELSE at

EndsAtPoint(delays, origin, interval) ==
  LET E[k \in 0 .. Len(delays)] ==
        IF k = 0 THEN 0
        ELSE Over(DueAtPoint(k, E[k - 1], origin, interval), E[k - 1]) + delays[k]
  IN E

EndsAfter(delays, interval) ==
  LET E[k \in 0 .. Len(delays)] ==
        IF k = 0 THEN 0
        ELSE Over(DueAfter(E[k - 1], interval), E[k - 1]) + delays[k]
  IN E

-----------------------------------------------------------------------------
(* References, without the timer: what is still to run when point j has    *)
(* come ends no earlier than point j and all the delays from there on, and *)
(* one of the points, or the start, is the last one waited for.            *)

Total(delays) ==
  LET T[k \in 0 .. Len(delays)] == IF k = 0 THEN 0 ELSE T[k - 1] + delays[k]
  IN T

Delayed(delays, j, k) == Total(delays)[k] - Total(delays)[j - 1]

ByPoints(delays, origin, interval, k) ==
  Max({origin + (j - 1) * interval + Delayed(delays, j, k) : j \in 1 .. k})

ByIntervals(delays, interval, k) == k * interval + Delayed(delays, 1, k)
=============================================================================
