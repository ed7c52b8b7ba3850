---------------------------- MODULE HandlerQueue -----------------------------
(***************************************************************************)
(* A queue of handlers seen by somebody who knows only some of them.       *)
(***************************************************************************)
EXTENDS Naturals, Sequences

\* What f makes of the first n members of q that it is defined on, for each n.
Picks(q, f) ==
  LET P[n \in 0 .. Len(q)] ==
        IF n = 0 THEN <<>>
        ELSE IF q[n] \in DOMAIN f THEN Append(P[n - 1], f[q[n]]) ELSE P[n - 1]
  IN P

\* What f makes of the members of q that it is defined on, in their order.
Picked(q, f) == Picks(q, f)[Len(q)]
=============================================================================
