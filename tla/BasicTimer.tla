----------------------------- MODULE BasicTimer ------------------------------
(***************************************************************************)
(* BasicTimer: a timer that calls its handler once, or again and again.    *)
(* One thread (or one strand) runs its completions and its owner, so a     *)
(* completion with all its handler does is one action.  The handler may    *)
(* use the timer itself, before OnTimeout looks at recursive_.             *)
(*                                                                         *)
(* When a wait ends is left to the expiry policies (ExpiryPolicy); the     *)
(* destructor is left out: its owners outlive the thread.                  *)
(***************************************************************************)
EXTENDS Naturals, Sequences, FiniteSets

VARIABLES
  recursive,     \* recursive_
  waits,         \* async_waits in progress on timer_
  completions,   \* ended waits whose function has not run: "expired" or "aborted"
  asked          \* what the owner last asked for: "nothing", "one", "beats", "stop"

vars == <<recursive, waits, completions, asked>>

InQueue(c) == \E i \in 1 .. Len(completions) : completions[i] = c

\* n waits end with the same result.
Ended(n, c) == [i \in 1 .. n |-> c]

\* A first state: the owner's constructor is over, and may have called Start.
Init ==
  /\ recursive \in BOOLEAN
  /\ asked \in {"nothing", IF recursive THEN "beats" ELSE "one"}
  /\ waits = IF asked = "nothing" THEN 0 ELSE 1
  /\ completions = <<>>

\* Mutant: a wait is added to those in progress.
PutTimerAdded(ended) == waits' = waits + 1 /\ completions' = ended

\* PutTimer: a new expiry time ends the waits in progress, then one more wait.
PutTimer(ended) == waits' = 1 /\ completions' = ended \o Ended(waits, "aborted")

\* cancel(): the waits in progress end; completions in the queue stay as they are.
Cancel(ended) == waits' = 0 /\ completions' = ended \o Ended(waits, "aborted")

Start ==
  /\ PutTimer(completions)
  /\ asked' = IF recursive THEN "beats" ELSE "one"
  /\ UNCHANGED recursive

Stop ==
  /\ Cancel(completions)
  /\ asked' = "stop"
  /\ UNCHANGED recursive

\* Turned off, it beats at most once more; turned on again, nobody knows.
Recursive(type) ==
  /\ recursive' = type
  /\ asked' = IF asked = "beats" /\ ~type THEN "one" ELSE asked
  /\ UNCHANGED <<waits, completions>>

\* The time of the timer has come.
Expire ==
  /\ waits > 0
  /\ waits' = 0
  /\ completions' = completions \o Ended(waits, "expired")
  /\ UNCHANGED <<recursive, asked>>

Rest == Tail(completions)
Runs(c) == completions # <<>> /\ Head(completions) = c

\* Mutant: a recursive timer runs once.
AgainNot == waits' = waits /\ completions' = Rest

\* The end of OnTimeout.
Again == IF recursive' THEN PutTimer(Rest) ELSE waits' = waits /\ completions' = Rest

\* A wait expired, the handler leaves the timer alone or changes recursive_.
OnTimeout ==
  /\ Runs("expired")
  /\ \/ UNCHANGED <<recursive, asked>>
     \/ \E type \in BOOLEAN : /\ recursive' = type
                              /\ asked' = IF asked = "beats" /\ ~type THEN "one" ELSE asked
  /\ Again

\* The handler calls Stop: a recursive timer goes on all the same.
OnTimeoutStops ==
  /\ Runs("expired")
  /\ asked' = "stop"
  /\ IF recursive THEN PutTimer(Rest) ELSE Cancel(Rest)
  /\ UNCHANGED recursive

\* The handler calls Start: a recursive timer ends that wait at once for its own.
OnTimeoutStarts ==
  /\ Runs("expired")
  /\ asked' = IF recursive THEN "beats" ELSE "one"
  /\ PutTimer(Rest \o (IF recursive THEN <<"aborted">> ELSE <<>>))
  /\ UNCHANGED recursive

\* A wait was ended: the handler is not called.
OnAborted ==
  /\ Runs("aborted")
  /\ completions' = Rest
  /\ UNCHANGED <<recursive, waits, asked>>

Next ==
  \/ Start \/ Stop \/ (\E type \in BOOLEAN : Recursive(type))
  \/ Expire
  \/ OnTimeout \/ OnTimeoutStops \/ OnTimeoutStarts \/ OnAborted

Spec == Init /\ [][Next]_vars

-----------------------------------------------------------------------------
(* Properties *)

TypeOK ==
  /\ recursive \in BOOLEAN
  /\ waits \in Nat
  /\ completions \in Seq({"expired", "aborted"})
  /\ asked \in {"nothing", "one", "beats", "stop"}

\* A recursive timer nobody stopped never dies: a wait is in progress or has
\* expired, whatever was aborted before it (OnTimeout, PutTimer).
KeepsBeating == asked = "beats" => waits = 1 \/ InQueue("expired")

\* The calls of the handler to come: a wait in progress and those that expired.
Calls(q) == {i \in 1 .. Len(q) : q[i] = "expired"}
ToCome == waits + Cardinality(Calls(completions))

\* Only Start adds a call to those to come, and only if no wait is in progress: two
\* Starts do not make the timer beat twice, a call starts no more than the next one, and
\* a timer that was stopped, or has run its course, rests, whatever is aborted then
\* (Start, OnTimeout, PutTimer).
OnlyStartAdds == [][ToCome' > ToCome => Start /\ waits = 0]_vars
=============================================================================
