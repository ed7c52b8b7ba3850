---------------------------- MODULE SessionState ----------------------------
(***************************************************************************)
(* The status a client keeps of its session (SessionState).  The value is  *)
(* held by the module that owns it; here are the values and the two        *)
(* operations that decide something.                                       *)
(***************************************************************************)

Status == {"Initialized", "Connecting", "Connected",
           "Disconnecting", "Disconnected", "Closed"}

\* Mutant: the status is always overwritten.
SetStateAlways(old, s) == s

\* State(s): Closed is absorbing, everything else is overwritten.
SetState(old, s) == IF old = "Closed" THEN old ELSE s

Connectable(s) == s \in {"Disconnected", "Initialized"}
=============================================================================
