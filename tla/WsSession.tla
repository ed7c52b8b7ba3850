----------------------------- MODULE WsSession ------------------------------
(***************************************************************************)
(* What the websocket client promises the application above it, with one   *)
(* io_context thread: a status that goes round Connecting, Connected and   *)
(* Disconnected until Stop, and messages that are accepted while Connected *)
(* and handed to the connection of that session in order, each once, or    *)
(* discarded with every message accepted before them.                      *)
(***************************************************************************)
EXTENDS Sequences, Naturals, SessionState

CONSTANT Msgs

VARIABLES
  status,   \* SessionState::state_
  pending   \* messages accepted by Write and not yet handed to a connection

Suffixes(s) == {SubSeq(s, i, Len(s)) : i \in 1 .. Len(s) + 1}

Init == status = "Initialized" /\ pending = <<>>

\* An attempt begins with nothing pending.
Attempt ==
  /\ Connectable(status)
  /\ status' = "Connecting"
  /\ pending' = <<>>

\* A session begins, with nothing pending.
Establish ==
  /\ status = "Connecting" /\ pending = <<>>
  /\ status' = "Connected"
  /\ UNCHANGED pending

Accept(m) ==
  /\ status = "Connected"
  /\ pending' = Append(pending, m)
  /\ UNCHANGED status

Transmit ==
  /\ status = "Connected" /\ pending # <<>>
  /\ pending' = Tail(pending)
  /\ UNCHANGED status

\* A session or an attempt ends; so may what was pending.
Lose ==
  /\ status \in {"Connecting", "Connected", "Disconnected"}
  /\ status' = "Disconnected"
  /\ pending' \in Suffixes(pending)

\* Without a session messages are only discarded.
Discard ==
  /\ status # "Connected"
  /\ pending' \in Suffixes(pending)
  /\ UNCHANGED status

Stop == status' = "Closed" /\ UNCHANGED pending

Next == Attempt \/ Establish \/ (\E m \in Msgs : Accept(m)) \/ Transmit \/ Lose \/ Discard \/ Stop

Spec == Init /\ [][Next]_<<status, pending>>
=============================================================================
