-------------------------- MODULE MCClientProgram ---------------------------
(***************************************************************************)
(* A heartbeat may find a message pending; one harmless signal, which must *)
(* not use up the handler.                                                 *)
(***************************************************************************)
EXTENDS ClientProgram

MCMaxPending == 2
MCMaxHarmless == 1
=============================================================================
