----------------------------- MODULE MCRestApi ------------------------------
(***************************************************************************)
(* Three calls: one to leave options behind, one to send them, one more to *)
(* see what both left.  Three pieces: an answer and what else may come.    *)
(***************************************************************************)
EXTENDS RestApi

MCMaxCalls == 3
MCMaxPieces == 3
=============================================================================
