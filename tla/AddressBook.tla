----------------------------- MODULE AddressBook -----------------------------
(***************************************************************************)
(* The configured remote addresses and the position in use.  The book is   *)
(* never empty (the constructor throws) and is entered at its end, so the  *)
(* first attempt uses the first address.                                   *)
(***************************************************************************)
EXTENDS Naturals

CONSTANT BookSize

ASSUME BookAssumption == BookSize \in Nat \ {0}

Index == 0 .. BookSize - 1

InitIndex == BookSize - 1

\* Mutants: no wrap at the end of the book; the position never moves.
UseNextUnwrapped(i) == i + 1
UseNextStuck(i) == i

UseNext(i) == (i + 1) % BookSize
=============================================================================
