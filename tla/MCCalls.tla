------------------------------ MODULE MCCalls ------------------------------
(***************************************************************************)
(* Instances of Calls for TLC.                                             *)
(***************************************************************************)
EXTENDS Calls

CONSTANTS a1, a2, b1

\* Two actors of one type and one of another.
TwoTypes == [a \in Actor |-> IF a = b1 THEN "B" ELSE "A"]

=============================================================================
