------------------------------ MODULE MCLinks ------------------------------
(***************************************************************************)
(* Instances of Links for TLC.                                             *)
(***************************************************************************)
EXTENDS Links, TLC

\* Actors with the same hooks are interchangeable.
ActorSymmetry == Permutations(Custom) \cup Permutations(Actor \ Custom)

=============================================================================
