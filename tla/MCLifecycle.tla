---------------------------- MODULE MCLifecycle ----------------------------
(***************************************************************************)
(* Instances of Lifecycle for TLC.  The sets of messages are given in the  *)
(* configurations; the sets of hook results are named here.                *)
(***************************************************************************)
EXTENDS LifecycleRefinement, TLC

AnyHookResult == HookResults
AlwaysContinue == {"continue"}

\* The read-only messages sent without a reply channel are interchangeable.
ReadSymmetry == Permutations(ReadOnly \ Call)

=============================================================================
