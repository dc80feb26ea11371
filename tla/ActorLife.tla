----------------------------- MODULE ActorLife -----------------------------
(***************************************************************************)
(* The life of one actor as other actors see it: the phases its task goes  *)
(* through, and the reason it gives for its end.  Module Links is built on *)
(* this view of an actor, and module Lifecycle on the code's; both must    *)
(* implement it for what Links shows to be about the code.                 *)
(***************************************************************************)
CONSTANTS Reason, None

VARIABLES
  phase,   \* starting, start_failed, running, closed, draining, on_stop, dead
  reason,  \* the reason that links and on_stop are given, None while there is none
  killed   \* kill() was called

lvars == <<phase, reason, killed>>

GoTo(from, to) == phase = from /\ phase' = to

Kill == ~killed /\ killed' = TRUE /\ UNCHANGED <<phase, reason>>

\* on_start is not interrupted by kill(), and the loop not entered after it.
Start ==
  /\ ~killed /\ GoTo("starting", "running")
  /\ UNCHANGED <<reason, killed>>

StartFails == GoTo("starting", "start_failed") /\ UNCHANGED <<reason, killed>>

\* on_start has failed: on_stop is given the error, and the links that may have
\* been made by then are told nothing, so there is no reason for both.
StartFailedStop == GoTo("start_failed", "dead") /\ UNCHANGED <<reason, killed>>

\* The mailbox closes when the reason is known, and not before.
Close ==
  /\ GoTo("running", "closed") \/ (killed /\ GoTo("starting", "closed"))
  /\ reason' \in Reason
  /\ UNCHANGED killed

\* on_panic panicked: neither links nor on_stop are told anything.
Unwind == GoTo("running", "dead") /\ UNCHANGED <<reason, killed>>

TellLinks == GoTo("closed", "draining") /\ UNCHANGED <<reason, killed>>
LinksTold == GoTo("draining", "on_stop") /\ UNCHANGED <<reason, killed>>
Stopped   == GoTo("on_stop", "dead") /\ UNCHANGED <<reason, killed>>

Init == phase = "starting" /\ reason = None /\ killed = FALSE

Next ==
  \/ Kill \/ Start \/ StartFails \/ StartFailedStop
  \/ Close \/ Unwind \/ TellLinks \/ LinksTold \/ Stopped

Spec == Init /\ [][Next]_lvars

=============================================================================
