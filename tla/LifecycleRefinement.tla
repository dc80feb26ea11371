------------------------ MODULE LifecycleRefinement ------------------------
(***************************************************************************)
(* Lifecycle implements what an actor promises: to its senders (Service),  *)
(* and to the actors it is linked with (ActorLife).                        *)
(***************************************************************************)
EXTENDS Lifecycle

CONSTANT Recovery  \* what Service calls the handling of a panic

ASSUME RecoveryAssumption == Recovery \notin Signal \cup {None}

-----------------------------------------------------------------------------
(* Service: the semaphore, the JoinSet, the locks and the program counter  *)
(* are gone.                                                               *)

servicePhase ==
  CASE pc \in {"on_start", "start_failed"}       -> "starting"
    [] pc = "shutdown" /\ reason # None          -> "leaving"
    [] pc = "final_shutdown"                     -> "closed"
    [] pc \in {"notify", "on_stop", "dead"}      -> "over"
    [] OTHER                                     -> "running"

\* A signal that the loop has taken and not begun to handle is still next.
serviceNext ==
  IF MailboxClosed THEN Len(mailbox) + 1
  ELSE IF pc \in {"acquire", "wait"} THEN head - 1
  ELSE head

serviceAlone ==
  IF pc \in {"handle", "on_error", "on_link_died"} THEN cur
  ELSE IF pc = "on_panic" \/ (pc = "shutdown" /\ reason = None) THEN Recovery
  ELSE None

Promised == INSTANCE Service WITH
  phase <- servicePhase, log <- mailbox, next <- serviceNext,
  reading <- Live, alone <- serviceAlone

\* Whatever the interleaving of loop, read tasks, hooks and kill: signals
\* begin in the order they were accepted and at most once, exclusive ones
\* alone; nothing begins after the decision to stop; nobody waits in vain.
ImplementsService == Promised!Spec

-----------------------------------------------------------------------------
(* ActorLife: everything between two phases is one phase.                  *)

lifePhase ==
  CASE pc = "on_start"       -> "starting"
    [] pc = "final_shutdown" -> "closed"
    [] pc = "notify"         -> "draining"
    [] pc \in {"start_failed", "on_stop", "dead"} -> pc
    [] OTHER                 -> "running"

\* The reason is handed out from the closing of the mailbox on.
lifeReason ==
  IF MailboxClosed /\ reason # "StartFailed" THEN reason ELSE None

Life == INSTANCE ActorLife WITH
  phase <- lifePhase, reason <- lifeReason, Reason <- StopReason

\* The phases and the reason that Links gives an actor are those of its task.
ImplementsLife == Life!Spec

=============================================================================
