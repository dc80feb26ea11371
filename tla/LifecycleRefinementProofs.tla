--------------------- MODULE LifecycleRefinementProofs ---------------------
(***************************************************************************)
(* Proofs that Lifecycle implements what an actor promises: ActorLife to   *)
(* those it is linked with, and Service to those who send to it.           *)
(***************************************************************************)
EXTENDS LifecycleRefinement, LifecycleOrderProofs

-----------------------------------------------------------------------------
(* ActorLife, on which Links is built.  What has to be known beyond the    *)
(* types is where a reason can be: none while on_panic decides, and that   *)
(* of a failed start only on the way out of it.                            *)

ReasonPlace ==
  /\ pc = "on_panic" => reason = None
  /\ reason = "StartFailed" => pc \in {"start_failed", "dead"}
  /\ pc = "start_failed" => reason = "StartFailed"

\* The places are kept by every step.
LEMMA ReasonPlaceStep == ReasonPlace /\ [Next]_vars => ReasonPlace'
<1> SUFFICES ASSUME ReasonPlace, [Next]_vars PROVE ReasonPlace'
  OBVIOUS
<1> USE ReasonAssumption DEF ReasonPlace, StopReason
<1>1. CASE UNCHANGED <<pc, reason>>
  BY <1>1
<1>2. CASE Outside
  BY <1>2 DEF Outside, Send, SendSignal, GiveUp, Kill, actorVars
<1>3. ASSUME NEW m \in ReadOnly, ReadTask(m) PROVE ReasonPlace'
  BY <1>3
  DEF ReadTask, BeginRead, EndRead, UpgradeRead, CancelRead, ReadHookReturns,
      notReadVars, actorVars
<1>4. CASE ActorTask
  <2>1. CASE OnStart \/ OnStartFails \/ StartFailedStop
    BY <2>1 DEF OnStart, OnStartFails, StartFailedStop, Leave, Resume
  <2>2. ASSUME NEW m \in ReadOnly, JoinNext(m) PROVE ReasonPlace'
    BY <2>2 DEF JoinNext, JoinedReason, Return, actorVars
  <2>3. CASE Recv \/ SpawnRead \/ BeginWrite \/ EndWrite
    BY <2>3 DEF Recv, SpawnRead, BeginWrite, EndWrite, Resume, Caught, Return
  <2>4. CASE BeginLinkDied \/ TakeStop
    BY <2>4 DEF BeginLinkDied, TakeStop, Return
  <2>5. ASSUME NEW h \in HookResult, HookReturns(h) \/ OnPanic(h) PROVE ReasonPlace'
    BY <2>5 DEF HookReturns, OnPanic, Leave, Resume, Caught, Return
  <2>6. CASE Shutdown \/ Abort
    BY <2>6 DEF Shutdown, Abort, Interrupted, Abortable, Leave
  <2>7. CASE FinalShutdown \/ NotifyLinks \/ OnStop
    BY <2>7 DEF FinalShutdown, NotifyLinks, OnStop
  <2> QED
    BY <1>4, <2>1, <2>2, <2>3, <2>4, <2>5, <2>6, <2>7 DEF ActorTask
<1> QED
  BY <1>1, <1>2, <1>3, <1>4 DEF Next, Ended, DropFields, vars

\* Every step of the code's actor is one of the abstract actor's, or none.
LEMMA LifeStep ==
  ASSUME TypeOK, ReasonPlace, ReasonPlace', [Next]_vars
  PROVE  [Life!Next]_(Life!lvars)
<1> USE ReasonAssumption
    DEF TypeOK, ReasonPlace, lifePhase, lifeReason, MailboxClosed, Life!Next, Life!lvars,
        Life!GoTo
<1>1. CASE UNCHANGED <<pc, reason, killed>>
  BY <1>1
<1>2. CASE Outside
  BY <1>1, <1>2 DEF Outside, Send, SendSignal, GiveUp, Kill, actorVars, Life!Kill
<1>3. ASSUME NEW m \in ReadOnly, ReadTask(m) PROVE [Life!Next]_(Life!lvars)
  BY <1>1, <1>3
  DEF ReadTask, BeginRead, EndRead, UpgradeRead, CancelRead, ReadHookReturns,
      notReadVars, actorVars
<1>4. CASE ActorTask
  <2>1. CASE OnStart
    BY <2>1 DEF OnStart, Leave, Resume, StopReason, Life!Start, Life!Close
  <2>2. CASE OnStartFails
    BY <2>2 DEF OnStartFails, Life!StartFails
  <2>3. CASE StartFailedStop
    BY <2>3 DEF StartFailedStop, Life!StartFailedStop
  <2>4. ASSUME NEW m \in ReadOnly, JoinNext(m) PROVE [Life!Next]_(Life!lvars)
    BY <2>4 DEF JoinNext, Return, actorVars
  <2>5. CASE Recv \/ SpawnRead \/ BeginWrite \/ EndWrite \/ BeginLinkDied \/ TakeStop
    BY <2>5 DEF Recv, SpawnRead, BeginWrite, EndWrite, BeginLinkDied, TakeStop,
                Resume, Caught, Return
  <2>6. ASSUME NEW h \in HookResult, HookReturns(h) PROVE [Life!Next]_(Life!lvars)
    BY <2>6 DEF HookReturns, Resume, Caught, Return
  <2>7. ASSUME NEW h \in HookResult, OnPanic(h) PROVE [Life!Next]_(Life!lvars)
    BY <2>7 DEF OnPanic, Resume, Leave, StopReason, Life!Close, Life!Unwind
  <2>8. CASE Shutdown
    BY <2>8 DEF Shutdown, Leave, Life!Close
  <2>9. CASE Abort
    BY <2>9 DEF Abort, Interrupted, Abortable, Leave, StopReason, Life!Close
  <2>10. CASE FinalShutdown
    BY <2>10 DEF FinalShutdown, Life!TellLinks
  <2>11. CASE NotifyLinks
    BY <2>11 DEF NotifyLinks, Life!LinksTold
  <2>12. CASE OnStop
    BY <2>12 DEF OnStop, Life!Stopped
  <2> QED
    BY <1>4, <2>1, <2>2, <2>3, <2>4, <2>5, <2>6, <2>7, <2>8, <2>9, <2>10, <2>11, <2>12
    DEF ActorTask
<1> QED
  BY <1>1, <1>2, <1>3, <1>4 DEF Next, Ended, DropFields, vars

\* What Links assumes of an actor's phases and reason holds of the actor that
\* Lifecycle takes from the code, for all messages, hooks and limits.
THEOREM LifeImplemented == Spec => ImplementsLife
<1>1. Init => Life!Init
  BY DEF Init, Life!Init, lifePhase, lifeReason, MailboxClosed
<1>2. Init => ReasonPlace
  BY ReasonAssumption DEF Init, ReasonPlace, StopReason
<1>3. IInv => TypeOK
  BY DEF IInv
<1> QED
  BY <1>1, <1>2, <1>3, ReasonPlaceStep, LifeStep, Invariance, PTL
  DEF Spec, ImplementsLife, Life!Spec

-----------------------------------------------------------------------------
(* Service: every step of the loop, of the read tasks and of the program   *)
(* is one that Service allows, or changes nothing that Service shows.      *)
(*                                                                         *)
(* What the mapping relies on is what the other proofs establish: the      *)
(* JoinSet and the semaphore account for the reads (IInv), the loop has a  *)
(* signal only while it disposes of it (CInv), that signal is the next one *)
(* (QInv), and on_panic decides only without a reason (RInv).              *)

\* The number of elements of a set is the same in Service.
LEMMA SameCardinality == \A S : Promised!Cardinality(S) = Cardinality(S)
  BY Zenon DEF Promised!Cardinality, Cardinality

\* A reply is awaited only for what was sent with a reply channel.
PendingIsCall == \A m \in Msg : outcome[m] = "pending" => m \in Call

\* Only msg and msg_after make a reply channel.
LEMMA PendingStep == TypeOK /\ PendingIsCall /\ [Next]_vars => PendingIsCall'
<1> SUFFICES ASSUME TypeOK, PendingIsCall, [Next]_vars PROVE PendingIsCall'
  OBVIOUS
<1> USE DEF TypeOK, PendingIsCall
<1>1. CASE UNCHANGED outcome
  BY <1>1
<1>2. ASSUME NEW S, DropReplies(S) PROVE PendingIsCall'
  BY <1>2 DEF DropReplies
<1>3. ASSUME NEW n, Reply(n) PROVE PendingIsCall'
  BY <1>3 DEF Reply
<1>4. CASE Outside
  BY <1>1, <1>4 DEF Outside, Send, SendSignal, GiveUp, Kill
<1>5. CASE ActorTask
  BY <1>1, <1>2, <1>3, <1>5
  DEF ActorTask, OnStart, OnStartFails, StartFailedStop, JoinNext, Recv, SpawnRead,
      BeginWrite, EndWrite, BeginLinkDied, HookReturns, TakeStop, Shutdown, OnPanic, Abort,
      FinalShutdown, NotifyLinks, OnStop, Leave, Return, Caught, Resume
<1>6. ASSUME NEW n \in ReadOnly, ReadTask(n) PROVE PendingIsCall'
  BY <1>1, <1>2, <1>3, <1>6
  DEF ReadTask, BeginRead, EndRead, UpgradeRead, CancelRead, ReadHookReturns,
      Finish, Goto
<1> QED
  BY <1>1, <1>4, <1>5, <1>6 DEF Next, Ended, DropFields, vars

\* The reply senders that the code drops are those that Service drops.
LEMMA SameDropped ==
  ASSUME TypeOK, NEW S, DropReplies(S), NEW T, S \cap Msg = T \cap Msg
  PROVE  outcome' = Promised!Dropped(T)
  BY DEF TypeOK, DropReplies, Promised!Dropped

\* A handler that replies or whose reply sender is dropped is over for Service.
LEMMA SettledAs ==
  ASSUME TypeOK, NEW m, Reply(m) \/ DropReplies({m})
  PROVE  Promised!Settled(m, outcome')
<1>1. CASE Reply(m)
  <2>1. outcome' = [n \in Msg |-> IF n = m /\ outcome[n] = "pending"
                                  THEN "replied" ELSE outcome[n]]
    BY <1>1 DEF TypeOK, Reply
  <2> QED
    BY <2>1 DEF Promised!Settled
<1>2. CASE DropReplies({m})
  <2>1. outcome' = [n \in Msg |-> IF n = m /\ outcome[n] = "pending"
                                  THEN "stopped" ELSE outcome[n]]
    BY <1>2 DEF DropReplies
  <2> QED
    BY <2>1 DEF Promised!Settled
<1> QED
  BY <1>1, <1>2

\* What Service says of the signals not yet begun.
LEMMA NotBegun ==
  ASSUME IInv, CInv, QInv, ~MailboxClosed
  PROVE  /\ Waiting => /\ serviceNext = head - 1 /\ serviceNext \in 1..Len(mailbox)
                       /\ mailbox[serviceNext] = cur
                       /\ Promised!Waiting = Unread \cup {cur}
         /\ ~Waiting => /\ serviceNext = head
                        /\ Promised!Waiting = Unread
<1> USE DEF IInv, TypeOK, CInv, HeadInBounds
<1>1. ASSUME Waiting
      PROVE  /\ serviceNext = head - 1 /\ serviceNext \in 1..Len(mailbox)
             /\ mailbox[serviceNext] = cur
             /\ Promised!Waiting = Unread \cup {cur}
  <2>1. /\ serviceNext = head - 1 /\ head - 1 \in 1..Len(mailbox)
        /\ cur = mailbox[head - 1]
    BY <1>1, WaitingIsNext DEF serviceNext, Waiting
  <2>2. (head - 1)..Len(mailbox) = {head - 1} \cup head..Len(mailbox)
    BY <2>1
  <2> QED
    BY <2>1, <2>2 DEF Promised!Waiting, Unread
<1>2. ASSUME ~Waiting PROVE serviceNext = head /\ Promised!Waiting = Unread
  BY <1>2 DEF serviceNext, Waiting, Promised!Waiting, Unread
<1> QED
  BY <1>1, <1>2

-----------------------------------------------------------------------------

\* Sends, signals and callers that give up are steps of the same name.
LEMMA OutsideService ==
  ASSUME IInv, Outside
  PROVE  [Promised!Next]_(Promised!svars)
<1>1. /\ UNCHANGED <<pc, cur, reason, head, task>>
      /\ MailboxClosed => UNCHANGED mailbox
  BY DEF Outside, Send, SendSignal, GiveUp, Kill, actorVars, queueVars, readVars
<1>2. UNCHANGED <<servicePhase, serviceNext, Live, serviceAlone>>
  BY <1>1 DEF servicePhase, serviceNext, serviceAlone, Live, MailboxClosed
<1>3. Promised!Accepting <=> ~MailboxClosed
  BY DEF Promised!Accepting, servicePhase, MailboxClosed, IInv, TypeOK, PC, Abortable
<1>4. ASSUME NEW m \in Msg, Send(m) PROVE Promised!Next
  BY <1>2, <1>3, <1>4 DEF Send, Promised!Next, Promised!Send
<1>5. ASSUME NEW m \in Msg, GiveUp(m) PROVE Promised!Next
  BY <1>2, <1>5 DEF GiveUp, queueVars, Promised!Next, Promised!GiveUp
<1>6. ASSUME NEW s \in Peer \cup {Stop}, SendSignal(s) PROVE Promised!Next
  BY <1>2, <1>3, <1>6 DEF SendSignal, Promised!Next, Promised!SendSignal
<1>7. CASE Kill
  BY <1>2, <1>7 DEF Kill, queueVars, Promised!svars
<1> QED
  BY <1>4, <1>5, <1>6, <1>7 DEF Outside

\* The end of a read task is EndRead; what it does before shows nowhere.
LEMMA ReadService ==
  ASSUME IInv, NEW m \in ReadOnly, ReadTask(m)
  PROVE  [Promised!Next]_(Promised!svars)
<1> USE MsgAssumption DEF IInv, TypeOK
<1>1. UNCHANGED <<servicePhase, mailbox, serviceNext, serviceAlone>>
  BY DEF ReadTask, BeginRead, EndRead, UpgradeRead, CancelRead, ReadHookReturns, notReadVars,
         actorVars, queueVars, servicePhase, serviceNext, serviceAlone, MailboxClosed
<1>2. ASSUME NEW r \in Finished, Finish(m, r), task[m] \in Running PROVE Promised!Next
  <2>1. Live' = Live \ {m} /\ m \in Live
    BY <1>2 DEF Finish, Live, Running, Finished
  <2>2. Promised!Settled(m, outcome')
    BY <1>2, SettledAs DEF Finish
  <2>3. Promised!EndRead(m)
    BY <1>1, <2>1, <2>2 DEF Promised!EndRead
  <2> QED
    BY <2>3 DEF Promised!Next
<1>3. ASSUME NEW s \in Running, Goto(m, s), task[m] \in Running
      PROVE  UNCHANGED Promised!svars
  <2>1. Live' = Live
    BY <1>3 DEF Goto, Live, Running
  <2> QED
    BY <1>1, <1>3, <2>1 DEF Goto, Promised!svars
<1> QED
  BY <1>2, <1>3
  DEF ReadTask, BeginRead, EndRead, UpgradeRead, CancelRead, ReadHookReturns, Running,
      Finished

-----------------------------------------------------------------------------

\* The loop returns a reason: Service decides, with or without the signal
\* that was next in line.
LEMMA ReturnService ==
  ASSUME IInv, CInv, QInv, RInv, NEW r \in StopReason, Return(r),
         pc \in {"select", "wait", "handle", "on_error", "on_link_died"},
         UNCHANGED <<mailbox, head, task>>
  PROVE  Promised!Decide
<1> USE MsgAssumption, ReasonAssumption, RecoveryAssumption
    DEF IInv, TypeOK, CInv, HeadInBounds
<1>1. /\ pc' = "shutdown" /\ reason' = r /\ cur' = None /\ DropReplies({cur})
      /\ r # None /\ Live' = Live
  BY DEF Return, Live
<1>2. /\ servicePhase = "running" /\ servicePhase' = "leaving" /\ serviceAlone' = None
      /\ serviceNext' = head
  BY <1>1 DEF servicePhase, serviceAlone, serviceNext, MailboxClosed
<1>3. ~MailboxClosed
  BY DEF MailboxClosed
<1>4. CASE Waiting
  <2>1. /\ serviceNext = head - 1 /\ head - 1 \in 1..Len(mailbox) /\ mailbox[head - 1] = cur
    BY <1>3, <1>4, NotBegun
  <2>2. {mailbox[i] : i \in serviceNext..(serviceNext' - 1)} = {cur}
    BY <1>2, <2>1
  <2>3. serviceAlone = None
    BY <1>4 DEF serviceAlone, Waiting
  <2>4. outcome' = Promised!Dropped({serviceAlone}
                      \cup {mailbox[i] : i \in serviceNext..(serviceNext' - 1)})
    <3>1. {cur} \cap Msg = ({serviceAlone} \cup {cur}) \cap Msg
      BY <2>3 DEF Signal
    <3>2. outcome' = Promised!Dropped({serviceAlone} \cup {cur})
      BY <1>1, <3>1, SameDropped
    <3> QED
      BY <2>2, <3>2
  <2>5. serviceNext <= Len(mailbox) /\ serviceNext' = serviceNext + 1
    BY <1>2, <2>1
  <2> QED
    BY <1>1, <1>2, <2>4, <2>5 DEF Promised!Decide
<1>5. CASE ~Waiting
  <2>1. serviceNext = head
    BY <1>3, <1>5, NotBegun
  <2>2. {mailbox[i] : i \in serviceNext..(serviceNext' - 1)} = {}
    BY <1>2, <2>1
  <2>3. serviceAlone = cur
    BY <1>5 DEF serviceAlone, Waiting, CurKept
  <2>4. outcome' = Promised!Dropped({serviceAlone}
                      \cup {mailbox[i] : i \in serviceNext..(serviceNext' - 1)})
    <3>1. outcome' = Promised!Dropped({serviceAlone} \cup {})
      BY <1>1, <2>3, SameDropped
    <3> QED
      BY <2>2, <3>1
  <2> QED
    BY <1>1, <1>2, <2>1, <2>4 DEF Promised!Decide
<1> QED
  BY <1>4, <1>5

\* A panic of what was handled alone makes room for on_panic.
LEMMA CaughtService ==
  ASSUME IInv, CInv, RInv, Caught, pc \in {"handle", "on_error", "on_link_died"},
         UNCHANGED <<mailbox, head, task>>
  PROVE  Promised!EndAlone
<1> USE MsgAssumption, ReasonAssumption, RecoveryAssumption DEF IInv, TypeOK
<1>1. /\ pc' = "shutdown" /\ reason' = None /\ cur' = None /\ DropReplies({cur})
      /\ Live' = Live
  BY DEF Caught, Return, Live
<1>2. /\ servicePhase = "running" /\ servicePhase' = "running"
      /\ serviceAlone = cur /\ serviceAlone' = Recovery /\ serviceNext' = serviceNext
  BY <1>1 DEF servicePhase, serviceAlone, serviceNext, MailboxClosed
<1>3. cur # None
  BY DEF CurKind, CInv, CurKept, Write, Signal
<1>4. Promised!Settled(cur, outcome')
  BY <1>1, SettledAs
<1> QED
  BY <1>1, <1>2, <1>3, <1>4 DEF Promised!EndAlone

\* The Abortable future is over: Service closes.
LEMMA LeaveService ==
  ASSUME IInv, CInv, QInv, RInv, NEW r, Leave(r), pc \in Abortable \cup {"on_start"},
         UNCHANGED <<mailbox, head, task>>
  PROVE  Promised!Close
<1> USE MsgAssumption, RecoveryAssumption DEF IInv, TypeOK
<1>1. /\ pc' = "final_shutdown" /\ cur' = None /\ DropReplies(Unread \cup {cur})
      /\ Live' = Live
  BY DEF Leave, DroppedSignals, Live
<1>2. /\ Promised!Accepting /\ servicePhase' = "closed" /\ serviceAlone' = None
      /\ serviceNext' = Len(mailbox) + 1
  BY <1>1 DEF servicePhase, serviceAlone, serviceNext, MailboxClosed, Abortable,
              Promised!Accepting
<1>3. ~MailboxClosed
  BY DEF MailboxClosed, Abortable
<1>4. (Unread \cup {cur}) \cap Msg = ({serviceAlone} \cup Promised!Waiting) \cap Msg
  <2>1. CASE Waiting
    <3>1. serviceAlone = None
      BY <2>1 DEF serviceAlone, Waiting
    <3> QED
      BY <1>3, <2>1, <3>1, NotBegun DEF Signal
  <2>2. CASE ~Waiting
    <3>1. serviceAlone = cur \/ (cur = None /\ serviceAlone \in {None, Recovery})
      BY <2>2 DEF serviceAlone, Waiting, CInv, CurKept, Abortable
    <3> QED
      BY <1>3, <2>2, <3>1, NotBegun DEF Signal
  <2> QED
    BY <2>1, <2>2
<1>5. outcome' = Promised!Dropped({serviceAlone} \cup Promised!Waiting)
  BY <1>1, <1>4, SameDropped
<1> QED
  BY <1>1, <1>2, <1>5 DEF Promised!Close

\* The task ends with the mailbox still open: on_start failed or on_panic
\* panicked.
LEMMA DieService ==
  ASSUME IInv, CInv, QInv, pc' = "dead", DropReplies(DroppedSignals),
         pc \in {"start_failed", "on_panic"}, UNCHANGED <<mailbox, head, cur, reason, task>>
  PROVE  Promised!Close
<1> USE MsgAssumption, RecoveryAssumption DEF IInv, TypeOK
<1>1. Live = {} /\ Live' = {}
  BY DEF Live, LiveJoined, AloneJoined, Alone, Exclusive
<1>2. cur = None
  BY DEF CInv, CurKept
<1>3. /\ Promised!Accepting /\ servicePhase' = "over" /\ serviceAlone' = None
      /\ serviceNext' = Len(mailbox) + 1 /\ serviceAlone \in {None, Recovery}
  BY DEF servicePhase, serviceAlone, serviceNext, MailboxClosed, Promised!Accepting
<1>4. (Unread \cup {cur}) \cap Msg = ({serviceAlone} \cup Promised!Waiting) \cap Msg
  BY <1>2, <1>3, NotBegun DEF MailboxClosed, Waiting, Signal
<1>5. outcome' = Promised!Dropped({serviceAlone} \cup Promised!Waiting)
  BY <1>4, SameDropped DEF DroppedSignals
<1> QED
  BY <1>1, <1>3, <1>5 DEF Promised!Close


-----------------------------------------------------------------------------

\* The loop begins a read when it has its permit, and everything else when
\* the JoinSet is empty.
LEMMA BeginService ==
  ASSUME IInv, CInv, QInv, RInv, SpawnRead \/ BeginWrite \/ BeginLinkDied
  PROVE  Promised!Next
<1> USE MsgAssumption, ReasonAssumption, RecoveryAssumption
    DEF IInv, TypeOK, CInv, HeadInBounds
<1>1. Waiting /\ ~MailboxClosed
  BY DEF SpawnRead, BeginWrite, BeginLinkDied, Waiting, MailboxClosed
<1>2. /\ serviceNext = head - 1 /\ serviceNext \in 1..Len(mailbox)
      /\ mailbox[serviceNext] = cur /\ serviceAlone = None /\ servicePhase = "running"
      /\ cur # None
  BY <1>1, NotBegun, WaitingIsNext DEF serviceAlone, servicePhase, Waiting, Signal
<1>3. CASE SpawnRead
  <2>1. /\ pc' = "select" /\ reason' = reason /\ UNCHANGED <<mailbox, head, outcome>>
        /\ task' = [task EXCEPT ![cur] = "spawned"] /\ cur \in ReadOnly
    BY <1>3 DEF SpawnRead, Resume, queueVars, CurKind
  <2>2. /\ servicePhase' = "running" /\ serviceNext' = serviceNext + 1
        /\ serviceAlone' = None
    BY <1>2, <2>1 DEF servicePhase, serviceNext, serviceAlone, MailboxClosed
  <2>3. Live' = Live \cup {cur}
    BY <2>1 DEF Live, Running
  <2>4. Cardinality(Live) < MaxConcurrentReads
    <3>1. IsFiniteSet(permits) /\ Cardinality(permits) < MaxConcurrentReads
      BY <1>3 DEF SpawnRead, PermitFree, PermitsBounded
    <3>2. IsFiniteSet(Live) /\ Cardinality(Live) <= Cardinality(permits)
      BY <3>1, FS_Subset DEF LivePermitted
    <3>3. Cardinality(Live) \in Nat /\ Cardinality(permits) \in Nat
      BY <3>1, <3>2, FS_CardinalityType
    <3> QED
      BY <3>1, <3>2, <3>3, ReadsAssumption
  <2>5. Promised!BeginRead(cur)
    <3>1. Promised!Begin(cur)
      BY <1>2, <2>2 DEF Promised!Begin
    <3>2. UNCHANGED <<servicePhase, mailbox, serviceAlone, outcome>>
      BY <1>2, <2>1, <2>2
    <3> QED
      BY <2>3, <2>4, <3>1, <3>2, SameCardinality DEF Promised!BeginRead
  <2> QED
    BY <2>1, <2>5 DEF Promised!Next
<1>4. CASE BeginWrite \/ BeginLinkDied
  <2>1. Live = {} /\ TasksHoldNoGuard
    BY <1>4 DEF BeginWrite, BeginLinkDied, ReadsJoined, LiveJoined, Live, TasksHoldNoGuard,
                Running
  <2>2. /\ pc' \in {"handle", "on_link_died"} /\ cur \in Write \cup Peer
        /\ UNCHANGED <<cur, mailbox, head, task, outcome>>
    BY <1>4, <2>1 DEF BeginWrite, BeginLinkDied, queueVars, readVars
  <2>3. /\ servicePhase' = "running" /\ serviceNext' = serviceNext + 1
        /\ serviceAlone' = cur /\ Live' = Live
    BY <1>2, <2>2 DEF servicePhase, serviceNext, serviceAlone, MailboxClosed, Live
  <2>4. Promised!BeginAlone(cur)
    BY <1>2, <2>1, <2>2, <2>3 DEF Promised!BeginAlone, Promised!Begin
  <2>5. cur \in Promised!Signals \ (ReadOnly \cup {Stop})
    BY <2>2 DEF Promised!Signals, Write
  <2> QED
    BY <2>4, <2>5 DEF Promised!Next
<1> QED
  BY <1>3, <1>4

\* What was handled alone is over, and its caller has the reply or had none.
LEMMA ResumeService ==
  ASSUME IInv, CInv, RInv, PendingIsCall, Resume, UNCHANGED <<mailbox, head, task>>,
         \/ pc = "handle" /\ Reply(cur)
         \/ pc \in {"on_error", "on_link_died", "on_panic"} /\ UNCHANGED outcome
  PROVE  Promised!EndAlone
<1> USE MsgAssumption, ReasonAssumption, RecoveryAssumption
    DEF IInv, TypeOK, CInv, CurKept
<1>1. /\ pc' = "select" /\ cur' = None /\ reason' = reason /\ Live' = Live
  BY DEF Resume, Live
<1>2. /\ servicePhase = "running" /\ servicePhase' = "running"
      /\ serviceAlone' = None /\ serviceNext' = serviceNext
      /\ serviceAlone = IF pc = "on_panic" THEN Recovery ELSE cur
  BY <1>1 DEF servicePhase, serviceAlone, serviceNext, MailboxClosed
<1>3. serviceAlone # None
  BY <1>2 DEF CurKind, Write, Signal
<1>4. Promised!Settled(serviceAlone, outcome')
  <2>1. CASE pc = "handle"
    BY <1>2, <2>1, SettledAs
  <2>2. CASE pc # "handle"
    <3>1. serviceAlone \in Msg => outcome[serviceAlone] # "pending"
      BY <1>2, <2>2 DEF PendingIsCall, Signal
    <3>2. outcome' = outcome
      BY <2>2
    <3>3. outcome' = [n \in Msg |-> IF n = serviceAlone /\ outcome[n] = "pending"
                                    THEN "stopped" ELSE outcome[n]]
      BY <3>1, <3>2
    <3> QED
      BY <3>3 DEF Promised!Settled
  <2> QED
    BY <2>1, <2>2
<1> QED
  BY <1>1, <1>2, <1>3, <1>4 DEF Promised!EndAlone

\* The other steps of the actor's task show nothing of themselves.
LEMMA SilentService ==
  ASSUME UNCHANGED <<servicePhase, mailbox, serviceNext, Live, serviceAlone, outcome>>
  PROVE  [Promised!Next]_(Promised!svars)
  BY DEF Promised!svars

\* Steps of the actor's task.
LEMMA ActorService ==
  ASSUME IInv, CInv, QInv, RInv, PendingIsCall, ActorTask
  PROVE  [Promised!Next]_(Promised!svars)
<1> USE ReasonAssumption DEF queueVars, readVars
<1>1. CASE OnStart
  <2>1. CASE killed
    BY <1>1, <2>1, LeaveService DEF OnStart, Promised!Next
  <2>2. CASE ~killed
    <3>1. /\ pc = "on_start" /\ pc' = "select"
          /\ UNCHANGED <<reason, mailbox, head, outcome, task>>
      BY <1>1, <2>2 DEF OnStart, Resume
    <3>2. Promised!Start
      BY <3>1 DEF Promised!Start, servicePhase, serviceNext, serviceAlone, MailboxClosed, Live
    <3> QED
      BY <3>2 DEF Promised!Next
  <2> QED
    BY <2>1, <2>2
<1>2. CASE OnStartFails
  BY <1>2, SilentService
  DEF OnStartFails, servicePhase, serviceNext, serviceAlone, MailboxClosed, Live
<1>3. CASE StartFailedStop
  BY <1>3, DieService DEF StartFailedStop, Promised!Next
<1>4. ASSUME NEW m \in ReadOnly, JoinNext(m) PROVE [Promised!Next]_(Promised!svars)
  <2>1. CASE task[m] = "completed"
    BY <1>4, <2>1, SilentService
    DEF JoinNext, actorVars, servicePhase, serviceNext, serviceAlone, MailboxClosed, Live
  <2>2. CASE task[m] # "completed"
    <3>1. JoinedReason(m) \in StopReason
      BY <1>4, <2>2 DEF JoinNext, JoinedReason, RInv, CancelsLate, Finished, StopReason
    <3> QED
      BY <1>4, <2>2, <3>1, ReturnService DEF JoinNext, Promised!Next
  <2> QED
    BY <2>1, <2>2
<1>5. CASE Recv
  <2>1. /\ pc = "select" /\ pc' \in {"acquire", "wait"} /\ head' = head + 1
        /\ UNCHANGED <<reason, mailbox, outcome, task>>
    BY <1>5 DEF Recv
  <2> QED
    BY <2>1, SilentService
    DEF IInv, TypeOK, servicePhase, serviceNext, serviceAlone, MailboxClosed, Live
<1>6. CASE SpawnRead \/ BeginWrite \/ BeginLinkDied
  BY <1>6, BeginService
<1>7. CASE EndWrite
  <2>1. CASE Resume /\ Reply(cur)
    BY <1>7, <2>1, ResumeService DEF EndWrite, Promised!Next
  <2>2. CASE pc' = "on_error" /\ UNCHANGED <<cur, reason, outcome>>
    BY <1>7, <2>2, SilentService
    DEF EndWrite, servicePhase, serviceNext, serviceAlone, MailboxClosed, Live
  <2>3. CASE Caught
    BY <1>7, <2>3, CaughtService DEF EndWrite, Promised!Next
  <2> QED
    BY <1>7, <2>1, <2>2, <2>3 DEF EndWrite
<1>8. ASSUME NEW h \in HookResult, HookReturns(h) PROVE [Promised!Next]_(Promised!svars)
  BY <1>8, ResumeService, ReturnService, CaughtService
  DEF HookReturns, StopReason, Promised!Next
<1>9. CASE TakeStop
  BY <1>9, ReturnService DEF TakeStop, StopReason, Promised!Next
<1>10. CASE Shutdown
  <2>1. CASE reason = None
    BY <1>10, <2>1, SilentService
    DEF Shutdown, servicePhase, serviceNext, serviceAlone, MailboxClosed, Live
  <2>2. CASE reason # None
    BY <1>10, <2>2, LeaveService DEF Shutdown, Abortable, Promised!Next
  <2> QED
    BY <2>1, <2>2
<1>11. ASSUME NEW h \in HookResult, OnPanic(h) PROVE [Promised!Next]_(Promised!svars)
  BY <1>11, ResumeService, LeaveService, DieService DEF OnPanic, Abortable, Promised!Next
<1>12. CASE Abort
  BY <1>12, LeaveService DEF Abort, Interrupted, Promised!Next
<1>13. CASE FinalShutdown
  <2>1. Live = {} /\ Live' = {}
    BY <1>13 DEF FinalShutdown, ReadsDrained, IInv, LiveJoined, Live
  <2>2. Promised!Finish
    BY <1>13, <2>1
    DEF FinalShutdown, Promised!Finish, servicePhase, serviceNext, serviceAlone,
        MailboxClosed
  <2> QED
    BY <2>2 DEF Promised!Next
<1>14. CASE NotifyLinks \/ OnStop
  BY <1>14, SilentService
  DEF NotifyLinks, OnStop, servicePhase, serviceNext, serviceAlone, MailboxClosed, Live
<1> QED
  BY <1>1, <1>2, <1>3, <1>4, <1>5, <1>6, <1>7, <1>8, <1>9, <1>10, <1>11, <1>12, <1>13, <1>14
  DEF ActorTask

\* The actor of the code keeps every promise of Service, for all messages,
\* hooks and limits: signals begin in the order they were accepted and at most
\* once, exclusive ones alone, nothing after the decision to stop, and whoever
\* waits for a reply by then is told.
THEOREM ServiceImplemented == Spec => ImplementsService
<1>1. Init => Promised!Init
  <2> SUFFICES ASSUME Init PROVE Promised!Init
    OBVIOUS
  <2>1. Live = {}
    BY DEF Init, Live, Running
  <2> QED
    BY <2>1, ReasonAssumption
    DEF Init, Promised!Init, servicePhase, serviceNext, serviceAlone, MailboxClosed
<1>2. Init => PendingIsCall
  BY DEF Init, PendingIsCall
<1>3. IInv => TypeOK
  BY DEF IInv
<1>4. IInv /\ CInv /\ (QInv /\ RInv /\ OInv) /\ PendingIsCall /\ [Next]_vars
        => [Promised!Next]_(Promised!svars)
  <2>1. CASE UNCHANGED vars
    BY <2>1, SilentService
    DEF vars, servicePhase, serviceNext, serviceAlone, MailboxClosed, Live
  <2>2. ASSUME NEW m \in Call, DropFields(m) PROVE [Promised!Next]_(Promised!svars)
    BY <2>2, SilentService
    DEF DropFields, servicePhase, serviceNext, serviceAlone, MailboxClosed, Live
  <2> QED
    BY <2>1, <2>2, OutsideService, ReadService, ActorService DEF Next, Ended
<1> QED
  BY <1>1, <1>2, <1>3, <1>4, PendingStep, Invariance, CallersInvariance, OrderInvariance, PTL
  DEF Spec, ImplementsService, Promised!Spec

-----------------------------------------------------------------------------

\* What is proved of Service, read of Lifecycle's variables.
Proved == INSTANCE ServiceProofs WITH
  phase <- servicePhase, log <- mailbox, next <- serviceNext,
  reading <- Live, alone <- serviceAlone

\* The two instances are of one specification.
LEMMA SameService == Promised!Spec => Proved!Spec
<1>1. Promised!Init => Proved!Init
  BY DEF Promised!Init, Proved!Init
<1>2. [Promised!Next]_(Promised!svars) => [Proved!Next]_(Proved!svars)
  <2> USE DEF Promised!Next, Proved!Next, Promised!svars, Proved!svars,
              Promised!Signals, Proved!Signals
  <2>1. ASSUME NEW m \in Msg, Promised!Send(m) \/ Promised!GiveUp(m) PROVE Proved!Next
    BY <2>1 DEF Promised!Send, Proved!Send, Promised!GiveUp, Proved!GiveUp,
                Promised!Accepting, Proved!Accepting
  <2>2. ASSUME NEW s \in Peer \cup {Stop}, Promised!SendSignal(s) PROVE Proved!Next
    BY <2>2 DEF Promised!SendSignal, Proved!SendSignal, Promised!Accepting, Proved!Accepting
  <2>3. CASE Promised!Start \/ Promised!Finish
    BY <2>3 DEF Promised!Start, Proved!Start, Promised!Finish, Proved!Finish
  <2>4. ASSUME NEW m \in ReadOnly, Promised!BeginRead(m) PROVE Proved!Next
    <3>1. Proved!Cardinality(Live) = Promised!Cardinality(Live)
      BY Zenon DEF Promised!Cardinality, Proved!Cardinality
    <3> QED
      BY <2>4, <3>1
      DEF Promised!BeginRead, Proved!BeginRead, Promised!Begin, Proved!Begin
  <2>5. ASSUME NEW m \in ReadOnly, Promised!EndRead(m) PROVE Proved!Next
    BY <2>5 DEF Promised!EndRead, Proved!EndRead, Promised!Settled, Proved!Settled
  <2>6. ASSUME NEW s \in Promised!Signals \ (ReadOnly \cup {Stop}), Promised!BeginAlone(s)
        PROVE  Proved!Next
    BY <2>6 DEF Promised!BeginAlone, Proved!BeginAlone, Promised!Begin, Proved!Begin
  <2>7. CASE Promised!EndAlone
    BY <2>7 DEF Promised!EndAlone, Proved!EndAlone, Promised!Settled, Proved!Settled
  <2>8. CASE Promised!Decide
    BY <2>8 DEF Promised!Decide, Proved!Decide, Promised!Dropped, Proved!Dropped
  <2>9. CASE Promised!Close
    BY <2>9 DEF Promised!Close, Proved!Close, Promised!Dropped, Proved!Dropped,
                Promised!Waiting, Proved!Waiting, Promised!Accepting, Proved!Accepting
  <2> QED
    BY <2>1, <2>2, <2>3, <2>4, <2>5, <2>6, <2>7, <2>8, <2>9
<1> QED
  BY <1>1, <1>2, PTL DEF Promised!Spec, Proved!Spec

\* Answers come in the order of the mailbox: whoever sent a message before one
\* that has its reply has an answer too, unless the two are reads.  Service
\* promises it, and the actor keeps the promise.
THEOREM AnswersOrdered == Spec => []AnswersInOrder
<1>1. Proved!Distinct
  BY MsgAssumption, RecoveryAssumption DEF Proved!Distinct, Signal
<1>2. Proved!Spec => []Proved!AnswersInOrder
  BY <1>1, Proved!InOrder
<1>3. Proved!AnswersInOrder => AnswersInOrder
  BY DEF Proved!AnswersInOrder, AnswersInOrder, Write
<1> QED
  BY <1>2, <1>3, ServiceImplemented, SameService, PTL DEF ImplementsService

=============================================================================
