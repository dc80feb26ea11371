-------------------------- MODULE LifecycleProofs --------------------------
(***************************************************************************)
(* Proofs about Lifecycle, for every set of messages, every set of hook    *)
(* results and every max_concurrent_reads().                               *)
(*                                                                         *)
(* The argument is one inductive invariant.  The JoinSet accounts for the  *)
(* read tasks: a live task is in it, and it is empty at every point where  *)
(* the actor's task holds the value for itself.  The semaphore accounts    *)
(* for them as well: a live task holds a permit of the current semaphore,  *)
(* which has no more permits than max_concurrent_reads().                  *)
(***************************************************************************)
EXTENDS Lifecycle, FiniteSetTheorems, TLAPS

\* The points where the actor's task holds the value and no task can.
Alone == Exclusive \cup {"on_start", "start_failed", "notify", "on_stop", "dead"}

LiveJoined    == Live \subseteq joinSet
AloneJoined   == pc \in Alone => joinSet = {}
LivePermitted == Live \subseteq permits
PermitsBounded ==
  IsFiniteSet(permits) /\ Cardinality(permits) <= MaxConcurrentReads

\* What the loop has taken is of the kind the program counter says.
CurKind ==
  /\ pc = "acquire" => cur \in ReadOnly
  /\ pc = "wait" => cur \in Signal
  /\ pc \in {"handle", "on_error"} => cur \in Write

IInv ==
  /\ TypeOK
  /\ LiveJoined
  /\ AloneJoined
  /\ LivePermitted
  /\ PermitsBounded
  /\ CurKind


-----------------------------------------------------------------------------

\* Dropping reply senders keeps every outcome one that a sender can see.
LEMMA DropRepliesType ==
  ASSUME TypeOK, NEW S, DropReplies(S)
  PROVE  outcome' \in [Msg -> Outcome]
  BY DEF TypeOK, DropReplies, Outcome

\* The initial state: no task, no permit, and the loop not yet entered.
LEMMA InitIInv == Init => IInv
<1> SUFFICES ASSUME Init PROVE IInv
  OBVIOUS
<1>1. TypeOK
  <2>1. mailbox \in Seq(Signal) /\ head \in Nat \ {0}
    BY DEF Init
  <2>2. task \in [ReadOnly -> {"none"} \cup Running \cup Finished]
    BY DEF Init
  <2>3. outcome \in [Msg -> Outcome]
    BY DEF Init, Outcome
  <2> QED
    BY <2>1, <2>2, <2>3 DEF Init, TypeOK, PC
<1>2. Live = {}
  BY DEF Init, Live, Running
<1>3. PermitsBounded
  <2>1. IsFiniteSet({}) /\ Cardinality({}) = 0
    BY FS_EmptySet
  <2> QED
    BY <2>1, ReadsAssumption DEF Init, PermitsBounded
<1> QED
  BY <1>1, <1>2, <1>3
  DEF Init, IInv, LiveJoined, AloneJoined, LivePermitted, CurKind

\* Sends, stop signals, deaths of peers and kill() leave the actor alone.
LEMMA OutsideStep == IInv /\ Outside => IInv'
<1> SUFFICES ASSUME IInv, Outside PROVE IInv'
  OBVIOUS
<1> USE DEF IInv, TypeOK, LiveJoined, AloneJoined, LivePermitted, PermitsBounded,
            CurKind, Live, Outcome
<1>1. ASSUME NEW m \in Msg, Send(m) PROVE IInv'
  <2>1. outcome' \in [Msg -> Outcome]
    BY <1>1 DEF Send
  <2>2. mailbox' \in Seq(Signal)
    BY <1>1 DEF Send, Signal
  <2> QED
    BY <1>1, <2>1, <2>2 DEF Send, readVars
<1>2. ASSUME NEW s \in Peer \cup {Stop}, SendSignal(s) PROVE IInv'
  BY <1>2 DEF SendSignal, Signal, actorVars, readVars
<1>3. CASE Kill
  BY <1>3 DEF Kill, actorVars, queueVars, readVars
<1>4. ASSUME NEW m \in Msg, GiveUp(m) PROVE IInv'
  BY <1>4 DEF GiveUp, actorVars, queueVars, readVars
<1> QED
  BY <1>1, <1>2, <1>3, <1>4 DEF Outside

\* A step of the actor's task.  It spawns a read only when it holds nothing,
\* and passes to a point where it is alone only with an empty JoinSet.
LEMMA ActorStep == IInv /\ ActorTask => IInv'
<1> SUFFICES ASSUME IInv, ActorTask PROVE IInv'
  OBVIOUS
<1> USE MsgAssumption
    DEF IInv, TypeOK, LiveJoined, AloneJoined, LivePermitted, PermitsBounded, CurKind,
        Live, Alone, Exclusive, Abortable, PC, StopReason, Signal, Write, Outcome, DropWhole
<1>1. CASE OnStart
  <2>1. PermitsBounded'
    <3>1. IsFiniteSet({}) /\ Cardinality({}) = 0
      BY FS_EmptySet
    <3> QED
      BY <1>1, <3>1, ReadsAssumption DEF OnStart
  <2>2. Live' = {}
    BY <1>1 DEF OnStart
  <2>3. TypeOK'
    BY <1>1, DropRepliesType DEF OnStart, Leave, Resume, queueVars
  <2> QED
    BY <1>1, <2>1, <2>2, <2>3 DEF OnStart, Leave, Resume
<1>2. CASE OnStartFails
  BY <1>2 DEF OnStartFails, queueVars, readVars
<1>3. CASE StartFailedStop
  BY <1>3 DEF StartFailedStop, DropReplies, queueVars, readVars
<1>4. ASSUME NEW m \in ReadOnly, JoinNext(m) PROVE IInv'
  BY <1>4 DEF JoinNext, JoinedReason, Return, DropReplies, actorVars, queueVars,
              Running, Finished
<1>5. CASE Recv
  <2>1. mailbox[head] \in Signal
    BY <1>5 DEF Recv
  <2> QED
    BY <1>5, <2>1 DEF Recv, IsReadOnly, readVars
<1>6. CASE SpawnRead
  <2>1. cur \in ReadOnly /\ Live' \subseteq Live \cup {cur}
    BY <1>6 DEF SpawnRead, Running
  <2>2. TypeOK'
    BY <1>6, <2>1 DEF SpawnRead, Resume, queueVars, Running
  <2>3. PermitsBounded'
    <3>1. Cardinality(permits) < MaxConcurrentReads
      BY <1>6 DEF SpawnRead, PermitFree
    <3>2. Cardinality(permits) \in Nat
      BY FS_CardinalityType
    <3>3. /\ IsFiniteSet(permits \cup {cur})
          /\ Cardinality(permits \cup {cur}) \in
               {Cardinality(permits), Cardinality(permits) + 1}
      BY FS_AddElement
    <3>4. Cardinality(permits \cup {cur}) <= MaxConcurrentReads
      BY <3>1, <3>2, <3>3, ReadsAssumption
    <3>5. permits' = permits \cup {cur}
      BY <1>6 DEF SpawnRead
    <3> QED
      BY <3>3, <3>4, <3>5
  <2> QED
    BY <1>6, <2>1, <2>2, <2>3 DEF SpawnRead, Resume
<1>7. CASE BeginWrite
  BY <1>7 DEF BeginWrite, ReadsJoined, Caught, Return, DropReplies, queueVars, readVars
<1>8. CASE EndWrite
  BY <1>8 DEF EndWrite, Resume, Reply, Caught, Return, DropReplies, queueVars, readVars
<1>9. CASE BeginLinkDied
  BY <1>9 DEF BeginLinkDied, ReadsJoined, queueVars, readVars
<1>10. ASSUME NEW h \in HookResult, HookReturns(h) PROVE IInv'
  BY <1>10 DEF HookReturns, Resume, Caught, Return, DropReplies, queueVars, readVars
<1>11. CASE TakeStop
  BY <1>11 DEF TakeStop, Return, DropReplies, queueVars, readVars
<1>12. CASE Shutdown
  BY <1>12 DEF Shutdown, ReadsDrained, Leave, DropReplies, queueVars
<1>13. ASSUME NEW h \in HookResult, OnPanic(h) PROVE IInv'
  <2>1. PermitsBounded'
    <3>1. IsFiniteSet({}) /\ Cardinality({}) = 0
      BY FS_EmptySet
    <3>2. permits' \in {permits, {}}
      BY <1>13 DEF OnPanic
    <3>3. CASE permits' = permits
      BY <3>3
    <3>4. CASE permits' = {}
      BY <3>1, <3>4, ReadsAssumption
    <3> QED
      BY <3>2, <3>3, <3>4
  <2>2. Live' = {}
    BY <1>13 DEF OnPanic
  <2>3. TypeOK'
    BY <1>13, DropRepliesType DEF OnPanic, Leave, Resume, queueVars
  <2> QED
    BY <1>13, <2>1, <2>2, <2>3 DEF OnPanic, Leave, Resume
<1>14. CASE Abort
  BY <1>14 DEF Abort, Leave, DropReplies, queueVars, readVars
<1>15. CASE FinalShutdown
  BY <1>15 DEF FinalShutdown, ReadsDrained, queueVars
<1>16. CASE NotifyLinks
  BY <1>16 DEF NotifyLinks, queueVars, readVars
<1>17. CASE OnStop
  BY <1>17 DEF OnStop, queueVars, readVars
<1> QED
  BY <1>1, <1>2, <1>3, <1>4, <1>5, <1>6, <1>7, <1>8, <1>9, <1>10, <1>11, <1>12,
     <1>13, <1>14, <1>15, <1>16, <1>17
  DEF ActorTask

\* The end of a read task gives its permit back, and only its own.
LEMMA FinishStep ==
  ASSUME IInv, NEW m \in ReadOnly, NEW r \in Finished, Finish(m, r), notReadVars' = notReadVars
  PROVE  IInv'
<1> USE DEF IInv, TypeOK, LiveJoined, AloneJoined, LivePermitted, PermitsBounded, CurKind
<1>1. Live' \subseteq Live \ {m}
  BY DEF Finish, Live, Running, Finished
<1>2. PermitsBounded'
  <2>1. /\ permits' \in SUBSET permits
        /\ Cardinality(permits) \in Nat
    BY FS_CardinalityType DEF Finish
  <2>2. IsFiniteSet(permits') /\ Cardinality(permits') <= Cardinality(permits)
    BY <2>1, FS_Subset
  <2>3. Cardinality(permits') \in Nat
    BY <2>2, FS_CardinalityType
  <2> QED
    BY <2>1, <2>2, <2>3, ReadsAssumption
<1>3. TypeOK'
  <2>1. outcome' \in [Msg -> Outcome]
    BY DropRepliesType DEF Finish, Reply, Outcome
  <2> QED
    BY <2>1 DEF Finish, DropWhole, notReadVars, actorVars, queueVars
<1> QED
  BY <1>1, <1>2, <1>3 DEF Finish, notReadVars, actorVars, queueVars

\* A read task that goes on stays live.
LEMMA GotoStep ==
  ASSUME IInv, NEW m \in ReadOnly, task[m] \in Running, NEW s \in Running, Goto(m, s),
         notReadVars' = notReadVars
  PROVE  IInv'
<1>1. Live' = Live
  BY DEF IInv, TypeOK, Live, Goto
<1> QED
  BY <1>1 DEF IInv, TypeOK, LiveJoined, AloneJoined, LivePermitted, PermitsBounded,
              CurKind, Goto, notReadVars, actorVars, queueVars

\* A step of a read task ends it or lets it go on.
LEMMA ReadStep ==
  ASSUME IInv, NEW m \in ReadOnly, ReadTask(m) PROVE IInv'
<1> USE DEF Running, Finished
<1>1. CASE BeginRead(m)
  BY <1>1, FinishStep, GotoStep DEF BeginRead
<1>2. CASE EndRead(m)
  BY <1>2, FinishStep, GotoStep DEF EndRead
<1>3. CASE UpgradeRead(m)
  BY <1>3, FinishStep, GotoStep DEF UpgradeRead
<1>4. CASE CancelRead(m)
  BY <1>4, FinishStep DEF CancelRead
<1>5. ASSUME NEW h \in HookResult, ReadHookReturns(m, h) PROVE IInv'
  BY <1>5, FinishStep DEF ReadHookReturns
<1> QED
  BY <1>1, <1>2, <1>3, <1>4, <1>5 DEF ReadTask

\* Every step keeps the accounting.
LEMMA NextStep == IInv /\ [Next]_vars => IInv'
<1> SUFFICES ASSUME IInv, [Next]_vars PROVE IInv'
  OBVIOUS
<1>1. CASE UNCHANGED vars
  BY <1>1 DEF IInv, TypeOK, LiveJoined, AloneJoined, LivePermitted, PermitsBounded,
              CurKind, Live, vars
<1>2. ASSUME NEW m \in Call, DropFields(m) PROVE IInv'
  BY <1>2 DEF IInv, TypeOK, LiveJoined, AloneJoined, LivePermitted, PermitsBounded,
              CurKind, Live, DropFields
<1> QED
  BY <1>1, <1>2, OutsideStep, ActorStep, ReadStep DEF Next, Ended

\* The accounting of JoinSet and semaphore holds in every reachable state.
THEOREM Invariance == Spec => []IInv
  BY InitIInv, NextStep, PTL DEF Spec


-----------------------------------------------------------------------------

\* Every variable stays in its set, whatever the program sends and whatever
\* its handlers and hooks do.
THEOREM TypeCorrect == Spec => []TypeOK
<1>1. IInv => TypeOK
  BY DEF IInv
<1> QED
  BY <1>1, Invariance, PTL

\* While the actor's task holds the value for an exclusive handler or a hook
\* there is no read task: the expect of a &mut self handler cannot fire.
THEOREM Exclusion == Spec => []ExclusiveAlone
<1>1. IInv => ExclusiveAlone
  BY DEF IInv, LiveJoined, AloneJoined, Alone, ExclusiveAlone
<1> QED
  BY <1>1, Invariance, PTL

\* When on_stop takes the value out of its Arc no read task holds a clone of
\* it: "actor's arc contains other strong references" cannot happen.
THEOREM SoleOwner == Spec => []SoleOwnerAtStop
<1>1. IInv => SoleOwnerAtStop
  BY DEF IInv, LiveJoined, AloneJoined, Alone, SoleOwnerAtStop
<1> QED
  BY <1>1, Invariance, PTL

\* No more than max_concurrent_reads() read handlers are in progress, though
\* every caught panic makes the loop start again with a new semaphore.
THEOREM BoundedReads == Spec => []ReadsBounded
<1>1. IInv => ReadsBounded
  <2> SUFFICES ASSUME IInv PROVE Cardinality(Live) <= MaxConcurrentReads
    BY DEF ReadsBounded
  <2>1. IsFiniteSet(permits) /\ Cardinality(permits) <= MaxConcurrentReads
    BY DEF IInv, PermitsBounded
  <2>2. Live \in SUBSET permits
    BY DEF IInv, LivePermitted
  <2>3. IsFiniteSet(Live) /\ Cardinality(Live) <= Cardinality(permits)
    BY <2>1, <2>2, FS_Subset
  <2>4. Cardinality(Live) \in Nat /\ Cardinality(permits) \in Nat
    BY <2>1, <2>3, FS_CardinalityType
  <2> QED
    BY <2>1, <2>3, <2>4, ReadsAssumption
<1> QED
  BY <1>1, Invariance, PTL

-----------------------------------------------------------------------------
(* The asserted lock attempts.  Only a read handler's Err without a reply   *)
(* takes a write guard while other reads may be in progress.               *)

\* No read task is on its way to on_panic, and none has panicked on a lock.
NoReadFails ==
  \A m \in ReadOnly : task[m] \notin {"errored", "on_error", "asserted"}

\* If every read-only method is infallible or called with a reply channel, a
\* step neither sends a read to on_panic nor meets a taken lock.
LEMMA NoReadFailsStep ==
  ASSUME ReadOnly \subseteq Call \cup Infallible, IInv, NoReadFails, [Next]_vars
  PROVE  NoReadFails'
<1> USE DEF IInv, TypeOK, NoReadFails
<1>1. CASE UNCHANGED task
  BY <1>1
<1>2. CASE SpawnRead
  BY <1>2 DEF SpawnRead
<1>3. ASSUME NEW m \in ReadOnly, ReadTask(m) PROVE NoReadFails'
  <2>1. CASE BeginRead(m)
    <3>1. m \in Live
      BY <2>1 DEF BeginRead, Live, Running
    <3>2. pc \notin Exclusive
      BY <3>1 DEF LiveJoined, AloneJoined, Alone
    <3>3. Goto(m, "reading")
      BY <2>1, <3>2 DEF BeginRead, TaskWriting
    <3> QED
      BY <3>3 DEF Goto
  <2>2. CASE EndRead(m)
    BY <2>2 DEF EndRead, Finish, Goto
  <2>3. CASE UpgradeRead(m)
    BY <2>3 DEF UpgradeRead
  <2>4. CASE CancelRead(m)
    BY <2>4 DEF CancelRead, Finish
  <2>5. ASSUME NEW h \in HookResult, ReadHookReturns(m, h) PROVE NoReadFails'
    BY <2>5 DEF ReadHookReturns
  <2> QED
    BY <1>3, <2>1, <2>2, <2>3, <2>4, <2>5 DEF ReadTask
<1>4. CASE Outside
  BY <1>1, <1>4 DEF Outside, Send, SendSignal, Kill, GiveUp, readVars
<1>5. CASE ActorTask
  BY <1>1, <1>2, <1>5
  DEF ActorTask, OnStart, OnStartFails, StartFailedStop, JoinNext, Recv, BeginWrite,
      EndWrite, BeginLinkDied, HookReturns, TakeStop, Shutdown, OnPanic, Abort,
      FinalShutdown, NotifyLinks, OnStop, readVars
<1> QED
  BY <1>1, <1>3, <1>4, <1>5 DEF Next, Ended, DropFields, vars

\* With such methods "actor currently being written to - this is a bug and
\* should be reported" is never reached from a read handler.
THEOREM AssertionHolds ==
  ASSUME ReadOnly \subseteq Call \cup Infallible
  PROVE  Spec => []LockNeverAsserted
<1>1. Init => NoReadFails
  BY DEF Init, NoReadFails
<1>2. IInv /\ NoReadFails /\ [Next]_vars => NoReadFails'
  BY NoReadFailsStep
<1>3. NoReadFails => LockNeverAsserted
  BY DEF NoReadFails, LockNeverAsserted
<1> QED
  BY <1>1, <1>2, <1>3, Invariance, PTL DEF Spec


-----------------------------------------------------------------------------
(* Callers.  A pending caller's message is in the open mailbox, with the   *)
(* loop, or with a live read task; every step that takes the message from  *)
(* one of them gives it to another, answers it or drops its reply sender.  *)

\* The loop has a signal only between receiving it and disposing of it; what
\* reaches a hook was sent without a reply channel.
CurKept ==
  /\ pc \notin {"acquire", "wait", "handle", "on_error", "on_link_died"} => cur = None
  /\ pc = "on_error" => cur \notin Call
  /\ pc = "on_link_died" => cur \in Peer

\* The read index does not run past the end of the mailbox.
HeadInBounds == head <= Len(mailbox) + 1

CInv == CallersOwned /\ CurKept /\ HeadInBounds


\* A caller whose reply sender was dropped is not pending any more.
LEMMA DropRepliesPending ==
  ASSUME TypeOK, NEW S, DropReplies(S), NEW m \in Msg, outcome'[m] = "pending"
  PROVE  outcome[m] = "pending" /\ m \notin S
  BY DEF TypeOK, DropReplies

\* Steps of the program: an accepted message is unread, the rest keep theirs.
LEMMA OutsideCallers == IInv /\ CInv /\ Outside => CInv'
<1> SUFFICES ASSUME IInv, CInv, Outside PROVE CInv'
  OBVIOUS
<1> USE MsgAssumption
    DEF IInv, TypeOK, CInv, CallersOwned, CurKept, HeadInBounds, Unread, MailboxClosed,
        Live, actorVars, queueVars, readVars
<1>1. ASSUME NEW m \in Msg, Send(m) PROVE CInv'
  <2>1. CASE MailboxClosed
    BY <1>1, <2>1 DEF Send
  <2>2. CASE ~MailboxClosed
    <3>1. /\ mailbox' = Append(mailbox, m)
          /\ UNCHANGED <<pc, cur, reason, head, task>>
          /\ \A n \in Msg : n # m => outcome'[n] = outcome[n]
      BY <1>1, <2>2 DEF Send
    <3>2. Len(mailbox') = Len(mailbox) + 1 /\ mailbox'[Len(mailbox')] = m
      BY <3>1, <1>1 DEF Signal
    <3>3. \A i \in 1..Len(mailbox) : mailbox'[i] = mailbox[i]
      BY <3>1, <1>1 DEF Signal
    <3>4. Unread \cup {m} \subseteq Unread'
      BY <3>1, <3>2, <3>3
    <3> QED
      BY <2>2, <3>1, <3>2, <3>4, SMTT(30)
  <2> QED
    BY <2>1, <2>2
<1>2. ASSUME NEW s \in Peer \cup {Stop}, SendSignal(s) PROVE CInv'
  <2>1. Len(mailbox') = Len(mailbox) + 1
    BY <1>2 DEF SendSignal, Signal
  <2>2. \A i \in 1..Len(mailbox) : mailbox'[i] = mailbox[i]
    BY <1>2 DEF SendSignal, Signal
  <2> QED
    BY <1>2, <2>1, <2>2 DEF SendSignal
<1>3. CASE Kill
  BY <1>3 DEF Kill
<1>4. ASSUME NEW m \in Msg, GiveUp(m) PROVE CInv'
  BY <1>4 DEF GiveUp
<1> QED
  BY <1>1, <1>2, <1>3, <1>4 DEF Outside

\* Steps of the actor's task: what it takes it has, what it drops is told.
LEMMA ActorCallers == IInv /\ CInv /\ ActorTask => CInv'
<1> SUFFICES ASSUME IInv, CInv, ActorTask PROVE CInv'
  OBVIOUS
<1> USE MsgAssumption
    DEF IInv, TypeOK, CInv, CallersOwned, CurKept, HeadInBounds, Unread, MailboxClosed,
        Live, queueVars, readVars
<1>1. CASE OnStart
  BY <1>1, DropRepliesPending DEF OnStart, Leave, Resume, DroppedSignals
<1>2. CASE OnStartFails
  BY <1>2, DropRepliesPending DEF OnStartFails
<1>3. CASE StartFailedStop
  BY <1>3, DropRepliesPending DEF StartFailedStop, DroppedSignals
<1>4. CASE Recv
  <2>1. /\ mailbox[head] \in Signal /\ cur = None
        /\ cur' = mailbox[head] /\ head' = head + 1 /\ head <= Len(mailbox)
        /\ pc = "select" /\ pc' \in {"acquire", "wait"}
        /\ UNCHANGED <<mailbox, task, outcome>>
    BY <1>4 DEF Recv
  <2>2. Unread \subseteq Unread' \cup {cur'}
    BY <2>1
  <2>3. \A m \in Call : outcome'[m] = "pending" =>
          ~MailboxClosed /\ m \in Unread \cup Live
    BY <2>1 DEF Signal
  <2>4. CallersOwned'
    BY <2>1, <2>2, <2>3
  <2> QED
    BY <2>1, <2>4
<1>5. CASE SpawnRead
  <2>1. cur \in ReadOnly
    BY <1>5 DEF SpawnRead, CurKind
  <2>2. /\ pc' = "select" /\ cur' = None
        /\ task' = [task EXCEPT ![cur] = "spawned"]
        /\ UNCHANGED <<mailbox, head, outcome>>
    BY <1>5 DEF SpawnRead, Resume
  <2>3. Live \cup {cur} \subseteq Live'
    BY <2>1, <2>2 DEF Running
  <2> QED
    BY <2>1, <2>2, <2>3
<1>6. CASE BeginWrite
  BY <1>6, DropRepliesPending DEF BeginWrite, Caught, Return
<1>7. CASE EndWrite
  BY <1>7, DropRepliesPending DEF EndWrite, Resume, Reply, Caught, Return
<1>8. CASE BeginLinkDied
  BY <1>8, DropRepliesPending DEF BeginLinkDied
<1>9. CASE TakeStop
  BY <1>9, DropRepliesPending DEF TakeStop, Return
<1>10. CASE Shutdown
  BY <1>10, DropRepliesPending DEF Shutdown, Leave, DroppedSignals
<1>11. CASE Abort
  BY <1>11, DropRepliesPending DEF Abort, Leave, DroppedSignals, Interrupted
<1>12. CASE FinalShutdown
  BY <1>12, DropRepliesPending DEF FinalShutdown
<1>13. CASE NotifyLinks
  BY <1>13, DropRepliesPending DEF NotifyLinks
<1>14. CASE OnStop
  BY <1>14, DropRepliesPending DEF OnStop
<1>15. ASSUME NEW m \in ReadOnly, JoinNext(m) PROVE CInv'
  BY <1>15, DropRepliesPending DEF JoinNext, Return, actorVars
<1>16. ASSUME NEW h \in HookResult, HookReturns(h) PROVE CInv'
  BY <1>16, DropRepliesPending DEF HookReturns, Resume, Caught, Return
<1>17. ASSUME NEW h \in HookResult, OnPanic(h) PROVE CInv'
  BY <1>17, DropRepliesPending DEF OnPanic, Resume, Leave, DroppedSignals
<1> QED
  BY <1>1, <1>2, <1>3, <1>4, <1>5, <1>6, <1>7, <1>8, <1>9, <1>10, <1>11, <1>12, <1>13, <1>14, <1>15, <1>16, <1>17
  DEF ActorTask

\* Steps of a read task: it answers its caller or drops it.
LEMMA ReadCallers ==
  ASSUME IInv, CInv, NEW m \in ReadOnly, ReadTask(m) PROVE CInv'
<1> USE MsgAssumption
    DEF IInv, TypeOK, CInv, CallersOwned, CurKept, HeadInBounds, Unread, MailboxClosed,
        Live, notReadVars, actorVars, queueVars
<1>1. ASSUME NEW r \in Finished, Finish(m, r), UNCHANGED notReadVars PROVE CInv'
  <2>1. \A n \in Call : outcome'[n] = "pending" => outcome[n] = "pending" /\ n # m
    BY <1>1, DropRepliesPending DEF Finish, Reply
  <2>2. Live \subseteq Live' \cup {m}
    BY <1>1 DEF Finish
  <2> QED
    BY <1>1, <2>1, <2>2
<1>2. ASSUME NEW s \in Running, Goto(m, s), UNCHANGED notReadVars PROVE CInv'
  <2>1. Live \subseteq Live'
    BY <1>2 DEF Goto
  <2> QED
    BY <1>2, <2>1 DEF Goto
<1> QED
  BY <1>1, <1>2
  DEF ReadTask, BeginRead, EndRead, UpgradeRead, CancelRead, ReadHookReturns, Running, Finished

\* Where the callers' messages are is known in every reachable state.
THEOREM CallersInvariance == Spec => []CInv
<1>1. Init => CInv
  BY MsgAssumption DEF Init, CInv, CallersOwned, CurKept, HeadInBounds
<1>2. IInv /\ CInv /\ [Next]_vars => CInv'
  <2> SUFFICES ASSUME IInv, CInv, [Next]_vars PROVE CInv'
    OBVIOUS
  <2>1. CASE UNCHANGED vars
    BY <2>1 DEF CInv, CallersOwned, CurKept, HeadInBounds, Unread, MailboxClosed, Live, vars
  <2>2. ASSUME NEW m \in Call, DropFields(m) PROVE CInv'
    BY <2>2
    DEF CInv, CallersOwned, CurKept, HeadInBounds, Unread, MailboxClosed, Live, DropFields
  <2> QED
    BY <2>1, <2>2, OutsideCallers, ActorCallers, ReadCallers DEF Next, Ended
<1> QED
  BY <1>1, <1>2, Invariance, PTL DEF Spec

\* No caller is forgotten, whichever of handler, hook, stop, kill and failed
\* start disposes of its message: its reply sender always has an owner.
THEOREM NoCallerForgotten == Spec => []CallersOwned
<1>1. CInv => CallersOwned
  BY DEF CInv
<1> QED
  BY <1>1, CallersInvariance, PTL

-----------------------------------------------------------------------------
(* Waiting.  The converse of the accounting: a permit is out only for a    *)
(* task that is live, and the JoinSet holds only tasks that were spawned.  *)

WInv ==
  /\ permits \subseteq Live
  /\ \A m \in joinSet : task[m] # "none"

\* A live task gives its permit back at the step that ends it, and a new
\* semaphore replaces one of which no permit is out.
LEMMA WInvStep == IInv /\ WInv /\ [Next]_vars => WInv'
<1> SUFFICES ASSUME IInv, WInv, [Next]_vars PROVE WInv'
  OBVIOUS
<1> USE DEF IInv, TypeOK, WInv, Live
<1>1. CASE UNCHANGED readVars
  BY <1>1 DEF readVars
<1>2. CASE Outside
  BY <1>1, <1>2 DEF Outside, Send, SendSignal, GiveUp, Kill
<1>3. ASSUME NEW m \in ReadOnly, ReadTask(m) PROVE WInv'
  <2>1. ASSUME NEW r \in Finished, Finish(m, r), UNCHANGED joinSet PROVE WInv'
    BY <2>1 DEF Finish, Finished
  <2>2. ASSUME NEW r \in Running, Goto(m, r), UNCHANGED joinSet PROVE WInv'
    BY <2>2 DEF Goto, Running
  <2> QED
    BY <1>3, <2>1, <2>2
    DEF ReadTask, BeginRead, EndRead, UpgradeRead, CancelRead, ReadHookReturns, Running,
        Finished, notReadVars
<1>4. CASE ActorTask
  <2>1. CASE SpawnRead
    BY <2>1 DEF SpawnRead, Running, CurKind
  <2>2. CASE UNCHANGED task /\ joinSet' \subseteq joinSet /\ permits' \in {permits, {}}
    BY <2>2
  <2> QED
    BY <1>1, <1>4, <2>1, <2>2
    DEF ActorTask, OnStart, OnStartFails, StartFailedStop, JoinNext, Recv, BeginWrite,
        EndWrite, BeginLinkDied, HookReturns, TakeStop, Shutdown, OnPanic, Abort,
        FinalShutdown, NotifyLinks, OnStop, readVars
<1> QED
  BY <1>1, <1>2, <1>3, <1>4 DEF Next, Ended, DropFields, vars

\* The loop waits for a permit only while max_concurrent_reads() tasks hold
\* one, joins only what can be joined, and finds the lock free when it has:
\* no permit is lost to a read that fails, panics or is cancelled.
THEOREM WaitsAreMet == Spec => []NeverWaitsInVain
<1>1. Init => WInv
  BY DEF Init, WInv
<1>2. IInv /\ WInv => NeverWaitsInVain
  <2> SUFFICES ASSUME IInv, WInv PROVE NeverWaitsInVain
    OBVIOUS
  <2>1. Live = permits
    BY DEF IInv, LivePermitted, WInv
  <2>2. Cardinality(permits) \in Nat /\ Cardinality(permits) <= MaxConcurrentReads
    BY FS_CardinalityType DEF IInv, PermitsBounded
  <2>3. ~PermitFree => Cardinality(Live) = MaxConcurrentReads
    BY <2>1, <2>2, ReadsAssumption DEF PermitFree
  <2>4. ReadsJoined => TasksHoldNoGuard
    BY DEF IInv, LiveJoined, ReadsJoined, TasksHoldNoGuard, Live, Running
  <2> QED
    BY <2>3, <2>4 DEF NeverWaitsInVain, WInv
<1> QED
  BY <1>1, <1>2, WInvStep, Invariance, PTL DEF Spec

\* An actor that is dead owes nobody an answer, however it came to its end.
THEOREM DeadOwesNothing ==
  Spec => [](pc = "dead" => \A m \in Call : outcome[m] # "pending")
<1>1. IInv /\ CInv /\ pc = "dead" => \A m \in Call : outcome[m] # "pending"
  BY MsgAssumption
  DEF IInv, TypeOK, CInv, CallersOwned, CurKept, MailboxClosed, LiveJoined, AloneJoined, Alone,
      Signal
<1> QED
  BY <1>1, Invariance, CallersInvariance, PTL

-----------------------------------------------------------------------------
(* wait_for_stop.  Between the closing of the mailbox and the last shutdown *)
(* of the read tasks, only a killed actor has tasks left to shut down.      *)

ClosedDrained == pc = "final_shutdown" /\ reason # "Killed" => Live = {}

\* The loop leaves with its reads joined, or with nothing but hooks running;
\* Abort alone leaves reads behind.  Afterwards no read begins.
LEMMA ClosedDrainedStep == IInv /\ ClosedDrained /\ [Next]_vars => ClosedDrained'
<1> SUFFICES ASSUME IInv, ClosedDrained, [Next]_vars PROVE ClosedDrained'
  OBVIOUS
<1> USE DEF IInv, TypeOK, ClosedDrained, Live
<1>1. CASE UNCHANGED <<pc, reason, task>>
  BY <1>1
<1>2. CASE Outside
  BY <1>1, <1>2 DEF Outside, Send, SendSignal, GiveUp, Kill, actorVars, readVars
<1>3. ASSUME NEW m \in ReadOnly, ReadTask(m) PROVE ClosedDrained'
  <2>1. /\ UNCHANGED <<pc, reason>>
        /\ task[m] \in Running
        /\ \A n \in ReadOnly \ {m} : task'[n] = task[n]
    BY <1>3 DEF ReadTask, BeginRead, EndRead, UpgradeRead, CancelRead, ReadHookReturns,
                Finish, Goto, Running, notReadVars, actorVars
  <2> QED
    BY <2>1
<1>4. CASE ActorTask
  <2>1. CASE OnStart
    BY <2>1 DEF OnStart, Leave, Resume
  <2>2. CASE Shutdown
    <3>1. Live = {}
      BY <2>2 DEF Shutdown, ReadsDrained, LiveJoined
    <3> QED
      BY <2>2, <3>1 DEF Shutdown, Leave, readVars
  <2>3. ASSUME NEW h \in HookResult, OnPanic(h) PROVE ClosedDrained'
    <3>1. Live = {}
      BY <2>3 DEF OnPanic, LiveJoined, AloneJoined, Alone, Exclusive
    <3> QED
      BY <2>3, <3>1 DEF OnPanic, Leave, Resume
  <2>4. CASE Abort
    BY <2>4 DEF Abort, Leave
  <2>5. CASE pc' # "final_shutdown"
    BY <2>5
  <2> QED
    BY <1>1, <1>4, <2>1, <2>2, <2>3, <2>4, <2>5
    DEF ActorTask, OnStartFails, StartFailedStop, JoinNext, Recv, SpawnRead, BeginWrite,
        EndWrite, BeginLinkDied, HookReturns, TakeStop, FinalShutdown, NotifyLinks, OnStop,
        Return, Caught, Resume, actorVars, readVars
<1> QED
  BY <1>1, <1>2, <1>3, <1>4 DEF Next, Ended, DropFields, vars

\* Whoever returns from wait_for_stop finds no handler in progress and no
\* caller waiting, unless the actor was killed.
THEOREM StopAwaited == Spec => []WaitForStopWaits
<1>1. Init => ClosedDrained
  BY DEF Init, ClosedDrained
<1>2. IInv /\ CInv /\ ClosedDrained => WaitForStopWaits
  <2> SUFFICES ASSUME IInv, CInv, ClosedDrained, MailboxClosed, reason # "Killed"
               PROVE  Live = {} /\ \A m \in Call : outcome[m] # "pending"
    BY DEF WaitForStopWaits, WaitForStopReturns
  <2>1. Live = {}
    BY DEF IInv, LiveJoined, AloneJoined, Alone, ClosedDrained, MailboxClosed
  <2>2. cur = None
    BY DEF CInv, CurKept, MailboxClosed
  <2> QED
    BY <2>1, <2>2, MsgAssumption DEF CInv, CallersOwned, Signal
<1> QED
  BY <1>1, <1>2, ClosedDrainedStep, Invariance, CallersInvariance, PTL DEF Spec

=============================================================================
