------------------------ MODULE LifecycleOrderProofs ------------------------
(***************************************************************************)
(* Proofs about the order in which Lifecycle's actor handles its signals,  *)
(* for every set of messages, every set of hook results and every          *)
(* max_concurrent_reads().                                                 *)
(*                                                                         *)
(* The mailbox keeps everything ever accepted, so what the actor has done  *)
(* is a matter of how far into it the loop has come.  The invariant relates*)
(* the two: no signal past that point has left a trace, and as long as the *)
(* loop goes on, or if it ends with Normal, every one before it has.       *)
(***************************************************************************)
EXTENDS LifecycleProofs

\* The loop waits to begin what it has taken.
Waiting == pc \in {"acquire", "wait"}

\* The signals whose handling has begun.
LastBegun == IF Waiting THEN head - 2 ELSE head - 1
Begun == {mailbox[i] : i \in 1..LastBegun}

\* A message is sent once, a signal is in the mailbox at most once, and what
\* the loop has taken is the last it received.
SentOnce ==
  /\ \A i, j \in 1..Len(mailbox) : mailbox[i] = mailbox[j] => i = j
  /\ \A i \in 1..Len(mailbox) : mailbox[i] \in Msg => outcome[mailbox[i]] # "unsent"
CurIsLast == cur # None => head > 1 /\ cur = mailbox[head - 1]

QInv == SentOnce /\ CurIsLast

\* A reason ends the loop: on_panic decides only when there is none, and by
\* then every read is over.  Reads are cancelled only on the way out.
LoopGoesOn == pc \in (Abortable \ {"shutdown"}) \cup {"on_start"} => reason = None
PanicsAlone == pc = "shutdown" /\ reason = None => joinSet = {}
CancelsLate ==
  pc \notin {"shutdown", "final_shutdown"} =>
    \A m \in joinSet : task[m] \notin {"cancelled", "discarded"}

LeavesForReason == pc = "final_shutdown" => reason # None

RInv == LoopGoesOn /\ PanicsAlone /\ CancelsLate /\ LeavesForReason

\* What has left a trace has begun; if no reason ended the loop, every write
\* that has begun is applied and every read that has is in progress or over.
TracesBegun == {m \in ReadOnly : task[m] # "none"} \cup state \subseteq Begun
AllApplied ==
  reason = None => /\ Begun \cap Write \subseteq state
                   /\ \A m \in Begun \cap ReadOnly : m \in joinSet \/ task[m] = "completed"

\* The value stands still while a read is in progress.
LivePrefix == \A m \in Live : state = {w \in Write : Before(w, m)}

\* An actor that stops for Normal has received the stop signal last.
StopLast ==
  reason = "Normal" =>
    /\ head > 1 /\ mailbox[head - 1] = Stop
    /\ \A i \in 1..(head - 2) :
         /\ mailbox[i] \in ReadOnly => task[mailbox[i]] = "completed"
         /\ mailbox[i] \in Write => mailbox[i] \in state

OInv == TracesBegun /\ AllApplied /\ LivePrefix /\ StopLast

-----------------------------------------------------------------------------

\* The mailbox only grows, and keeps what it has where it is.
LEMMA MailboxGrows ==
  ASSUME IInv, [Next]_vars
  PROVE  /\ Len(mailbox) <= Len(mailbox')
         /\ \A i \in 1..Len(mailbox) : mailbox'[i] = mailbox[i]
<1> USE DEF IInv, TypeOK
<1>1. CASE UNCHANGED mailbox
  BY <1>1
<1>2. ASSUME NEW s \in Signal, mailbox' = Append(mailbox, s)
      PROVE  /\ Len(mailbox) <= Len(mailbox')
             /\ \A i \in 1..Len(mailbox) : mailbox'[i] = mailbox[i]
  BY <1>2
<1>3. CASE Outside
  BY <1>1, <1>2, <1>3 DEF Outside, Send, SendSignal, GiveUp, Kill, queueVars, Signal
<1>4. CASE ActorTask
  BY <1>1, <1>4
  DEF ActorTask, OnStart, OnStartFails, StartFailedStop, JoinNext, Recv, SpawnRead,
      BeginWrite, EndWrite, BeginLinkDied, HookReturns, TakeStop, Shutdown, OnPanic, Abort,
      FinalShutdown, NotifyLinks, OnStop, queueVars
<1>5. ASSUME NEW m \in ReadOnly, ReadTask(m)
      PROVE  UNCHANGED mailbox
  BY <1>5
  DEF ReadTask, BeginRead, EndRead, UpgradeRead, CancelRead, ReadHookReturns,
      notReadVars, queueVars
<1> QED
  BY <1>1, <1>3, <1>4, <1>5 DEF Next, Ended, DropFields, vars

\* No step takes a message back: what was sent is not unsent any more.
LEMMA StaysSent ==
  ASSUME IInv, [Next]_vars, NEW m \in Msg, outcome[m] # "unsent"
  PROVE  outcome'[m] # "unsent"
<1> USE DEF IInv, TypeOK
<1>1. CASE UNCHANGED outcome
  BY <1>1
<1>2. ASSUME NEW S, DropReplies(S) PROVE outcome'[m] # "unsent"
  BY <1>2 DEF DropReplies
<1>3. ASSUME NEW n, Reply(n) PROVE outcome'[m] # "unsent"
  BY <1>3 DEF Reply
<1>4. CASE Outside
  BY <1>1, <1>4 DEF Outside, Send, SendSignal, GiveUp, Kill
<1>5. CASE ActorTask
  BY <1>1, <1>2, <1>3, <1>5
  DEF ActorTask, OnStart, OnStartFails, StartFailedStop, JoinNext, Recv, SpawnRead,
      BeginWrite, EndWrite, BeginLinkDied, HookReturns, TakeStop, Shutdown, OnPanic, Abort,
      FinalShutdown, NotifyLinks, OnStop, Leave, Return, Caught, Resume
<1>6. ASSUME NEW n \in ReadOnly, ReadTask(n) PROVE outcome'[m] # "unsent"
  BY <1>1, <1>2, <1>3, <1>6
  DEF ReadTask, BeginRead, EndRead, UpgradeRead, CancelRead, ReadHookReturns,
      Finish, Goto
<1> QED
  BY <1>1, <1>4, <1>5, <1>6 DEF Next, Ended, DropFields, vars

\* Every signal stays in the mailbox once, and the loop holds the last.
LEMMA QInvStep == IInv /\ CInv /\ QInv /\ [Next]_vars => QInv'
<1> SUFFICES ASSUME IInv, CInv, QInv, [Next]_vars PROVE QInv'
  OBVIOUS
<1> USE MsgAssumption DEF IInv, TypeOK, CInv, HeadInBounds, QInv, SentOnce, CurIsLast
<1>1. ASSUME UNCHANGED mailbox, cur' \in {cur, None}, UNCHANGED head PROVE QInv'
  BY <1>1, StaysSent DEF Signal
<1>2. ASSUME NEW s \in Signal, mailbox' = Append(mailbox, s), UNCHANGED <<head, cur>>,
             \A i \in 1..Len(mailbox) : mailbox[i] # s,
             s \in Msg => outcome'[s] # "unsent"
      PROVE  QInv'
  <2>1. Len(mailbox') = Len(mailbox) + 1 /\ mailbox'[Len(mailbox) + 1] = s
    BY <1>2
  <2>2. \A i \in 1..Len(mailbox) : mailbox'[i] = mailbox[i] /\ mailbox'[i] # s
    BY <1>2
  <2>3. \A i \in 1..Len(mailbox') : i \in 1..Len(mailbox) \/ i = Len(mailbox) + 1
    BY <2>1
  <2>4. SentOnce'
    BY <1>2, <2>1, <2>2, <2>3, StaysSent
  <2>5. CurIsLast'
    BY <1>2, <2>2
  <2> QED
    BY <2>4, <2>5
<1>3. ASSUME NEW m \in Msg, Send(m) PROVE QInv'
  BY <1>1, <1>2, <1>3 DEF Send, actorVars, Signal
<1>4. ASSUME NEW s \in Peer \cup {Stop}, SendSignal(s) PROVE QInv'
  <2>1. \A i \in 1..Len(mailbox) : mailbox[i] # s
    BY <1>4 DEF SendSignal, Range
  <2> QED
    BY <1>2, <1>4, <2>1 DEF SendSignal, actorVars, Signal
<1>5. CASE Outside
  BY <1>1, <1>3, <1>4, <1>5 DEF Outside, GiveUp, Kill, actorVars, queueVars
<1>6. CASE Recv
  <2>1. /\ UNCHANGED <<mailbox, outcome>>
        /\ head' = head + 1 /\ cur' = mailbox[head] /\ head <= Len(mailbox)
    BY <1>6 DEF Recv
  <2> QED
    BY <2>1
<1>7. CASE ActorTask
  BY <1>1, <1>6, <1>7
  DEF ActorTask, OnStart, OnStartFails, StartFailedStop, JoinNext, SpawnRead,
      BeginWrite, EndWrite, BeginLinkDied, HookReturns, TakeStop, Shutdown, OnPanic, Abort,
      FinalShutdown, NotifyLinks, OnStop, Leave, Return, Caught, Resume, actorVars, queueVars
<1>8. ASSUME NEW m \in ReadOnly, ReadTask(m) PROVE QInv'
  BY <1>1, <1>8
  DEF ReadTask, BeginRead, EndRead, UpgradeRead, CancelRead, ReadHookReturns,
      notReadVars, actorVars, queueVars
<1> QED
  BY <1>1, <1>5, <1>7, <1>8 DEF Next, Ended, DropFields, vars

-----------------------------------------------------------------------------

\* Why the actor stops, and when: the loop goes on only without a reason, and
\* what on_panic finds is an empty JoinSet.
LEMMA RInvStep == IInv /\ CInv /\ RInv /\ [Next]_vars => RInv'
<1> SUFFICES ASSUME IInv, CInv, RInv, [Next]_vars PROVE RInv'
  OBVIOUS
<1> USE ReasonAssumption
    DEF IInv, TypeOK, AloneJoined, Alone, Exclusive, Abortable, RInv, LoopGoesOn,
        PanicsAlone, CancelsLate, LeavesForReason, StopReason
<1>1. CASE UNCHANGED <<pc, reason, joinSet, task>>
  BY <1>1
<1>2. CASE Outside
  BY <1>1, <1>2 DEF Outside, Send, SendSignal, GiveUp, Kill, actorVars, readVars
<1>3. ASSUME NEW m \in ReadOnly, ReadTask(m) PROVE RInv'
  <2>1. ASSUME NEW r \in Finished, Finish(m, r), UNCHANGED notReadVars,
               r \in {"cancelled", "discarded"} => pc \in {"shutdown", "final_shutdown"}
        PROVE  RInv'
    BY <2>1 DEF Finish, notReadVars, actorVars
  <2>2. ASSUME NEW s \in Running, Goto(m, s), UNCHANGED notReadVars PROVE RInv'
    BY <2>2 DEF Goto, Running, notReadVars, actorVars
  <2> QED
    BY <1>3, <2>1, <2>2
    DEF ReadTask, BeginRead, EndRead, UpgradeRead, CancelRead, ReadHookReturns, Running,
        Finished
<1>4. CASE ActorTask
  <2>1. CASE OnStart \/ OnStartFails \/ StartFailedStop
    BY <2>1 DEF OnStart, OnStartFails, StartFailedStop, Leave, Resume, readVars
  <2>2. ASSUME NEW m \in ReadOnly, JoinNext(m) PROVE RInv'
    <3>1. task[m] \notin {"cancelled", "discarded"}
      BY <2>2 DEF JoinNext
    <3> QED
      BY <2>2, <3>1 DEF JoinNext, JoinedReason, Return, actorVars, Finished
  <2>3. CASE Recv \/ BeginWrite \/ BeginLinkDied \/ TakeStop
    BY <2>3 DEF Recv, BeginWrite, ReadsJoined, BeginLinkDied, TakeStop, Caught, Return,
                readVars
  <2>4. CASE SpawnRead
    BY <2>4 DEF SpawnRead, Resume, CurKind
  <2>5. CASE EndWrite
    BY <2>5 DEF EndWrite, Resume, Caught, Return, readVars
  <2>6. ASSUME NEW h \in HookResult, HookReturns(h) \/ OnPanic(h) PROVE RInv'
    BY <2>6 DEF HookReturns, OnPanic, Leave, Resume, Caught, Return, readVars
  <2>7. CASE Shutdown \/ Abort
    BY <2>7 DEF Shutdown, Abort, Interrupted, Leave, readVars
  <2>8. CASE FinalShutdown \/ NotifyLinks \/ OnStop
    BY <2>8 DEF FinalShutdown, NotifyLinks, OnStop, readVars
  <2> QED
    BY <1>4, <2>1, <2>2, <2>3, <2>4, <2>5, <2>6, <2>7, <2>8 DEF ActorTask
<1> QED
  BY <1>1, <1>2, <1>3, <1>4 DEF Next, Ended, DropFields, vars

-----------------------------------------------------------------------------

\* What has begun stays begun, in its place.
LEMMA BegunStays ==
  ASSUME IInv, CInv, QInv, [Next]_vars, LastBegun' = LastBegun
  PROVE  Begun' = Begun
<1>1. LastBegun <= Len(mailbox) /\ LastBegun \in Int
  BY DEF IInv, TypeOK, CInv, HeadInBounds, LastBegun
<1>2. \A i \in 1..LastBegun : mailbox'[i] = mailbox[i]
  BY <1>1, MailboxGrows DEF IInv, TypeOK
<1> QED
  BY <1>2 DEF Begun

\* What the loop waits to begin is the next signal, and has not begun.
LEMMA WaitingIsNext ==
  ASSUME IInv, CInv, QInv, Waiting
  PROVE  /\ head > 1 /\ head - 1 \in 1..Len(mailbox)
         /\ cur \in Signal /\ cur = mailbox[head - 1] /\ cur \notin Begun
         /\ LastBegun = head - 2
<1> USE MsgAssumption DEF IInv, TypeOK, CInv, HeadInBounds
<1>1. cur \in Signal /\ cur # None
  BY DEF Waiting, CurKind, Signal
<1>2. head > 1 /\ cur = mailbox[head - 1] /\ head - 1 \in 1..Len(mailbox)
  BY <1>1 DEF QInv, CurIsLast
<1>3. cur \notin Begun
  BY <1>2 DEF QInv, SentOnce, Begun, LastBegun, Waiting
<1> QED
  BY <1>1, <1>2, <1>3 DEF LastBegun, Waiting

\* When the wait is over, the next signal has begun.
LEMMA BegunGrows ==
  ASSUME IInv, CInv, QInv, [Next]_vars, Waiting, LastBegun' = LastBegun + 1
  PROVE  Begun' = Begun \cup {cur}
<1>1. /\ head \in Nat /\ head > 1 /\ head - 1 \in 1..Len(mailbox)
      /\ cur = mailbox[head - 1] /\ LastBegun = head - 2
  BY WaitingIsNext DEF IInv, TypeOK
<1>2. \A i \in 1..(head - 1) : mailbox'[i] = mailbox[i]
  BY <1>1, MailboxGrows DEF IInv, TypeOK
<1>3. 1..(head - 1) = 1..(head - 2) \cup {head - 1}
  BY <1>1
<1> QED
  BY <1>1, <1>2, <1>3 DEF Begun

\* Nothing is ever accepted before what the mailbox already has.
LEMMA BeforeStays ==
  ASSUME IInv, QInv', [Next]_vars, NEW s, NEW k \in 1..Len(mailbox), NEW m, m = mailbox[k]
  PROVE  Before(s, m)' <=> Before(s, m)
<1>1. Len(mailbox) \in Nat /\ Len(mailbox') >= Len(mailbox) /\ Len(mailbox') \in Nat
  BY MailboxGrows, NextStep DEF IInv, TypeOK
<1>2. \A i \in 1..Len(mailbox) : mailbox'[i] = mailbox[i]
  BY MailboxGrows
<1>3. ASSUME Before(s, m) PROVE Before(s, m)'
  BY <1>1, <1>2, <1>3 DEF Before
<1>4. ASSUME Before(s, m)' PROVE Before(s, m)
  <2>1. PICK i, j \in 1..Len(mailbox') : i < j /\ mailbox'[i] = s /\ mailbox'[j] = m
    BY <1>4 DEF Before
  <2>2. j = k
    BY <1>1, <1>2, <2>1 DEF QInv, SentOnce
  <2> QED
    BY <1>1, <1>2, <2>1, <2>2 DEF Before
<1> QED
  BY <1>3, <1>4

\* What the loop waits to begin comes after all that has begun, and after
\* nothing else.
LEMMA BegunBefore ==
  ASSUME IInv, CInv, QInv, Waiting, NEW s
  PROVE  Before(s, cur) <=> s \in Begun
<1>1. /\ head \in Nat /\ head > 1 /\ head - 1 \in 1..Len(mailbox)
      /\ cur = mailbox[head - 1] /\ LastBegun = head - 2
  BY WaitingIsNext DEF IInv, TypeOK
<1>2. \A j \in 1..Len(mailbox) : mailbox[j] = cur => j = head - 1
  BY <1>1 DEF QInv, SentOnce
<1> QED
  BY <1>1, <1>2, SMTT(30) DEF Before, Begun

-----------------------------------------------------------------------------

\* A step that begins no message, lets tasks go on or end, and joins only
\* completed ones unless it gives a reason, keeps the order.
LEMMA OrderKept ==
  ASSUME IInv, CInv, QInv, QInv', RInv, OInv, [Next]_vars,
         UNCHANGED state,
         \A m \in ReadOnly : \/ task'[m] = task[m]
                             \/ task[m] \in Running /\ task'[m] # "none",
         reason' # reason => reason' \notin {None, "Normal"},
         reason' = None => \A m \in joinSet \ joinSet' : task[m] = "completed",
         head' # head => reason' # "Normal",
         \/ LastBegun' = LastBegun
         \/ /\ Waiting /\ LastBegun' = LastBegun + 1
            /\ reason' \in {None, "Normal"} => cur \notin Msg
  PROVE  OInv'
<1> USE DEF IInv, TypeOK, OInv
<1>1. /\ Begun \subseteq Begun'
      /\ reason' \in {None, "Normal"} => Begun' \cap Msg \subseteq Begun
  BY BegunStays, BegunGrows
<1>2. Live' \subseteq Live
  BY DEF Live
<1>3. TracesBegun'
  BY <1>1 DEF TracesBegun, Running
<1>4. AllApplied'
  <2> SUFFICES ASSUME reason' = None
               PROVE  /\ Begun' \cap Write \subseteq state
                      /\ \A m \in Begun' \cap ReadOnly :
                           m \in joinSet' \/ task'[m] = "completed"
    BY DEF AllApplied
  <2>1. reason = None /\ Begun' \cap Msg \subseteq Begun
    BY <1>1
  <2>2. ASSUME NEW m \in Begun' \cap ReadOnly PROVE m \in joinSet' \/ task'[m] = "completed"
    <3>1. m \in Begun /\ (m \in joinSet \/ task[m] = "completed")
      BY <2>1, MsgAssumption DEF AllApplied
    <3>2. CASE task[m] \in Running
      BY <3>1, <3>2 DEF LiveJoined, Live, Running
    <3>3. CASE task[m] \notin Running
      BY <3>1, <3>3
    <3> QED
      BY <3>2, <3>3
  <2> QED
    BY <2>1, <2>2 DEF AllApplied, Write
<1>5. LivePrefix'
  <2> SUFFICES ASSUME NEW m \in Live' PROVE state = {w \in Write : Before(w, m)'}
    BY DEF LivePrefix
  <2>1. m \in Live /\ m \in Begun /\ state = {w \in Write : Before(w, m)}
    BY <1>2 DEF LivePrefix, TracesBegun, Live, Running
  <2>2. LastBegun <= Len(mailbox) /\ LastBegun \in Int
    BY DEF CInv, HeadInBounds, LastBegun
  <2>3. PICK k \in 1..Len(mailbox) : m = mailbox[k]
    BY <2>1, <2>2, MailboxGrows DEF Begun
  <2>4. \A w : Before(w, m)' <=> Before(w, m)
    BY <2>3, BeforeStays
  <2> QED
    BY <2>1, <2>4
<1>6. StopLast'
  <2> SUFFICES ASSUME reason' = "Normal"
               PROVE  /\ head > 1 /\ mailbox'[head - 1] = Stop
                      /\ \A i \in 1..(head - 2) :
                           /\ mailbox'[i] \in ReadOnly => task'[mailbox'[i]] = "completed"
                           /\ mailbox'[i] \in Write => mailbox'[i] \in state
    BY DEF StopLast
  <2>1. reason = "Normal" /\ head - 1 <= Len(mailbox)
    BY DEF CInv, HeadInBounds
  <2>2. \A i \in 1..(head - 1) : mailbox'[i] = mailbox[i]
    BY <2>1, MailboxGrows
  <2>3. head > 1 /\ mailbox[head - 1] = Stop /\ mailbox'[head - 1] = Stop
    BY <2>1, <2>2 DEF StopLast
  <2>4. ASSUME NEW i \in 1..(head - 2)
        PROVE  /\ mailbox[i] \in ReadOnly => task'[mailbox[i]] = "completed"
               /\ mailbox[i] \in Write => mailbox[i] \in state
    <3>1. /\ mailbox[i] \in ReadOnly => task[mailbox[i]] = "completed"
          /\ mailbox[i] \in Write => mailbox[i] \in state
      BY <2>1 DEF StopLast
    <3> QED
      BY <3>1 DEF Running
  <2>5. \A i \in 1..(head - 2) : mailbox'[i] = mailbox[i]
    BY <2>2
  <2> QED
    BY <2>3, <2>4, <2>5
<1> QED
  BY <1>3, <1>4, <1>5, <1>6

\* A read begins with every write before it applied, and no other.
LEMMA SpawnReadOrder ==
  ASSUME IInv, CInv, QInv, QInv', RInv, OInv, [Next]_vars, SpawnRead
  PROVE  OInv'
<1> USE DEF IInv, TypeOK, OInv
<1>1. /\ pc = "acquire" /\ pc' = "select" /\ reason = None
      /\ UNCHANGED <<mailbox, head, state, reason>>
      /\ task' = [task EXCEPT ![cur] = "spawned"] /\ joinSet' = joinSet \cup {cur}
      /\ cur \in ReadOnly
  BY DEF SpawnRead, Resume, queueVars, RInv, LoopGoesOn, Abortable, CurKind
<1>2. Waiting /\ LastBegun' = LastBegun + 1
  BY <1>1, WaitingIsNext DEF Waiting, LastBegun
<1>3. Begun' = Begun \cup {cur} /\ cur \notin Begun
  BY <1>2, BegunGrows, WaitingIsNext
<1>4. state = Begun \cap Write
  BY <1>1 DEF TracesBegun, AllApplied
<1>5. LivePrefix'
  <2> SUFFICES ASSUME NEW m \in Live' PROVE state = {w \in Write : Before(w, m)'}
    BY <1>1 DEF LivePrefix
  <2>1. \A w : Before(w, m)' <=> Before(w, m)
    BY <1>1 DEF Before
  <2>2. CASE m = cur
    BY <1>2, <1>4, <2>1, <2>2, BegunBefore
  <2>3. CASE m # cur
    BY <1>1, <2>1, <2>3 DEF Live, LivePrefix
  <2> QED
    BY <2>2, <2>3
<1>6. TracesBegun' /\ AllApplied'
  BY <1>1, <1>3 DEF TracesBegun, AllApplied, Write
<1>7. StopLast'
  BY <1>1, ReasonAssumption DEF StopLast, StopReason
<1> QED
  BY <1>5, <1>6, <1>7

\* A write is applied while no read is in progress.
LEMMA BeginWriteOrder ==
  ASSUME IInv, CInv, QInv, QInv', RInv, OInv, [Next]_vars, BeginWrite
  PROVE  OInv'
<1> USE DEF IInv, TypeOK, OInv
<1>1. Live = {} /\ TasksHoldNoGuard
  BY DEF BeginWrite, ReadsJoined, LiveJoined, Live, TasksHoldNoGuard, Running
<1>2. /\ pc = "wait" /\ pc' = "handle" /\ reason = None /\ cur \in Write
      /\ UNCHANGED <<mailbox, head, reason, task, joinSet>>
      /\ state' = state \cup {cur}
  BY <1>1 DEF BeginWrite, queueVars, readVars, RInv, LoopGoesOn, Abortable
<1>3. Waiting /\ LastBegun' = LastBegun + 1
  BY <1>2, WaitingIsNext DEF Waiting, LastBegun
<1>4. Begun' = Begun \cup {cur}
  BY <1>3, BegunGrows
<1>5. TracesBegun' /\ AllApplied'
  BY <1>2, <1>4 DEF TracesBegun, AllApplied, Write
<1>6. LivePrefix' /\ StopLast'
  BY <1>1, <1>2, ReasonAssumption DEF LivePrefix, Live, StopLast, StopReason
<1> QED
  BY <1>5, <1>6

\* The stop signal ends the loop with everything before it done.
LEMMA TakeStopOrder ==
  ASSUME IInv, CInv, QInv, QInv', RInv, OInv, [Next]_vars, TakeStop
  PROVE  OInv'
<1> USE DEF IInv, TypeOK, OInv
<1>1. /\ pc = "wait" /\ pc' = "shutdown" /\ reason = None /\ cur = Stop /\ joinSet = {}
      /\ reason' = "Normal"
      /\ UNCHANGED <<mailbox, head, task, state>>
  BY DEF TakeStop, ReadsJoined, Return, queueVars, readVars, RInv, LoopGoesOn, Abortable
<1>2. Waiting /\ LastBegun' = LastBegun + 1
  BY <1>1, WaitingIsNext DEF Waiting, LastBegun
<1>3. Begun' = Begun \cup {cur}
  BY <1>2, BegunGrows
<1>4. TracesBegun' /\ LivePrefix'
  <2>1. Live' = {}
    BY <1>1 DEF LiveJoined, Live
  <2> QED
    BY <1>1, <1>3, <2>1 DEF TracesBegun, LivePrefix
<1>5. AllApplied'
  BY <1>1, ReasonAssumption DEF AllApplied, StopReason
<1>6. StopLast'
  <2>1. /\ head > 1 /\ cur = mailbox[head - 1] /\ LastBegun = head - 2
    BY <1>2, WaitingIsNext
  <2>2. \A i \in 1..(head - 2) : mailbox[i] \in Begun
    BY <2>1 DEF Begun
  <2> QED
    BY <1>1, <2>1, <2>2 DEF StopLast, AllApplied
<1> QED
  BY <1>4, <1>5, <1>6

\* The program's own steps: nothing begins and nothing ends.
LEMMA OutsideOrder ==
  ASSUME IInv, CInv, QInv, QInv', RInv, OInv, [Next]_vars, Outside
  PROVE  OInv'
<1>1. UNCHANGED <<pc, cur, reason, head, task, joinSet, state>>
  BY DEF Outside, Send, SendSignal, GiveUp, Kill, actorVars, queueVars, readVars
<1>2. LastBegun' = LastBegun
  BY <1>1 DEF LastBegun, Waiting
<1> QED
  BY <1>1, <1>2, OrderKept

\* Steps of the read tasks: one task goes on or ends.
LEMMA ReadOrder ==
  ASSUME IInv, CInv, QInv, QInv', RInv, OInv, [Next]_vars, NEW m \in ReadOnly, ReadTask(m)
  PROVE  OInv'
<1>1. /\ UNCHANGED <<pc, cur, reason, head, joinSet, state>>
      /\ \E s \in Running \cup Finished : task' = [task EXCEPT ![m] = s]
      /\ task[m] \in Running
  BY DEF ReadTask, BeginRead, EndRead, UpgradeRead, CancelRead, ReadHookReturns,
         notReadVars, actorVars, queueVars, Finish, Goto, Running, Finished
<1>2. LastBegun' = LastBegun
  BY <1>1 DEF LastBegun, Waiting
<1>3. \A n \in ReadOnly : \/ task'[n] = task[n]
                          \/ task[n] \in Running /\ task'[n] # "none"
  BY <1>1 DEF IInv, TypeOK, Running, Finished
<1> QED
  BY <1>1, <1>2, <1>3, OrderKept

\* The other steps of the actor's task: a message that it drops instead of
\* beginning it has a reason to stop.
LEMMA ActorOrder ==
  ASSUME IInv, CInv, QInv, QInv', RInv, RInv', OInv, [Next]_vars, ActorTask
  PROVE  OInv'
<1> DEFINE Kept ==
      /\ UNCHANGED <<task, state>>
      /\ reason' # reason => reason' \notin {None, "Normal"}
      /\ reason' = None => \A m \in joinSet \ joinSet' : task[m] = "completed"
      /\ head' # head => reason' # "Normal"
      /\ \/ LastBegun' = LastBegun
         \/ /\ Waiting /\ LastBegun' = LastBegun + 1
            /\ reason' \in {None, "Normal"} => cur \notin Msg
<1>0. ASSUME Kept PROVE OInv'
  BY <1>0, OrderKept
<1>1. CASE SpawnRead \/ BeginWrite \/ TakeStop
  BY <1>1, SpawnReadOrder, BeginWriteOrder, TakeStopOrder
<1> USE MsgAssumption, ReasonAssumption
    DEF IInv, TypeOK, RInv, LoopGoesOn, PanicsAlone, LeavesForReason, Abortable,
        StopReason, Waiting, LastBegun
<1>2. CASE OnStart \/ OnStartFails \/ StartFailedStop
  <2>1. Kept
    BY <1>2 DEF OnStart, OnStartFails, StartFailedStop, Leave, Resume, queueVars, readVars
  <2> QED
    BY <1>0, <2>1
<1>3. ASSUME NEW m \in ReadOnly, JoinNext(m) PROVE OInv'
  <2>1. task[m] # "completed" => JoinedReason(m) \notin {None, "Normal"}
    BY <1>3 DEF JoinNext, JoinedReason, CancelsLate, Finished
  <2>2. Kept
    BY <1>3, <2>1 DEF JoinNext, Return, actorVars, queueVars
  <2> QED
    BY <1>0, <2>2
<1>4. CASE Recv
  <2>1. Kept
    BY <1>4 DEF Recv, readVars
  <2> QED
    BY <1>0, <2>1
<1>5. CASE EndWrite \/ BeginLinkDied
  <2>1. Kept
    BY <1>5 DEF EndWrite, BeginLinkDied, Resume, Caught, Return, queueVars, readVars
  <2> QED
    BY <1>0, <2>1
<1>6. ASSUME NEW h \in HookResult, HookReturns(h) \/ OnPanic(h) PROVE OInv'
  <2>1. Kept
    BY <1>6 DEF HookReturns, OnPanic, Leave, Resume, Caught, Return, queueVars, readVars
  <2> QED
    BY <1>0, <2>1
<1>7. CASE Shutdown \/ Abort
  <2>1. Kept
    BY <1>7 DEF Shutdown, Abort, Interrupted, Leave, queueVars, readVars
  <2> QED
    BY <1>0, <2>1
<1>8. CASE FinalShutdown \/ NotifyLinks \/ OnStop
  <2>1. Kept
    BY <1>8 DEF FinalShutdown, NotifyLinks, OnStop, queueVars, readVars
  <2> QED
    BY <1>0, <2>1
<1> QED
  BY <1>1, <1>2, <1>3, <1>4, <1>5, <1>6, <1>7, <1>8 DEF ActorTask

-----------------------------------------------------------------------------

\* What the actor has done is, at all times, a matter of how far into the
\* mailbox its loop has come.
THEOREM OrderInvariance == Spec => [](QInv /\ RInv /\ OInv)
<1>1. Init => QInv /\ RInv /\ OInv
  <2> SUFFICES ASSUME Init PROVE QInv /\ RInv /\ OInv
    OBVIOUS
  <2> USE ReasonAssumption, MsgAssumption DEF Init
  <2>1. QInv
    BY DEF QInv, SentOnce, CurIsLast
  <2>2. RInv
    BY DEF RInv, LoopGoesOn, PanicsAlone, CancelsLate, LeavesForReason
  <2>3. Begun = {} /\ Live = {}
    BY DEF Begun, LastBegun, Waiting, Live, Running
  <2>4. OInv
    BY <2>3 DEF OInv, TracesBegun, AllApplied, LivePrefix, StopLast, StopReason
  <2> QED
    BY <2>1, <2>2, <2>4
<1>2. IInv /\ CInv /\ (QInv /\ RInv /\ OInv) /\ [Next]_vars => (QInv /\ RInv /\ OInv)'
  <2> SUFFICES ASSUME IInv, CInv, QInv, RInv, OInv, [Next]_vars
               PROVE  QInv' /\ RInv' /\ OInv'
    OBVIOUS
  <2>1. QInv' /\ RInv'
    BY QInvStep, RInvStep
  <2>2. CASE UNCHANGED vars
    <3>1. LastBegun' = LastBegun
      BY <2>2 DEF LastBegun, Waiting, vars
    <3> QED
      BY <2>1, <2>2, <3>1, OrderKept DEF vars
  <2>3. ASSUME NEW m \in Call, DropFields(m) PROVE OInv'
    <3>1. UNCHANGED <<reason, head, task, joinSet, state>> /\ LastBegun' = LastBegun
      BY <2>3 DEF DropFields, LastBegun, Waiting
    <3> QED
      BY <2>1, <3>1, OrderKept
  <2> QED
    BY <2>1, <2>2, <2>3, OutsideOrder, ReadOrder, ActorOrder DEF Next, Ended
<1> QED
  BY <1>1, <1>2, Invariance, CallersInvariance, PTL DEF Spec

\* A read handler sees the value as of its place in the mailbox, for as long
\* as it runs: every write accepted before it, and none accepted after.
THEOREM ReadsPrefix == Spec => []ReadsSeePrefix
<1>1. OInv => ReadsSeePrefix
  BY DEF OInv, LivePrefix, ReadsSeePrefix, Live, Running
<1> QED
  BY <1>1, OrderInvariance, PTL

\* An actor that stops for Normal has handled, to the end, every message
\* accepted before the stop signal, and has not touched one accepted after.
THEOREM GracefulStops == Spec => []GracefulStop
<1>1. IInv /\ CInv /\ QInv /\ OInv => GracefulStop
  <2> SUFFICES ASSUME IInv, CInv, QInv, OInv, reason = "Normal", NEW m \in Msg
               PROVE  /\ Before(m, Stop) => IF m \in ReadOnly THEN task[m] = "completed"
                                            ELSE m \in state
                      /\ Before(Stop, m) => IF m \in ReadOnly THEN task[m] = "none"
                                            ELSE m \notin state
    BY DEF GracefulStop
  <2> USE DEF IInv, TypeOK, CInv, HeadInBounds, QInv, OInv
  <2>1. /\ head > 1 /\ head - 1 \in 1..Len(mailbox) /\ mailbox[head - 1] = Stop
        /\ \A i \in 1..(head - 2) :
             /\ mailbox[i] \in ReadOnly => task[mailbox[i]] = "completed"
             /\ mailbox[i] \in Write => mailbox[i] \in state
    BY DEF StopLast
  <2>2. \A i \in 1..Len(mailbox) : mailbox[i] = Stop => i = head - 1
    BY <2>1 DEF SentOnce
  <2>3. ASSUME Before(m, Stop)
        PROVE  IF m \in ReadOnly THEN task[m] = "completed" ELSE m \in state
    <3>1. PICK i, j \in 1..Len(mailbox) : i < j /\ mailbox[i] = m /\ mailbox[j] = Stop
      BY <2>3 DEF Before
    <3>2. i \in 1..(head - 2)
      BY <2>2, <3>1
    <3> QED
      BY <2>1, <3>1, <3>2 DEF Write
  <2>4. ASSUME Before(Stop, m)
        PROVE  IF m \in ReadOnly THEN task[m] = "none" ELSE m \notin state
    <3>1. PICK i, j \in 1..Len(mailbox) : i < j /\ mailbox[i] = Stop /\ mailbox[j] = m
      BY <2>4 DEF Before
    <3>2. \A k \in 1..(head - 1) : mailbox[k] # m
      BY <2>1, <2>2, <3>1 DEF SentOnce
    <3>3. m \notin Begun
      BY <3>2 DEF Begun, LastBegun
    <3> QED
      BY <3>3 DEF TracesBegun
  <2> QED
    BY <2>3, <2>4
<1> QED
  BY <1>1, Invariance, CallersInvariance, OrderInvariance, PTL

\* A reason other than Normal has its cause.
ReasonCaused ==
  /\ reason = "Killed" => killed
  /\ reason = "ReadPanicked" => \E m \in ReadOnly : task[m] \in {"panicked", "asserted"}
  /\ reason = "Hook" => HookCalled \/ \E m \in ReadOnly : task[m] = "stop_requested"
  /\ reason = "HookFailed" => HookCalled \/ \E m \in ReadOnly : task[m] = "hook_failed"

\* So has a panic that was caught, and only on_panic's own ends the actor
\* without a reason.
PanicCaused ==
  /\ pc \in {"handle", "on_error", "on_link_died"} => HookCalled
  /\ pc \in {"shutdown", "on_panic", "dead"} /\ reason = None => HookCalled
  /\ pc \in {"start_failed", "notify", "on_stop"} => reason # None

CauseKept == ReasonCaused /\ PanicCaused

\* A read task that has ended stays as it ended: no message begins twice.
LEMMA EndedStays ==
  ASSUME IInv, CInv, QInv, OInv, [Next]_vars, NEW m \in ReadOnly, task[m] \in Finished
  PROVE  task'[m] = task[m]
<1> USE DEF IInv, TypeOK, Finished
<1>1. CASE UNCHANGED task
  BY <1>1
<1>2. CASE SpawnRead
  <2>1. cur # m
    <3>1. m \in Begun
      BY DEF OInv, TracesBegun
    <3>2. Waiting
      BY <1>2 DEF SpawnRead, Waiting
    <3> QED
      BY <3>1, <3>2, WaitingIsNext
  <2> QED
    BY <1>2, <2>1 DEF SpawnRead
<1>3. ASSUME NEW n \in ReadOnly, ReadTask(n) PROVE task'[m] = task[m]
  BY <1>3
  DEF ReadTask, BeginRead, EndRead, UpgradeRead, CancelRead, ReadHookReturns, Finish, Goto
<1>4. CASE Outside
  BY <1>1, <1>4 DEF Outside, Send, SendSignal, Kill, GiveUp, readVars
<1>5. CASE ActorTask
  BY <1>1, <1>2, <1>5
  DEF ActorTask, OnStart, OnStartFails, StartFailedStop, JoinNext, Recv, BeginWrite,
      EndWrite, BeginLinkDied, HookReturns, TakeStop, Shutdown, OnPanic, Abort,
      FinalShutdown, NotifyLinks, OnStop, readVars
<1> QED
  BY <1>1, <1>3, <1>4, <1>5 DEF Next, Ended, DropFields, vars

\* What has been handled stays handled.
LEMMA CalledStays ==
  ASSUME IInv, CInv, [Next]_vars, HookCalled
  PROVE  HookCalled'
<1> USE DEF IInv, TypeOK
<1>1. state \subseteq state' /\ head' \in {head, head + 1}
  <2>1. CASE UNCHANGED <<state, head>>
    BY <2>1
  <2>2. CASE Outside
    BY <2>1, <2>2 DEF Outside, Send, SendSignal, GiveUp, Kill, queueVars
  <2>3. CASE ActorTask
    BY <2>1, <2>3
    DEF ActorTask, OnStart, OnStartFails, StartFailedStop, JoinNext, Recv, SpawnRead,
        BeginWrite, EndWrite, BeginLinkDied, HookReturns, TakeStop, Shutdown, OnPanic, Abort,
        FinalShutdown, NotifyLinks, OnStop, queueVars
  <2>4. ASSUME NEW m \in ReadOnly, ReadTask(m) PROVE UNCHANGED <<state, head>>
    BY <2>4
    DEF ReadTask, BeginRead, EndRead, UpgradeRead, CancelRead, ReadHookReturns,
        notReadVars, queueVars
  <2> QED
    BY <2>1, <2>2, <2>3, <2>4 DEF Next, Ended, DropFields, vars
<1>2. \A i \in 1..(head - 1) : i \in 1..(head' - 1) /\ mailbox'[i] = mailbox[i]
  BY <1>1, MailboxGrows DEF CInv, HeadInBounds
<1> QED
  BY <1>1, <1>2 DEF HookCalled

\* A reason is given with its cause, and the cause does not go away.
LEMMA ReasonStep ==
  ASSUME IInv, CInv, QInv, RInv, OInv, CauseKept, [Next]_vars
  PROVE  ReasonCaused'
<1> USE ReasonAssumption DEF CauseKept, ReasonCaused, StopReason
<1>1. ASSUME reason' = reason, killed => killed' PROVE ReasonCaused'
  BY <1>1, EndedStays, CalledStays DEF Finished
<1>2. CASE Outside
  BY <1>1, <1>2 DEF Outside, Send, SendSignal, GiveUp, Kill, actorVars
<1>3. ASSUME NEW m \in ReadOnly, ReadTask(m) PROVE ReasonCaused'
  BY <1>1, <1>3
  DEF ReadTask, BeginRead, EndRead, UpgradeRead, CancelRead, ReadHookReturns, notReadVars,
      actorVars
<1>4. CASE ActorTask
  <2>1. CASE OnStart \/ OnStartFails
    BY <1>1, <2>1 DEF OnStart, OnStartFails, Leave, Resume
  <2>2. ASSUME NEW m \in ReadOnly, JoinNext(m) PROVE ReasonCaused'
    <3>1. task[m] \notin {"cancelled", "discarded"} /\ task' = task
      BY <2>2 DEF JoinNext, RInv, CancelsLate
    <3>2. CASE reason' = reason
      BY <1>1, <2>2, <3>2 DEF JoinNext
    <3>3. CASE reason' = JoinedReason(m)
      BY <2>2, <3>1, <3>3 DEF JoinNext, JoinedReason, Finished
    <3> QED
      BY <2>2, <3>2, <3>3 DEF JoinNext, Return, actorVars
  <2>3. CASE BeginWrite \/ EndWrite \/ TakeStop
    BY <1>1, <2>3 DEF BeginWrite, EndWrite, TakeStop, Resume, Caught, Return
  <2>4. ASSUME NEW h \in HookResult, HookReturns(h) \/ OnPanic(h) PROVE ReasonCaused'
    <3>1. HookCalled'
      BY <2>4, CalledStays
      DEF HookReturns, OnPanic, PanicCaused, RInv, LoopGoesOn, Abortable
    <3> QED
      BY <1>1, <2>4, <3>1 DEF HookReturns, OnPanic, Leave, Resume, Caught, Return
  <2>5. CASE Shutdown \/ Abort
    BY <1>1, <2>5 DEF Shutdown, Abort, Interrupted, Leave
  <2>6. CASE Recv \/ SpawnRead \/ BeginLinkDied
    BY <1>1, <2>6 DEF Recv, SpawnRead, BeginLinkDied, Resume
  <2>7. CASE StartFailedStop \/ FinalShutdown \/ NotifyLinks \/ OnStop
    BY <1>1, <2>7 DEF StartFailedStop, FinalShutdown, NotifyLinks, OnStop
  <2> QED
    BY <1>4, <2>1, <2>2, <2>3, <2>4, <2>5, <2>6, <2>7 DEF ActorTask
<1> QED
  BY <1>1, <1>2, <1>3, <1>4 DEF Next, Ended, DropFields, vars

\* The loop calls a hook only after it has begun a write or taken a death, and
\* every way to the end but on_panic's own panic gives a reason.
LEMMA PanicStep ==
  ASSUME IInv, CInv, QInv, RInv, OInv, CauseKept, [Next]_vars
  PROVE  PanicCaused'
<1> USE ReasonAssumption
    DEF CauseKept, PanicCaused, RInv, LoopGoesOn, LeavesForReason, Abortable, StopReason
<1>1. CASE UNCHANGED <<pc, reason>>
  BY <1>1, CalledStays
<1>2. CASE Outside
  BY <1>1, <1>2 DEF Outside, Send, SendSignal, GiveUp, Kill, actorVars
<1>3. ASSUME NEW m \in ReadOnly, ReadTask(m) PROVE PanicCaused'
  BY <1>1, <1>3
  DEF ReadTask, BeginRead, EndRead, UpgradeRead, CancelRead, ReadHookReturns, notReadVars,
      actorVars
<1>4. CASE ActorTask
  <2>1. CASE OnStart \/ OnStartFails \/ StartFailedStop
    BY <2>1 DEF OnStart, OnStartFails, StartFailedStop, Leave, Resume
  <2>2. ASSUME NEW m \in ReadOnly, JoinNext(m) PROVE PanicCaused'
    <3>1. task[m] \notin {"cancelled", "discarded"}
      BY <2>2 DEF JoinNext, CancelsLate
    <3> QED
      BY <1>1, <2>2, <3>1 DEF JoinNext, JoinedReason, Return, actorVars, Finished
  <2>3. CASE Recv \/ SpawnRead \/ TakeStop
    BY <2>3 DEF Recv, SpawnRead, TakeStop, Resume, Return
  <2>4. CASE BeginWrite
    <3>1. TasksHoldNoGuard
      BY <2>4 DEF BeginWrite, ReadsJoined, IInv, LiveJoined, Live, TasksHoldNoGuard, Running
    <3> QED
      BY <2>4, <3>1 DEF BeginWrite, HookCalled
  <2>5. CASE BeginLinkDied
    <3>1. Waiting
      BY <2>5 DEF BeginLinkDied, Waiting
    <3>2. head - 1 \in 1..(head - 1) /\ mailbox[head - 1] \in Peer
      BY <2>5, <3>1, WaitingIsNext DEF BeginLinkDied, IInv, TypeOK
    <3> QED
      BY <2>5, <3>2 DEF BeginLinkDied, HookCalled, queueVars
  <2>6. CASE EndWrite
    BY <2>6, CalledStays DEF EndWrite, Resume, Caught, Return
  <2>7. ASSUME NEW h \in HookResult, HookReturns(h) \/ OnPanic(h) PROVE PanicCaused'
    BY <2>7, CalledStays DEF HookReturns, OnPanic, Leave, Resume, Caught, Return
  <2>8. CASE Shutdown \/ Abort
    BY <2>8, CalledStays DEF Shutdown, Abort, Interrupted, Leave
  <2>9. CASE FinalShutdown \/ NotifyLinks \/ OnStop
    BY <2>9 DEF FinalShutdown, NotifyLinks, OnStop
  <2> QED
    BY <1>4, <2>1, <2>2, <2>3, <2>4, <2>5, <2>6, <2>7, <2>8, <2>9 DEF ActorTask
<1> QED
  BY <1>1, <1>2, <1>3, <1>4 DEF Next, Ended, DropFields, vars

\* What ends an actor is a stop signal it has received, a kill, the panic of a
\* read, what a hook called by a read or by the loop returned or, without a
\* reason, the panic of run_abortable_future's own on_panic; any other panic
\* of the loop, of a &mut self handler or of a hook does not.
THEOREM CausedStops == Spec => []StopsForCause
<1>1. Init => CauseKept
  BY ReasonAssumption DEF Init, CauseKept, ReasonCaused, PanicCaused, StopReason
<1>2. IInv /\ CInv /\ (QInv /\ RInv /\ OInv) /\ CauseKept /\ [Next]_vars => CauseKept'
  BY ReasonStep, PanicStep DEF CauseKept
<1>3. IInv /\ CInv /\ (QInv /\ RInv /\ OInv) /\ CauseKept => StopsForCause
  <2> SUFFICES ASSUME IInv, OInv, reason = "Normal" PROVE \E i \in 1..(head - 1) : mailbox[i] = Stop
    BY DEF StopsForCause, CauseKept, ReasonCaused, PanicCaused
  <2> QED
    BY DEF IInv, TypeOK, OInv, StopLast
<1> QED
  BY <1>1, <1>2, <1>3, Invariance, CallersInvariance, OrderInvariance, PTL DEF Spec

-----------------------------------------------------------------------------
(* Answers.  A message is in one place: unread, with the loop or with its   *)
(* read task.  Whoever answers its caller has it and gives it up.          *)

Answered == {"replied", "stopped", "not_running"}

AnsweredGone ==
  \A m \in Call : outcome[m] \in Answered =>
    m # cur /\ m \notin Live /\ (m \in Unread => MailboxClosed)

\* No handler has begun what is being dropped whole, and its caller knows.
Unbegun(m) == IF m \in ReadOnly THEN task[m] \in {"none", "discarded"} ELSE m \notin state
DroppedUnbegun == \A m \in dropping : outcome[m] = "stopped" /\ Unbegun(m)

\* A message is in one place only, and before it is sent in none.
LEMMA OnePlace ==
  ASSUME IInv, CInv, QInv, OInv
  PROVE  /\ cur \notin Unread /\ cur \notin Live /\ Live \cap Unread = {}
         /\ Begun \cap Unread = {}
         /\ \A m \in Msg : outcome[m] = "unsent" => m # cur /\ m \notin Live \cup Unread
<1> USE MsgAssumption DEF IInv, TypeOK, CInv, HeadInBounds, OInv
<1>1. /\ LastBegun < head /\ LastBegun \in Int /\ LastBegun <= Len(mailbox)
      /\ head \in Nat \ {0} /\ Len(mailbox) \in Nat
  BY DEF LastBegun
<1>2. Live \subseteq Begun
  BY DEF TracesBegun, Live, Running
<1>3. Begun \cap Unread = {}
  BY <1>1 DEF Begun, Unread, QInv, SentOnce
<1>4. cur \notin Unread
  <2>1. CASE cur = None
    BY <1>1, <2>1 DEF Unread
  <2>2. CASE cur # None
    BY <1>1, <2>2 DEF QInv, SentOnce, CurIsLast, Unread
  <2> QED
    BY <2>1, <2>2
<1>5. cur \notin Live
  <2>1. CASE cur = None
    BY <2>1 DEF Live, Signal
  <2>2. CASE Waiting
    BY <1>2, <2>2, WaitingIsNext
  <2>3. CASE cur # None /\ ~Waiting
    <3>1. pc \in Exclusive
      BY <2>3 DEF CurKept, Waiting, Exclusive
    <3> QED
      BY <3>1 DEF LiveJoined, AloneJoined, Alone
  <2> QED
    BY <2>1, <2>2, <2>3
<1>6. ASSUME NEW m \in Msg, outcome[m] = "unsent" PROVE m # cur /\ m \notin Live \cup Unread
  <2>1. \A i \in 1..Len(mailbox) : mailbox[i] # m
    BY <1>6 DEF QInv, SentOnce
  <2>2. m \notin Begun \cup Unread
    BY <1>1, <2>1 DEF Begun, Unread
  <2>3. m # cur
    BY <1>1, <2>1 DEF QInv, CurIsLast, Signal
  <2> QED
    BY <1>2, <2>2, <2>3
<1> QED
  BY <1>2, <1>3, <1>4, <1>5, <1>6

\* Dropping reply senders answers no one else.
LEMMA DropRepliesAnswers ==
  ASSUME TypeOK, NEW S, DropReplies(S), NEW m \in Msg, outcome'[m] \in Answered
  PROVE  outcome[m] \in Answered \/ m \in S
  BY DEF TypeOK, DropReplies

\* Nor does a reply.
LEMMA ReplyAnswers ==
  ASSUME TypeOK, NEW n, Reply(n), NEW m \in Msg, outcome'[m] \in Answered
  PROVE  outcome[m] \in Answered \/ m = n
  BY DEF TypeOK, Reply

\* Steps of the program: a new message is where no answered one is.
LEMMA OutsideAnswers ==
  ASSUME IInv, CInv, QInv, OInv, AnsweredGone, Outside
  PROVE  AnsweredGone'
<1> USE MsgAssumption
    DEF IInv, TypeOK, Answered, MailboxClosed, Live, actorVars, queueVars, readVars
<1>1. ASSUME NEW m \in Msg, Send(m) PROVE AnsweredGone'
  <2>1. m # cur /\ m \notin Live \cup Unread
    BY <1>1, OnePlace DEF Send
  <2>2. UNCHANGED <<pc, cur, head, task>> /\ \A n \in Msg : n # m => outcome'[n] = outcome[n]
    BY <1>1 DEF Send
  <2>3. CASE MailboxClosed
    <3>1. UNCHANGED mailbox
      BY <1>1, <2>3 DEF Send
    <3> QED
      BY <2>1, <2>2, <2>3, <3>1 DEF AnsweredGone, Unread
  <2>4. CASE ~MailboxClosed
    <3>1. mailbox' = Append(mailbox, m) /\ outcome'[m] \notin Answered
      BY <1>1, <2>4 DEF Send
    <3>2. Unread' \subseteq Unread \cup {m}
      BY <2>2, <3>1 DEF Unread, Signal
    <3> QED
      BY <2>1, <2>2, <3>1, <3>2 DEF AnsweredGone
  <2> QED
    BY <2>3, <2>4
<1>2. ASSUME NEW s \in Peer \cup {Stop}, SendSignal(s) PROVE AnsweredGone'
  <2>1. Unread' \subseteq Unread \cup {s}
    BY <1>2 DEF SendSignal, Unread, Signal
  <2> QED
    BY <1>2, <2>1 DEF SendSignal, AnsweredGone
<1>3. CASE Kill
  BY <1>3 DEF Kill, AnsweredGone, Unread
<1>4. ASSUME NEW m \in Msg, GiveUp(m) PROVE AnsweredGone'
  BY <1>4 DEF GiveUp, AnsweredGone, Unread
<1> QED
  BY <1>1, <1>2, <1>3, <1>4 DEF Outside

\* Steps of the read tasks: a task answers its caller as it ends.
LEMMA ReadAnswers ==
  ASSUME IInv, CInv, QInv, OInv, AnsweredGone, NEW m \in ReadOnly, ReadTask(m)
  PROVE  AnsweredGone'
<1> USE MsgAssumption DEF IInv, TypeOK
<1>1. ASSUME NEW r \in Finished, Finish(m, r), UNCHANGED notReadVars, m \in Live
      PROVE  AnsweredGone'
  <2>1. m # cur /\ m \notin Unread
    BY <1>1, OnePlace
  <2>2. \A n \in Call : outcome'[n] \in Answered => outcome[n] \in Answered \/ n = m
    BY <1>1, DropRepliesAnswers, ReplyAnswers DEF Finish
  <2>3. Live' \subseteq Live \ {m}
    BY <1>1 DEF Finish, Live, Running, Finished
  <2>4. UNCHANGED <<cur, Unread, MailboxClosed>>
    BY <1>1 DEF notReadVars, actorVars, queueVars, Unread, MailboxClosed
  <2> QED
    BY <2>1, <2>2, <2>3, <2>4 DEF AnsweredGone, Answered
<1>2. ASSUME NEW s \in Running, Goto(m, s), UNCHANGED notReadVars, m \in Live
      PROVE  AnsweredGone'
  <2>1. Live' \subseteq Live
    BY <1>2 DEF Goto, Live, Running
  <2> QED
    BY <1>2, <2>1
    DEF Goto, notReadVars, actorVars, queueVars, AnsweredGone, Unread, MailboxClosed
<1> QED
  BY <1>1, <1>2
  DEF ReadTask, BeginRead, EndRead, UpgradeRead, CancelRead, ReadHookReturns, Live, Running,
      Finished

\* Steps of the actor's task: what it answers it drops.
LEMMA ActorAnswers ==
  ASSUME IInv, CInv, QInv, OInv, AnsweredGone, ActorTask
  PROVE  AnsweredGone'
<1> USE MsgAssumption DEF IInv, TypeOK
<1>0. /\ cur \notin Unread /\ cur \notin Live /\ Live \cap Unread = {}
      /\ None \notin Msg
  BY OnePlace DEF Signal
\* The loop loses what it had, its caller with it.
<1>1. ASSUME cur' = None, UNCHANGED <<mailbox, head, task>>, ~MailboxClosed, ~MailboxClosed',
             \A m \in Call : outcome'[m] \in Answered => outcome[m] \in Answered \/ m = cur
      PROVE  AnsweredGone'
  <2>1. Live' = Live /\ Unread' = Unread
    BY <1>1 DEF Live, Unread
  <2> QED
    BY <1>0, <1>1, <2>1 DEF AnsweredGone, Answered
\* The mailbox is dropped, with all there is in it.
<1>2. ASSUME cur' \in {None, cur}, UNCHANGED <<mailbox, head, task>>, MailboxClosed',
             DropReplies(Unread \cup {cur}), cur \in Call => cur' = None
      PROVE  AnsweredGone'
  <2>1. Live' = Live /\ Unread' = Unread
    BY <1>2 DEF Live, Unread
  <2>2. \A m \in Call : outcome'[m] \in Answered =>
          outcome[m] \in Answered \/ m \in Unread \/ m = cur
    BY <1>2, DropRepliesAnswers
  <2> QED
    BY <1>0, <1>2, <2>1, <2>2 DEF AnsweredGone, Answered
\* Nothing is taken, dropped or answered.
<1>3. ASSUME UNCHANGED <<cur, mailbox, head, task, outcome>>, MailboxClosed => MailboxClosed'
      PROVE  AnsweredGone'
  <2>1. Live' = Live /\ Unread' = Unread
    BY <1>3 DEF Live, Unread
  <2> QED
    BY <1>3, <2>1 DEF AnsweredGone
<1>4. ASSUME NEW r, Return(r), UNCHANGED <<mailbox, head, task>>, ~MailboxClosed
      PROVE  AnsweredGone'
  <2>1. \A m \in Call : outcome'[m] \in Answered => outcome[m] \in Answered \/ m = cur
    BY <1>4, DropRepliesAnswers DEF Return
  <2> QED
    BY <1>1, <1>4, <2>1 DEF Return, MailboxClosed
<1>5. ASSUME NEW r, Leave(r), UNCHANGED <<mailbox, head, task>>
      PROVE  AnsweredGone'
  BY <1>2, <1>5 DEF Leave, DroppedSignals, MailboxClosed
<1> USE DEF queueVars, readVars
<1>6. CASE OnStart \/ OnStartFails
  BY <1>3, <1>5, <1>6 DEF OnStart, OnStartFails, Resume, CInv, CurKept, MailboxClosed
<1>7. CASE StartFailedStop
  BY <1>2, <1>7, <1>0 DEF StartFailedStop, DroppedSignals, CInv, CurKept, MailboxClosed
<1>8. ASSUME NEW m \in ReadOnly, JoinNext(m) PROVE AnsweredGone'
  BY <1>3, <1>4, <1>8 DEF JoinNext, actorVars, MailboxClosed
<1>9. CASE Recv
  <2>1. /\ UNCHANGED <<mailbox, task, outcome>> /\ ~MailboxClosed
        /\ cur' = mailbox[head] /\ head' = head + 1 /\ head <= Len(mailbox)
    BY <1>9 DEF Recv, MailboxClosed
  <2>2. cur' \in Unread /\ Unread' \subseteq Unread /\ Live' = Live
    BY <2>1 DEF Unread, Live
  <2> QED
    BY <2>1, <2>2 DEF AnsweredGone
<1>10. CASE SpawnRead
  <2>1. /\ UNCHANGED <<mailbox, head, outcome>> /\ cur' = None
        /\ task' = [task EXCEPT ![cur] = "spawned"]
    BY <1>10 DEF SpawnRead, Resume
  <2>2. Unread' = Unread /\ Live' \subseteq Live \cup {cur} /\ ~MailboxClosed
    BY <1>10, <2>1 DEF Unread, Live, SpawnRead, MailboxClosed
  <2> QED
    BY <1>0, <2>1, <2>2 DEF AnsweredGone
<1>11. CASE BeginWrite \/ BeginLinkDied \/ TakeStop
  BY <1>3, <1>4, <1>11 DEF BeginWrite, BeginLinkDied, TakeStop, Caught, MailboxClosed
<1>12. CASE EndWrite
  <2>1. CASE Resume /\ Reply(cur)
    BY <1>1, <1>12, <2>1, ReplyAnswers DEF EndWrite, Resume, MailboxClosed
  <2>2. CASE ~(Resume /\ Reply(cur))
    BY <1>3, <1>4, <1>12, <2>2 DEF EndWrite, Caught, MailboxClosed
  <2> QED
    BY <2>1, <2>2
<1>13. ASSUME NEW h \in HookResult, HookReturns(h) PROVE AnsweredGone'
  BY <1>1, <1>4, <1>13 DEF HookReturns, Resume, Caught, MailboxClosed
<1>14. ASSUME NEW h \in HookResult, OnPanic(h) PROVE AnsweredGone'
  BY <1>0, <1>1, <1>2, <1>5, <1>14
  DEF OnPanic, Resume, DroppedSignals, CInv, CurKept, MailboxClosed
<1>15. CASE Shutdown \/ Abort
  BY <1>3, <1>5, <1>15 DEF Shutdown, Abort, MailboxClosed
<1>16. CASE FinalShutdown \/ NotifyLinks \/ OnStop
  BY <1>3, <1>16 DEF FinalShutdown, NotifyLinks, OnStop, MailboxClosed
<1> QED
  BY <1>6, <1>7, <1>8, <1>9, <1>10, <1>11, <1>12, <1>13, <1>14, <1>15, <1>16 DEF ActorTask

\* What is dropped whole has not begun, and nobody begins it any more.
LEMMA DroppedStep ==
  ASSUME IInv, CInv, QInv, OInv, AnsweredGone, DroppedUnbegun, [Next]_vars
  PROVE  DroppedUnbegun'
<1> USE MsgAssumption DEF IInv, TypeOK, DroppedUnbegun, Unbegun
<1>1. \A m \in dropping : m \in Call /\ m # cur /\ m \notin Live
  BY DEF AnsweredGone, Answered
<1>2. \A m \in Msg : m \notin Begun => Unbegun(m)
  BY DEF OInv, TracesBegun
\* What is new there was not begun; of the rest, nothing begins.
<1>3. ASSUME \A m \in dropping : outcome'[m] = outcome[m] /\ Unbegun(m)',
             NEW S, S \cap Call \cap Begun = {}, DropWhole(S), NEW T, S \subseteq T, DropReplies(T),
             UNCHANGED <<task, state>>
      PROVE  DroppedUnbegun'
  <2>1. ASSUME NEW m \in S \cap Call, outcome[m] = "pending"
        PROVE  outcome'[m] = "stopped" /\ Unbegun(m)'
    BY <1>2, <1>3, <2>1 DEF DropReplies
  <2> QED
    BY <1>3, <2>1 DEF DropWhole
<1>4. ASSUME \A m \in dropping : outcome'[m] = outcome[m] /\ Unbegun(m)',
             dropping' \subseteq dropping
      PROVE  DroppedUnbegun'
  BY <1>4
<1>5. ASSUME NEW S, DropReplies(S), NEW m \in dropping PROVE outcome'[m] = outcome[m]
  BY <1>1, <1>5 DEF DropReplies
<1>6. ASSUME NEW n, Reply(n), NEW m \in dropping PROVE outcome'[m] = outcome[m]
  BY <1>1, <1>6 DEF Reply
<1>7. ASSUME NEW m \in Call, DropFields(m) PROVE DroppedUnbegun'
  BY <1>4, <1>7 DEF DropFields
<1>8. CASE Outside
  BY <1>1, <1>4, <1>8
  DEF Outside, Send, SendSignal, GiveUp, Kill, readVars, actorVars, queueVars
<1>9. ASSUME NEW n \in ReadOnly, ReadTask(n) PROVE DroppedUnbegun'
  <2>1. n \notin dropping /\ n \notin state
    BY <1>1, <1>9
    DEF ReadTask, BeginRead, EndRead, UpgradeRead, CancelRead, ReadHookReturns, Live, Running,
        Write
  <2>2. \A m \in dropping : Unbegun(m)'
    BY <1>9, <2>1
    DEF ReadTask, BeginRead, EndRead, UpgradeRead, CancelRead, ReadHookReturns, Finish, Goto,
        notReadVars
  <2>3. \A m \in dropping : outcome'[m] = outcome[m]
    BY <1>5, <1>6, <1>9
    DEF ReadTask, BeginRead, EndRead, UpgradeRead, CancelRead, ReadHookReturns, Finish, Goto
  <2>4. ASSUME NEW r \in Finished, Finish(n, r) PROVE DroppedUnbegun'
    <3>1. CASE r = "discarded"
      <4>1. DropReplies({n}) /\ DropWhole({n}) /\ task'[n] = "discarded"
        BY <2>4, <3>1 DEF Finish
      <4>2. outcome[n] = "pending" => outcome'[n] = "stopped"
        BY <4>1 DEF DropReplies
      <4> QED
        BY <2>2, <2>3, <4>1, <4>2 DEF DropWhole
    <3>2. CASE r # "discarded"
      BY <1>4, <2>2, <2>3, <2>4, <3>2 DEF Finish
    <3> QED
      BY <3>1, <3>2
  <2>5. ASSUME NEW r \in Running, Goto(n, r) PROVE DroppedUnbegun'
    BY <1>4, <2>2, <2>3, <2>5 DEF Goto
  <2> QED
    BY <1>9, <2>4, <2>5
    DEF ReadTask, BeginRead, EndRead, UpgradeRead, CancelRead, ReadHookReturns, Running,
        Finished
<1>10. CASE ActorTask
  <2>1. \A m \in dropping : outcome'[m] = outcome[m]
    BY <1>5, <1>6, <1>10
    DEF ActorTask, OnStart, OnStartFails, StartFailedStop, JoinNext, Recv, SpawnRead,
        BeginWrite, EndWrite, BeginLinkDied, HookReturns, TakeStop, Shutdown, OnPanic, Abort,
        FinalShutdown, NotifyLinks, OnStop, Leave, Return, Caught, Resume
  <2>2. \A m \in dropping : Unbegun(m)'
    BY <1>1, <1>10
    DEF ActorTask, OnStart, OnStartFails, StartFailedStop, JoinNext, Recv, SpawnRead,
        BeginWrite, EndWrite, BeginLinkDied, HookReturns, TakeStop, Shutdown, OnPanic, Abort,
        FinalShutdown, NotifyLinks, OnStop, Leave, Return, Caught, Resume, readVars
  <2>3. Begun \cap Unread = {} /\ (Waiting => cur \notin Begun)
    BY OnePlace, WaitingIsNext
  <2>4. DroppedWhole \cap Begun = {} /\ DroppedWhole \subseteq DroppedSignals
    BY <2>3 DEF DroppedWhole, DroppedSignals, Waiting
  <2>5. ASSUME NEW r, Leave(r), UNCHANGED <<task, state>> PROVE DroppedUnbegun'
    BY <1>3, <2>1, <2>2, <2>4, <2>5 DEF Leave
  <2>6. CASE StartFailedStop
    BY <1>3, <2>1, <2>2, <2>4, <2>6 DEF StartFailedStop, readVars
  <2>7. ASSUME NEW m \in ReadOnly, JoinNext(m) PROVE DroppedUnbegun'
    <3>1. CASE task[m] = "completed"
      BY <1>4, <2>1, <2>2, <2>7, <3>1 DEF JoinNext
    <3>2. CASE task[m] # "completed"
      <4>1. cur \notin Call \cap Begun
        BY <2>3, <2>7 DEF JoinNext, Waiting, CInv, CurKept, Signal
      <4> QED
        BY <1>3, <2>1, <2>2, <2>7, <3>2, <4>1 DEF JoinNext, Return
    <3> QED
      BY <3>1, <3>2
  <2>8. ASSUME NEW h \in HookResult, OnPanic(h) PROVE DroppedUnbegun'
    BY <1>3, <1>4, <2>1, <2>2, <2>4, <2>5, <2>8 DEF OnPanic
  <2>9. CASE OnStart \/ Shutdown \/ Abort
    BY <1>4, <2>1, <2>2, <2>5, <2>9 DEF OnStart, Shutdown, Abort, readVars
  <2>10. CASE UNCHANGED dropping
    BY <1>4, <2>1, <2>2, <2>10
  <2> QED
    BY <1>10, <2>6, <2>7, <2>8, <2>9, <2>10
    DEF ActorTask, OnStartFails, Recv, SpawnRead, BeginWrite, EndWrite, BeginLinkDied,
        HookReturns, TakeStop, FinalShutdown, NotifyLinks, OnStop
<1>11. CASE UNCHANGED vars
  BY <1>4, <1>11 DEF vars
<1> QED
  BY <1>7, <1>8, <1>9, <1>10, <1>11 DEF Next, Ended

\* Once a caller has its answer nobody handles its message any more, not even
\* a read task about to be cancelled.  What the message borrows is free again,
\* unless its handler never began: then it may still be on its way out.
THEOREM AnswersFree == Spec => []AnsweredIsOver
<1>1. Init => AnsweredGone /\ DroppedUnbegun
  BY MsgAssumption DEF Init, AnsweredGone, DroppedUnbegun, Answered
<1>2. IInv /\ CInv /\ (QInv /\ RInv /\ OInv) /\ AnsweredGone /\ [Next]_vars
        => AnsweredGone'
  <2>1. CASE UNCHANGED vars
    BY <2>1 DEF AnsweredGone, Live, Unread, MailboxClosed, vars
  <2>2. ASSUME NEW m \in Call, DropFields(m), AnsweredGone PROVE AnsweredGone'
    BY <2>2 DEF DropFields, AnsweredGone, Live, Unread, MailboxClosed
  <2> QED
    BY <2>1, <2>2, OutsideAnswers, ReadAnswers, ActorAnswers DEF Next, Ended
<1>3. IInv /\ CInv /\ (QInv /\ RInv /\ OInv) /\ AnsweredGone /\ DroppedUnbegun /\ [Next]_vars
        => DroppedUnbegun'
  BY DroppedStep
<1>4. AnsweredGone /\ DroppedUnbegun => AnsweredIsOver
  BY DEF AnsweredGone, DroppedUnbegun, Unbegun, AnsweredIsOver, Answered
<1> QED
  BY <1>1, <1>2, <1>3, <1>4, Invariance, CallersInvariance, OrderInvariance, PTL DEF Spec

=============================================================================
