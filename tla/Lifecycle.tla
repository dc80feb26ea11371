----------------------------- MODULE Lifecycle -----------------------------
(***************************************************************************)
(* One actor, from tokio::spawn to the end of its task: the mailbox, the   *)
(* receive loop, the concurrent read tasks, the RwLock around the user's   *)
(* value, the semaphore that bounds the reads, the lifecycle hooks and the *)
(* abort handle behind kill().                                             *)
(*                                                                         *)
(* Three kinds of process interleave: the actor's task (a program counter  *)
(* pc, one value per await point), one tokio task per read-only message,   *)
(* and the rest of the program, which owns ActorRefs.  A step runs from    *)
(* one await point to the next; only the read tasks' lock attempts, which  *)
(* other threads can interleave with, are finer.                           *)
(*                                                                         *)
(* What the user wrote (handlers and hooks) is an arbitrary outcome.       *)
(***************************************************************************)
EXTENDS Naturals, Sequences, FiniteSets, Functions

CONSTANTS
  Msg,                 \* messages, each sent at most once
  ReadOnly,            \* those whose method takes &self
  Call,                \* those sent with a reply channel (msg, msg_after);
                       \* the others are sent by msg_async, msg_async_after
  Infallible,          \* those whose method cannot return an Err
  Peer,                \* linked actors that may die
  Stop,                \* Signal::Stop
  None,                \* no value
  MaxConcurrentReads,  \* A::max_concurrent_reads()
  HookResult           \* what on_panic and on_link_died may do

\* An exclusive message is one whose method takes &mut self.
Write  == Msg \ ReadOnly
Signal == Msg \cup Peer \cup {Stop}

\* A hook returns Ok(None), Ok(Some(reason)), Err, or panics.
HookResults == {"continue", "stop", "err", "panic"}

ASSUME MsgAssumption ==
  /\ ReadOnly \subseteq Msg /\ Call \subseteq Msg /\ Infallible \subseteq Msg
  /\ Msg \cap Peer = {}
  /\ Stop \notin Msg \cup Peer
  /\ None \notin Signal
ASSUME ReadsAssumption == MaxConcurrentReads \in Nat
ASSUME HookAssumption  == HookResult \subseteq HookResults

VARIABLES
  pc,        \* the await point the actor's task is suspended at
  cur,       \* the signal the loop has taken and not yet disposed of
  reason,    \* why the actor stops; names the line the reason comes from
  mailbox,   \* every signal ever accepted, in order
  head,      \* index of the first signal not yet received
  killed,    \* kill() was called
  task,      \* the read task of each read-only message
  joinSet,   \* concurrent_reads: tasks spawned and not yet joined
  permits,   \* tasks that hold a permit of the loop's current semaphore
  state,     \* the user's value: the writes whose handler has begun
  outcome,   \* what the sender of each message has seen
  dropping,  \* calls whose reply sender is gone and whose fields are not yet
  notified   \* the links were drained and every linked actor was told

actorVars == <<pc, cur, reason>>
queueVars == <<mailbox, head>>
readVars  == <<task, joinSet, permits>>
vars == <<pc, cur, reason, mailbox, head, killed, task, joinSet, permits,
          state, outcome, dropping, notified>>

-----------------------------------------------------------------------------
(* Program counters, task states, and what they say of locks and channels. *)

\* Inside Abortable::new(..): kill() takes effect at any of these.
Abortable == {"select", "acquire", "wait", "handle", "on_error",
              "on_link_died", "shutdown", "on_panic"}

\* The actor's task holds the write guard.
Exclusive == {"handle", "on_error", "on_link_died", "on_panic"}

PC == Abortable \cup
      {"on_start", "start_failed", "final_shutdown", "notify", "on_stop", "dead"}

\* Normal and Killed are the library's own.  ActorStopReason::Panicked comes
\* from three places: on_start, a hook that failed, a read task that panicked.
\* Hook is the reason a hook returned, whatever it is.
StopReason == {"Normal", "Killed", "StartFailed", "HookFailed", "ReadPanicked", "Hook"}

ASSUME ReasonAssumption == None \notin StopReason

\* What a sender can see: not sent yet; accepted, without or with a reply to
\* wait for; the reply; SendError::ActorStopped; SendError::ActorNotRunning;
\* or nothing any more, because it has dropped the future it awaited.
Outcome == {"unsent", "sent", "pending", "replied", "stopped", "not_running", "given_up"}

\* A cancelled task that had yet to begin its handler is discarded.
Running  == {"spawned", "reading", "errored", "on_error"}
Finished == {"completed", "stop_requested", "hook_failed", "panicked",
             "asserted", "cancelled", "discarded"}

Live == {m \in ReadOnly : task[m] \in Running}

\* The receiver is dropped when run_abortable_future ends, before on_stop.
MailboxClosed == pc \in {"final_shutdown", "notify", "on_stop", "dead"}

\* Mailbox::closed().await has returned: the receiver is gone.
WaitForStopReturns == MailboxClosed

Unread == {mailbox[i] : i \in head..Len(mailbox)}

\* tokio's RwLock, as try_read, try_write and write().await see it.
TaskWriting      == \E m \in ReadOnly : task[m] = "on_error"
TasksHoldNoGuard == \A m \in ReadOnly : task[m] \notin {"reading", "on_error"}

-----------------------------------------------------------------------------
(* Dropping a reply sender wakes its caller with ActorStopped.  A handler   *)
(* owns the fields of its message, and they are dropped before the reply   *)
(* sender.  A message that no handler has taken apart is dropped whole, in *)
(* the order in which its variant declares the fields: __reply is first,   *)
(* and the caller may run before those that it lent are dropped.           *)

DropReplies(S) ==
  outcome' = [m \in Msg |-> IF m \in S /\ outcome[m] = "pending"
                            THEN "stopped" ELSE outcome[m]]

DropWhole(S) == dropping' = dropping \cup {m \in S \cap Call : outcome[m] = "pending"}

\* The rest of a message that was dropped whole.
DropFields(m) ==
  /\ m \in dropping
  /\ dropping' = dropping \ {m}
  /\ UNCHANGED <<pc, cur, reason, mailbox, head, killed, task, joinSet, permits,
                 state, outcome, notified>>

\* if let Some(reply) = __reply { let _ = reply.send(res); .. }
Reply(m) == outcome' = [outcome EXCEPT ![m] = IF @ = "pending" THEN "replied" ELSE @]

\* recv_mailbox_loop ends with reason r, or with None when it panicked; what
\* the loop had taken is dropped with it.
Return(r) ==
  /\ pc' = "shutdown" /\ reason' = r /\ cur' = None
  /\ DropReplies({cur})

\* Faulty: the panic is taken for the reason to stop.
Caught_Fatal == Return("ReadPanicked")

\* catch_unwind around recv_mailbox_loop: the panic goes to on_panic.
Caught == Return(None)

Resume == pc' = "select" /\ cur' = None /\ UNCHANGED reason

\* Faulty: the message being handled outlives the loop.
DroppedSignals_KeepsCurrent == Unread

\* What the Abortable future owns when it ends, the receiver included.
DroppedSignals == Unread \cup {cur}

\* Those of them that no handler has taken apart.
DroppedWhole == IF pc \in {"acquire", "wait"} THEN DroppedSignals ELSE Unread

Leave(r) ==
  /\ pc' = "final_shutdown" /\ reason' = r /\ cur' = None
  /\ DropReplies(DroppedSignals) /\ DropWhole(DroppedWhole)

-----------------------------------------------------------------------------
(* The rest of the program.  Sends fail once the receiver is dropped.      *)

\* A sleeping msg_after task owns a clone of the mailbox and sends later:
\* it is this action, taken late.
Send(m) ==
  /\ outcome[m] = "unsent"
  /\ IF MailboxClosed
     THEN outcome' = [outcome EXCEPT ![m] = "not_running"] /\ UNCHANGED mailbox
     ELSE /\ mailbox' = Append(mailbox, m)
          /\ outcome' = [outcome EXCEPT ![m] = IF m \in Call THEN "pending" ELSE "sent"]
  /\ UNCHANGED <<pc, cur, reason, head, killed, readVars, state, dropping, notified>>

\* stop_gracefully, and notify_link_died as a dying peer calls it.  An
\* unbounded mailbox would accept more of each; one of each is enough.
SendSignal(s) ==
  /\ ~MailboxClosed
  /\ s \notin Range(mailbox)
  /\ mailbox' = Append(mailbox, s)
  /\ UNCHANGED <<actorVars, head, killed, readVars, state, outcome, dropping, notified>>

\* The caller drops the future of msg, or aborts the task of msg_after: the
\* reply has nowhere to go, and the message stays where it is.
GiveUp(m) ==
  /\ outcome[m] = "pending"
  /\ outcome' = [outcome EXCEPT ![m] = "given_up"]
  /\ UNCHANGED <<actorVars, queueVars, killed, readVars, state, dropping, notified>>

Kill ==
  /\ ~killed
  /\ killed' = TRUE
  /\ UNCHANGED <<actorVars, queueVars, readVars, state, outcome, dropping, notified>>

-----------------------------------------------------------------------------
(* The actor's task: start, receive loop, exclusive handlers.              *)

\* Faulty: an actor killed during on_start enters its loop.
OnStart_DespiteKill ==
  /\ pc = "on_start"
  /\ Resume
  /\ permits' = {}
  /\ UNCHANGED <<queueVars, killed, task, joinSet, state, outcome, dropping, notified>>

\* recv_mailbox_loop is entered with a new semaphore, unless kill() came
\* first: Abortable checks its flag before it polls the loop at all.
OnStart ==
  /\ pc = "on_start"
  /\ IF killed THEN Leave("Killed") ELSE Resume /\ UNCHANGED <<outcome, dropping>>
  /\ permits' = {}
  /\ UNCHANGED <<queueVars, killed, task, joinSet, state, notified>>

\* on_start returned Err or panicked: only on_stop is left to run.
OnStartFails ==
  /\ pc = "on_start"
  /\ pc' = "start_failed" /\ reason' = "StartFailed"
  /\ UNCHANGED <<cur, queueVars, killed, readVars, state, outcome, dropping, notified>>

StartFailedStop ==
  /\ pc = "start_failed"
  /\ pc' = "dead"
  /\ DropReplies(DroppedSignals) /\ DropWhole(DroppedWhole)
  /\ UNCHANGED <<cur, reason, queueVars, killed, readVars, state, notified>>

\* What the loop makes of a joined read task; into_panic() of a cancelled
\* task's error panics, and the panic is caught (None).
JoinedReason(m) ==
  CASE task[m] = "stop_requested" -> "Hook"
    [] task[m] = "hook_failed" -> "HookFailed"
    [] task[m] \in {"panicked", "asserted"} -> "ReadPanicked"
    [] OTHER -> None

\* concurrent_reads.join_next(), in select! and in wait_concurrent_reads!.
JoinNext(m) ==
  /\ pc \in {"select", "wait"}
  /\ m \in joinSet /\ task[m] \in Finished
  /\ joinSet' = joinSet \ {m}
  /\ IF task[m] = "completed"
     THEN UNCHANGED <<actorVars, outcome, dropping>>
     ELSE Return(JoinedReason(m)) /\ DropWhole({cur})
  /\ UNCHANGED <<queueVars, killed, task, permits, state, notified>>

\* Faulty: every message is dispatched as a read.
IsReadOnly_AnyMessage(s) == s \in Msg

\* is_read_only(): every &self message, and no other signal.
IsReadOnly(s) == s \in ReadOnly

\* recv() never yields None: the task's own task-local ActorRef is a sender.
Recv ==
  /\ pc = "select"
  /\ head <= Len(mailbox)
  /\ cur' = mailbox[head] /\ head' = head + 1
  /\ pc' = IF IsReadOnly(mailbox[head]) THEN "acquire" ELSE "wait"
  /\ UNCHANGED <<reason, mailbox, killed, readVars, state, outcome, dropping, notified>>

\* Faulty: one permit too many.
PermitFree_OffByOne == Cardinality(permits) <= MaxConcurrentReads

PermitFree == Cardinality(permits) < MaxConcurrentReads

\* acquire_owned().await, then JoinSet::spawn.
SpawnRead ==
  /\ pc = "acquire"
  /\ PermitFree
  /\ permits' = permits \cup {cur}
  /\ task' = [task EXCEPT ![cur] = "spawned"]
  /\ joinSet' = joinSet \cup {cur}
  /\ Resume
  /\ UNCHANGED <<queueVars, killed, state, outcome, dropping, notified>>

\* Faulty: wait_concurrent_reads!() is forgotten.
ReadsJoined_NotAwaited == TRUE

\* wait_concurrent_reads!() is over when the JoinSet is empty.
ReadsJoined == joinSet = {}

\* The handler's try_write().expect(..) panics if the lock is taken.
BeginWrite ==
  /\ pc = "wait" /\ cur \in Write
  /\ ReadsJoined
  /\ IF TasksHoldNoGuard
     THEN /\ pc' = "handle"
          /\ state' = state \cup {cur}
          /\ UNCHANGED <<cur, reason, outcome>>
     ELSE Caught /\ UNCHANGED state
  /\ UNCHANGED <<queueVars, killed, readVars, dropping, notified>>

\* A reply takes the Err to the caller; without one, Err goes to on_panic,
\* under a second try_write().
EndWrite ==
  /\ pc = "handle"
  /\ \/ Resume /\ Reply(cur)
     \/ /\ cur \notin Call \cup Infallible
        /\ IF TasksHoldNoGuard
           THEN pc' = "on_error" /\ UNCHANGED <<cur, reason, outcome>>
           ELSE Caught
     \/ Caught
  /\ UNCHANGED <<queueVars, killed, readVars, state, dropping, notified>>

\* write().await waits for the lock instead of asserting that it is free.
BeginLinkDied ==
  /\ pc = "wait" /\ cur \in Peer
  /\ ReadsJoined
  /\ TasksHoldNoGuard
  /\ pc' = "on_link_died"
  /\ UNCHANGED <<cur, reason, queueVars, killed, readVars, state, outcome, dropping, notified>>

\* A hook called from the loop ends: on_panic for a write's Err (the reason
\* it returns is handle_message's), or on_link_died.
HookReturns(h) ==
  /\ pc \in {"on_error", "on_link_died"}
  /\ \/ h = "continue" /\ Resume /\ UNCHANGED outcome
     \/ h = "stop"     /\ Return("Hook")
     \/ h = "err"      /\ Return("HookFailed")
     \/ h = "panic"    /\ Caught
  /\ UNCHANGED <<queueVars, killed, readVars, state, dropping, notified>>

\* Faulty: the stop signal is received and the loop goes on.
TakeStop_Forgotten ==
  /\ pc = "wait" /\ cur = Stop
  /\ ReadsJoined
  /\ Resume
  /\ UNCHANGED <<queueVars, killed, readVars, state, outcome, dropping, notified>>

\* Faulty: the reads in progress are not waited for.
TakeStop_AtOnce ==
  /\ pc = "wait" /\ cur = Stop
  /\ Return("Normal")
  /\ UNCHANGED <<queueVars, killed, readVars, state, dropping, notified>>

\* Signal::Stop, once the reads in progress are over.
TakeStop ==
  /\ pc = "wait" /\ cur = Stop
  /\ ReadsJoined
  /\ Return("Normal")
  /\ UNCHANGED <<queueVars, killed, readVars, state, dropping, notified>>

-----------------------------------------------------------------------------
(* The actor's task: ending.                                               *)

\* Faulty: the tasks are told to abort and not waited for.
ReadsDrained_NotAwaited == TRUE

\* JoinSet::shutdown().await is over when every task has finished, that is,
\* when its future has been dropped.
ReadsDrained == joinSet \cap (Live \cup dropping) = {}

\* Line 123: with a caught panic (reason None) go on to on_panic, otherwise
\* leave the Abortable future.
Shutdown ==
  /\ pc = "shutdown"
  /\ ReadsDrained
  /\ joinSet' = {}
  /\ IF reason = None
     THEN pc' = "on_panic" /\ UNCHANGED <<reason, cur, outcome, dropping>>
     ELSE Leave(reason)
  /\ UNCHANGED <<queueVars, killed, task, permits, state, notified>>

\* on_panic called from run_abortable_future.  Nothing catches a panic of
\* its own: it unwinds the whole task, and no link is told.
OnPanic(h) ==
  /\ pc = "on_panic"
  /\ \/ h = "continue" /\ Resume /\ permits' = {} /\ UNCHANGED <<outcome, dropping>>
     \/ h = "stop" /\ Leave("Hook") /\ UNCHANGED permits
     \/ h = "err"  /\ Leave("HookFailed") /\ UNCHANGED permits
     \/ /\ h = "panic"
        /\ pc' = "dead"
        /\ DropReplies(DroppedSignals) /\ DropWhole(DroppedWhole)
        /\ UNCHANGED <<cur, reason, permits>>
  /\ UNCHANGED <<queueVars, killed, task, joinSet, state, notified>>

\* Faulty: kill() does not wake a task that waits for a signal.
Interrupted_NotWhenIdle == killed /\ pc \in Abortable \ {"select"}

\* Abortable checks the flag before each poll of what it wraps and after it,
\* and kill() wakes a task that is waiting.
Interrupted == killed /\ pc \in Abortable

Abort ==
  /\ Interrupted
  /\ Leave("Killed")
  /\ UNCHANGED <<queueVars, killed, readVars, state, notified>>

FinalShutdown ==
  /\ pc = "final_shutdown"
  /\ ReadsDrained
  /\ joinSet' = {}
  /\ pc' = "notify"
  /\ UNCHANGED <<cur, reason, queueVars, killed, task, permits, state, outcome, dropping, notified>>

\* Drain the links, telling each; then take the value out of its Arc.
NotifyLinks ==
  /\ pc = "notify"
  /\ notified' = TRUE
  /\ pc' = "on_stop"
  /\ UNCHANGED <<cur, reason, queueVars, killed, readVars, state, outcome, dropping>>

OnStop ==
  /\ pc = "on_stop"
  /\ pc' = "dead"
  /\ UNCHANGED <<cur, reason, queueVars, killed, readVars, state, outcome, dropping, notified>>

-----------------------------------------------------------------------------
(* The read tasks.                                                         *)

\* Faulty: a task that fails keeps its permit.
Finish_LeaksPermit(m, result) ==
  /\ task' = [task EXCEPT ![m] = result]
  /\ permits' = IF result = "completed" THEN permits \ {m} ELSE permits
  /\ IF result = "completed" THEN Reply(m) ELSE DropReplies({m})
  /\ IF result = "discarded" THEN DropWhole({m}) ELSE UNCHANGED dropping

\* Faulty: the handler borrows its fields from a message that stays whole.
Finish_BorrowsFields(m, result) ==
  /\ task' = [task EXCEPT ![m] = result]
  /\ permits' = permits \ {m}
  /\ IF result = "completed" THEN Reply(m) /\ UNCHANGED dropping
     ELSE DropReplies({m}) /\ DropWhole({m})

\* The task's future is dropped with its permit and its reply sender.
Finish(m, result) ==
  /\ task' = [task EXCEPT ![m] = result]
  /\ permits' = permits \ {m}
  /\ IF result = "completed" THEN Reply(m) ELSE DropReplies({m})
  /\ IF result = "discarded" THEN DropWhole({m}) ELSE UNCHANGED dropping

Goto(m, s) == task' = [task EXCEPT ![m] = s] /\ UNCHANGED <<permits, outcome, dropping>>

notReadVars == <<actorVars, queueVars, killed, joinSet, state, notified>>

\* try_read().expect(..)
BeginRead(m) ==
  /\ task[m] = "spawned"
  /\ IF pc \in Exclusive \/ TaskWriting THEN Finish(m, "asserted") ELSE Goto(m, "reading")
  /\ UNCHANGED notReadVars

\* The guard goes with the handler's result; an Err without a reply is for
\* on_panic, under a write guard still to be taken.
EndRead(m) ==
  /\ task[m] = "reading"
  /\ \/ Finish(m, "completed")
     \/ m \notin Call \cup Infallible /\ Goto(m, "errored")
     \/ Finish(m, "panicked")
  /\ UNCHANGED notReadVars

\* try_write().expect(..), with other read tasks possibly holding the lock.
UpgradeRead(m) ==
  /\ task[m] = "errored"
  /\ IF pc \in Exclusive \/ ~TasksHoldNoGuard THEN Finish(m, "asserted") ELSE Goto(m, "on_error")
  /\ UNCHANGED notReadVars

ReadHookReturns(m, h) ==
  /\ task[m] = "on_error"
  /\ \/ h = "continue" /\ Finish(m, "completed")
     \/ h = "stop"     /\ Finish(m, "stop_requested")
     \/ h = "err"      /\ Finish(m, "hook_failed")
     \/ h = "panic"    /\ Finish(m, "panicked")
  /\ UNCHANGED notReadVars

\* abort_all() takes effect where the task awaits.
CancelRead(m) ==
  /\ pc \in {"shutdown", "final_shutdown"}
  /\ m \in joinSet /\ task[m] \in {"spawned", "reading", "on_error"}
  /\ Finish(m, IF task[m] = "spawned" THEN "discarded" ELSE "cancelled")
  /\ UNCHANGED notReadVars

-----------------------------------------------------------------------------

Init ==
  /\ pc = "on_start" /\ cur = None /\ reason = None
  /\ mailbox = <<>> /\ head = 1
  /\ killed = FALSE
  /\ task = [m \in ReadOnly |-> "none"] /\ joinSet = {} /\ permits = {}
  /\ state = {}
  /\ outcome = [m \in Msg |-> "unsent"]
  /\ dropping = {}
  /\ notified = FALSE

Outside ==
  \/ \E m \in Msg : Send(m) \/ GiveUp(m)
  \/ \E s \in Peer \cup {Stop} : SendSignal(s)
  \/ Kill

\* What the actor's task drops it drops before it goes on.
DropsDone == dropping \subseteq joinSet

ActorTask ==
  /\ DropsDone
  /\ \/ OnStart \/ OnStartFails \/ StartFailedStop
     \/ \E m \in ReadOnly : JoinNext(m)
     \/ Recv \/ SpawnRead
     \/ BeginWrite \/ EndWrite \/ BeginLinkDied \/ TakeStop
     \/ \E h \in HookResult : HookReturns(h) \/ OnPanic(h)
     \/ Shutdown \/ Abort \/ FinalShutdown \/ NotifyLinks \/ OnStop

ReadTask(m) ==
  \/ BeginRead(m) \/ EndRead(m) \/ UpgradeRead(m) \/ CancelRead(m)
  \/ \E h \in HookResult : ReadHookReturns(m, h)

\* Only a dead actor is left with nothing to do.
Ended == pc = "dead" /\ UNCHANGED vars

Next ==
  \/ Outside \/ ActorTask
  \/ \E m \in ReadOnly : ReadTask(m)
  \/ \E m \in Call : DropFields(m)
  \/ Ended

Spec == Init /\ [][Next]_vars

\* tokio polls every woken task, and the user's handlers and hooks return.
\* The rest of the program owes nothing.
Fairness ==
  /\ WF_vars(ActorTask)
  /\ WF_vars(DropsDone /\ Abort)
  /\ \A m \in ReadOnly : WF_vars(ReadTask(m))
  /\ \A m \in Call : WF_vars(DropFields(m))

FairSpec == Spec /\ Fairness

-----------------------------------------------------------------------------
(* Properties.                                                             *)

\* Every variable stays in its set.
TypeOK ==
  /\ pc \in PC
  /\ cur \in Signal \cup {None}
  /\ reason \in StopReason \cup {None}
  /\ mailbox \in Seq(Signal)
  /\ head \in Nat \ {0}
  /\ killed \in BOOLEAN
  /\ task \in [ReadOnly -> {"none"} \cup Running \cup Finished]
  /\ joinSet \subseteq ReadOnly
  /\ permits \subseteq ReadOnly
  /\ state \subseteq Write
  /\ outcome \in [Msg -> Outcome]
  /\ dropping \subseteq Call
  /\ notified \in BOOLEAN

\* While an exclusive handler or a hook of the actor's task holds the value,
\* no read task exists, not even one that has yet to start: the expect in a
\* &mut self handler cannot fire and write().await never waits.
ExclusiveAlone == pc \in Exclusive => Live = {}

\* Once the links are being told and on_stop is next, the Arc has one owner,
\* also when kill() cut short the loop's own shutdown of the reads:
\* Arc::into_inner(actor).expect(..) cannot fire.
SoleOwnerAtStop == pc \in {"notify", "on_stop", "dead"} => Live = {}

\* At most max_concurrent_reads() read handlers are in progress, across the
\* re-entries of the loop, each of which makes a new semaphore.
ReadsBounded == Cardinality(Live) <= MaxConcurrentReads

Before(s, t) ==
  \E i, j \in 1..Len(mailbox) : i < j /\ mailbox[i] = s /\ mailbox[j] = t

\* A read handler sees the value as of its place in the mailbox: every
\* &mut self message accepted before it has been applied, and none accepted
\* after it, for as long as the handler runs.
ReadsSeePrefix ==
  \A m \in ReadOnly :
    task[m] = "reading" => state = {w \in Write : Before(w, m)}

\* stop_gracefully: an actor that stops for Normal has given every message
\* accepted before the stop signal to its handler, each read handler has
\* returned, and no message accepted after it has been touched.
GracefulStop ==
  reason = "Normal" =>
    \A m \in Msg :
      /\ Before(m, Stop) => IF m \in ReadOnly THEN task[m] = "completed" ELSE m \in state
      /\ Before(Stop, m) => IF m \in ReadOnly THEN task[m] = "none" ELSE m \notin state

\* A caller that awaits a reply is never forgotten: its reply sender is in
\* the open mailbox, with the loop or with a read task, and dropped with it.
CallersOwned ==
  \A m \in Call : outcome[m] = "pending" =>
    (m \in Unread /\ ~MailboxClosed) \/ m = cur \/ m \in Live

\* A message may borrow from its caller, who is free to end the borrow once
\* answered: by then nobody has the message, not even a read task that is
\* about to be cancelled.  Only a message whose handler never began may still
\* be on its way out.  (A caller that gave up is not covered.)
AnsweredIsOver ==
  \A m \in Call : outcome[m] \in {"replied", "stopped", "not_running"} =>
    /\ m # cur /\ m \notin Live
    /\ m \in Unread => MailboxClosed
    /\ m \in dropping => IF m \in ReadOnly THEN task[m] \in {"none", "discarded"}
                         ELSE m \notin state

\* Answers come in the order of the mailbox: whoever sent a message before
\* one that has its reply has an answer too, unless the two are reads, which
\* run side by side.
AnswersInOrder ==
  \A i, j \in 1..Len(mailbox) :
    /\ i < j /\ mailbox[i] \in Msg /\ mailbox[j] \in Msg
    /\ mailbox[i] \in Write \/ mailbox[j] \in Write
    /\ outcome[mailbox[j]] = "replied"
    => outcome[mailbox[i]] # "pending"

\* The loop waits only for what will come: for a permit while that many reads
\* are in progress (none of them, if max_concurrent_reads() is 0), for tasks
\* that run or can be joined, and for the value not at all.
NeverWaitsInVain ==
  /\ pc = "acquire" /\ ~PermitFree => Cardinality(Live) = MaxConcurrentReads
  /\ pc = "wait" => IF ReadsJoined THEN TasksHoldNoGuard
                    ELSE \A m \in joinSet : task[m] # "none"

\* wait_for_stop() waits until "any ongoing processing is completed": unless
\* the actor was killed, no handler is in progress when it returns and every
\* caller has its answer.  Links may still have to be told, and on_stop to run.
WaitForStopWaits ==
  WaitForStopReturns /\ reason # "Killed" =>
    Live = {} /\ \A m \in Call : outcome[m] # "pending"

\* Every call is answered, with a reply or with an error.
CallsAnswered == \A m \in Call : outcome[m] = "pending" ~> outcome[m] # "pending"

\* stop_gracefully() stops the actor, whatever else is in the mailbox.
StopStops == Stop \in Range(mailbox) ~> pc = "dead"

\* kill() stops the actor at any await point of the loop or of its hooks.
KillStops == killed ~> pc = "dead"

\* The generated handlers assert that their lock attempts succeed:
\* "actor currently being written to - this is a bug and should be reported".
LockNeverAsserted == \A m \in ReadOnly : task[m] # "asserted"

\* on_panic: "It can also determine whether the actor should be killed or if
\* it should continue processing messages by returning None".  An actor whose
\* hooks always continue stops only when it is told to, or never starts.
HooksDecide ==
  HookResult = {"continue"} /\ ~killed /\ Stop \notin Range(mailbox)
    => reason = None \/ pc \in {"start_failed", "dead"}

\* The loop has called a hook, or a &mut self handler that may have panicked.
HookCalled == state # {} \/ \E i \in 1..(head - 1) : mailbox[i] \in Peer

\* What ends an actor: a stop signal it has received, a kill, the panic of a
\* read, what a hook called by a read or by the loop returned or, without a
\* reason, the panic of run_abortable_future's own on_panic.  Any other panic
\* of the loop, of a &mut self handler or of a hook called there never does
\* by itself.
StopsForCause ==
  /\ reason = "Normal" => \E i \in 1..(head - 1) : mailbox[i] = Stop
  /\ reason = "Killed" => killed
  /\ reason = "ReadPanicked" => \E m \in ReadOnly : task[m] \in {"panicked", "asserted"}
  /\ reason = "Hook" => HookCalled \/ \E m \in ReadOnly : task[m] = "stop_requested"
  /\ reason = "HookFailed" => HookCalled \/ \E m \in ReadOnly : task[m] = "hook_failed"
  /\ pc = "dead" /\ reason = None => HookCalled

=============================================================================
