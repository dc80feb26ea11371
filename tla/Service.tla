------------------------------ MODULE Service ------------------------------
(***************************************************************************)
(* What an actor promises to those who send to it, with nothing of how the *)
(* promise is kept: no lock, semaphore, JoinSet, program counter or abort  *)
(* flag.                                                                   *)
(*                                                                         *)
(* Signals take effect one after another, in the order in which they were  *)
(* accepted, each at most once.  Up to max_concurrent_reads() read-only    *)
(* messages are handled side by side; everything else is handled alone.    *)
(* Once the actor has decided to stop it begins nothing more, and whoever  *)
(* waits for a reply by then is told.                                      *)
(***************************************************************************)
EXTENDS Naturals, Sequences, FiniteSets

CONSTANTS
  Msg, ReadOnly, Call,  \* messages, those that take &self, those with a reply channel
  Peer, Stop,           \* the other signals
  None,                 \* no value
  Recovery,             \* what is handled alone after a panic: on_panic
  MaxConcurrentReads

VARIABLES
  phase,    \* starting, running, leaving (decided to stop), closed, over
  log,      \* every signal ever accepted, in order
  next,     \* index of the first one not yet begun
  reading,  \* read-only messages being handled
  alone,    \* what is being handled alone, or None
  outcome   \* what the sender of each message has seen

svars == <<phase, log, next, reading, alone, outcome>>

Signals   == Msg \cup Peer \cup {Stop}
Accepting == phase \in {"starting", "running", "leaving"}
Waiting   == {log[i] : i \in next..Len(log)}

\* The replies owed for the messages in S will not come.
Dropped(S) ==
  [m \in Msg |-> IF m \in S /\ outcome[m] = "pending" THEN "stopped" ELSE outcome[m]]

\* The handler of m is over: its caller, if there is one, has the reply or
\* knows that there is none.
Settled(m, o) ==
  \E answer \in {"replied", "stopped"} :
    o = [n \in Msg |-> IF n = m /\ outcome[n] = "pending" THEN answer ELSE outcome[n]]

Begin(s) ==
  /\ phase = "running" /\ alone = None
  /\ next <= Len(log) /\ log[next] = s
  /\ next' = next + 1

-----------------------------------------------------------------------------

Send(m) ==
  /\ outcome[m] = "unsent"
  /\ IF Accepting
     THEN /\ log' = Append(log, m)
          /\ outcome' = [outcome EXCEPT ![m] = IF m \in Call THEN "pending" ELSE "sent"]
     ELSE /\ outcome' = [outcome EXCEPT ![m] = "not_running"]
          /\ UNCHANGED log
  /\ UNCHANGED <<phase, next, reading, alone>>

SendSignal(s) ==
  /\ Accepting
  /\ log' = Append(log, s)
  /\ UNCHANGED <<phase, next, reading, alone, outcome>>

GiveUp(m) ==
  /\ outcome[m] = "pending"
  /\ outcome' = [outcome EXCEPT ![m] = "given_up"]
  /\ UNCHANGED <<phase, log, next, reading, alone>>

Start ==
  /\ phase = "starting"
  /\ phase' = "running"
  /\ UNCHANGED <<log, next, reading, alone, outcome>>

BeginRead(m) ==
  /\ Begin(m)
  /\ Cardinality(reading) < MaxConcurrentReads
  /\ reading' = reading \cup {m}
  /\ UNCHANGED <<phase, log, alone, outcome>>

\* Whether it succeeds, fails or is cancelled; also while the actor stops.
EndRead(m) ==
  /\ m \in reading
  /\ reading' = reading \ {m}
  /\ Settled(m, outcome')
  /\ UNCHANGED <<phase, log, next, alone>>

BeginAlone(s) ==
  /\ Begin(s)
  /\ reading = {}
  /\ alone' = s
  /\ UNCHANGED <<phase, log, reading, outcome>>

\* What was handled alone is over, or on_panic takes its place.
EndAlone ==
  /\ phase = "running" /\ alone # None
  /\ alone' \in {None, Recovery}
  /\ Settled(alone, outcome')
  /\ UNCHANGED <<phase, log, next, reading>>

\* The decision to stop, with or without a signal that was next in line.
Decide ==
  /\ phase = "running"
  /\ phase' = "leaving"
  /\ alone' = None
  /\ next' = next \/ (next <= Len(log) /\ next' = next + 1)
  /\ outcome' = Dropped({alone} \cup {log[i] : i \in next..(next' - 1)})
  /\ UNCHANGED <<log, reading>>

\* The mailbox is gone, with everything in it.
Close ==
  /\ Accepting
  /\ phase' = "closed" \/ (phase' = "over" /\ reading = {})
  /\ alone' = None
  /\ next' = Len(log) + 1
  /\ outcome' = Dropped({alone} \cup Waiting)
  /\ UNCHANGED <<log, reading>>

\* No handler is in progress; what is left is on_stop.
Finish ==
  /\ phase = "closed" /\ reading = {}
  /\ phase' = "over"
  /\ UNCHANGED <<log, next, reading, alone, outcome>>

-----------------------------------------------------------------------------

Init ==
  /\ phase = "starting"
  /\ log = <<>> /\ next = 1
  /\ reading = {} /\ alone = None
  /\ outcome = [m \in Msg |-> "unsent"]

Next ==
  \/ \E m \in Msg : Send(m) \/ GiveUp(m)
  \/ \E s \in Peer \cup {Stop} : SendSignal(s)
  \/ Start
  \/ \E m \in ReadOnly : BeginRead(m) \/ EndRead(m)
  \/ \E s \in Signals \ (ReadOnly \cup {Stop}) : BeginAlone(s)
  \/ EndAlone \/ Decide \/ Close \/ Finish

Spec == Init /\ [][Next]_svars

=============================================================================
