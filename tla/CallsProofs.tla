---------------------------- MODULE CallsProofs ----------------------------
(***************************************************************************)
(* Proofs about Calls, for every set of actors, types and messages.        *)
(*                                                                         *)
(* A message is in one place, the one that its stage says, and is owed by  *)
(* the actor it was sent to.  So where nothing can go on, whoever owes an  *)
(* answer is waiting itself, and for somebody who does as well.            *)
(***************************************************************************)
EXTENDS Calls, FiniteSetTheorems, TLAPS

Sent == [to : Actor, by : Msg \cup {None}]

\* A message under way, and no other, has been sent to an actor; one that is in
\* a mailbox to an actor that is up.
Messages ==
  /\ stage \in [Msg -> Stage]
  /\ call \in [Msg -> Sent \cup {None}]
  /\ \A m \in Msg : UnderWay(m) => call[m] \in Sent
  /\ \A m \in Msg : ~UnderWay(m) => call[m] = None
  /\ \A m \in Msg : stage[m] = "queued" => call[m].to \in up

\* What is in a mailbox was sent to that actor, and is there once.
QueuedIn(a) ==
  \A i \in 1..Len(queue[a]) : stage[queue[a][i]] = "queued" /\ call[queue[a][i]].to = a

OnceIn(a) == \A i, j \in 1..Len(queue[a]) : queue[a][i] = queue[a][j] => i = j

Mailboxes == queue \in [Actor -> Seq(Msg)] /\ \A a \in Actor : QueuedIn(a) /\ OnceIn(a)

\* What an actor has received was sent to it.
Received ==
  /\ taken \in [Actor -> Msg \cup {None}]
  /\ \A a \in Actor : taken[a] # None =>
       stage[taken[a]] \in {"taken", "running"} /\ call[taken[a]].to = a

Counted == up \subseteq Actor /\ kills \in 0..MaxKills

IInv == Messages /\ Mailboxes /\ Received /\ Counted

-----------------------------------------------------------------------------
(* Sequences.                                                              *)

\* A sequence is one of members of T if every element of it is in T.
LEMMA SequenceIn ==
  ASSUME NEW S, NEW T, NEW s \in Seq(S), \A i \in 1..Len(s) : s[i] \in T
  PROVE  s \in Seq(T)
<1> QED
  OBVIOUS

\* What is appended comes last.
LEMMA AppendAt ==
  ASSUME NEW S, NEW s \in Seq(S), NEW e \in S
  PROVE  /\ Append(s, e) \in Seq(S)
         /\ \A i \in 1..Len(Append(s, e)) :
              \/ i \in 1..Len(s) /\ Append(s, e)[i] = s[i]
              \/ i = Len(s) + 1 /\ Append(s, e)[i] = e
<1> QED
  OBVIOUS

\* Without its head a sequence is what follows.
LEMMA TailAt ==
  ASSUME NEW S, NEW s \in Seq(S), s # <<>>
  PROVE  /\ Head(s) = s[1] /\ 1 \in 1..Len(s) /\ Tail(s) \in Seq(S)
         /\ \A i \in 1..Len(Tail(s)) :
              Tail(s)[i] = s[i + 1] /\ i + 1 \in 1..Len(s) /\ i + 1 # 1
<1> QED
  OBVIOUS

\* The stages of a message under way.
LEMMA UnderWayStages ==
  ASSUME Messages, NEW m \in Msg
  PROVE  UnderWay(m) <=> stage[m] \in {"sleeping", "queued", "taken", "running"}
<1> QED
  BY DEF Messages, UnderWay, Stage, Over

LEMMA InitIInv == Init => IInv
<1> SUFFICES ASSUME Init PROVE IInv
  OBVIOUS
<1>1. \A m \in Msg : ~UnderWay(m)
  BY DEF Init, UnderWay
<1>2. Messages
  BY <1>1 DEF Init, Messages, Stage
<1>3. Mailboxes /\ Received
  BY DEF Init, Mailboxes, Received, QueuedIn, OnceIn
<1>4. Counted
  BY BoundAssumption DEF Init, Counted
<1> QED
  BY <1>2, <1>3, <1>4 DEF IInv

\* What the steps keep is what the type invariant says.
LEMMA IInvTypeOK == IInv => TypeOK
<1> SUFFICES ASSUME IInv PROVE TypeOK
  OBVIOUS
<1>1. queue \in [Actor -> Seq({m \in Msg : stage[m] = "queued"})]
  <2>1. ASSUME NEW a \in Actor PROVE queue[a] \in Seq({m \in Msg : stage[m] = "queued"})
    BY SequenceIn DEF IInv, Mailboxes, QueuedIn
  <2> QED
    BY <2>1 DEF IInv, Mailboxes
<1>2. taken \in [Actor -> {m \in Msg : stage[m] \in {"taken", "running"}} \cup {None}]
  BY DEF IInv, Received
<1> QED
  BY <1>1, <1>2 DEF IInv, TypeOK, Messages, Sent, Counted

-----------------------------------------------------------------------------
(* The steps.                                                              *)

\* The mailboxes are not disturbed by what happens to messages elsewhere.
LEMMA QueuesKept ==
  ASSUME Mailboxes, queue' = queue,
         \A n \in Msg : stage[n] = "queued" => stage'[n] = "queued" /\ call'[n] = call[n]
  PROVE  Mailboxes'
<1>1. ASSUME NEW a \in Actor PROVE QueuedIn(a)'
  <2>1. QueuedIn(a) /\ queue[a] \in Seq(Msg)
    BY DEF Mailboxes
  <2> QED
    BY <2>1 DEF QueuedIn
<1>2. ASSUME NEW a \in Actor PROVE OnceIn(a)'
  BY DEF Mailboxes, OnceIn
<1> QED
  BY <1>1, <1>2 DEF Mailboxes

\* What is sent, from outside, from a handler or at the end of a delay, is
\* queued or comes back.
LEMMA DeliverIInv ==
  ASSUME IInv, NEW m \in Msg, NEW a \in Actor, NEW by \in Msg \cup {None},
         stage[m] \in {"unsent", "sleeping"}, Deliver(m, a, by), UNCHANGED <<taken, up, kills>>
  PROVE  IInv'
<1> USE MsgAssumption
<1>1. CASE a \in up
  <2>1. /\ stage' = [stage EXCEPT ![m] = "queued"]
        /\ queue' = [queue EXCEPT ![a] = Append(@, m)]
        /\ call' = [call EXCEPT ![m] = [to |-> a, by |-> by]]
    BY <1>1 DEF Deliver, Put
  <2>2. /\ stage'[m] = "queued"
        /\ call'[m] = [to |-> a, by |-> by] /\ call'[m] \in Sent
        /\ \A n \in Msg \ {m} : stage'[n] = stage[n] /\ call'[n] = call[n]
    BY <2>1 DEF IInv, Messages, Sent
  <2>3. Messages'
    BY <1>1, <2>1, <2>2 DEF IInv, Messages, UnderWay, Stage, Over
  <2>4. \A b \in Actor : \A i \in 1..Len(queue[b]) : queue[b][i] \in Msg \ {m}
    BY DEF IInv, Mailboxes, QueuedIn
  <2>5. Mailboxes'
    <3>1. queue[a] \in Seq(Msg) /\ queue'[a] = Append(queue[a], m)
      BY <2>1 DEF IInv, Mailboxes
    <3>2. /\ queue'[a] \in Seq(Msg)
          /\ \A i \in 1..Len(queue'[a]) :
               \/ i \in 1..Len(queue[a]) /\ queue'[a][i] = queue[a][i]
               \/ i = Len(queue[a]) + 1 /\ queue'[a][i] = m
      BY <3>1, AppendAt
    <3>3. QueuedIn(a)'
      <4>1. QueuedIn(a)
        BY DEF IInv, Mailboxes
      <4> QED
        BY <2>2, <2>4, <3>2, <4>1 DEF QueuedIn
    <3>4. OnceIn(a)'
      <4>1. OnceIn(a)
        BY DEF IInv, Mailboxes
      <4> QED
        BY <2>4, <3>2, <4>1 DEF OnceIn
    <3>5. queue' \in [Actor -> Seq(Msg)]
      BY <2>1, <3>1, <3>2 DEF IInv, Mailboxes
    <3>6. ASSUME NEW b \in Actor \ {a} PROVE QueuedIn(b)' /\ OnceIn(b)'
      <4>1. queue'[b] = queue[b] /\ QueuedIn(b) /\ OnceIn(b)
        BY <2>1 DEF IInv, Mailboxes
      <4>2. QueuedIn(b)'
        BY <2>2, <2>4, <4>1 DEF QueuedIn
      <4>3. OnceIn(b)'
        BY <4>1 DEF OnceIn
      <4> QED
        BY <4>2, <4>3
    <3> QED
      BY <3>3, <3>4, <3>5, <3>6 DEF Mailboxes
  <2>6. Received' /\ Counted'
    BY <2>2 DEF IInv, Received, Counted
  <2> QED
    BY <2>3, <2>5, <2>6 DEF IInv
<1>2. CASE a \notin up
  <2>1. /\ stage' = [stage EXCEPT ![m] = "failed"]
        /\ call' = [call EXCEPT ![m] = None]
        /\ queue' = queue
    BY <1>2 DEF Deliver
  <2>2. /\ stage'[m] = "failed" /\ call'[m] = None
        /\ \A n \in Msg \ {m} : stage'[n] = stage[n] /\ call'[n] = call[n]
    BY <2>1 DEF IInv, Messages
  <2>3. Messages'
    BY <2>1, <2>2 DEF IInv, Messages, UnderWay, Stage, Over
  <2>4. Mailboxes' /\ Received' /\ Counted'
    <3>1. Mailboxes'
      BY <2>1, <2>2, QueuesKept DEF IInv
    <3> QED
      BY <2>1, <2>2, <3>1 DEF IInv, Received, Counted
  <2> QED
    BY <2>3, <2>4 DEF IInv
<1> QED
  BY <1>1, <1>2

\* A handler ends, with an answer or without.
LEMMA FinishIInv ==
  ASSUME IInv, NEW m \in Msg, NEW as \in Over, stage[m] = "running",
         Finish(m, as), UNCHANGED kills
  PROVE  IInv'
<1> USE MsgAssumption
<1>1. /\ stage'[m] = as /\ call'[m] = None
      /\ \A n \in Msg \ {m} : stage'[n] = stage[n] /\ call'[n] = call[n]
      /\ queue' = queue /\ up' = up
  BY DEF Finish, IInv, Messages
<1>2. \A a \in Actor : taken'[a] \in {taken[a], None} /\ taken'[a] # m
  BY DEF Finish
<1>3. Messages'
  BY <1>1 DEF Finish, IInv, Messages, UnderWay, Stage, Over
<1>4. Mailboxes' /\ Counted'
  BY <1>1, QueuesKept DEF IInv, Counted
<1>5. Received'
  <2>1. taken' \in [Actor -> Msg \cup {None}]
    BY DEF Finish, IInv, Received
  <2> QED
    BY <1>1, <1>2, <2>1 DEF IInv, Received
<1> QED
  BY <1>3, <1>4, <1>5 DEF IInv

\* An actor stops, killed or because the handler of m panics.
LEMMA FailingIInv ==
  ASSUME IInv, NEW a \in Actor, NEW m \in Msg \cup {None}, NEW as \in Over,
         m # None => stage[m] = "running" /\ call[m].to = a,
         Failing(a, m, as), kills' \in 0..MaxKills
  PROVE  IInv'
<1> USE MsgAssumption
<1> DEFINE lost == {n \in Msg : UnderWay(n) /\ stage[n] # "sleeping" /\ call[n].to = a}
<1>1. /\ stage' = [n \in Msg |-> IF n = m THEN as ELSE IF n \in lost THEN "failed" ELSE stage[n]]
      /\ call' = [n \in Msg |-> IF n \in lost THEN None ELSE call[n]]
      /\ queue' = [queue EXCEPT ![a] = <<>>]
      /\ taken' = [taken EXCEPT ![a] = None]
      /\ up' = up \ {a}
  BY DEF Failing
<1>2. /\ m # None => m \in lost
      /\ \A n \in Msg \ lost : stage'[n] = stage[n] /\ call'[n] = call[n]
      /\ \A n \in lost : stage'[n] \in Over /\ call'[n] = None
  BY <1>1 DEF UnderWay, Over
<1>3. \A n \in Msg : n \notin lost <=> (UnderWay(n) => stage[n] = "sleeping" \/ call[n].to # a)
  OBVIOUS
<1> HIDE DEF lost
<1>4. Messages'
  BY <1>1, <1>2, <1>3 DEF IInv, Messages, UnderWay, Stage, Over
<1>5. Mailboxes'
  <2>1. /\ queue' \in [Actor -> Seq(Msg)] /\ queue'[a] = <<>>
        /\ \A b \in Actor \ {a} : queue'[b] = queue[b]
    BY <1>1 DEF IInv, Mailboxes
  <2>2. QueuedIn(a)' /\ OnceIn(a)'
    BY <2>1 DEF QueuedIn, OnceIn
  <2>3. ASSUME NEW b \in Actor \ {a} PROVE QueuedIn(b)' /\ OnceIn(b)'
    <3>1. queue'[b] = queue[b] /\ QueuedIn(b) /\ OnceIn(b)
      BY <2>1 DEF IInv, Mailboxes
    <3>2. ASSUME NEW i \in 1..Len(queue[b]) PROVE queue[b][i] \in Msg \ lost
      <4>1. queue[b][i] \in Msg /\ stage[queue[b][i]] = "queued" /\ call[queue[b][i]].to = b
        BY <3>1 DEF IInv, Mailboxes, QueuedIn
      <4> QED
        BY <1>3, <4>1 DEF UnderWay, Over
    <3>3. QueuedIn(b)'
      BY <1>2, <3>1, <3>2 DEF QueuedIn
    <3>4. OnceIn(b)'
      BY <3>1 DEF OnceIn
    <3> QED
      BY <3>3, <3>4
  <2> QED
    BY <2>1, <2>2, <2>3 DEF Mailboxes
<1>6. Received'
  <2>1. taken' \in [Actor -> Msg \cup {None}] /\ taken'[a] = None
    BY <1>1 DEF IInv, Received
  <2>2. ASSUME NEW b \in Actor \ {a}, taken'[b] # None
        PROVE  stage'[taken'[b]] \in {"taken", "running"} /\ call'[taken'[b]].to = b
    <3>1. taken'[b] = taken[b] /\ taken[b] \in Msg \ lost
      BY <1>1, <1>3, <2>2 DEF IInv, Received, UnderWay, Over
    <3> QED
      BY <1>2, <2>2, <3>1 DEF IInv, Received
  <2> QED
    BY <2>1, <2>2 DEF Received
<1>7. Counted'
  BY <1>1 DEF IInv, Counted
<1> QED
  BY <1>4, <1>5, <1>6, <1>7 DEF IInv

\* The handler of m ends in a panic.
LEMMA PanicIInv ==
  ASSUME IInv, NEW m \in Msg, NEW as \in Over, stage[m] = "running",
         Panic(m, as), UNCHANGED kills
  PROVE  IInv'
<1>1. CASE Finish(m, as)
  BY <1>1, FinishIInv
<1>2. CASE Failing(call[m].to, m, as)
  <2>1. call[m].to \in Actor
    BY DEF IInv, Messages, Sent, UnderWay, Over
  <2>2. m # None /\ kills' \in 0..MaxKills
    BY MsgAssumption DEF IInv, Counted
  <2> QED
    BY <1>2, <2>1, <2>2, FailingIInv
<1> QED
  BY <1>1, <1>2 DEF Panic

\* A handler calls another actor and awaits the answer, or panics where the
\* assertion refuses that.
LEMMA CallIInv ==
  ASSUME IInv, NEW m \in Msg, NEW n \in Msg, NEW a \in Actor, Call(m, n, a)
  PROVE  IInv'
<1>1. stage[m] = "running" /\ stage[n] = "unsent" /\ kills' = kills
  BY DEF Call, Active
<1>2. CASE Refused(m, a)
  BY <1>1, <1>2, PanicIInv DEF Call, Over
<1>3. CASE ~Refused(m, a)
  BY <1>1, <1>3, DeliverIInv DEF Call
<1> QED
  BY <1>2, <1>3

\* A delayed call is awaited before it is sent.
LEMMA CallAfterIInv ==
  ASSUME IInv, NEW m \in Msg, NEW n \in Msg, NEW a \in Actor, CallAfter(m, n, a)
  PROVE  IInv'
<1> USE MsgAssumption
<1>1. /\ stage[m] = "running" /\ stage[n] = "unsent"
      /\ stage' = [stage EXCEPT ![n] = "sleeping"]
      /\ call' = [call EXCEPT ![n] = [to |-> a, by |-> m]]
      /\ UNCHANGED <<queue, taken, up, kills>>
  BY DEF CallAfter, Active, Put
<1>2. /\ stage'[n] = "sleeping"
      /\ call'[n] = [to |-> a, by |-> m] /\ call'[n] \in Sent
      /\ \A k \in Msg \ {n} : stage'[k] = stage[k] /\ call'[k] = call[k]
  BY <1>1 DEF IInv, Messages, Sent
<1>3. Messages'
  BY <1>1, <1>2 DEF IInv, Messages, UnderWay, Stage, Over
<1>4. Mailboxes' /\ Received' /\ Counted'
  <2>1. Mailboxes'
    BY <1>1, <1>2, QueuesKept DEF IInv
  <2> QED
    BY <1>1, <1>2, <2>1 DEF IInv, Received, Counted
<1> QED
  BY <1>3, <1>4 DEF IInv

\* The delay of a call is over.
LEMMA WakeIInv ==
  ASSUME IInv, NEW n \in Msg, Wake(n)
  PROVE  IInv'
<1>1. stage[n] = "sleeping" /\ call[n] \in Sent /\ UnderWay(n)
  BY DEF Wake, IInv, Messages, UnderWay, Over
<1>2. call[n].to \in Actor /\ call[n].by \in Msg \cup {None}
  BY <1>1 DEF Sent
<1>3. Deliver(n, call[n].to, call[n].by) /\ UNCHANGED <<taken, up, kills>>
  BY DEF Wake
<1> QED
  BY <1>1, <1>2, <1>3, DeliverIInv

\* What an actor receives leaves its mailbox.
LEMMA RecvIInv ==
  ASSUME IInv, NEW a \in Actor, Recv(a)
  PROVE  IInv'
<1> USE MsgAssumption
<1> DEFINE m == Head(queue[a])
<1>1. /\ queue[a] # <<>> /\ queue[a] \in Seq(Msg)
      /\ taken' = [taken EXCEPT ![a] = m]
      /\ queue' = [queue EXCEPT ![a] = Tail(@)]
      /\ stage' = [stage EXCEPT ![m] = "taken"]
      /\ UNCHANGED <<call, up, kills>>
  BY DEF Recv, IInv, Mailboxes
<1>2. /\ m = queue[a][1] /\ 1 \in 1..Len(queue[a]) /\ Tail(queue[a]) \in Seq(Msg)
      /\ \A i \in 1..Len(Tail(queue[a])) :
           Tail(queue[a])[i] = queue[a][i + 1] /\ i + 1 \in 1..Len(queue[a]) /\ i + 1 # 1
  BY <1>1, TailAt
<1>3. m \in Msg /\ stage[m] = "queued" /\ call[m].to = a
  BY <1>2 DEF IInv, Mailboxes, QueuedIn
<1> HIDE DEF m
<1>4. stage'[m] = "taken" /\ \A k \in Msg \ {m} : stage'[k] = stage[k]
  BY <1>1, <1>3 DEF IInv, Messages
<1>5. Messages'
  BY <1>1, <1>3, <1>4 DEF IInv, Messages, UnderWay, Stage, Over
<1>6. Mailboxes'
  <2>1. queue' \in [Actor -> Seq(Msg)]
    BY <1>1, <1>2 DEF IInv, Mailboxes
  <2>2. queue'[a] = Tail(queue[a]) /\ \A b \in Actor \ {a} : queue'[b] = queue[b]
    BY <1>1 DEF IInv, Mailboxes
  <2>3. QueuedIn(a) /\ OnceIn(a)
    BY DEF IInv, Mailboxes
  <2>4. ASSUME NEW i \in 1..Len(queue'[a])
        PROVE  /\ queue'[a][i] = queue[a][i + 1] /\ i + 1 \in 1..Len(queue[a])
               /\ queue'[a][i] \in Msg \ {m}
    <3>1. queue'[a][i] = queue[a][i + 1] /\ i + 1 \in 1..Len(queue[a]) /\ i + 1 # 1
      BY <1>2, <2>2, <2>4
    <3>2. queue[a][i + 1] # queue[a][1]
      BY <1>2, <2>3, <3>1 DEF OnceIn
    <3> QED
      BY <1>1, <1>2, <3>1, <3>2
  <2>5. QueuedIn(a)'
    <3>1. ASSUME NEW i \in 1..Len(queue'[a])
          PROVE  stage'[queue'[a][i]] = "queued" /\ call'[queue'[a][i]].to = a
      <4>1. queue'[a][i] = queue[a][i + 1] /\ i + 1 \in 1..Len(queue[a])
        BY <2>4
      <4>2. stage[queue'[a][i]] = "queued" /\ call[queue'[a][i]].to = a
        BY <2>3, <4>1 DEF QueuedIn
      <4>3. queue'[a][i] \in Msg \ {m}
        BY <2>4
      <4> QED
        BY <1>1, <1>4, <4>2, <4>3
    <3> QED
      BY <3>1 DEF QueuedIn
  <2>6. OnceIn(a)'
    <3>1. ASSUME NEW i \in 1..Len(queue'[a]), NEW j \in 1..Len(queue'[a]),
                 queue'[a][i] = queue'[a][j]
          PROVE  i = j
      <4>1. i + 1 = j + 1
        BY <2>3, <2>4, <3>1 DEF OnceIn
      <4> QED
        BY <4>1
    <3> QED
      BY <3>1 DEF OnceIn
  <2>7. ASSUME NEW b \in Actor \ {a} PROVE QueuedIn(b)' /\ OnceIn(b)'
    <3>1. queue'[b] = queue[b] /\ QueuedIn(b) /\ OnceIn(b)
      BY <2>2 DEF IInv, Mailboxes
    <3>2. \A i \in 1..Len(queue[b]) : queue[b][i] \in Msg \ {m}
      BY <1>3, <3>1 DEF IInv, Mailboxes, QueuedIn
    <3>3. QueuedIn(b)'
      BY <1>1, <1>4, <3>1, <3>2 DEF QueuedIn
    <3>4. OnceIn(b)'
      BY <3>1 DEF OnceIn
    <3> QED
      BY <3>3, <3>4
  <2> QED
    BY <2>1, <2>5, <2>6, <2>7 DEF Mailboxes
<1>7. Received' /\ Counted'
  BY <1>1, <1>3, <1>4 DEF IInv, Received, Counted
<1> QED
  BY <1>5, <1>6, <1>7 DEF IInv

\* A handler begins with what its actor has received.
LEMMA BeginIInv ==
  ASSUME IInv, NEW a \in Actor, BeginRead(a) \/ BeginWrite(a)
  PROVE  IInv'
<1> USE MsgAssumption
<1> DEFINE m == taken[a]
<1>1. /\ m \in Msg /\ stage[m] \in {"taken", "running"} /\ call[m].to = a
      /\ stage' = [stage EXCEPT ![m] = "running"]
      /\ UNCHANGED <<call, queue, up, kills>>
      /\ m \in ReadOnly \/ stage[m] = "taken"
      /\ taken' = taken \/ taken' = [taken EXCEPT ![a] = None]
  BY DEF BeginRead, BeginWrite, IInv, Received
<1> HIDE DEF m
<1>2. stage'[m] = "running" /\ \A k \in Msg \ {m} : stage'[k] = stage[k]
  BY <1>1 DEF IInv, Messages
<1>3. Messages'
  BY <1>1, <1>2 DEF IInv, Messages, UnderWay, Stage, Over
<1>4. Mailboxes' /\ Counted'
  BY <1>1, <1>2, QueuesKept DEF IInv, Counted
<1>5. Received'
  BY <1>1, <1>2 DEF IInv, Received
<1> QED
  BY <1>3, <1>4, <1>5 DEF IInv

LEMMA StepIInv == IInv /\ [Next]_vars => IInv'
<1> SUFFICES ASSUME IInv, [Next]_vars PROVE IInv'
  OBVIOUS
<1> USE MsgAssumption
<1>1. ASSUME NEW m \in Msg, NEW a \in Actor, Send(m, a) PROVE IInv'
  BY <1>1, DeliverIInv DEF Send
<1>2. ASSUME NEW m \in Msg, Handler(m) PROVE IInv'
  <2>1. ASSUME NEW n \in Msg, NEW a \in Actor, Call(m, n, a) \/ CallAfter(m, n, a) PROVE IInv'
    BY <2>1, CallIInv, CallAfterIInv
  <2>2. CASE NeedActor(m)
    BY <2>2, PanicIInv DEF NeedActor, Active, Over
  <2>3. CASE Return(m)
    BY <2>3, FinishIInv DEF Return, Active, Over
  <2> QED
    BY <1>2, <2>1, <2>2, <2>3 DEF Handler
<1>3. ASSUME NEW m \in Msg, Wake(m) PROVE IInv'
  BY <1>3, WakeIInv
<1>4. ASSUME NEW a \in Actor, Loop(a) PROVE IInv'
  BY <1>4, RecvIInv, BeginIInv DEF Loop
<1>5. ASSUME NEW a \in Actor, Kill(a) PROVE IInv'
  <2>1. kills' \in 0..MaxKills
    BY <1>5, BoundAssumption DEF Kill, IInv, Counted
  <2> QED
    BY <1>5, <2>1, FailingIInv DEF Kill, Over
<1>6. CASE UNCHANGED vars
  BY <1>6 DEF vars, IInv, Messages, Mailboxes, Received, Counted, UnderWay, QueuedIn, OnceIn
<1> QED
  BY <1>1, <1>2, <1>3, <1>4, <1>5, <1>6 DEF Next

\* Every message under way is in one place, and was sent to who has it.
THEOREM Invariance == Spec => []IInv
<1> QED
  BY InitIInv, StepIInv, PTL DEF Spec

\* Every variable stays in its set; a message under way has one place, and
\* waits in no mailbox but that of an actor that is up.
THEOREM TypeCorrect == Spec => []TypeOK
<1> QED
  BY Invariance, IInvTypeOK, PTL

-----------------------------------------------------------------------------
(* Where the messages are that nobody answers.                             *)

\* A message is where its stage says: in the mailbox of its receiver, or in
\* the hands of a receiver that is up.
Placed ==
  /\ \A n \in Msg : stage[n] = "queued" =>
       \E i \in 1..Len(queue[call[n].to]) : queue[call[n].to][i] = n
  /\ \A n \in Msg : stage[n] = "taken" => call[n].to \in up /\ taken[call[n].to] = n

\* A message sent goes to the end of the mailbox.
LEMMA DeliverPlaced ==
  ASSUME IInv, Placed, NEW m \in Msg, NEW a \in Actor, NEW by,
         stage[m] \in {"unsent", "sleeping"},
         Deliver(m, a, by), UNCHANGED <<taken, up>>
  PROVE  Placed'
<1> USE DEF IInv, Messages, Sent
<1>1. CASE a \notin up
  <2>1. /\ stage'[m] = "failed" /\ queue' = queue
        /\ \A n \in Msg \ {m} : stage'[n] = stage[n] /\ call'[n] = call[n]
    BY <1>1 DEF Deliver
  <2> QED
    BY <2>1 DEF Placed
<1>2. CASE a \in up
  <2>1. /\ stage'[m] = "queued" /\ call'[m].to = a
        /\ \A n \in Msg \ {m} : stage'[n] = stage[n] /\ call'[n] = call[n]
        /\ queue' = [queue EXCEPT ![a] = Append(@, m)]
    BY <1>2 DEF Deliver, Put
  <2>2. /\ queue[a] \in Seq(Msg) /\ queue'[a] = Append(queue[a], m)
        /\ \A b \in Actor \ {a} : queue'[b] = queue[b]
    BY <2>1 DEF Mailboxes
  <2>3. /\ Len(queue[a]) + 1 \in 1..Len(queue'[a]) /\ queue'[a][Len(queue[a]) + 1] = m
        /\ \A i \in 1..Len(queue[a]) : i \in 1..Len(queue'[a]) /\ queue'[a][i] = queue[a][i]
    BY <2>2
  <2>4. ASSUME NEW n \in Msg, stage'[n] = "queued"
        PROVE  \E i \in 1..Len(queue'[call'[n].to]) : queue'[call'[n].to][i] = n
    <3>1. CASE n = m
      BY <2>1, <2>3, <3>1
    <3>2. CASE n # m
      <4>1. /\ stage[n] = "queued" /\ call'[n] = call[n] /\ call[n].to \in Actor
        BY <2>1, <2>4, <3>2 DEF UnderWay, Over
      <4>2. PICK i \in 1..Len(queue[call[n].to]) : queue[call[n].to][i] = n
        BY <4>1 DEF Placed
      <4>3. CASE call[n].to = a
        BY <2>3, <4>1, <4>2, <4>3
      <4>4. CASE call[n].to # a
        <5>1. queue'[call'[n].to] = queue[call[n].to]
          BY <2>2, <4>1, <4>4
        <5> QED
          BY <4>2, <5>1
      <4> QED
        BY <4>3, <4>4
    <3> QED
      BY <3>1, <3>2
  <2> QED
    BY <2>1, <2>4 DEF Placed
<1> QED
  BY <1>1, <1>2

\* The end of a handler takes nothing from the mailboxes, and from the loop no
\* message but its own.
LEMMA FinishPlaced ==
  ASSUME IInv, Placed, NEW m \in Msg, NEW as \in Over, stage[m] = "running", Finish(m, as)
  PROVE  Placed'
<1>1. /\ stage'[m] = as
      /\ \A n \in Msg \ {m} : stage'[n] = stage[n] /\ call'[n] = call[n]
      /\ queue' = queue /\ up' = up
  BY DEF Finish, IInv, Messages
<1>2. \A a \in Actor : taken[a] # m => taken'[a] = taken[a]
  BY DEF Finish
<1>3. \A n \in Msg : stage[n] = "taken" => call[n].to \in Actor
  BY DEF IInv, Messages, Sent, UnderWay, Over
<1> QED
  <2>1. ASSUME NEW n \in Msg, stage'[n] \in {"queued", "taken"}
        PROVE  n # m /\ stage'[n] = stage[n] /\ call'[n] = call[n]
    BY <1>1, <2>1 DEF Over
  <2> QED
    BY <1>1, <1>2, <1>3, <2>1 DEF Placed

\* An actor that stops leaves no message behind in its mailbox or its hands.
LEMMA FailingPlaced ==
  ASSUME IInv, Placed, NEW a \in Actor, NEW m \in Msg \cup {None}, NEW as \in Over,
         Failing(a, m, as)
  PROVE  Placed'
<1>1. ASSUME NEW n \in Msg, stage'[n] \in {"queued", "taken"}
      PROVE  /\ stage'[n] = stage[n] /\ call'[n] = call[n]
             /\ call[n].to \in Actor \ {a}
  BY <1>1 DEF Failing, Over, UnderWay, IInv, Messages, Sent
<1>2. \A b \in Actor \ {a} :
        queue'[b] = queue[b] /\ taken'[b] = taken[b] /\ (b \in up => b \in up')
  BY DEF Failing, IInv, Mailboxes, Received
<1> QED
  BY <1>1, <1>2 DEF Placed

LEMMA PanicPlaced ==
  ASSUME IInv, Placed, NEW m \in Msg, NEW as \in Over, stage[m] = "running", Panic(m, as)
  PROVE  Placed'
<1>1. call[m].to \in Actor
  BY DEF IInv, Messages, Sent, UnderWay, Over
<1> QED
  BY <1>1, FinishPlaced, FailingPlaced DEF Panic

\* What the loop receives is the first of the mailbox, and the others stay.
LEMMA RecvPlaced ==
  ASSUME IInv, Placed, NEW a \in Actor, Recv(a)
  PROVE  Placed'
<1> DEFINE m == Head(queue[a])
<1>1. /\ queue[a] # <<>> /\ queue[a] \in Seq(Msg) /\ a \in up /\ taken[a] = None
      /\ taken'[a] = m /\ \A b \in Actor \ {a} : taken'[b] = taken[b]
      /\ queue'[a] = Tail(queue[a]) /\ \A b \in Actor \ {a} : queue'[b] = queue[b]
      /\ UNCHANGED <<call, up>>
  BY DEF Recv, IInv, Mailboxes, Received
<1>2. /\ m = queue[a][1] /\ 1 \in 1..Len(queue[a])
      /\ \A i \in 1..Len(queue[a]) :
           i # 1 => i - 1 \in 1..Len(Tail(queue[a])) /\ Tail(queue[a])[i - 1] = queue[a][i]
  BY <1>1
<1>3. m \in Msg /\ stage[m] = "queued" /\ call[m].to = a
  BY <1>2 DEF IInv, Mailboxes, QueuedIn
<1>4. stage'[m] = "taken" /\ \A n \in Msg \ {m} : stage'[n] = stage[n]
  BY <1>3 DEF Recv, IInv, Messages
<1> HIDE DEF m
<1>5. ASSUME NEW n \in Msg, stage'[n] = "queued"
      PROVE  \E i \in 1..Len(queue'[call'[n].to]) : queue'[call'[n].to][i] = n
  <2>1. n # m /\ stage[n] = "queued" /\ call[n].to \in Actor
    BY <1>4, <1>5 DEF IInv, Messages, Sent, UnderWay, Over
  <2>2. PICK i \in 1..Len(queue[call[n].to]) : queue[call[n].to][i] = n
    BY <2>1 DEF Placed
  <2>3. CASE call[n].to = a
    <3>1. i # 1
      BY <1>2, <2>1, <2>2, <2>3
    <3>2. i - 1 \in 1..Len(queue'[a]) /\ queue'[a][i - 1] = n /\ call'[n].to = a
      BY <1>1, <1>2, <2>2, <2>3, <3>1
    <3> QED
      BY <3>2
  <2>4. CASE call[n].to # a
    BY <1>1, <2>1, <2>2, <2>4
  <2> QED
    BY <2>3, <2>4
<1>6. ASSUME NEW n \in Msg, stage'[n] = "taken"
      PROVE  call'[n].to \in up' /\ taken'[call'[n].to] = n
  <2>1. CASE n = m
    BY <1>1, <1>3, <2>1
  <2>2. CASE n # m
    <3>1. stage[n] = "taken" /\ call[n].to \in Actor
      BY <1>4, <1>6, <2>2 DEF IInv, Messages, Sent, UnderWay, Over
    <3>2. call[n].to \in up /\ taken[call[n].to] = n
      BY <3>1 DEF Placed
    <3>3. call[n].to # a
      BY <1>1, <3>2, MsgAssumption
    <3> QED
      BY <1>1, <3>1, <3>2, <3>3
  <2> QED
    BY <2>1, <2>2
<1> QED
  BY <1>5, <1>6 DEF Placed

\* A handler begins with the message that the loop holds.
LEMMA BeginPlaced ==
  ASSUME IInv, Placed, NEW a \in Actor, BeginRead(a) \/ BeginWrite(a)
  PROVE  Placed'
<1> DEFINE m == taken[a]
<1>1. /\ m \in Msg /\ stage' = [stage EXCEPT ![m] = "running"]
      /\ UNCHANGED <<call, queue, up>>
      /\ \A b \in Actor \ {a} : taken'[b] = taken[b]
      /\ taken'[a] \in {m, None}
  BY MsgAssumption DEF BeginRead, BeginWrite, IInv, Received
<1>2. stage'[m] = "running" /\ \A n \in Msg \ {m} : stage'[n] = stage[n]
  BY <1>1 DEF IInv, Messages
<1>3. \A n \in Msg : stage[n] = "taken" => call[n].to \in Actor
  BY DEF IInv, Messages, Sent, UnderWay, Over
<1> QED
  BY <1>1, <1>2, <1>3 DEF Placed

\* Every step leaves each message where its stage says.
LEMMA PlacedStep == IInv /\ Placed /\ [Next]_vars => Placed'
<1> SUFFICES ASSUME IInv, Placed, [Next]_vars PROVE Placed'
  OBVIOUS
<1> USE MsgAssumption
<1>1. ASSUME NEW m \in Msg, NEW a \in Actor, Send(m, a) PROVE Placed'
  BY <1>1, DeliverPlaced DEF Send
<1>2. ASSUME NEW m \in Msg, Handler(m) PROVE Placed'
  <2>1. ASSUME NEW n \in Msg, NEW a \in Actor, Call(m, n, a) PROVE Placed'
    BY <2>1, PanicPlaced, DeliverPlaced DEF Call, Active, Over
  <2>2. ASSUME NEW n \in Msg, NEW a \in Actor, CallAfter(m, n, a) PROVE Placed'
    <3>1. /\ stage[n] = "unsent" /\ stage'[n] = "sleeping"
          /\ \A k \in Msg \ {n} : stage'[k] = stage[k] /\ call'[k] = call[k]
          /\ UNCHANGED <<queue, taken, up>>
      BY <2>2 DEF CallAfter, Put, IInv, Messages
    <3> QED
      BY <3>1 DEF Placed
  <2>3. CASE NeedActor(m)
    BY <2>3, PanicPlaced DEF NeedActor, Active, Over
  <2>4. CASE Return(m)
    BY <2>4, FinishPlaced DEF Return, Active, Over
  <2> QED
    BY <1>2, <2>1, <2>2, <2>3, <2>4 DEF Handler
<1>3. ASSUME NEW m \in Msg, Wake(m) PROVE Placed'
  <2>1. call[m].to \in Actor
    BY <1>3 DEF Wake, IInv, Messages, Sent, UnderWay, Over
  <2> QED
    BY <1>3, <2>1, DeliverPlaced DEF Wake
<1>4. ASSUME NEW a \in Actor, Loop(a) PROVE Placed'
  BY <1>4, RecvPlaced, BeginPlaced DEF Loop
<1>5. ASSUME NEW a \in Actor, Kill(a) PROVE Placed'
  BY <1>5, FailingPlaced DEF Kill, Over
<1>6. CASE UNCHANGED vars
  BY <1>6 DEF vars, Placed
<1> QED
  BY <1>1, <1>2, <1>3, <1>4, <1>5, <1>6 DEF Next

\* Every message is where its stage says.
THEOREM PlacedInvariance == Spec => []Placed
<1>1. Init => Placed
  BY DEF Init, Placed
<1> QED
  BY <1>1, PlacedStep, Invariance, PTL DEF Spec

\* At rest every message under way is owed by an actor with a handler that
\* runs, whether or not it has got to that handler itself.
LEMMA OwedByRunning ==
  ASSUME IInv, Placed, AtRest, MaxConcurrentReads > 0, NEW n \in Msg, UnderWay(n)
  PROVE  /\ call[n].to \in Actor
         /\ \E m \in Msg : stage[m] = "running" /\ call[m].to = call[n].to
<1> USE MsgAssumption
<1> DEFINE a == call[n].to
<1>1. a \in Actor /\ stage[n] \in {"queued", "taken", "running"}
  BY UnderWayStages DEF IInv, Messages, Sent, AtRest
<1>2. ASSUME ReadsOf(a) # {} PROVE \E m \in Msg : stage[m] = "running" /\ call[m].to = a
  BY <1>2 DEF ReadsOf
<1>3. ASSUME a \in up, taken[a] # None
      PROVE  \E m \in Msg : stage[m] = "running" /\ call[m].to = a
  <2>1. taken[a] \in Msg /\ stage[taken[a]] \in {"taken", "running"} /\ call[taken[a]].to = a
    BY <1>1, <1>3 DEF IInv, Received
  <2>2. CASE taken[a] \in ReadOnly
    <3>1. Cardinality(ReadsOf(a)) >= MaxConcurrentReads
      BY <1>3, <2>2 DEF AtRest
    <3>2. ReadsOf(a) # {}
      BY <3>1, FS_EmptySet, BoundAssumption
    <3> QED
      BY <1>2, <3>2
  <2>3. CASE taken[a] \notin ReadOnly /\ stage[taken[a]] = "taken"
    BY <1>2, <1>3, <2>3 DEF AtRest
  <2> QED
    BY <2>1, <2>2, <2>3
<1>4. CASE stage[n] = "running"
  BY <1>1, <1>4
<1>5. CASE stage[n] = "taken"
  BY <1>1, <1>3, <1>5 DEF Placed
<1>6. CASE stage[n] = "queued"
  <2>1. a \in up /\ \E i \in 1..Len(queue[a]) : queue[a][i] = n
    BY <1>6 DEF Placed, IInv, Messages
  <2>2. queue[a] # <<>>
    BY <2>1
  <2> QED
    BY <1>1, <1>3, <2>1, <2>2 DEF AtRest
<1> QED
  BY <1>1, <1>4, <1>5, <1>6

\* A message that nobody will answer is owed to actors that wait for each
\* other, or one for itself: the actors with a handler that runs are a circle,
\* since each of those handlers awaits another message of such an actor.
THEOREM StuckInCircle == Spec => []StuckOnlyInCircle
<1>1. IInv /\ Placed => StuckOnlyInCircle
  <2> SUFFICES ASSUME IInv, Placed, MaxConcurrentReads > 0, AtRest,
                      NEW k \in Msg, UnderWay(k)
               PROVE  Circular
    BY DEF StuckOnlyInCircle
  <2> DEFINE S == {a \in Actor : \E m \in Msg : stage[m] = "running" /\ call[m].to = a}
  <2>1. S \in (SUBSET Actor) \ {{}}
    BY OwedByRunning
  <2>2. ASSUME NEW a \in S
        PROVE  \E m, n \in Msg : Awaits(m, n) /\ call[m].to = a /\ call[n].to \in S
    <3>1. PICK m \in Msg : stage[m] = "running" /\ call[m].to = a
      BY <2>2
    <3>2. PICK n \in Msg : Awaits(m, n)
      BY <3>1 DEF AtRest, Active
    <3>3. call[n].to \in S
      BY <3>2, OwedByRunning DEF Awaits
    <3> QED
      BY <3>1, <3>2, <3>3
  <2> QED
    BY <2>1, <2>2 DEF Circular
<1> QED
  BY <1>1, Invariance, PlacedInvariance, PTL

=============================================================================
