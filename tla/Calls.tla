------------------------------- MODULE Calls -------------------------------
(***************************************************************************)
(* Handlers that call other actors and wait for the answer: which calls    *)
(* return, what the task locals tell a handler of its own actor, and what  *)
(* the assertion against self calls catches.                               *)
(*                                                                         *)
(* A handler runs in its actor's task if it takes &mut self, in a task of  *)
(* its own if it takes &self, and a delayed call is sent from yet another  *)
(* task.  Only an actor's own task has the task locals that name it.  The  *)
(* life of an actor, modelled in Lifecycle, is one step here: whoever      *)
(* waits for an actor that stops is told (CallersOwned, CallsAnswered).    *)
(***************************************************************************)
EXTENDS Naturals, Sequences, FiniteSets, SequencesExt

CONSTANTS
  Actor,               \* actors, all of them spawned
  Type,                \* the Rust type of each of them
  Msg,                 \* messages, each sent at most once
  ReadOnly,            \* those whose method takes &self
  MaxConcurrentReads,  \* how many of those an actor handles at once
  MaxKills,            \* how many actors are killed
  Debug,               \* whether debug assertions are compiled in
  None                 \* no value

ASSUME MsgAssumption   == ReadOnly \subseteq Msg /\ None \notin Msg \cup Actor
ASSUME TypeAssumption  == DOMAIN Type = Actor
ASSUME BoundAssumption == MaxConcurrentReads \in Nat /\ MaxKills \in Nat /\ Debug \in BOOLEAN

VARIABLES
  stage,  \* how far each message has come
  call,   \* of a message under way: its receiver and the handler that awaits
          \* the answer
  queue,  \* each actor's mailbox
  taken,  \* the message an actor has received and not yet disposed of
  up,     \* the actors that have not stopped
  kills   \* actors killed so far

vars == <<stage, call, queue, taken, up, kills>>

Over  == {"answered", "failed", "no_actor"}
Stage == {"unsent", "sleeping", "queued", "taken", "running"} \cup Over

UnderWay(m) == stage[m] \notin {"unsent"} \cup Over

\* The handler of m awaits the answer to n, to the end.
Awaits(m, n) == stage[m] = "running" /\ UnderWay(n) /\ call[n].by = m

\* A handler that does something: its await, if any, is over.
Active(m) == stage[m] = "running" /\ \A n \in Msg : ~Awaits(m, n)

ReadsOf(a) == {m \in ReadOnly : stage[m] = "running" /\ call[m].to = a}

\* The actor that the task locals name where the handler of m runs: tokio
\* tasks spawned by the actor's task, its read tasks, do not inherit them.
CurrentActor(m) == IF m \in ReadOnly THEN None ELSE call[m].to

-----------------------------------------------------------------------------
(* Sending.                                                                *)

Put(m, a, by) == call' = [call EXCEPT ![m] = [to |-> a, by |-> by]]

\* The message is accepted, or comes back with ActorNotRunning.
Deliver(m, a, by) ==
  IF a \in up
  THEN /\ stage' = [stage EXCEPT ![m] = "queued"]
       /\ queue' = [queue EXCEPT ![a] = Append(@, m)]
       /\ Put(m, a, by)
  ELSE /\ stage' = [stage EXCEPT ![m] = "failed"]
       /\ call' = [call EXCEPT ![m] = None]
       /\ UNCHANGED queue

\* msg from outside all actors, or an async method from anywhere: nobody that
\* another actor waits for waits for the answer.
Send(m, a) ==
  /\ stage[m] = "unsent"
  /\ Deliver(m, a, None)
  /\ UNCHANGED <<taken, up, kills>>

\* Faulty: what is left in the mailbox is not dropped with it.
Failing_KeepsQueue(a, m, as) ==
  LET lost == {n \in ReadsOf(a) \cup {taken[a]} : n # None}
  IN  /\ stage' = [n \in Msg |-> IF n = m THEN as ELSE IF n \in lost THEN "failed" ELSE stage[n]]
      /\ call' = [n \in Msg |-> IF n \in lost THEN None ELSE call[n]]
      /\ taken' = [taken EXCEPT ![a] = None]
      /\ up' = up \ {a}
      /\ UNCHANGED queue

\* Everything that waits for a or in it is told that a has stopped; the calls
\* that a's handlers awaited go on without them.
Failing(a, m, as) ==
  LET lost == {n \in Msg : UnderWay(n) /\ stage[n] # "sleeping" /\ call[n].to = a}
  IN  /\ stage' = [n \in Msg |-> IF n = m THEN as ELSE IF n \in lost THEN "failed" ELSE stage[n]]
      /\ call' = [n \in Msg |-> IF n \in lost THEN None ELSE call[n]]
      /\ queue' = [queue EXCEPT ![a] = <<>>]
      /\ taken' = [taken EXCEPT ![a] = None]
      /\ up' = up \ {a}

\* m has ended; an exclusive handler gives the loop back.
Finish(m, as) ==
  /\ stage' = [stage EXCEPT ![m] = as]
  /\ call' = [call EXCEPT ![m] = None]
  /\ taken' = [a \in Actor |-> IF taken[a] = m THEN None ELSE taken[a]]
  /\ UNCHANGED <<queue, up>>

\* The handler of m panics: a read takes its actor down, an exclusive one
\* leaves that to on_panic.
Panic(m, as) ==
  \/ m \notin ReadOnly /\ Finish(m, as)
  \/ Failing(call[m].to, m, as)

\* debug_assert!(#actor_ref_global_ident.try_with(|_| {}).is_err()): the task
\* local belongs to the type of the actor that is called.
Refused(m, a) == Debug /\ CurrentActor(m) # None /\ Type[CurrentActor(m)] = Type[a]

\* The handler of m calls a.msg(..) and awaits the answer.
Call(m, n, a) ==
  /\ Active(m) /\ stage[n] = "unsent"
  /\ IF Refused(m, a)
     THEN Panic(m, "failed")
     ELSE Deliver(n, a, m) /\ UNCHANGED <<taken, up>>
  /\ UNCHANGED kills

\* The handler of m calls a.msg_after(..) and awaits the answer.
CallAfter(m, n, a) ==
  /\ Active(m) /\ stage[n] = "unsent"
  /\ stage' = [stage EXCEPT ![n] = "sleeping"]
  /\ Put(n, a, m)
  /\ UNCHANGED <<queue, taken, up, kills>>

\* The delay is over.  The assertion in the delaying task finds no task local
\* of any actor and lets every call pass.
Wake(n) ==
  /\ stage[n] = "sleeping"
  /\ Deliver(n, call[n].to, call[n].by)
  /\ UNCHANGED <<taken, up, kills>>

\* The handler of m needs to know its actor: actor_ref(), spawn_link() or
\* spawn_child(), each of which panics where there is no current actor.
NeedActor(m) ==
  /\ Active(m)
  /\ CurrentActor(m) = None
  /\ Panic(m, "no_actor")
  /\ UNCHANGED kills

Return(m) ==
  /\ Active(m)
  /\ Finish(m, "answered")
  /\ UNCHANGED kills

-----------------------------------------------------------------------------
(* The receive loop of a.                                                  *)

Recv(a) ==
  /\ a \in up /\ taken[a] = None /\ queue[a] # <<>>
  /\ taken' = [taken EXCEPT ![a] = Head(queue[a])]
  /\ queue' = [queue EXCEPT ![a] = Tail(@)]
  /\ stage' = [stage EXCEPT ![Head(queue[a])] = "taken"]
  /\ UNCHANGED <<call, up, kills>>

\* With a permit, the read goes to a task of its own and the loop goes on.
BeginRead(a) ==
  LET m == taken[a] IN
  /\ m \in ReadOnly
  /\ Cardinality(ReadsOf(a)) < MaxConcurrentReads
  /\ stage' = [stage EXCEPT ![m] = "running"]
  /\ taken' = [taken EXCEPT ![a] = None]
  /\ UNCHANGED <<call, queue, up, kills>>

\* The loop waits for the reads in progress and runs the handler itself.
BeginWrite(a) ==
  LET m == taken[a] IN
  /\ m \in Msg \ ReadOnly /\ stage[m] = "taken"
  /\ ReadsOf(a) = {}
  /\ stage' = [stage EXCEPT ![m] = "running"]
  /\ UNCHANGED <<call, queue, taken, up, kills>>

Kill(a) ==
  /\ a \in up /\ kills < MaxKills
  /\ kills' = kills + 1
  /\ Failing(a, None, "failed")

-----------------------------------------------------------------------------

Init ==
  /\ stage = [m \in Msg |-> "unsent"]
  /\ call = [m \in Msg |-> None]
  /\ queue = [a \in Actor |-> <<>>]
  /\ taken = [a \in Actor |-> None]
  /\ up = Actor
  /\ kills = 0

Loop(a) == Recv(a) \/ BeginRead(a) \/ BeginWrite(a)

Handler(m) ==
  \/ \E n \in Msg, a \in Actor : Call(m, n, a) \/ CallAfter(m, n, a)
  \/ NeedActor(m) \/ Return(m)

Next ==
  \/ \E m \in Msg, a \in Actor : Send(m, a)
  \/ \E m \in Msg : Handler(m) \/ Wake(m)
  \/ \E a \in Actor : Loop(a) \/ Kill(a)

Spec == Init /\ [][Next]_vars

\* The runtime polls every loop and every task whose timer has expired, and a
\* handler that waits for nothing ends.
FairSpec ==
  /\ Spec
  /\ \A a \in Actor : WF_vars(Loop(a))
  /\ \A m \in Msg : WF_vars(Wake(m) \/ Return(m))

-----------------------------------------------------------------------------
(* Properties.                                                             *)

\* Every variable stays in its set; a message under way has one place, and
\* waits in no mailbox but that of an actor that is up.
TypeOK ==
  /\ stage \in [Msg -> Stage]
  /\ \A m \in Msg :
       call[m] \in IF UnderWay(m)
                  THEN [to : Actor, by : Msg \cup {None}]
                  ELSE {None}
  /\ queue \in [Actor -> Seq({m \in Msg : stage[m] = "queued"})]
  /\ taken \in [Actor -> {m \in Msg : stage[m] \in {"taken", "running"}} \cup {None}]
  /\ up \subseteq Actor
  /\ \A m \in Msg : stage[m] = "queued" => call[m].to \in up
  /\ kills \in 0..MaxKills

\* Actors each of which has a handler in a relation of waiting with another one
\* of them, or with itself.
Circular ==
  \E S \in (SUBSET Actor) \ {{}} : \A a \in S :
    \E m, n \in Msg : Awaits(m, n) /\ call[m].to = a /\ call[n].to \in S

\* Every call is answered, through panics and kills anywhere in a chain of
\* calls, unless actors wait for each other, or one for itself, for good.
HangsOnlyInCycle ==
  \/ <>[]Circular
  \/ <>[](\A m \in Msg : ~UnderWay(m))

\* Nothing goes on by itself: no delay ends, no handler returns, and no loop
\* receives a message, gets a permit or finds its reads over.
AtRest ==
  /\ \A m \in Msg : stage[m] # "sleeping" /\ ~Active(m)
  /\ \A a \in up :
       IF taken[a] = None THEN queue[a] = <<>>
       ELSE /\ taken[a] \in ReadOnly => Cardinality(ReadsOf(a)) >= MaxConcurrentReads
            /\ taken[a] \notin ReadOnly /\ stage[taken[a]] = "taken" => ReadsOf(a) # {}

\* A message that nobody will answer is owed to actors that wait for each
\* other, or one for itself: a chain of calls that ends is answered.
StuckOnlyInCircle ==
  MaxConcurrentReads > 0 /\ AtRest /\ (\E m \in Msg : UnderWay(m)) => Circular

\* "Retrieves a reference to the current actor", and the example's "message
\* that sends a message to itself": a handler can get at its own actor.
HandlersKnowTheirActor == \A m \in Msg : stage[m] # "no_actor"

=============================================================================
