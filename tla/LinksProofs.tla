---------------------------- MODULE LinksProofs ----------------------------
(***************************************************************************)
(* Proofs about Links, for every set of actors, every choice of hooks and  *)
(* any number of linking operations, stops, kills and failures.            *)
(*                                                                         *)
(* A dying actor's reports come out of the draining of its links, and      *)
(* nothing can be linked to it while that lasts: the links are locked, and *)
(* an actor that is about to link what it spawned is not the one that      *)
(* drains.                                                                 *)
(***************************************************************************)
EXTENDS Links, FiniteSetTheorems, TLAPS

\* Between the closing of its mailbox and its end an actor has a reason.
Reasoned ==
  \A a \in Actor : phase[a] \in {"closed", "draining", "on_stop"} => reason[a] \in Reason

\* Whoever has spawned an actor and is yet to link it does nothing else.
SpawnerWaits ==
  \A c \in Actor : spawning[c] # None =>
    /\ spawner[c] \in [by : Actor, how : {"spawn_link", "spawn_child"} \cap Op]
    /\ phase[spawning[c]] \in {"starting", "start_failed", "running", "on_stop"}

IInv == TypeOK /\ Reasoned /\ SpawnerWaits

-----------------------------------------------------------------------------

\* Nothing is spawned, linked or asked for at first.
LEMMA InitIInv == Init => IInv
<1> SUFFICES ASSUME Init PROVE IInv
  OBVIOUS
<1>1. inbox \in [Actor -> Seq(LinkDied \cup {Stop})]
  BY DEF Init
<1>2. TypeOK
  BY <1>1, OpAssumption DEF Init, TypeOK, Phase
<1> QED
  BY <1>2 DEF Init, IInv, Reasoned, SpawnerWaits

\* A link both ways leaves maps of actors.
LEMMA TogetherType ==
  ASSUME links \in [Actor -> SUBSET Actor], NEW a \in Actor, NEW b \in Actor
  PROVE  WithLink(WithLink(links, a, b), b, a) \in [Actor -> SUBSET Actor]
<1>1. WithLink(links, a, b) \in [Actor -> SUBSET Actor]
  BY DEF WithLink
<1> QED
  BY <1>1 DEF WithLink

\* It changes the maps of the two alone.
LEMMA TogetherElsewhere ==
  ASSUME links \in [Actor -> SUBSET Actor], NEW a \in Actor, NEW b \in Actor,
         NEW c \in Actor, c # a, c # b
  PROVE  WithLink(WithLink(links, a, b), b, a)[c] = links[c]
<1>1. /\ WithLink(links, a, b) \in [Actor -> SUBSET Actor]
      /\ WithLink(links, a, b)[c] = links[c]
  BY DEF WithLink
<1>2. WithLink(WithLink(links, a, b), b, a)[c] = WithLink(links, a, b)[c]
  BY <1>1 DEF WithLink
<1> QED
  BY <1>1, <1>2

\* What an actor receives ends it for a reason or leaves it as it is.
LEMMA ReceiveOutcome ==
  ASSUME IInv, NEW a \in Actor, Receive(a)
  PROVE  \/ UNCHANGED <<phase, reason>>
         \/ \E r \in Reason : Close(a, r)
<1> DEFINE signal == inbox[a][head[a]]
<1>1. signal \in LinkDied \cup {Stop}
  BY DEF IInv, TypeOK, Receive
<1>2. CASE signal = Stop
  BY <1>2 DEF Receive, Reason
<1>3. CASE signal # Stop
  <2>1. PICK r \in LinkDiedResults(a, signal) :
          IF r = None THEN UNCHANGED <<phase, reason>> ELSE Close(a, r)
    BY <1>3 DEF Receive
  <2>2. r \in Reason \cup {None}
    BY <1>1, <1>3, <2>1 DEF LinkDiedResults, LinkDied
  <2> QED
    BY <2>1, <2>2
<1> QED
  BY <1>2, <1>3

\* An actor that fails ends for a reason.
LEMMA CrashOutcome ==
  ASSUME NEW a \in Actor, Crash(a)
  PROVE  \E r \in Reason : Close(a, r)
<1> QED
  BY DEF Crash, PanicResults, Reason

\* Linking changes maps of links, spawning starts an actor that was not.
LEMMA LinkingIInv ==
  ASSUME IInv, NEW a \in Actor, NEW b \in Actor, Linking(a, b)
  PROVE  IInv'
<1> USE ActorAssumption, OpAssumption
    DEF IInv, TypeOK, Reasoned, SpawnerWaits, Phase, Perform, lifeVars, mailVars, spawnVars
<1>1. CASE LinkChild(a, b)
  BY <1>1 DEF LinkChild, WithLink
<1>2. CASE UnlinkChild(a, b)
  BY <1>2 DEF UnlinkChild, WithoutLink
<1>3. CASE LinkTogether(a, b)
  <2>1. links' \in [Actor -> SUBSET Actor]
    BY <1>3, TogetherType DEF LinkTogether
  <2> QED
    BY <1>3, <2>1 DEF LinkTogether
<1>4. CASE UnlinkTogether(a, b)
  BY <1>4 DEF UnlinkTogether, WithoutLink
<1>5. ASSUME NEW op \in Op, SpawnFrom(a, b, op) PROVE IInv'
  BY <1>5 DEF SpawnFrom
<1> QED
  BY <1>1, <1>2, <1>3, <1>4, <1>5 DEF Linking

\* What is asked of an actor.
LEMMA AskingIInv ==
  ASSUME IInv, NEW a \in Actor, Asking(a)
  PROVE  IInv'
<1> USE ActorAssumption, OpAssumption
    DEF IInv, TypeOK, Reasoned, SpawnerWaits, Phase, End, lifeVars, mailVars, spawnVars, bounds
<1>1. CASE Spawn(a)
  BY <1>1 DEF Spawn
<1>2. CASE StopGracefully(a)
  BY <1>2 DEF StopGracefully
<1>3. CASE Kill(a)
  BY <1>3 DEF Kill
<1> QED
  BY <1>1, <1>2, <1>3 DEF Asking

\* The steps of an actor's task.  It leaves a phase in which somebody may be
\* waiting to link what it spawned only when nobody is.
LEMMA ProgressIInv ==
  ASSUME IInv, NEW a \in Actor, Progress(a)
  PROVE  IInv'
<1> USE ActorAssumption, OpAssumption
    DEF IInv, TypeOK, Reasoned, SpawnerWaits, Phase, Idle, lifeVars, mailVars, spawnVars, bounds
<1>1. CASE LinkSpawned(a)
  <2>1. spawning[a] \in Actor
    BY <1>1 DEF LinkSpawned
  <2>2. links' \in [Actor -> SUBSET Actor]
    <3>1. links' = WithLink(links, a, spawning[a])
            \/ links' = WithLink(WithLink(links, a, spawning[a]), spawning[a], a)
      BY <1>1 DEF LinkSpawned
    <3>2. WithLink(links, a, spawning[a]) \in [Actor -> SUBSET Actor]
      BY <2>1 DEF WithLink
    <3> QED
      BY <2>1, <3>1, <3>2, TogetherType
  <2> QED
    <3>1. /\ UNCHANGED <<lifeVars, mailVars, told, spawner, bounds>>
          /\ spawning' = [spawning EXCEPT ![a] = None]
      BY <1>1 DEF LinkSpawned
    <3> QED
      BY <2>2, <3>1
<1>2. CASE Start(a)
  <2>1. CASE killed[a]
    <3>1. /\ Idle(a) /\ Close(a, "Killed")
          /\ UNCHANGED <<killed, links, mailVars, told, spawnVars, bounds>>
      BY <1>2, <2>1 DEF Start
    <3> QED
      BY <3>1 DEF Close, Reason
  <2>2. CASE ~killed[a]
    BY <1>2, <2>2 DEF Start
  <2> QED
    BY <2>1, <2>2
<1>3. CASE StartFailedStop(a)
  BY <1>3 DEF StartFailedStop
<1>4. CASE Receive(a)
  <2>2. CASE UNCHANGED <<phase, reason>>
    BY <1>4, <2>2 DEF Receive
  <2>3. ASSUME NEW r \in Reason, Close(a, r) PROVE IInv'
    BY <1>4, <2>3 DEF Receive, Close
  <2> QED
    BY <1>4, <2>2, <2>3, ReceiveOutcome
<1>5. CASE Abort(a)
  BY <1>5 DEF Abort, Close, Reason
<1>6. CASE LockLinks(a)
  BY <1>6 DEF LockLinks
<1>7. ASSUME NEW b \in Actor, NotifyLink(a, b) PROVE IInv'
  <2>1. Report(a, b) \in LinkDied
    BY <1>7 DEF NotifyLink, Report, LinkDied
  <2> QED
    BY <1>7, <2>1 DEF NotifyLink, WithoutLink
<1>8. CASE UnlockLinks(a)
  BY <1>8 DEF UnlockLinks
<1>9. CASE OnStop(a)
  BY <1>9 DEF OnStop
<1> QED
  BY <1>1, <1>2, <1>3, <1>4, <1>5, <1>6, <1>7, <1>8, <1>9 DEF Progress

\* Failures.
LEMMA FailingIInv ==
  ASSUME IInv, NEW a \in Actor, Failing(a)
  PROVE  IInv'
<1> USE ActorAssumption, OpAssumption
    DEF IInv, TypeOK, Reasoned, SpawnerWaits, Phase, Idle, End, lifeVars, mailVars, spawnVars
<1>1. CASE StartFails(a)
  BY <1>1 DEF StartFails
<1>2. CASE Crash(a)
  <2>1. PICK r \in Reason : Close(a, r)
    BY <1>2, CrashOutcome
  <2> QED
    BY <1>2, <2>1 DEF Crash, Close
<1>3. CASE Unwind(a)
  BY <1>3 DEF Unwind
<1> QED
  BY <1>1, <1>2, <1>3 DEF Failing

\* Every step keeps types, reasons and waiting spawners.
LEMMA NextIInv == IInv /\ [Next]_vars => IInv'
<1> SUFFICES ASSUME IInv, [Next]_vars PROVE IInv'
  OBVIOUS
<1>1. CASE UNCHANGED vars
  BY <1>1 DEF IInv, TypeOK, Reasoned, SpawnerWaits, vars
<1> QED
  BY <1>1, LinkingIInv, AskingIInv, ProgressIInv, FailingIInv DEF Next, AllQuiet

\* Types, reasons and waiting spawners are kept in every reachable state.
THEOREM Invariance == Spec => []IInv
  BY InitIInv, NextIInv, PTL DEF Spec

\* Every variable stays in its set, for any actors and any limits.
THEOREM TypeCorrect == Spec => []TypeOK
<1>1. IInv => TypeOK
  BY DEF IInv
<1> QED
  BY <1>1, Invariance, PTL

-----------------------------------------------------------------------------
(* Links made and unmade together.                                         *)

\* Where every link is made by link_together or spawn_link and unmade by
\* unlink_together, a step that takes a link from one map takes it from the
\* other, or tells the other side of a death.
LEMMA MutualStep ==
  ASSUME Op \subseteq {"link_together", "unlink_together", "spawn_link"},
         IInv, MutualLinks, [Next]_vars
  PROVE  MutualLinks'
<1> USE DEF IInv, TypeOK, MutualLinks
<1>1. CASE UNCHANGED <<links, told>>
  BY <1>1
<1>2. ASSUME NEW a \in Actor, NEW b \in Actor, links' = WithLink(WithLink(links, a, b), b, a),
             UNCHANGED told
      PROVE  MutualLinks'
  <2>1. WithLink(links, a, b) \in [Actor -> SUBSET Actor]
    BY DEF WithLink
  <2>2. \A c \in Actor : links'[c] = links[c] \cup (IF c = a THEN {b} ELSE {})
                                              \cup (IF c = b THEN {a} ELSE {})
    BY <1>2, <2>1 DEF WithLink
  <2> QED
    BY <1>2, <2>2
<1>3. ASSUME NEW a \in Actor, NEW b \in Actor, Linking(a, b) PROVE MutualLinks'
  <2>1. CASE LinkTogether(a, b)
    BY <1>2, <2>1 DEF LinkTogether
  <2>2. CASE UnlinkTogether(a, b)
    <3>1. UNCHANGED told /\ a # b
      BY <2>2 DEF UnlinkTogether, Between
    <3>2. \A c \in Actor : links'[c] = IF c = a THEN links[c] \ {b}
                                       ELSE IF c = b THEN links[c] \ {a} ELSE links[c]
      BY <2>2, <3>1 DEF UnlinkTogether, WithoutLink
    <3> QED
      BY <3>1, <3>2
  <2>3. ASSUME NEW op \in Op, SpawnFrom(a, b, op) PROVE MutualLinks'
    BY <1>1, <2>3 DEF SpawnFrom
  <2> QED
    BY <1>3, <2>1, <2>2, <2>3 DEF Linking, LinkChild, UnlinkChild, Perform
<1>4. ASSUME NEW a \in Actor, Asking(a) \/ Failing(a) PROVE MutualLinks'
  BY <1>1, <1>4
  DEF Asking, Failing, Spawn, StopGracefully, Kill, StartFails, Crash, Unwind
<1>5. ASSUME NEW a \in Actor, Progress(a) PROVE MutualLinks'
  <2>1. CASE LinkSpawned(a)
    <3>1. spawning[a] \in Actor /\ spawner[a].how = "spawn_link"
      BY <2>1 DEF LinkSpawned, SpawnerWaits
    <3> QED
      BY <1>2, <2>1, <3>1 DEF LinkSpawned
  <2>2. ASSUME NEW b \in Actor, NotifyLink(a, b) PROVE MutualLinks'
    BY <2>2 DEF NotifyLink, WithoutLink
  <2> QED
    BY <1>1, <1>5, <2>1, <2>2
    DEF Progress, Start, StartFailedStop, Receive, Abort, LockLinks, UnlockLinks, OnStop,
        bounds
<1> QED
  BY <1>1, <1>3, <1>4, <1>5 DEF Next, AllQuiet, vars

\* With link_together, unlink_together and spawn_link alone, a link is
\* one-sided only when the other side has died and told this one.
THEOREM LinksMutual ==
  ASSUME Op \subseteq {"link_together", "unlink_together", "spawn_link"}
  PROVE  Spec => []MutualLinks
<1>1. Init => MutualLinks
  BY DEF Init, MutualLinks
<1>2. IInv /\ MutualLinks /\ [Next]_vars => MutualLinks'
  BY MutualStep
<1> QED
  BY <1>1, <1>2, Invariance, PTL DEF Spec

-----------------------------------------------------------------------------
(* What mailboxes say of deaths.                                           *)

\* An actor that has not begun to drain its links has told nobody; while it
\* drains it has told none of those still in its map; it tells nobody twice,
\* and nobody anything but its reason.
ToldInv ==
  \A a, b \in Actor :
    /\ phase[a] \notin {"draining", "on_stop", "dead"} => ReportsOf(a, b) = {}
    /\ phase[a] = "draining" /\ b \in links[a] => ReportsOf(a, b) = {}
    /\ \A i, j \in ReportsOf(a, b) : i = j
    /\ \A i \in ReportsOf(a, b) : inbox[b][i].reason = reason[a]

\* A stop signal says nothing of a death, and what a mailbox has it keeps.
LEMMA AppendStop ==
  ASSUME IInv, NEW a \in Actor, NEW b \in Actor, inbox'[b] = Append(inbox[b], Stop)
  PROVE  /\ ReportsOf(a, b)' = ReportsOf(a, b)
         /\ \A i \in ReportsOf(a, b) : inbox'[b][i] = inbox[b][i]
<1>1. inbox[b] \in Seq(LinkDied \cup {Stop})
  BY DEF IInv, TypeOK
<1>2. /\ Len(inbox'[b]) = Len(inbox[b]) + 1
      /\ inbox'[b][Len(inbox[b]) + 1] = Stop
      /\ \A i \in 1..Len(inbox[b]) : inbox'[b][i] = inbox[b][i]
      /\ DOMAIN inbox[b] = 1..Len(inbox[b]) /\ DOMAIN inbox'[b] = 1..(Len(inbox[b]) + 1)
      /\ Len(inbox[b]) \in Nat
  BY <1>1
<1> QED
  BY <1>2 DEF ReportsOf

\* A report is one more of its sender and of nobody else.
LEMMA AppendReport ==
  ASSUME IInv, NEW a \in Actor, NEW b \in Actor, NEW c \in Actor,
         phase[c] = "draining", inbox'[b] = Append(inbox[b], Report(c, b))
  PROVE  /\ a = c => ReportsOf(a, b)' = ReportsOf(a, b) \cup {Len(inbox[b]) + 1}
         /\ a # c => ReportsOf(a, b)' = ReportsOf(a, b)
         /\ \A i \in ReportsOf(a, b) : inbox'[b][i] = inbox[b][i]
         /\ inbox'[b][Len(inbox[b]) + 1].reason = reason[c]
<1> DEFINE r == Report(c, b)
<1>0. r \in LinkDied /\ r.from = c /\ r.reason = reason[c]
  BY DEF IInv, Reasoned, Report, LinkDied
<1> HIDE DEF r
<1>1. inbox[b] \in Seq(LinkDied \cup {Stop}) /\ r # Stop
  BY <1>0, StopAssumption DEF IInv, TypeOK
<1>2. /\ Len(inbox'[b]) = Len(inbox[b]) + 1
      /\ inbox'[b][Len(inbox[b]) + 1] = r
      /\ \A i \in 1..Len(inbox[b]) : inbox'[b][i] = inbox[b][i]
      /\ DOMAIN inbox[b] = 1..Len(inbox[b]) /\ DOMAIN inbox'[b] = 1..(Len(inbox[b]) + 1)
      /\ Len(inbox[b]) \in Nat
  BY <1>1 DEF r
<1> QED
  BY <1>0, <1>1, <1>2 DEF ReportsOf

\* A step that leaves the mailboxes alone, lets no actor go back to before its
\* links are drained, gives a reason only before that, and links nobody to an
\* actor that drains, keeps what the mailboxes say.
LEMMA ToldKept ==
  ASSUME ToldInv, UNCHANGED inbox,
         \A a \in Actor :
           /\ phase'[a] \notin {"draining", "on_stop", "dead"} =>
                phase[a] \notin {"draining", "on_stop", "dead"}
           /\ phase'[a] = "draining" =>
                phase[a] = "closed" \/ (phase[a] = "draining" /\ links'[a] \subseteq links[a])
           /\ reason'[a] # reason[a] => phase[a] \notin {"draining", "on_stop", "dead"}
  PROVE  ToldInv'
<1>1. \A a, b \in Actor : ReportsOf(a, b)' = ReportsOf(a, b)
  BY DEF ReportsOf
<1> QED
  BY <1>1 DEF ToldInv

\* One turn of the draining: the actor told leaves the map and is not told
\* again.
LEMMA NotifyTold ==
  ASSUME IInv, ToldInv, NEW c \in Actor, NEW d \in Actor, NotifyLink(c, d)
  PROVE  ToldInv'
<1>1. /\ phase[c] = "draining" /\ d \in links[c] /\ UNCHANGED <<phase, reason>>
      /\ d \notin links'[c] /\ \A a \in Actor : links'[a] \subseteq links[a]
  BY DEF IInv, TypeOK, NotifyLink, WithoutLink, lifeVars
<1>2. CASE ~MailboxOpen(d)
  <2>1. UNCHANGED inbox
    BY <1>2 DEF NotifyLink
  <2> QED
    BY <1>1, <2>1, ToldKept
<1>3. CASE MailboxOpen(d)
  <2>1. \A b \in Actor : inbox'[b] = IF b = d THEN Append(inbox[b], Report(c, b)) ELSE inbox[b]
    BY <1>3 DEF IInv, TypeOK, NotifyLink
  <2> SUFFICES ASSUME NEW a \in Actor, NEW b \in Actor
               PROVE  /\ phase'[a] \notin {"draining", "on_stop", "dead"}
                           => ReportsOf(a, b)' = {}
                      /\ phase'[a] = "draining" /\ b \in links'[a] => ReportsOf(a, b)' = {}
                      /\ \A i, j \in ReportsOf(a, b)' : i = j
                      /\ \A i \in ReportsOf(a, b)' : inbox'[b][i].reason = reason'[a]
    BY DEF ToldInv
  <2>2. CASE b # d
    <3>1. inbox'[b] = inbox[b] /\ ReportsOf(a, b)' = ReportsOf(a, b)
      BY <2>1, <2>2 DEF ReportsOf
    <3> QED
      BY <1>1, <3>1 DEF ToldInv
  <2>3. CASE b = d
    <3>1. /\ a = c => ReportsOf(a, b)' = ReportsOf(a, b) \cup {Len(inbox[b]) + 1}
          /\ a # c => ReportsOf(a, b)' = ReportsOf(a, b)
          /\ \A i \in ReportsOf(a, b) : inbox'[b][i] = inbox[b][i]
          /\ inbox'[b][Len(inbox[b]) + 1].reason = reason[c]
      <4>1. phase[c] = "draining" /\ inbox'[b] = Append(inbox[b], Report(c, b))
        BY <1>1, <2>1, <2>3
      <4> QED
        BY <4>1, AppendReport
    <3>2. CASE a # c
      <4>1. ReportsOf(a, b)' = ReportsOf(a, b)
        BY <3>1, <3>2
      <4>2. \A i \in ReportsOf(a, b) : inbox'[b][i].reason = reason'[a]
        BY <1>1, <3>1 DEF ToldInv
      <4> QED
        BY <1>1, <4>1, <4>2 DEF ToldInv
    <3>3. CASE a = c
      <4>1. ReportsOf(a, b)' = {Len(inbox[b]) + 1}
        BY <1>1, <2>3, <3>1, <3>3 DEF ToldInv
      <4> QED
        BY <1>1, <2>3, <3>1, <3>3, <4>1
    <3> QED
      BY <3>2, <3>3
  <2> QED
    BY <2>2, <2>3
<1> QED
  BY <1>2, <1>3

\* Every step keeps what the mailboxes say.
LEMMA ToldStep == IInv /\ ToldInv /\ [Next]_vars => ToldInv'
<1> SUFFICES ASSUME IInv, ToldInv, [Next]_vars PROVE ToldInv'
  OBVIOUS
<1> USE DEF IInv, TypeOK, lifeVars, mailVars, bounds, spawnVars
<1>1. CASE UNCHANGED <<phase, reason, links, inbox>>
  BY <1>1, ToldKept
<1>2. ASSUME NEW a \in Actor, NEW b \in Actor, Linking(a, b) PROVE ToldInv'
  <2>1. CASE LinkTogether(a, b)
    <3>1. \A c \in Actor : phase[c] = "draining" => links'[c] = links[c]
      BY <2>1, TogetherElsewhere DEF LinkTogether, Unlocked
    <3> QED
      BY <2>1, <3>1, ToldKept DEF LinkTogether
  <2>2. CASE LinkChild(a, b)
    BY <2>2, ToldKept DEF LinkChild, Unlocked, WithLink
  <2>3. CASE UnlinkChild(a, b)
    BY <2>3, ToldKept DEF UnlinkChild, Unlocked, WithoutLink
  <2>4. CASE UnlinkTogether(a, b)
    BY <2>4, ToldKept DEF UnlinkTogether, Unlocked, WithoutLink
  <2>5. ASSUME NEW op \in Op, SpawnFrom(a, b, op) PROVE ToldInv'
    BY <2>5, ToldKept DEF SpawnFrom
  <2> QED
    BY <1>2, <2>1, <2>2, <2>3, <2>4, <2>5 DEF Linking
<1>3. ASSUME NEW a \in Actor, Asking(a) PROVE ToldInv'
  <2>1. CASE Spawn(a)
    BY <2>1, ToldKept DEF Spawn
  <2>2. CASE StopGracefully(a)
    <3>1. /\ UNCHANGED <<phase, reason, links>>
          /\ inbox' = [inbox EXCEPT ![a] = Append(@, Stop)]
      BY <2>2 DEF StopGracefully
    <3>2. \A c, b \in Actor : /\ ReportsOf(c, b)' = ReportsOf(c, b)
                              /\ \A i \in ReportsOf(c, b) : inbox'[b][i] = inbox[b][i]
      <4> SUFFICES ASSUME NEW c \in Actor, NEW b \in Actor
                   PROVE  /\ ReportsOf(c, b)' = ReportsOf(c, b)
                          /\ \A i \in ReportsOf(c, b) : inbox'[b][i] = inbox[b][i]
        OBVIOUS
      <4>1. CASE b = a
        <5>1. inbox'[b] = Append(inbox[b], Stop)
          BY <3>1, <4>1 DEF IInv, TypeOK
        <5> QED
          BY <5>1, AppendStop
      <4>2. CASE b # a
        BY <3>1, <4>2 DEF ReportsOf
      <4> QED
        BY <4>1, <4>2
    <3>3. ASSUME NEW c \in Actor, NEW b \in Actor
          PROVE  /\ phase'[c] \notin {"draining", "on_stop", "dead"} => ReportsOf(c, b)' = {}
                 /\ phase'[c] = "draining" /\ b \in links'[c] => ReportsOf(c, b)' = {}
                 /\ \A i, j \in ReportsOf(c, b)' : i = j
                 /\ \A i \in ReportsOf(c, b)' : inbox'[b][i].reason = reason'[c]
      <4>1. UNCHANGED <<phase, reason, links>>
        BY <3>1
      <4>2. /\ ReportsOf(c, b)' = ReportsOf(c, b)
            /\ \A i \in ReportsOf(c, b) : inbox'[b][i] = inbox[b][i]
        BY <3>2
      <4>3. \A i \in ReportsOf(c, b) : inbox'[b][i].reason = reason'[c]
        BY <4>1, <4>2 DEF ToldInv
      <4> QED
        BY <4>1, <4>2, <4>3 DEF ToldInv
    <3> QED
      BY <3>3 DEF ToldInv
  <2>3. CASE Kill(a)
    BY <1>1, <2>3 DEF Kill
  <2> QED
    BY <1>3, <2>1, <2>2, <2>3 DEF Asking
<1>4. ASSUME NEW a \in Actor, Failing(a) PROVE ToldInv'
  <2>1. CASE StartFails(a) \/ Unwind(a)
    BY <2>1, ToldKept DEF StartFails, Unwind
  <2>2. CASE Crash(a)
    <3>1. PICK r \in Reason : Close(a, r)
      BY <2>2, CrashOutcome
    <3> QED
      BY <2>2, <3>1, ToldKept DEF Crash, Close
  <2> QED
    BY <1>4, <2>1, <2>2 DEF Failing
<1>5. ASSUME NEW a \in Actor, Progress(a) PROVE ToldInv'
  <2>1. CASE LinkSpawned(a)
    <3>1. /\ spawning[a] \in Actor /\ phase[spawning[a]] # "draining" /\ phase[a] # "draining"
      BY <2>1 DEF LinkSpawned, SpawnerWaits, Unlocked
    <3>2. \A c \in Actor : phase[c] = "draining" => links'[c] = links[c]
      BY <2>1, <3>1, TogetherElsewhere DEF LinkSpawned, WithLink
    <3> QED
      BY <2>1, <3>2, ToldKept DEF LinkSpawned
  <2>2. CASE Start(a)
    BY <2>2, ToldKept DEF Start, Close
  <2>3. CASE StartFailedStop(a)
    BY <2>3, ToldKept DEF StartFailedStop
  <2>4. CASE Receive(a)
    <3>1. CASE UNCHANGED <<phase, reason>>
      BY <2>4, <3>1, ToldKept DEF Receive
    <3>2. ASSUME NEW r \in Reason, Close(a, r) PROVE ToldInv'
      BY <2>4, <3>2, ToldKept DEF Receive, Close
    <3> QED
      BY <2>4, <3>1, <3>2, ReceiveOutcome
  <2>5. CASE Abort(a)
    BY <2>5, ToldKept DEF Abort, Close
  <2>6. CASE LockLinks(a)
    BY <2>6, ToldKept DEF LockLinks
  <2>7. CASE UnlockLinks(a) \/ OnStop(a)
    BY <2>7, ToldKept DEF UnlockLinks, OnStop
  <2> QED
    BY <1>5, <2>1, <2>2, <2>3, <2>4, <2>5, <2>6, <2>7, NotifyTold DEF Progress
<1> QED
  BY <1>1, <1>2, <1>3, <1>4, <1>5 DEF Next, AllQuiet, vars

\* What mailboxes say of deaths is known in every reachable state.
THEOREM ToldInvariance == Spec => []ToldInv
<1>1. Init => ToldInv
  BY DEF Init, ToldInv, ReportsOf
<1> QED
  BY <1>1, ToldStep, Invariance, PTL DEF Spec

\* A death is told at most once to each linked actor, however often the two
\* are linked and unlinked before, during and after it.
THEOREM DeathsToldOnce == Spec => []ToldOnce
<1>1. ToldInv => ToldOnce
  <2> SUFFICES ASSUME ToldInv, NEW a \in Actor, NEW b \in Actor
               PROVE  Cardinality(ReportsOf(a, b)) <= 1
    BY DEF ToldOnce
  <2>1. CASE ReportsOf(a, b) = {}
    BY <2>1, FS_EmptySet
  <2>2. CASE ReportsOf(a, b) # {}
    <3>1. PICK i \in ReportsOf(a, b) : TRUE
      BY <2>2
    <3>2. ReportsOf(a, b) = {i}
      BY <3>1 DEF ToldInv
    <3>3. Cardinality({i}) = 1
      BY FS_Singleton
    <3> QED
      BY <3>2, <3>3
  <2> QED
    BY <2>1, <2>2
<1> QED
  BY <1>1, ToldInvariance, PTL

\* What a mailbox says of a death is true: the actor it names stopped for the
\* reason it gives, and takes no more messages by the time it is told.
THEOREM ReportsHonest == Spec => []HonestReport
<1>1. ToldInv => HonestReport
  BY DEF ToldInv, HonestReport, MailboxOpen
<1> QED
  BY <1>1, ToldInvariance, PTL

-----------------------------------------------------------------------------
(* How a death spreads.                                                    *)

\* A mailbox keeps its stop signal.
LEMMA StopStays ==
  ASSUME IInv, [Next]_vars, NEW a \in Actor, Contains(inbox[a], Stop)
  PROVE  Contains(inbox'[a], Stop)
<1> USE DEF IInv, TypeOK
<1>1. CASE UNCHANGED inbox
  BY <1>1
<1>2. ASSUME NEW b \in Actor, NEW s \in LinkDied \cup {Stop},
             inbox' = [inbox EXCEPT ![b] = Append(@, s)]
      PROVE  Contains(inbox'[a], Stop)
  <2>1. inbox[a] \in Seq(LinkDied \cup {Stop})
    OBVIOUS
  <2>2. /\ Len(inbox'[a]) >= Len(inbox[a]) /\ Len(inbox'[a]) \in Nat
        /\ \A i \in 1..Len(inbox[a]) : inbox'[a][i] = inbox[a][i]
    BY <1>2, <2>1
  <2>3. PICK i \in 1..Len(inbox[a]) : inbox[a][i] = Stop
    BY DEF Contains
  <2>4. i \in 1..Len(inbox'[a]) /\ inbox'[a][i] = Stop
    BY <2>1, <2>2, <2>3
  <2> QED
    BY <2>4 DEF Contains
<1>3. ASSUME NEW b \in Actor, NEW c \in Actor, NotifyLink(b, c) PROVE Contains(inbox'[a], Stop)
  <2>1. Report(b, c) \in LinkDied
    BY <1>3 DEF NotifyLink, Reasoned, Report, LinkDied
  <2> QED
    BY <1>1, <1>2, <1>3, <2>1 DEF NotifyLink
<1>4. ASSUME NEW b \in Actor, StopGracefully(b) PROVE Contains(inbox'[a], Stop)
  BY <1>2, <1>4 DEF StopGracefully
<1>5. ASSUME NEW b \in Actor, NEW c \in Actor, Linking(b, c) PROVE UNCHANGED inbox
  BY <1>5
  DEF Linking, LinkChild, UnlinkChild, LinkTogether, UnlinkTogether, SpawnFrom, mailVars
<1>6. ASSUME NEW b \in Actor, Asking(b) \/ Progress(b) \/ Failing(b)
      PROVE  Contains(inbox'[a], Stop)
  BY <1>1, <1>3, <1>4, <1>6
  DEF Asking, Spawn, Kill, Progress, LinkSpawned, Start, StartFailedStop, Receive, Abort,
      LockLinks, UnlockLinks, OnStop, Failing, StartFails, Crash, Unwind, mailVars
<1> QED
  BY <1>1, <1>5, <1>6 DEF Next, AllQuiet, vars

\* Of the actors with the default hooks, only one that received the stop
\* signal gives Normal for its reason.
LEMMA NormalStep == IInv /\ NormalDoesNotSpread /\ [Next]_vars => NormalDoesNotSpread'
<1> SUFFICES ASSUME IInv, NormalDoesNotSpread, [Next]_vars,
                    NEW a \in Actor \ Custom, reason'[a] = "Normal"
             PROVE  Contains(inbox'[a], Stop)
  BY DEF NormalDoesNotSpread
<1> USE ReasonAssumption DEF IInv, TypeOK
<1>1. CASE reason'[a] = reason[a]
  BY <1>1, StopStays DEF NormalDoesNotSpread
<1>2. ASSUME NEW b \in Actor, NEW r, Close(b, r), b # a \/ r # "Normal"
      PROVE  reason'[a] = reason[a]
  BY <1>2 DEF Close
<1>3. ASSUME NEW b \in Actor, Receive(b) PROVE Contains(inbox'[a], Stop)
  <2> DEFINE signal == inbox[b][head[b]]
  <2>1. /\ head[b] \in 1..Len(inbox[b]) /\ signal \in LinkDied \cup {Stop}
        /\ UNCHANGED inbox
    BY <1>3 DEF Receive
  <2>2. CASE b = a /\ signal = Stop
    BY <2>1, <2>2 DEF Contains
  <2>3. CASE b # a
    BY <1>1, <1>2, <1>3, <2>3, ReceiveOutcome
  <2>4. CASE b = a /\ signal # Stop
    <3>1. PICK r \in LinkDiedResults(a, signal) :
            IF r = None THEN UNCHANGED <<phase, reason>> ELSE Close(a, r)
      BY <1>3, <2>4 DEF Receive
    <3>2. r # "Normal"
      BY <3>1 DEF LinkDiedResults, Reason
    <3> QED
      BY <1>1, <1>2, <3>1, <3>2
  <2> QED
    BY <2>2, <2>3, <2>4
<1>4. ASSUME NEW b \in Actor, Crash(b) PROVE reason'[a] = reason[a]
  <2>1. PICK r \in PanicResults(b) : Close(b, r)
    BY <1>4 DEF Crash
  <2>2. b = a => r # "Normal"
    BY <2>1 DEF PanicResults
  <2> QED
    BY <1>2, <2>1, <2>2
<1>5. ASSUME NEW b \in Actor, Start(b) \/ Abort(b) PROVE reason'[a] = reason[a]
  BY <1>2, <1>5 DEF Start, Abort
<1>6. ASSUME NEW b \in Actor, NEW c \in Actor, Linking(b, c) PROVE UNCHANGED reason
  BY <1>6
  DEF Linking, LinkChild, UnlinkChild, LinkTogether, UnlinkTogether, SpawnFrom, lifeVars
<1>7. ASSUME NEW b \in Actor, Asking(b) \/ Progress(b) \/ Failing(b)
      PROVE  Contains(inbox'[a], Stop)
  BY <1>1, <1>3, <1>4, <1>5, <1>7
  DEF Asking, Spawn, StopGracefully, Kill, Progress, LinkSpawned, StartFailedStop, LockLinks,
      NotifyLink, UnlockLinks, OnStop, Failing, StartFails, Unwind, lifeVars
<1> QED
  BY <1>1, <1>6, <1>7 DEF Next, AllQuiet, vars

\* A normal stop does not spread: an actor with the default hooks that stops
\* normally was asked to itself, whatever it is linked to, and whatever the
\* hooks of the actors that it is linked to decide.
THEOREM NormalStaysLocal == Spec => []NormalDoesNotSpread
<1>1. Init => NormalDoesNotSpread
  BY ReasonAssumption DEF Init, NormalDoesNotSpread, Reason
<1> QED
  BY <1>1, NormalStep, Invariance, PTL DEF Spec

-----------------------------------------------------------------------------
(* What a death comes from.                                                *)

\* Until its mailbox closes an actor has no reason to stop.  Nobody is linked
\* to itself, and so what a mailbox says of a death comes from another actor,
\* which has told this one.
CauseInv ==
  /\ \A a \in Actor :
       phase[a] \in {"unborn", "starting", "start_failed", "running"} => reason[a] = None
  /\ \A a \in Actor : a \notin links[a] /\ spawning[a] # a
  /\ \A a, b \in Actor : ReportsOf(a, b) # {} => b \in told[a] /\ a # b

\* The actor told by the one that has died, and nobody else, gets a report.
LEMMA ReportsGrow ==
  ASSUME IInv, [Next]_vars, NEW a \in Actor, NEW b \in Actor, ReportsOf(a, b)' # {}
  PROVE  ReportsOf(a, b) # {} \/ NotifyLink(a, b)
<1> USE DEF IInv, TypeOK
<1>1. CASE UNCHANGED inbox
  BY <1>1 DEF ReportsOf
<1>2. ASSUME NEW c \in Actor, StopGracefully(c) PROVE ReportsOf(a, b) # {}
  <2>1. inbox' = [inbox EXCEPT ![c] = Append(@, Stop)]
    BY <1>2 DEF StopGracefully
  <2>2. CASE b = c
    <3>1. inbox'[b] = Append(inbox[b], Stop)
      BY <2>1, <2>2
    <3> QED
      BY <3>1, AppendStop
  <2>3. CASE b # c
    BY <2>1, <2>3 DEF ReportsOf
  <2> QED
    BY <2>2, <2>3
<1>3. ASSUME NEW c \in Actor, NEW d \in Actor, NotifyLink(c, d)
      PROVE  ReportsOf(a, b) # {} \/ NotifyLink(a, b)
  <2>1. CASE ~MailboxOpen(d) \/ b # d
    <3>1. inbox'[b] = inbox[b]
      BY <1>3, <2>1 DEF NotifyLink
    <3> QED
      BY <3>1 DEF ReportsOf
  <2>2. CASE MailboxOpen(d) /\ b = d
    <3>1. phase[c] = "draining" /\ inbox'[b] = Append(inbox[b], Report(c, b))
      BY <1>3, <2>2 DEF NotifyLink
    <3>2. a # c => ReportsOf(a, b)' = ReportsOf(a, b)
      BY <3>1, AppendReport
    <3> QED
      BY <1>3, <2>2, <3>2
  <2> QED
    BY <2>1, <2>2
<1>4. ASSUME NEW c \in Actor, NEW d \in Actor, Linking(c, d) PROVE UNCHANGED inbox
  BY <1>4
  DEF Linking, LinkChild, UnlinkChild, LinkTogether, UnlinkTogether, SpawnFrom, mailVars
<1>5. ASSUME NEW c \in Actor, Asking(c) \/ Progress(c) \/ Failing(c)
      PROVE  ReportsOf(a, b) # {} \/ NotifyLink(a, b)
  BY <1>1, <1>2, <1>3, <1>5
  DEF Asking, Spawn, Kill, Progress, LinkSpawned, Start, StartFailedStop, Receive, Abort,
      LockLinks, UnlockLinks, OnStop, Failing, StartFails, Crash, Unwind, mailVars
<1> QED
  BY <1>1, <1>4, <1>5 DEF Next, AllQuiet, vars

\* Who was told, or killed, stays so.
LEMMA ToldGrows ==
  ASSUME IInv, [Next]_vars, NEW a \in Actor
  PROVE  told[a] \subseteq told'[a] /\ (killed[a] => killed'[a])
<1> USE DEF IInv, TypeOK, lifeVars
<1>1. ASSUME NEW c \in Actor, NEW d \in Actor, Linking(c, d) PROVE UNCHANGED <<told, killed>>
  BY <1>1
  DEF Linking, LinkChild, UnlinkChild, LinkTogether, UnlinkTogether, SpawnFrom
<1>2. ASSUME NEW c \in Actor, Kill(c) PROVE UNCHANGED told /\ (killed[a] => killed'[a])
  BY <1>2 DEF Kill
<1>3. ASSUME NEW c \in Actor, NEW d \in Actor, NotifyLink(c, d)
      PROVE  told[a] \subseteq told'[a] /\ UNCHANGED killed
  BY <1>3 DEF NotifyLink
<1>4. ASSUME NEW c \in Actor, Asking(c) \/ Progress(c) \/ Failing(c)
      PROVE  \/ UNCHANGED <<told, killed>> \/ Kill(c)
             \/ \E d \in Actor : NotifyLink(c, d)
  BY <1>4
  DEF Asking, Spawn, StopGracefully, Progress, LinkSpawned, Start, StartFailedStop, Receive,
      Abort, LockLinks, UnlockLinks, OnStop, Failing, StartFails, Crash, Unwind
<1> QED
  BY <1>1, <1>2, <1>3, <1>4 DEF Next, AllQuiet, vars

\* A mailbox closes for a reason, once; no actor goes back to before that.
LEMMA ReasonStep ==
  ASSUME IInv, CauseInv, [Next]_vars, NEW a \in Actor
  PROVE  /\ reason[a] # None => reason'[a] = reason[a]
         /\ phase'[a] \in {"unborn", "starting", "start_failed", "running"}
              => reason'[a] = None
<1> USE DEF IInv, TypeOK, CauseInv, lifeVars
<1>1. ASSUME NEW c \in Actor, NEW d \in Actor, Linking(c, d)
      PROVE  reason' = reason /\ (phase' = phase \/ phase' = [phase EXCEPT ![d] = "starting"])
             /\ (phase' # phase => phase[d] = "unborn")
  BY <1>1
  DEF Linking, LinkChild, UnlinkChild, LinkTogether, UnlinkTogether, SpawnFrom
<1>2. ASSUME NEW c \in Actor, Asking(c) \/ Progress(c) \/ Failing(c), reason' # reason
      PROVE  /\ phase[c] \in {"starting", "running"}
             /\ \E r \in Reason : Close(c, r)
  <2>1. ASSUME Receive(c) \/ Crash(c) PROVE \E r \in Reason : Close(c, r)
    BY <1>2, <2>1, ReceiveOutcome, CrashOutcome
  <2>2. ASSUME Start(c) \/ Abort(c) PROVE \E r \in Reason : Close(c, r)
    BY <1>2, <2>2 DEF Start, Abort, Reason
  <2> QED
    BY <1>2, <2>1, <2>2
    DEF Asking, Spawn, StopGracefully, Kill, Progress, LinkSpawned, Start, StartFailedStop,
        Receive, Abort, LockLinks, NotifyLink, UnlockLinks, OnStop, Failing, StartFails, Crash,
        Unwind
<1>3. ASSUME NEW c \in Actor, Asking(c) \/ Progress(c) \/ Failing(c), reason' = reason
      PROVE  phase'[a] \in {"unborn", "starting", "start_failed", "running"}
               => phase[a] \in {"unborn", "starting", "start_failed", "running"}
  <2>1. CASE Receive(c) \/ Crash(c)
    BY <1>3, <2>1, ReceiveOutcome, CrashOutcome, ReasonAssumption DEF Receive, Crash, Close
  <2> QED
    BY <1>3, <2>1
    DEF Asking, Spawn, StopGracefully, Kill, Progress, LinkSpawned, Start, StartFailedStop,
        Abort, LockLinks, NotifyLink, UnlockLinks, OnStop, Failing, StartFails, Unwind, Close
<1>4. ASSUME NEW c \in Actor, Asking(c) \/ Progress(c) \/ Failing(c)
      PROVE  /\ reason[a] # None => reason'[a] = reason[a]
             /\ phase'[a] \in {"unborn", "starting", "start_failed", "running"}
                  => reason'[a] = None
  <2>1. CASE reason' = reason
    BY <1>3, <1>4, <2>1
  <2>2. CASE reason' # reason
    <3>1. PICK r \in Reason : phase[c] \in {"starting", "running"} /\ Close(c, r)
      BY <1>2, <1>4, <2>2
    <3> QED
      BY <3>1 DEF Close
  <2> QED
    BY <2>1, <2>2
<1>5. CASE UNCHANGED vars
  BY <1>5 DEF vars
<1>6. ASSUME NEW c \in Actor, NEW d \in Actor, Linking(c, d)
      PROVE  /\ reason[a] # None => reason'[a] = reason[a]
             /\ phase'[a] \in {"unborn", "starting", "start_failed", "running"}
                  => reason'[a] = None
  BY <1>1, <1>6
<1> QED
  BY <1>4, <1>5, <1>6 DEF Next, AllQuiet

\* Nobody is linked with itself: link_child and link_together refuse it, and
\* what an actor spawns is another one.
LEMMA NotSelfLinked ==
  ASSUME IInv, CauseInv, [Next]_vars, NEW a \in Actor
  PROVE  a \notin links'[a] /\ spawning'[a] # a
<1> USE ActorAssumption DEF IInv, TypeOK, CauseInv, spawnVars
<1>1. CASE UNCHANGED <<links, spawning>>
  BY <1>1
<1>2. ASSUME NEW b \in Actor, NEW c \in Actor, b # c, UNCHANGED spawning,
             links' = WithLink(WithLink(links, b, c), c, b)
      PROVE  a \notin links'[a] /\ spawning'[a] # a
  <2>1. WithLink(links, b, c) \in [Actor -> SUBSET Actor]
    BY DEF WithLink
  <2>2. links'[a] = links[a] \cup (IF a = b THEN {c} ELSE {}) \cup (IF a = c THEN {b} ELSE {})
    BY <1>2, <2>1 DEF WithLink
  <2> QED
    BY <1>2, <2>2
<1>3. ASSUME NEW b \in Actor, NEW c \in Actor, Linking(b, c)
      PROVE  a \notin links'[a] /\ spawning'[a] # a
  <2>1. CASE LinkChild(b, c)
    BY <2>1 DEF LinkChild, Between, WithLink
  <2>2. CASE UnlinkChild(b, c)
    BY <2>2 DEF UnlinkChild, WithoutLink
  <2>3. CASE LinkTogether(b, c)
    BY <1>2, <2>3 DEF LinkTogether, Between
  <2>4. CASE UnlinkTogether(b, c)
    BY <2>4 DEF UnlinkTogether, WithoutLink
  <2>5. ASSUME NEW op \in Op, SpawnFrom(b, c, op) PROVE a \notin links'[a] /\ spawning'[a] # a
    BY <2>5 DEF SpawnFrom
  <2> QED
    BY <1>3, <2>1, <2>2, <2>3, <2>4, <2>5 DEF Linking
<1>4. ASSUME NEW b \in Actor, LinkSpawned(b) PROVE a \notin links'[a] /\ spawning'[a] # a
  <2>1. spawning[b] \in Actor /\ spawning[b] # b /\ spawning' = [spawning EXCEPT ![b] = None]
    BY <1>4 DEF LinkSpawned
  <2>2. CASE links' = WithLink(links, b, spawning[b])
    BY <2>1, <2>2 DEF WithLink
  <2>3. CASE links' = WithLink(WithLink(links, b, spawning[b]), spawning[b], b)
    <3> DEFINE p == spawning[b]
    <3>1. WithLink(links, b, p) \in [Actor -> SUBSET Actor] /\ p \in Actor
      BY <2>1 DEF WithLink
    <3>2. links'[a] = links[a] \cup (IF a = b THEN {p} ELSE {}) \cup (IF a = p THEN {b} ELSE {})
      BY <2>3, <3>1 DEF WithLink
    <3> QED
      BY <2>1, <3>2
  <2> QED
    BY <1>4, <2>2, <2>3 DEF LinkSpawned
<1>5. ASSUME NEW b \in Actor, NEW c \in Actor, NotifyLink(b, c)
      PROVE  a \notin links'[a] /\ spawning'[a] # a
  BY <1>5 DEF NotifyLink, WithoutLink
<1>6. ASSUME NEW b \in Actor, Asking(b) \/ Progress(b) \/ Failing(b)
      PROVE  a \notin links'[a] /\ spawning'[a] # a
  BY <1>1, <1>4, <1>5, <1>6
  DEF Asking, Spawn, StopGracefully, Kill, Progress, Start, StartFailedStop, Receive, Abort,
      LockLinks, UnlockLinks, OnStop, Failing, StartFails, Crash, Unwind
<1> QED
  BY <1>1, <1>3, <1>6 DEF Next, AllQuiet, vars

LEMMA CauseStep == IInv /\ CauseInv /\ [Next]_vars => CauseInv'
<1> SUFFICES ASSUME IInv, CauseInv, [Next]_vars PROVE CauseInv'
  OBVIOUS
<1>1. ASSUME NEW a \in Actor, NEW b \in Actor, ReportsOf(a, b)' # {}
      PROVE  b \in told'[a] /\ a # b
  <2>1. CASE ReportsOf(a, b) # {}
    BY <2>1, ToldGrows DEF CauseInv
  <2>2. CASE NotifyLink(a, b)
    BY <2>2 DEF NotifyLink, CauseInv, IInv, TypeOK
  <2> QED
    BY <1>1, <2>1, <2>2, ReportsGrow
<1> QED
  BY <1>1, ReasonStep, NotSelfLinked DEF CauseInv

\* A step that gives an actor a reason other than Normal has a cause in the
\* actor or in another one that has told it.
LEMMA CausedStep ==
  ASSUME IInv, ToldInv, CauseInv, [Next]_vars, NEW a \in Actor,
         reason[a] = None, reason'[a] \notin {None, "Normal"}
  PROVE  (reason'[a] = "Killed" /\ killed[a]) \/ OwnFailure(a) \/ ToldBefore(a)
<1> USE ReasonAssumption DEF IInv, TypeOK, Reason
<1>1. ASSUME NEW c \in Actor, NEW r, Close(c, r) PROVE c = a /\ r = reason'[a]
  BY <1>1 DEF Close
<1>2. ASSUME NEW c \in Actor, NEW d \in Actor, Linking(c, d) PROVE UNCHANGED reason
  BY <1>2
  DEF Linking, LinkChild, UnlinkChild, LinkTogether, UnlinkTogether, SpawnFrom, lifeVars
<1>3. ASSUME NEW c \in Actor, Asking(c) \/ Progress(c) \/ Failing(c)
      PROVE  c = a /\ (Start(a) \/ Receive(a) \/ Abort(a) \/ Crash(a))
  <2>1. CASE Receive(c) \/ Crash(c)
    BY <1>1, <2>1, ReceiveOutcome, CrashOutcome
  <2> QED
    BY <1>1, <1>3, <2>1
    DEF Asking, Spawn, StopGracefully, Kill, Progress, LinkSpawned, Start, StartFailedStop,
        Abort, LockLinks, NotifyLink, UnlockLinks, OnStop, Failing, StartFails, Unwind,
        lifeVars
<1>4. ASSUME Receive(a) PROVE ToldBefore(a)
  <2> DEFINE signal == inbox[a][head[a]]
  <2>1. /\ head[a] \in DOMAIN inbox[a] /\ signal \in LinkDied \cup {Stop}
        /\ signal # Stop
    BY <1>1, <1>4 DEF Receive
  <2>2. a \in Custom \/ signal.reason = reason'[a]
    <3>1. PICK r \in LinkDiedResults(a, signal) :
            IF r = None THEN UNCHANGED <<phase, reason>> ELSE Close(a, r)
      BY <1>4, <2>1 DEF Receive
    <3>2. r = reason'[a]
      BY <1>1, <3>1
    <3> QED
      BY <3>1, <3>2 DEF LinkDiedResults
  <2>3. signal.from \in Actor /\ head[a] \in ReportsOf(signal.from, a)
    BY <2>1 DEF LinkDied, ReportsOf
  <2>4. signal.from # a /\ a \in told[signal.from]
    BY <2>3 DEF CauseInv
  <2>5. reason[signal.from] = signal.reason /\ signal.reason # None
    BY <2>1, <2>3 DEF ToldInv, LinkDied
  <2>6. ~MailboxOpen(signal.from)
    BY <2>3 DEF ToldInv, MailboxOpen
  <2> QED
    BY <2>2, <2>3, <2>4, <2>5, <2>6 DEF ToldBefore
<1>5. ASSUME Crash(a) PROVE OwnFailure(a)
  <2>1. PICK r \in PanicResults(a) : Close(a, r)
    BY <1>5 DEF Crash
  <2>2. r = reason'[a]
    BY <1>1, <2>1
  <2> QED
    BY <1>5, <2>1, <2>2 DEF PanicResults, OwnFailure
<1>6. CASE Start(a) \/ Abort(a)
  BY <1>1, <1>6 DEF Start, Abort
<1> QED
  BY <1>2, <1>3, <1>4, <1>5, <1>6 DEF Next, AllQuiet, vars

\* What deaths come from is known in every reachable state.
THEOREM CauseInvariance == Spec => []CauseInv
<1>1. Init => CauseInv
  BY ActorAssumption DEF Init, CauseInv, ReportsOf
<1> QED
  BY <1>1, CauseStep, Invariance, PTL DEF Spec

\* Whoever stops for an abnormal reason was killed, fails by itself, or was
\* told by another actor, which does stop for this very reason unless a hook
\* of the program's decides otherwise.
THEOREM DeathsHaveCause == Spec => DeathHasCause
<1>1. IInv /\ ToldInv /\ CauseInv /\ [Next]_vars =>
        [\A a \in Actor : reason[a] = None /\ reason'[a] \notin {None, "Normal"} =>
           (reason'[a] = "Killed" /\ killed[a]) \/ OwnFailure(a) \/ ToldBefore(a)]_vars
  BY CausedStep
<1> QED
  BY <1>1, Invariance, ToldInvariance, CauseInvariance, PTL DEF Spec, DeathHasCause

\* A set that holds the origins of the kills after a step, and whom they told,
\* held them before it: reasons stay and what was told stays told.
LEMMA KillsStep == IInv /\ ToldInv /\ CauseInv /\ KillsHaveOrigin /\ [Next]_vars => KillsHaveOrigin'
<1> SUFFICES ASSUME IInv, ToldInv, CauseInv, KillsHaveOrigin, [Next]_vars,
                    NEW S \in SUBSET Actor, ClosedUnderKills(S)',
                    NEW a \in Actor, reason'[a] = "Killed"
             PROVE  a \in S
  BY DEF KillsHaveOrigin
<1> USE ReasonAssumption DEF Reason
<1>1. \A b \in Actor : reason[b] = "Killed" => reason'[b] = "Killed"
  BY ReasonStep
<1>2. \A b \in Actor : told[b] \subseteq told'[b] /\ (killed[b] => killed'[b])
  BY ToldGrows
<1>3. ClosedUnderKills(S)
  BY <1>1, <1>2 DEF ClosedUnderKills
<1>4. \A b \in Actor : reason[b] = "Killed" => b \in S
  BY <1>3 DEF KillsHaveOrigin
<1>5. CASE reason[a] = None
  <2>1. \/ killed[a] \/ a \in Custom
        \/ \E b \in Actor : reason[b] = "Killed" /\ a \in told[b]
    BY <1>5, CausedStep DEF OwnFailure, ToldBefore
  <2>2. killed'[a] \/ a \in Custom \/ \E b \in S : reason'[b] = "Killed" /\ a \in told'[b]
    BY <1>1, <1>2, <1>4, <2>1
  <2> QED
    BY <2>2 DEF ClosedUnderKills
<1>6. CASE reason[a] # None
  <2>1. reason[a] = "Killed"
    BY <1>6, ReasonStep
  <2> QED
    BY <1>4, <2>1
<1> QED
  BY <1>5, <1>6

\* Whoever stops as Killed was killed itself, has a hook that says so, or is at
\* the end of a chain of links that begins with such an actor: no circle of
\* actors takes itself down, however many they are and however they are linked.
THEOREM KillsOriginate == Spec => []KillsHaveOrigin
<1>1. Init => KillsHaveOrigin
  BY ReasonAssumption DEF Init, KillsHaveOrigin, Reason
<1> QED
  BY <1>1, KillsStep, Invariance, ToldInvariance, CauseInvariance, PTL DEF Spec

-----------------------------------------------------------------------------
(* The life of each actor.                                                 *)

\* An actor that no step touches lives on as it did.
LEMMA LifeStays ==
  ASSUME NEW a \in Actor, phase'[a] = phase[a], reason'[a] = reason[a], killed'[a] = killed[a]
  PROVE  UNCHANGED Life(a)!lvars
  BY DEF Born, Life!lvars

\* Every step is one of the life of the actor that takes it, and for every
\* other actor none, or its birth, which its life does not show.
LEMMA LifeStep ==
  ASSUME IInv, [Next]_vars, NEW a \in Actor
  PROVE  Life(a)!Next \/ UNCHANGED Life(a)!lvars
<1> USE DEF IInv, TypeOK, lifeVars
<1>1. CASE UNCHANGED <<phase, reason, killed>>
  BY <1>1, LifeStays
<1>2. ASSUME NEW c \in Actor, phase[c] = "unborn", phase' = [phase EXCEPT ![c] = "starting"],
             UNCHANGED <<reason, killed>>
      PROVE  UNCHANGED Life(a)!lvars
  BY <1>2 DEF Born, Life!lvars
<1>3. ASSUME NEW b \in Actor, NEW c \in Actor, Linking(b, c)
      PROVE  UNCHANGED Life(a)!lvars
  BY <1>1, <1>2, <1>3, LifeStays
  DEF Linking, LinkChild, UnlinkChild, LinkTogether, UnlinkTogether, SpawnFrom
<1>4. ASSUME NEW b \in Actor, b # a, Asking(b) \/ Progress(b) \/ Failing(b)
      PROVE  UNCHANGED Life(a)!lvars
  <2>1. phase'[a] = phase[a] /\ reason'[a] = reason[a] /\ killed'[a] = killed[a]
    <3>1. CASE Receive(b) \/ Crash(b)
      BY <1>4, <3>1, ReceiveOutcome, CrashOutcome DEF Receive, Crash, Close
    <3> QED
      BY <1>4, <3>1
      DEF Asking, Spawn, StopGracefully, Kill, Progress, LinkSpawned, Start, StartFailedStop,
          Abort, LockLinks, NotifyLink, UnlockLinks, OnStop, Failing, StartFails, Unwind, Close
  <2> QED
    BY <2>1, LifeStays
<1>5. CASE Asking(a) \/ Progress(a) \/ Failing(a)
  <2> USE DEF Born, Life!Next, Life!GoTo
  <2>1. CASE Spawn(a)
    BY <1>2, <2>1 DEF Spawn
  <2>2. CASE StopGracefully(a) \/ LinkSpawned(a) \/ (\E b \in Actor : NotifyLink(a, b))
    BY <1>1, <2>2 DEF StopGracefully, LinkSpawned, NotifyLink
  <2>3. CASE Kill(a)
    BY <2>3 DEF Kill, Life!Kill
  <2>4. ASSUME NEW r \in Reason, Close(a, r), UNCHANGED killed,
               phase[a] = "running" \/ (phase[a] = "starting" /\ killed[a])
        PROVE  Life(a)!Close
    BY <2>4 DEF Close, Life!Close
  <2>5. CASE Start(a)
    <3>1. CASE killed[a]
      BY <2>4, <2>5, <3>1 DEF Start, Reason
    <3>2. CASE ~killed[a]
      BY <2>5, <3>2 DEF Start, Life!Start
    <3> QED
      BY <3>1, <3>2
  <2>6. CASE Receive(a) \/ Crash(a)
    BY <1>1, <2>4, <2>6, ReceiveOutcome, CrashOutcome DEF Receive, Crash
  <2>7. CASE Abort(a)
    BY <2>4, <2>7 DEF Abort, Reason
  <2>8. CASE StartFails(a)
    BY <2>8 DEF StartFails, Life!StartFails
  <2>9. CASE StartFailedStop(a)
    BY <2>9 DEF StartFailedStop, Life!StartFailedStop
  <2>10. CASE Unwind(a)
    BY <2>10 DEF Unwind, Life!Unwind
  <2>11. CASE LockLinks(a)
    BY <2>11 DEF LockLinks, Life!TellLinks
  <2>12. CASE UnlockLinks(a)
    BY <2>12 DEF UnlockLinks, Life!LinksTold
  <2>13. CASE OnStop(a)
    BY <2>13 DEF OnStop, Life!Stopped
  <2> QED
    BY <1>5, <2>1, <2>2, <2>3, <2>5, <2>6, <2>7, <2>8, <2>9, <2>10, <2>11, <2>12, <2>13
    DEF Asking, Progress, Failing
<1> QED
  BY <1>1, <1>3, <1>4, <1>5 DEF Next, AllQuiet, vars

\* Every linked actor lives as ActorLife says, and so as the code's actor
\* does (LifecycleRefinementProofs): it closes its mailbox before it tells
\* its links, and gives them one reason.
THEOREM LifeImplemented == Spec => ImplementsLife
<1>1. Init => \A a \in Actor : Life(a)!Init
  BY DEF Init, Life!Init, Born
<1>2. IInv /\ [Next]_vars => [\A a \in Actor : Life(a)!Next \/ UNCHANGED Life(a)!lvars]_vars
  BY LifeStep
<1> QED
  BY <1>1, <1>2, Invariance, PTL DEF Spec, ImplementsLife

=============================================================================
