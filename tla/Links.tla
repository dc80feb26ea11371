------------------------------- MODULE Links -------------------------------
(***************************************************************************)
(* Many actors and their links: who is told when an actor dies, in which   *)
(* order, and how a death spreads.                                         *)
(*                                                                         *)
(* Each actor owns a map of links behind a mutex.  Linking writes the maps *)
(* from any thread; a dying actor drains its own map under its lock and    *)
(* sends LinkDied to every actor in it.  The life of one actor, which      *)
(* module Lifecycle models step by step, is cut down here to the phases    *)
(* that the links and the mailbox distinguish (module ActorLife, which     *)
(* both implement).  Linking takes effect at one instant (LinkLocks).      *)
(***************************************************************************)
EXTENDS Naturals, Sequences, FiniteSets, SequencesExt

CONSTANTS
  Actor,     \* actors, spawned or not yet
  Custom,    \* those with hooks of their own, which may decide anything; the
             \* others have the default on_link_died and on_panic
  Op,        \* the linking operations the program uses
  MaxOps,    \* how many of them it performs
  MaxEnds,   \* how many stops, kills and failures there are
  Stop,      \* Signal::Stop
  None       \* no value

Ops == {"link_child", "unlink_child", "link_together", "unlink_together",
        "spawn_link", "spawn_child"}

ASSUME ActorAssumption == Custom \subseteq Actor /\ None \notin Actor
ASSUME OpAssumption    == Op \subseteq Ops /\ MaxOps \in Nat /\ MaxEnds \in Nat

\* Only a program's own hook gives the last of them for a reason.
Reason   == {"Normal", "Killed", "Panicked", "LinkDied"}
LinkDied == [from : Actor, reason : Reason]

ASSUME StopAssumption   == Stop \notin LinkDied
ASSUME ReasonAssumption == None \notin Reason

VARIABLES
  phase,     \* how far each actor's task has come
  reason,    \* why it stops, or None
  links,     \* the keys of its map of links
  inbox,     \* every Stop and LinkDied its mailbox ever accepted, in order
  head,      \* index of the first of them not yet received
  killed,    \* kill() was called on it
  told,      \* those it sent LinkDied to, whether or not they could take it
  spawner,   \* by whom and how it was spawned, for spawn_link and spawn_child
  spawning,  \* the actor whose handler has spawned it and not yet linked it
  ops,       \* linking operations performed
  ends       \* stops, kills and failures so far

mailVars  == <<inbox, head>>
lifeVars  == <<phase, reason, killed>>
spawnVars == <<spawner, spawning>>
bounds    == <<ops, ends>>
vars == <<phase, reason, links, inbox, head, killed, told, spawner, spawning, ops, ends>>

Phase == {"unborn", "starting", "start_failed", "running", "closed", "draining",
          "on_stop", "dead"}

\* Faulty: the receiver outlives the loop, until the actor's task ends.
MailboxOpen_TillDeath(a) == phase[a] \notin {"unborn", "dead"}

\* The receiver exists from the spawn until the loop ends, or until
\* run_actor_lifecycle gives up after on_start.
MailboxOpen(a) == phase[a] \in {"starting", "start_failed", "running"}

Born(a) == phase[a] # "unborn"

\* Faulty: it takes and releases the lock for every entry.
Unlocked_PerEntry(a) == TRUE

\* A dying actor holds the lock on its links while it drains them.
Unlocked(a) == phase[a] # "draining"

\* Whatever a's handler is doing, it is not between spawn and link.
Idle(a) == \A c \in Actor : spawning[c] # a

\* What a dying actor has let go of is its links, one by one.
Drained(a) == phase[a] \in {"on_stop", "dead"} /\ reason[a] # None

-----------------------------------------------------------------------------
(* Linking.  Each operation holds the locks it needs at once, so it is one *)
(* step between actors that both exist and are not the same.               *)

\* The maps after b was put into a's map.
WithLink(ls, a, b) == [ls EXCEPT ![a] = @ \cup {b}]

WithoutLink(ls, a, b) == [ls EXCEPT ![a] = @ \ {b}]

\* One more of a bounded number of linking operations.
Perform(op) ==
  /\ op \in Op /\ ops < MaxOps
  /\ ops' = ops + 1

\* One more of a bounded number of stops, kills and failures.
End ==
  /\ ends < MaxEnds
  /\ ends' = ends + 1

Between(a, b) == a # b /\ Born(a) /\ Born(b)

LinkChild(a, b) ==
  /\ Perform("link_child")
  /\ Between(a, b) /\ Unlocked(a)
  /\ links' = WithLink(links, a, b)
  /\ UNCHANGED <<lifeVars, mailVars, told, spawnVars, ends>>

UnlinkChild(a, b) ==
  /\ Perform("unlink_child")
  /\ Between(a, b) /\ Unlocked(a)
  /\ links' = WithoutLink(links, a, b)
  /\ UNCHANGED <<lifeVars, mailVars, told, spawnVars, ends>>

LinkTogether(a, b) ==
  /\ Perform("link_together")
  /\ Between(a, b) /\ Unlocked(a) /\ Unlocked(b)
  /\ links' = WithLink(WithLink(links, a, b), b, a)
  /\ UNCHANGED <<lifeVars, mailVars, told, spawnVars, ends>>

\* Faulty: the other side keeps its link.
UnlinkTogether_OneSided(a, b) ==
  /\ Perform("unlink_together")
  /\ Between(a, b) /\ Unlocked(a) /\ Unlocked(b)
  /\ links' = WithoutLink(links, a, b)
  /\ UNCHANGED <<lifeVars, mailVars, told, spawnVars, ends>>

UnlinkTogether(a, b) ==
  /\ Perform("unlink_together")
  /\ Between(a, b) /\ Unlocked(a) /\ Unlocked(b)
  /\ links' = WithoutLink(WithoutLink(links, a, b), b, a)
  /\ UNCHANGED <<lifeVars, mailVars, told, spawnVars, ends>>

-----------------------------------------------------------------------------
(* Spawning.                                                               *)

\* spawn(), from anywhere: no links.  It is also all that spawn_link and
\* spawn_child do before they panic for want of a current actor.
Spawn(a) ==
  /\ phase[a] = "unborn"
  /\ phase' = [phase EXCEPT ![a] = "starting"]
  /\ UNCHANGED <<reason, killed, links, mailVars, told, spawnVars, bounds>>

\* spawn_link and spawn_child, called from a handler or a hook of p: the new
\* actor's task runs from here on, p's does nothing else before LinkSpawned.
SpawnFrom(p, c, op) ==
  /\ Perform(op) /\ op \in {"spawn_link", "spawn_child"}
  /\ phase[p] \in {"starting", "start_failed", "running", "on_stop"} /\ Idle(p)
  /\ phase[c] = "unborn"
  /\ phase' = [phase EXCEPT ![c] = "starting"]
  /\ spawner' = [spawner EXCEPT ![c] = [by |-> p, how |-> op]]
  /\ spawning' = [spawning EXCEPT ![c] = p]
  /\ UNCHANGED <<reason, killed, links, mailVars, told, ends>>

\* link_together(&actor_ref, &parent), or link_child(&actor_ref, &parent).
LinkSpawned(c) ==
  LET p == spawning[c] IN
  /\ p # None
  /\ Unlocked(c)
  /\ spawning' = [spawning EXCEPT ![c] = None]
  /\ links' = IF spawner[c].how = "spawn_link"
              THEN WithLink(WithLink(links, c, p), p, c)
              ELSE WithLink(links, c, p)
  /\ UNCHANGED <<lifeVars, mailVars, told, spawner, bounds>>

-----------------------------------------------------------------------------
(* What the program asks of an actor.                                      *)

\* The mailbox is unbounded and would take more; one of each is enough.
StopGracefully(a) ==
  /\ End
  /\ MailboxOpen(a) /\ ~Contains(inbox[a], Stop)
  /\ inbox' = [inbox EXCEPT ![a] = Append(@, Stop)]
  /\ UNCHANGED <<lifeVars, links, head, told, spawnVars, ops>>

Kill(a) ==
  /\ End
  /\ Born(a) /\ ~killed[a]
  /\ killed' = [killed EXCEPT ![a] = TRUE]
  /\ UNCHANGED <<phase, reason, links, mailVars, told, spawnVars, ops>>

-----------------------------------------------------------------------------
(* The life of an actor.                                                   *)

\* The loop is left for reason r; the receiver is dropped.
Close(a, r) ==
  /\ phase' = [phase EXCEPT ![a] = "closed"]
  /\ reason' = [reason EXCEPT ![a] = r]

\* Faulty: an actor killed during on_start enters its loop.
Start_DespiteKill(a) ==
  /\ phase[a] = "starting" /\ Idle(a)
  /\ phase' = [phase EXCEPT ![a] = "running"]
  /\ UNCHANGED <<reason, killed, links, mailVars, told, spawnVars, bounds>>

\* on_start returned Ok; an actor killed by then does not enter its loop.
Start(a) ==
  /\ phase[a] = "starting" /\ Idle(a)
  /\ IF killed[a]
     THEN Close(a, "Killed")
     ELSE phase' = [phase EXCEPT ![a] = "running"] /\ UNCHANGED reason
  /\ UNCHANGED <<killed, links, mailVars, told, spawnVars, bounds>>

StartFails(a) ==
  /\ End
  /\ phase[a] = "starting" /\ Idle(a)
  /\ phase' = [phase EXCEPT ![a] = "start_failed"]
  /\ UNCHANGED <<reason, killed, links, mailVars, told, spawnVars, ops>>

\* on_stop, which is given the error, has returned after a failed on_start.
\* The links that were made by then stay as they are and are told nothing.
StartFailedStop(a) ==
  /\ phase[a] = "start_failed" /\ Idle(a)
  /\ phase' = [phase EXCEPT ![a] = "dead"]
  /\ UNCHANGED <<reason, killed, links, mailVars, told, spawnVars, bounds>>

\* Faulty: any death is a reason to stop.
LinkDiedResults_Normal(a, signal) ==
  IF a \in Custom THEN Reason \cup {None} ELSE {signal.reason}

\* What on_link_died returns, None to go on.  By default every reason but
\* Normal stops the actor, and is its own reason from then on.
LinkDiedResults(a, signal) ==
  IF a \in Custom THEN Reason \cup {None}
  ELSE IF signal.reason = "Normal" THEN {None} ELSE {signal.reason}

\* The reasons that on_panic ends the actor for.
PanicResults(a) == IF a \in Custom THEN Reason ELSE {"Panicked"}

Receive(a) ==
  /\ phase[a] = "running" /\ Idle(a)
  /\ head[a] <= Len(inbox[a])
  /\ head' = [head EXCEPT ![a] = @ + 1]
  /\ LET signal == inbox[a][head[a]] IN
       IF signal = Stop THEN Close(a, "Normal")
       ELSE \E r \in LinkDiedResults(a, signal) :
              IF r = None THEN UNCHANGED <<phase, reason>> ELSE Close(a, r)
  /\ UNCHANGED <<killed, links, inbox, told, spawnVars, bounds>>

\* A handler or a hook fails and on_panic ends the actor.
Crash(a) ==
  /\ End
  /\ phase[a] = "running" /\ Idle(a)
  /\ \E r \in PanicResults(a) : Close(a, r)
  /\ UNCHANGED <<killed, links, mailVars, told, spawnVars, ops>>

\* on_panic itself panics: the task unwinds past the draining of the links.
Unwind(a) ==
  /\ End
  /\ phase[a] = "running" /\ Idle(a)
  /\ phase' = [phase EXCEPT ![a] = "dead"]
  /\ UNCHANGED <<reason, killed, links, mailVars, told, spawnVars, ops>>

Abort(a) ==
  /\ phase[a] = "running" /\ Idle(a)
  /\ killed[a]
  /\ Close(a, "Killed")
  /\ UNCHANGED <<killed, links, mailVars, told, spawnVars, bounds>>

LockLinks(a) ==
  /\ phase[a] = "closed"
  /\ phase' = [phase EXCEPT ![a] = "draining"]
  /\ UNCHANGED <<reason, killed, links, mailVars, told, spawnVars, bounds>>

\* Faulty: the reason is the listener's own.
Report_WrongReason(a, b) == [from |-> a, reason |-> reason[b]]

\* Faulty: every death is reported as a kill.
Report_AlwaysKilled(a, b) == [from |-> a, reason |-> "Killed"]

\* What b is told of a's death.
Report(a, b) == [from |-> a, reason |-> reason[a]]

\* Faulty: the first linked actor that is gone ends the draining.
NotifyLink_UntilError(a, b) ==
  /\ phase[a] = "draining" /\ b \in links[a]
  /\ told' = [told EXCEPT ![a] = @ \cup {b}]
  /\ IF MailboxOpen(b)
     THEN /\ inbox' = [inbox EXCEPT ![b] = Append(@, Report(a, b))]
          /\ links' = WithoutLink(links, a, b)
     ELSE links' = [links EXCEPT ![a] = {}] /\ UNCHANGED inbox
  /\ UNCHANGED <<lifeVars, head, spawnVars, bounds>>

\* One turn of the loop over links.drain(), in the map's arbitrary order; an
\* actor whose mailbox is gone is passed over.
NotifyLink(a, b) ==
  /\ phase[a] = "draining" /\ b \in links[a]
  /\ links' = WithoutLink(links, a, b)
  /\ told' = [told EXCEPT ![a] = @ \cup {b}]
  /\ inbox' = IF MailboxOpen(b)
              THEN [inbox EXCEPT ![b] = Append(@, Report(a, b))] ELSE inbox
  /\ UNCHANGED <<lifeVars, head, spawnVars, bounds>>

UnlockLinks(a) ==
  /\ phase[a] = "draining" /\ links[a] = {}
  /\ phase' = [phase EXCEPT ![a] = "on_stop"]
  /\ UNCHANGED <<reason, killed, links, mailVars, told, spawnVars, bounds>>

OnStop(a) ==
  /\ phase[a] = "on_stop" /\ Idle(a)
  /\ phase' = [phase EXCEPT ![a] = "dead"]
  /\ UNCHANGED <<reason, killed, links, mailVars, told, spawnVars, bounds>>

-----------------------------------------------------------------------------

Init ==
  /\ phase = [a \in Actor |-> "unborn"]
  /\ reason = [a \in Actor |-> None]
  /\ links = [a \in Actor |-> {}]
  /\ inbox = [a \in Actor |-> <<>>]
  /\ head = [a \in Actor |-> 1]
  /\ killed = [a \in Actor |-> FALSE]
  /\ told = [a \in Actor |-> {}]
  /\ spawner = [a \in Actor |-> None]
  /\ spawning = [a \in Actor |-> None]
  /\ ops = 0 /\ ends = 0

Linking(a, b) ==
  \/ LinkChild(a, b) \/ UnlinkChild(a, b)
  \/ LinkTogether(a, b) \/ UnlinkTogether(a, b)
  \/ \E op \in Op : SpawnFrom(a, b, op)

Asking(a) == Spawn(a) \/ StopGracefully(a) \/ Kill(a)

\* What the runtime brings about by itself.
Progress(a) ==
  \/ LinkSpawned(a)
  \/ Start(a) \/ StartFailedStop(a) \/ Receive(a) \/ Abort(a)
  \/ LockLinks(a) \/ (\E b \in Actor : NotifyLink(a, b)) \/ UnlockLinks(a)
  \/ OnStop(a)

Failing(a) == StartFails(a) \/ Crash(a) \/ Unwind(a)

\* An actor with nothing to receive waits, and a dead one is over.
Quiet(a) == phase[a] = "dead" \/ (phase[a] = "running" /\ head[a] > Len(inbox[a]))

AllQuiet == (\A a \in Actor : Quiet(a)) /\ UNCHANGED vars

Next ==
  \/ \E a, b \in Actor : Linking(a, b)
  \/ \E a \in Actor : Asking(a) \/ Progress(a) \/ Failing(a)
  \/ AllQuiet

Spec == Init /\ [][Next]_vars

\* tokio polls every task that is woken, and handlers and hooks return.
FairSpec == Spec /\ \A a \in Actor : WF_vars(Progress(a))

-----------------------------------------------------------------------------
(* Properties.                                                             *)

\* Every variable stays in its set.
TypeOK ==
  /\ phase \in [Actor -> Phase]
  /\ reason \in [Actor -> Reason \cup {None}]
  /\ links \in [Actor -> SUBSET Actor]
  /\ inbox \in [Actor -> Seq(LinkDied \cup {Stop})]
  /\ head \in [Actor -> Nat \ {0}]
  /\ killed \in [Actor -> BOOLEAN]
  /\ told \in [Actor -> SUBSET Actor]
  /\ spawner \in [Actor -> [by : Actor, how : {"spawn_link", "spawn_child"}] \cup {None}]
  /\ spawning \in [Actor -> Actor \cup {None}]
  /\ ops \in 0..MaxOps /\ ends \in 0..MaxEnds

\* Links made and unmade together are mutual, whatever interleaves with them:
\* a link is one-sided only when the other side has died and told this one.
MutualLinks ==
  \A a, b \in Actor : b \in links[a] => a \in links[b] \/ a \in told[b]

\* The LinkDied signals from a that b's mailbox ever took, by position.
ReportsOf(a, b) == {i \in DOMAIN inbox[b] : inbox[b][i] # Stop /\ inbox[b][i].from = a}

\* A death is told at most once to each linked actor, however often the two
\* are linked and unlinked before and after it.
ToldOnce == \A a, b \in Actor : Cardinality(ReportsOf(a, b)) <= 1

\* What a mailbox says of a death is true: the actor it names stopped for the
\* reason it gives, and takes no more messages by the time it is told.
HonestReport ==
  \A a, b \in Actor : \A i \in ReportsOf(a, b) :
    inbox[b][i].reason = reason[a] /\ ~MailboxOpen(a)

\* A normal stop does not spread: whoever has the default hooks and stops
\* normally was asked to itself, whatever the hooks of the others decide.
NormalDoesNotSpread ==
  \A a \in Actor \ Custom : reason[a] = "Normal" => Contains(inbox[a], Stop)

\* a stops for a failure of its own; without hooks of its own, as Panicked.
OwnFailure(a) == Crash(a) /\ (a \in Custom \/ reason'[a] = "Panicked")

\* Another actor, linked with a when it drained its links, has told a that it
\* has stopped; without hooks of its own, a stops for the very same reason.
ToldBefore(a) ==
  \E b \in Actor \ {a} :
    /\ reason[b] # None /\ a \in told[b] /\ ~MailboxOpen(b)
    /\ a \in Custom \/ reason[b] = reason'[a]

\* Whoever stops for an abnormal reason was killed, fails by itself, or was
\* told of a death.
DeathHasCause ==
  [][\A a \in Actor : reason[a] = None /\ reason'[a] \notin {None, "Normal"} =>
       (reason'[a] = "Killed" /\ killed[a]) \/ OwnFailure(a) \/ ToldBefore(a)]_vars

\* Sets of actors with those that were killed, those whose own hooks may give
\* that for a reason, and with whom one of them told.
ClosedUnderKills(S) ==
  \A a \in Actor :
    /\ reason[a] = "Killed"
    /\ killed[a] \/ a \in Custom \/ \E b \in S : reason[b] = "Killed" /\ a \in told[b]
    => a \in S

\* Whoever stops as Killed was killed itself, has a hook that says so, or is at
\* the end of a chain of links that begins with such an actor: no circle of
\* actors takes itself down.
KillsHaveOrigin ==
  \A S \in SUBSET Actor :
    ClosedUnderKills(S) => \A a \in Actor : reason[a] = "Killed" => a \in S

\* An abnormal death takes down every actor with the default hooks that is
\* still linked when the dead actor locks its links, and theirs in turn.
DeathSpreads ==
  \A a \in Actor : \A b \in Actor \ ({a} \cup Custom) :
    (phase[a] = "draining" /\ reason[a] # "Normal" /\ b \in links[a]) ~> phase[b] = "dead"

Life(a) == INSTANCE ActorLife WITH
  phase <- IF Born(a) THEN phase[a] ELSE "starting",
  reason <- reason[a], killed <- killed[a]

\* The actors linked here live the way the code's do (module Lifecycle): each
\* closes its mailbox before it tells its links and gives them one reason.
\* (Life(a)!Spec for every a, in the form that TLC evaluates.)
ImplementsLife ==
  /\ \A a \in Actor : Life(a)!Init
  /\ [][\A a \in Actor : Life(a)!Next \/ UNCHANGED Life(a)!lvars]_vars

\* spawn_link: "If either actor dies, Actor::on_link_died will be called on
\* the other actor" - of the two, the one that was spawned.
SpawnLinkTells ==
  \A c \in Actor :
    spawner[c] # None /\ spawner[c].how = "spawn_link" /\ spawning[c] = None /\ Drained(c)
      => spawner[c].by \in told[c]

\* spawn_child: "however if the spawned actor dies, Actor::on_link_died will
\* not be called".
SpawnChildTellsNot ==
  \A c \in Actor :
    spawner[c] # None /\ spawner[c].how = "spawn_child" => spawner[c].by \notin told[c]

=============================================================================
