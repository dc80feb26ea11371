----------------------------- MODULE LinkLocks -----------------------------
(***************************************************************************)
(* The mutexes around the maps of links.  Threads of the program link and  *)
(* unlink actors, taking the lock of one map or of two, one after the      *)
(* other; the task of a dying actor takes the lock of its own map and      *)
(* keeps it while it drains the map and tells everybody in it.             *)
(*                                                                         *)
(* Module Links has each of these operations in one step.  Here they are   *)
(* shown to take effect at one instant (module LinkTable), and to return   *)
(* unless operations in opposite directions are in progress.               *)
(***************************************************************************)
EXTENDS Naturals

CONSTANTS
  Actor,     \* actors, all of them spawned
  Thread,    \* threads on which the program links and unlinks them
  Op,        \* the operations it uses
  MaxCalls,  \* how many of them each thread calls
  None       \* no value

Ops      == {"link_child", "unlink_child", "link_together", "unlink_together"}
TwoSided == {"link_together", "unlink_together"}

ASSUME ProcAssumption == Actor \cap Thread = {} /\ None \notin Actor \cup Thread
ASSUME OpAssumption   == Op \subseteq Ops /\ MaxCalls \in Nat

Request == [op : Op, this : Actor, other : Actor]

ASSUME NoneAssumption == None \notin Request

VARIABLES
  links,    \* the keys of each actor's map
  owner,    \* the thread or the actor's task that holds the map's mutex
  pc,       \* where each thread, and each actor's task, is
  request,  \* the operation each thread is in, or None
  calls,    \* operations called so far by each thread
  told      \* those each actor sent LinkDied to

vars == <<links, owner, pc, request, calls, told>>

\* Not started, waiting for the first lock, for the second one; holding what
\* it needs, with the first map written; about to release the locks.
ThreadPC == {"idle", "lock_this", "lock_other", "write_this", "write_other",
             "unlock_other", "unlock_this"}

\* Running, waiting for the lock on its own map, draining it, past that.
TaskPC == {"alive", "lock_links", "draining", "on_stop"}

At(p, l)    == pc[p] = l
Goto(p, l)  == pc' = [pc EXCEPT ![p] = l]

\* Mutex::lock returns only when nobody holds the mutex.
Lock(p, a)   == owner[a] = None /\ owner' = [owner EXCEPT ![a] = p]
Unlock(a)    == owner' = [owner EXCEPT ![a] = None]

Change(op, set, b) == IF op \in {"link_child", "link_together"} THEN set \cup {b} ELSE set \ {b}

-----------------------------------------------------------------------------
(* The four linking operations.                                            *)

\* Faulty: an operation between an actor and itself is carried out.
Call_WithItself(t, r) ==
  /\ At(t, "idle") /\ calls[t] < MaxCalls
  /\ calls' = [calls EXCEPT ![t] = @ + 1]
  /\ request' = [request EXCEPT ![t] = r]
  /\ Goto(t, "lock_this")
  /\ UNCHANGED <<links, owner, told>>

\* An operation between an actor and itself returns at once.
Call(t, r) ==
  /\ At(t, "idle") /\ calls[t] < MaxCalls
  /\ calls' = [calls EXCEPT ![t] = @ + 1]
  /\ IF r.this = r.other
     THEN UNCHANGED <<pc, request>>
     ELSE request' = [request EXCEPT ![t] = r] /\ Goto(t, "lock_this")
  /\ UNCHANGED <<links, owner, told>>

\* Faulty: the second map is written without its lock.
NextLock_OnlyOne(op) == "write_this"

\* Faulty: a one-sided operation takes both locks.
NextLock_Always(op) == "lock_other"

\* The tuple (self.links.lock(), other.links.lock()) is built left to right.
NextLock(op) == IF op \in TwoSided THEN "lock_other" ELSE "write_this"

LockThis(t) ==
  /\ At(t, "lock_this")
  /\ Lock(t, request[t].this)
  /\ Goto(t, NextLock(request[t].op))
  /\ UNCHANGED <<links, request, calls, told>>

LockOther(t) ==
  /\ At(t, "lock_other")
  /\ Lock(t, request[t].other)
  /\ Goto(t, "write_this")
  /\ UNCHANGED <<links, request, calls, told>>

WriteThis(t) ==
  LET r == request[t] IN
  /\ At(t, "write_this")
  /\ links' = [links EXCEPT ![r.this] = Change(r.op, @, r.other)]
  /\ Goto(t, IF r.op \in TwoSided THEN "write_other" ELSE "unlock_this")
  /\ UNCHANGED <<owner, request, calls, told>>

WriteOther(t) ==
  LET r == request[t] IN
  /\ At(t, "write_other")
  /\ links' = [links EXCEPT ![r.other] = Change(r.op, @, r.this)]
  /\ Goto(t, "unlock_other")
  /\ UNCHANGED <<owner, request, calls, told>>

\* The guards are dropped in the reverse order of their declaration.
UnlockOther(t) ==
  /\ At(t, "unlock_other")
  /\ Unlock(request[t].other)
  /\ Goto(t, "unlock_this")
  /\ UNCHANGED <<links, request, calls, told>>

UnlockThis(t) ==
  /\ At(t, "unlock_this")
  /\ Unlock(request[t].this)
  /\ Goto(t, "idle")
  /\ request' = [request EXCEPT ![t] = None]
  /\ UNCHANGED <<links, calls, told>>

-----------------------------------------------------------------------------
(* A dying actor.                                                          *)

Die(a) ==
  /\ At(a, "alive")
  /\ Goto(a, "lock_links")
  /\ UNCHANGED <<links, owner, request, calls, told>>

LockLinks(a) ==
  /\ At(a, "lock_links")
  /\ Lock(a, a)
  /\ Goto(a, "draining")
  /\ UNCHANGED <<links, request, calls, told>>

\* Faulty: the link back is removed from the other map on the way.
Tell_UnlinksBack(a, b) ==
  /\ At(a, "draining") /\ b \in links[a]
  /\ owner[b] = None
  /\ links' = [links EXCEPT ![a] = @ \ {b}, ![b] = @ \ {a}]
  /\ told' = [told EXCEPT ![a] = @ \cup {b}]
  /\ UNCHANGED <<owner, pc, request, calls>>

\* One turn of the loop over links.drain(): a send, which waits for nothing.
Tell(a, b) ==
  /\ At(a, "draining") /\ b \in links[a]
  /\ links' = [links EXCEPT ![a] = @ \ {b}]
  /\ told' = [told EXCEPT ![a] = @ \cup {b}]
  /\ UNCHANGED <<owner, pc, request, calls>>

UnlockLinks(a) ==
  /\ At(a, "draining") /\ links[a] = {}
  /\ Unlock(a)
  /\ Goto(a, "on_stop")
  /\ UNCHANGED <<links, request, calls, told>>

-----------------------------------------------------------------------------

Init ==
  /\ links = [a \in Actor |-> {}]
  /\ owner = [a \in Actor |-> None]
  /\ pc = [p \in Thread \cup Actor |-> IF p \in Thread THEN "idle" ELSE "alive"]
  /\ request = [t \in Thread |-> None]
  /\ calls = [t \in Thread |-> 0]
  /\ told = [a \in Actor |-> {}]

\* What a thread in an operation does next.
Operate(t) ==
  \/ LockThis(t) \/ LockOther(t) \/ WriteThis(t) \/ WriteOther(t)
  \/ UnlockOther(t) \/ UnlockThis(t)

\* What a dying actor does next.
Drain(a) == LockLinks(a) \/ (\E b \in Actor : Tell(a, b)) \/ UnlockLinks(a)

Next ==
  \/ \E t \in Thread : Operate(t) \/ \E r \in Request : Call(t, r)
  \/ \E a \in Actor : Die(a) \/ Drain(a)

Spec == Init /\ [][Next]_vars

\* The threads are preemptive, and no mutex is wanted again and again: the
\* calls are bounded, so that weak fairness is all that is asked of a lock.
FairSpec ==
  /\ Spec
  /\ \A t \in Thread : WF_vars(Operate(t))
  /\ \A a \in Actor : WF_vars(Drain(a))

-----------------------------------------------------------------------------
(* Properties.                                                             *)

\* Every variable stays in its set, and nobody is linked with itself.
TypeOK ==
  /\ links \in [Actor -> SUBSET Actor]
  /\ \A a \in Actor : a \notin links[a]
  /\ owner \in [Actor -> Thread \cup Actor \cup {None}]
  /\ pc \in [Thread \cup Actor -> ThreadPC \cup TaskPC]
  /\ request \in [Thread -> Request \cup {None}]
  /\ calls \in [Thread -> 0..MaxCalls]
  /\ told \in [Actor -> SUBSET Actor]

\* Two-sided operations are in progress from a to b, from b to c, ... and from
\* the last one to a.
Opposed ==
  \E S \in (SUBSET Actor) \ {{}} : \A a \in S : \E t \in Thread :
    /\ request[t] # None /\ request[t].op \in TwoSided
    /\ request[t].this = a /\ request[t].other \in S

\* p waits for the lock on the links of a.
WaitsFor(p, a) ==
  \/ p \in Thread /\ At(p, "lock_this") /\ request[p].this = a
  \/ p \in Thread /\ At(p, "lock_other") /\ request[p].other = a
  \/ p = a /\ At(a, "lock_links")

\* Threads and tasks each of which waits for a lock that one of them holds.
CircularWait ==
  \E P \in (SUBSET (Thread \cup Actor)) \ {{}} :
    \A p \in P : \E a \in Actor : WaitsFor(p, a) /\ owner[a] \in P

\* A deadlock around the links, of any number of threads and dying actors, has
\* one cause: two-sided operations in opposite directions.
CircleOnlyIfOpposed == CircularWait => Opposed

\* The threads get back from their operations, and dying actors get past the
\* lock on their links, again and again, unless two-sided operations in
\* opposite directions are in progress for good.
StuckOnlyIfOpposed ==
  \/ <>[]Opposed
  \/ /\ \A t \in Thread : []<>At(t, "idle")
     /\ \A a \in Actor : []<>~At(a, "lock_links")

\* The maps as they are once every operation under way has written the second
\* one; what a dying actor has yet to drain is nobody's to see.
tableLinks ==
  LET half(a) == {t \in Thread : At(t, "write_other") /\ request[t].other = a}
      settled(t, a) == Change(request[t].op, links[a], request[t].this)
  IN  [a \in Actor |->
         CASE At(a, "draining") -> {}
           [] half(a) # {}      -> settled(CHOOSE t \in half(a) : TRUE, a)
           [] OTHER             -> links[a]]

tableApplied ==
  [t \in Thread |-> pc[t] \in {"write_other", "unlock_other", "unlock_this"}]

tableDying == {a \in Actor : pc[a] \in {"draining", "on_stop"}}

\* Whom a dying actor tells is settled when it gets the lock.
tableTold == [a \in Actor |-> IF At(a, "draining") THEN told[a] \cup links[a] ELSE told[a]]

Table == INSTANCE LinkTable WITH
  links <- tableLinks, applied <- tableApplied, dying <- tableDying, told <- tableTold

\* "This operation is atomic": of link_together and unlink_together, and of
\* the telling of a death, in any interleaving of threads and dying actors.
ImplementsTable == Table!Spec

=============================================================================
