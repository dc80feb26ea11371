-------------------------- MODULE LinkLocksProofs --------------------------
(***************************************************************************)
(* Proofs about LinkLocks, for every set of actors and of threads and any  *)
(* number of calls.                                                        *)
(*                                                                         *)
(* Whoever writes a map holds its lock, and so does whoever drains it: a   *)
(* map is half written by at most one thread, and by none while it is      *)
(* drained.  That is why the table of module LinkTable can be read off the *)
(* maps in every state, and why every step is one of its steps or none.    *)
(***************************************************************************)
EXTENDS LinkLocks, TLAPS

\* Threads and tasks are where threads and tasks can be.
Places ==
  /\ \A t \in Thread : pc[t] \in ThreadPC
  /\ \A a \in Actor : pc[a] \in TaskPC

\* A thread that is not idle is in an operation between two actors, and waits
\* for a second lock, or has one, only for a two-sided one.
InOperation ==
  \A t \in Thread :
    IF At(t, "idle")
    THEN request[t] = None
    ELSE /\ request[t] \in Request
         /\ request[t].this # request[t].other
         /\ pc[t] \in {"lock_other", "write_other", "unlock_other"}
              => request[t].op \in TwoSided

\* From its first lock to the end an operation has the lock of the one map.
HoldsThis ==
  \A t \in Thread :
    pc[t] \in {"lock_other", "write_this", "write_other", "unlock_other", "unlock_this"}
      => owner[request[t].this] = t

\* A two-sided one has that of the other map from the second lock to the
\* release of it.
HoldsOther ==
  \A t \in Thread :
    /\ At(t, "write_this") /\ request[t].op \in TwoSided => owner[request[t].other] = t
    /\ pc[t] \in {"write_other", "unlock_other"}         => owner[request[t].other] = t

\* A task that drains the map of its actor has its lock, and has told nobody
\* before.
HoldsOwn ==
  \A a \in Actor :
    /\ At(a, "draining") => owner[a] = a
    /\ At(a, "alive") \/ At(a, "lock_links") => told[a] = {}

\* A lock is held by a thread in an operation that took it, or by the task that
\* drains the map.
InUse ==
  \A a \in Actor : owner[a] # None =>
    \/ owner[a] = a /\ At(a, "draining")
    \/ \E t \in Thread :
         /\ owner[a] = t
         /\ \/ /\ request[t].this = a
               /\ pc[t] \in {"lock_other", "write_this", "write_other",
                             "unlock_other", "unlock_this"}
            \/ /\ request[t].other = a /\ request[t].op \in TwoSided
               /\ pc[t] \in {"write_this", "write_other", "unlock_other"}

IInv == TypeOK /\ Places /\ InOperation /\ HoldsThis /\ HoldsOther /\ HoldsOwn

-----------------------------------------------------------------------------

LEMMA InitIInv == Init => IInv
<1> QED
  BY ProcAssumption, OpAssumption
     DEF Init, IInv, TypeOK, Places, InOperation, HoldsThis, HoldsOther, HoldsOwn, At,
         ThreadPC, TaskPC

\* A thread calls an operation.
LEMMA CallIInv ==
  ASSUME IInv, NEW t \in Thread, NEW r \in Request, Call(t, r)
  PROVE  IInv'
<1> USE ProcAssumption, OpAssumption
<1>1. TypeOK'
  BY DEF IInv, TypeOK, Call, At, Goto, ThreadPC
<1>2. CASE r.this = r.other
  BY <1>1, <1>2 DEF IInv, Call, At, Places, InOperation, HoldsThis, HoldsOther, HoldsOwn
<1>3. CASE r.this # r.other
  <2>1. /\ At(t, "idle")
        /\ request' = [request EXCEPT ![t] = r]
        /\ pc' = [pc EXCEPT ![t] = "lock_this"]
        /\ UNCHANGED <<links, owner, told>>
    BY <1>3 DEF Call, Goto
  <2>2. /\ \A u \in Thread \ {t} : pc'[u] = pc[u] /\ request'[u] = request[u]
        /\ pc'[t] = "lock_this" /\ request'[t] = r
        /\ \A a \in Actor : pc'[a] = pc[a]
    BY <2>1 DEF IInv, TypeOK
  <2> QED
    BY <1>1, <1>3, <2>1, <2>2
       DEF IInv, At, Places, InOperation, HoldsThis, HoldsOther, HoldsOwn, ThreadPC
<1> QED
  BY <1>2, <1>3

\* What a step of thread t leaves alone: the other threads and the tasks.
LEMMA OthersStay ==
  ASSUME IInv, NEW t \in Thread, Operate(t)
  PROVE  /\ \A u \in Thread \ {t} : pc'[u] = pc[u] /\ request'[u] = request[u]
         /\ \A a \in Actor : pc'[a] = pc[a]
         /\ told' = told
<1> USE ProcAssumption DEF IInv, TypeOK, Goto
<1>1. CASE LockThis(t) \/ LockOther(t)
  BY <1>1 DEF LockThis, LockOther
<1>2. CASE WriteThis(t) \/ WriteOther(t)
  BY <1>2 DEF WriteThis, WriteOther
<1>3. CASE UnlockOther(t) \/ UnlockThis(t)
  BY <1>3 DEF UnlockOther, UnlockThis
<1> QED
  BY <1>1, <1>2, <1>3 DEF Operate

\* A thread takes, uses and releases its locks; those of the others stay
\* theirs, as a lock is taken only when it is free.
LEMMA OperateIInv ==
  ASSUME IInv, NEW t \in Thread, Operate(t)
  PROVE  IInv'
<1> USE ProcAssumption, OpAssumption
<1>0. /\ \A u \in Thread \ {t} : pc'[u] = pc[u] /\ request'[u] = request[u]
      /\ \A a \in Actor : pc'[a] = pc[a]
      /\ told' = told
  BY OthersStay
<1>1. CASE LockThis(t)
  <2>1. /\ request[t] \in Request /\ pc'[t] = NextLock(request[t].op)
        /\ request' = request /\ links' = links /\ calls' = calls
        /\ owner[request[t].this] = None
        /\ owner' = [owner EXCEPT ![request[t].this] = t]
        /\ pc' = [pc EXCEPT ![t] = NextLock(request[t].op)]
    BY <1>1 DEF LockThis, Lock, Goto, IInv, TypeOK, InOperation, At
  <2>2. TypeOK'
    BY <1>0, <2>1 DEF IInv, TypeOK, ThreadPC, NextLock, Request
  <2>3. \/ pc'[t] = "lock_other" /\ request[t].op \in TwoSided
        \/ pc'[t] = "write_this" /\ request[t].op \notin TwoSided
    BY <2>1 DEF NextLock, IInv, TypeOK
  <2>4. owner' = [owner EXCEPT ![request[t].this] = t] /\ owner'[request[t].this] = t
    BY <2>1 DEF IInv, TypeOK, Request
  <2>5. Places' /\ InOperation'
    BY <1>0, <2>1, <2>3, <1>1
       DEF LockThis, IInv, Places, InOperation, At, ThreadPC, TaskPC
  <2>6. HoldsThis' /\ HoldsOther'
    BY <1>0, <2>1, <2>3, <2>4, <2>5
       DEF IInv, TypeOK, InOperation, HoldsThis, HoldsOther, At, Request
  <2>7. HoldsOwn'
    BY <1>0, <2>1 DEF IInv, TypeOK, HoldsOwn, At, Request
  <2> QED
    BY <2>2, <2>5, <2>6, <2>7 DEF IInv
<1>2. CASE LockOther(t)
  <2>1. /\ request[t] \in Request /\ At(t, "lock_other")
        /\ request' = request /\ links' = links /\ calls' = calls
        /\ owner[request[t].other] = None
        /\ owner' = [owner EXCEPT ![request[t].other] = t]
        /\ pc' = [pc EXCEPT ![t] = "write_this"]
    BY <1>2 DEF LockOther, Lock, Goto, IInv, TypeOK, InOperation, At
  <2>2. TypeOK'
    BY <1>0, <2>1 DEF IInv, TypeOK, ThreadPC, Request
  <2> QED
    BY <1>0, <2>1, <2>2
       DEF IInv, TypeOK, Places, InOperation, HoldsThis, HoldsOther, HoldsOwn, At,
           ThreadPC, TaskPC, Request
<1>3. CASE WriteThis(t)
  <2> DEFINE next == IF request[t].op \in TwoSided THEN "write_other" ELSE "unlock_this"
  <2>1. /\ request[t] \in Request /\ At(t, "write_this")
        /\ request[t].this # request[t].other
        /\ request' = request /\ owner' = owner /\ calls' = calls
        /\ links' = [links EXCEPT ![request[t].this] =
                       Change(request[t].op, @, request[t].other)]
        /\ pc' = [pc EXCEPT ![t] = next]
    BY <1>3 DEF WriteThis, Goto, IInv, TypeOK, InOperation, At
  <2>2. TypeOK'
    BY <1>0, <2>1 DEF IInv, TypeOK, ThreadPC, Request, Change
  <2> QED
    BY <1>0, <2>1, <2>2
       DEF IInv, TypeOK, Places, InOperation, HoldsThis, HoldsOther, HoldsOwn, At,
           ThreadPC, TaskPC, Request
<1>4. CASE WriteOther(t)
  <2>1. /\ request[t] \in Request /\ At(t, "write_other")
        /\ request[t].this # request[t].other
        /\ request' = request /\ owner' = owner /\ calls' = calls
        /\ links' = [links EXCEPT ![request[t].other] =
                       Change(request[t].op, @, request[t].this)]
        /\ pc' = [pc EXCEPT ![t] = "unlock_other"]
    BY <1>4 DEF WriteOther, Goto, IInv, TypeOK, InOperation, At
  <2>2. TypeOK'
    BY <1>0, <2>1 DEF IInv, TypeOK, ThreadPC, Request, Change
  <2> QED
    BY <1>0, <2>1, <2>2
       DEF IInv, TypeOK, Places, InOperation, HoldsThis, HoldsOther, HoldsOwn, At,
           ThreadPC, TaskPC, Request
<1>5. CASE UnlockOther(t)
  <2>1. /\ request[t] \in Request /\ At(t, "unlock_other")
        /\ request[t].this # request[t].other
        /\ request' = request /\ links' = links /\ calls' = calls
        /\ owner' = [owner EXCEPT ![request[t].other] = None]
        /\ pc' = [pc EXCEPT ![t] = "unlock_this"]
    BY <1>5 DEF UnlockOther, Unlock, Goto, IInv, TypeOK, InOperation, At
  <2>2. TypeOK'
    BY <1>0, <2>1 DEF IInv, TypeOK, ThreadPC, Request
  <2> QED
    BY <1>0, <2>1, <2>2
       DEF IInv, TypeOK, Places, InOperation, HoldsThis, HoldsOther, HoldsOwn, At,
           ThreadPC, TaskPC, Request
<1>6. CASE UnlockThis(t)
  <2>1. /\ request[t] \in Request /\ At(t, "unlock_this")
        /\ request' = [request EXCEPT ![t] = None] /\ links' = links /\ calls' = calls
        /\ owner' = [owner EXCEPT ![request[t].this] = None]
        /\ pc' = [pc EXCEPT ![t] = "idle"]
    BY <1>6 DEF UnlockThis, Unlock, Goto, IInv, TypeOK, InOperation, At
  <2>2. TypeOK'
    BY <1>0, <2>1 DEF IInv, TypeOK, ThreadPC, Request
  <2> QED
    BY <1>0, <2>1, <2>2
       DEF IInv, TypeOK, Places, InOperation, HoldsThis, HoldsOther, HoldsOwn, At,
           ThreadPC, TaskPC, Request
<1> QED
  BY <1>1, <1>2, <1>3, <1>4, <1>5, <1>6 DEF Operate

\* The task of a dying actor writes its own map alone, with its lock.
LEMMA DrainIInv ==
  ASSUME IInv, NEW a \in Actor, Die(a) \/ Drain(a)
  PROVE  IInv'
<1> USE ProcAssumption, OpAssumption
    DEF IInv, TypeOK, Places, InOperation, HoldsThis, HoldsOther, HoldsOwn, At, Goto,
        ThreadPC, TaskPC, Request
<1>1. CASE Die(a)
  BY <1>1 DEF Die
<1>2. CASE LockLinks(a)
  BY <1>2 DEF LockLinks, Lock
<1>3. ASSUME NEW b \in Actor, Tell(a, b) PROVE IInv'
  BY <1>3 DEF Tell
<1>4. CASE UnlockLinks(a)
  BY <1>4 DEF UnlockLinks, Unlock
<1> QED
  BY <1>1, <1>2, <1>3, <1>4 DEF Drain

LEMMA StepIInv == IInv /\ [Next]_vars => IInv'
<1> SUFFICES ASSUME IInv, [Next]_vars PROVE IInv'
  OBVIOUS
<1>1. CASE UNCHANGED vars
  BY <1>1 DEF vars, IInv, TypeOK, Places, InOperation, HoldsThis, HoldsOther, HoldsOwn, At
<1>2. CASE Next
  BY <1>2, CallIInv, OperateIInv, DrainIInv DEF Next
<1> QED
  BY <1>1, <1>2

\* The locks are held where they are used.
THEOREM Invariance == Spec => []IInv
<1> QED
  BY InitIInv, StepIInv, PTL DEF Spec

\* Every variable stays in its set, and nobody is linked with itself: an
\* operation between an actor and itself is not carried out.
THEOREM TypeCorrect == Spec => []TypeOK
<1>1. IInv => TypeOK
  BY DEF IInv
<1> QED
  BY Invariance, <1>1, PTL

-----------------------------------------------------------------------------
(* The table.                                                              *)

\* t has written one of the two maps, and a's is the other one.
HalfWritten(t, a) == At(t, "write_other") /\ request[t].other = a

\* What the table shows of each map: nothing while it is drained, what the
\* thread that has written the first of two will write into it, or what is
\* in it.
ViewOK ==
  \A a \in Actor :
    /\ At(a, "draining") => tableLinks[a] = {}
    /\ \A t \in Thread : HalfWritten(t, a) =>
         tableLinks[a] = Change(request[t].op, links[a], request[t].this)
    /\ ~At(a, "draining") /\ (\A t \in Thread : ~HalfWritten(t, a)) =>
         tableLinks[a] = links[a]

\* Two threads that have half written the same map would both hold its lock,
\* and so would a thread that has and the task that drains it.
LEMMA View == IInv => ViewOK
<1> SUFFICES ASSUME IInv, NEW a \in Actor
             PROVE  /\ At(a, "draining") => tableLinks[a] = {}
                    /\ \A t \in Thread : HalfWritten(t, a) =>
                         tableLinks[a] = Change(request[t].op, links[a], request[t].this)
                    /\ ~At(a, "draining") /\ (\A t \in Thread : ~HalfWritten(t, a)) =>
                         tableLinks[a] = links[a]
  BY DEF ViewOK
<1> DEFINE half == {t \in Thread : At(t, "write_other") /\ request[t].other = a}
<1>1. tableLinks[a] = CASE At(a, "draining") -> {}
                        [] half # {} -> Change(request[CHOOSE t \in half : TRUE].op, links[a],
                                               request[CHOOSE t \in half : TRUE].this)
                        [] OTHER -> links[a]
  BY DEF tableLinks
<1>2. ASSUME NEW t \in Thread, HalfWritten(t, a)
      PROVE  half = {t} /\ ~At(a, "draining")
  <2>1. owner[a] = t
    BY <1>2 DEF HalfWritten, IInv, HoldsOther, At
  <2>2. \A u \in half : owner[a] = u
    BY DEF IInv, HoldsOther, At
  <2> QED
    BY <1>2, <2>1, <2>2, ProcAssumption DEF HalfWritten, IInv, HoldsOwn
<1>3. ASSUME NEW t \in Thread, HalfWritten(t, a)
      PROVE  tableLinks[a] = Change(request[t].op, links[a], request[t].this)
  <2>1. half = {t} /\ ~At(a, "draining")
    BY <1>2, <1>3
  <2> HIDE DEF half
  <2>2. (CHOOSE u \in half : TRUE) = t
    BY <2>1
  <2> QED
    BY <1>1, <2>1, <2>2
<1>4. ASSUME ~At(a, "draining"), \A t \in Thread : ~HalfWritten(t, a)
      PROVE  tableLinks[a] = links[a]
  <2>1. half = {}
    BY <1>4 DEF HalfWritten
  <2> HIDE DEF half
  <2> QED
    BY <1>1, <1>4, <2>1
<1>5. At(a, "draining") => tableLinks[a] = {}
  BY <1>1, <1>2 DEF HalfWritten
<1> QED
  BY <1>3, <1>4, <1>5

LEMMA ViewNext == IInv' => ViewOK'
<1> QED
  BY View, PTL

\* The table has an entry for each actor.
IsTable == tableLinks = [a \in Actor |-> tableLinks[a]]

LEMMA TableDomain == IsTable
<1> DEFINE half(a) == {t \in Thread : At(t, "write_other") /\ request[t].other = a}
           settled(t, a) == Change(request[t].op, links[a], request[t].this)
           entry(a) == CASE At(a, "draining") -> {}
                         [] half(a) # {}      -> settled(CHOOSE t \in half(a) : TRUE, a)
                         [] OTHER             -> links[a]
<1>1. tableLinks = [a \in Actor |-> entry(a)]
  BY Zenon DEF tableLinks
<1> HIDE DEF entry
<1> QED
  BY <1>1 DEF IsTable

\* Two tables with the same entries are the same.
LEMMA SameTable ==
  ASSUME \A a \in Actor : tableLinks'[a] = tableLinks[a]
  PROVE  tableLinks' = tableLinks
<1>1. IsTable'
  BY TableDomain, PTL
<1> QED
  BY <1>1, TableDomain DEF IsTable

\* A step that leaves a map alone, and neither half writes nor completes it nor
\* starts or ends the draining of it, leaves its entry alone.
LEMMA EntryKept ==
  ASSUME IInv, IInv', NEW a \in Actor,
         links'[a] = links[a],
         At(a, "draining")' <=> At(a, "draining"),
         \A t \in Thread : HalfWritten(t, a)' <=> HalfWritten(t, a),
         \A t \in Thread : HalfWritten(t, a) => request'[t] = request[t]
  PROVE  tableLinks'[a] = tableLinks[a]
<1>1. ViewOK /\ ViewOK'
  BY View, ViewNext
<1>2. CASE At(a, "draining")
  BY <1>1, <1>2 DEF ViewOK
<1>3. ASSUME NEW t \in Thread, HalfWritten(t, a)
      PROVE  tableLinks'[a] = tableLinks[a]
  <2>1. tableLinks[a] = Change(request[t].op, links[a], request[t].this)
    BY <1>1, <1>3 DEF ViewOK
  <2>2. tableLinks'[a] = Change(request'[t].op, links'[a], request'[t].this)
    BY <1>1, <1>3 DEF ViewOK, Change
  <2> QED
    BY <1>3, <2>1, <2>2
<1>4. CASE ~At(a, "draining") /\ \A t \in Thread : ~HalfWritten(t, a)
  <2>1. tableLinks[a] = links[a]
    BY <1>1, <1>4 DEF ViewOK
  <2>2. tableLinks'[a] = links'[a]
    BY <1>1, <1>4 DEF ViewOK
  <2> QED
    BY <2>1, <2>2
<1> QED
  BY <1>2, <1>3, <1>4

LEMMA InitTable == Init => Table!Init
<1> SUFFICES ASSUME Init PROVE Table!Init
  OBVIOUS
<1>1. IInv
  BY InitIInv
<1>2. \A a \in Actor : tableLinks[a] = {}
  BY <1>1, View, ProcAssumption DEF Init, ViewOK, HalfWritten, At
<1>3. tableLinks = [a \in Actor |-> {}]
  BY <1>2, TableDomain DEF IsTable
<1>4. tableApplied = [t \in Thread |-> FALSE]
  <2>1. \A t \in Thread : (pc[t] \in {"write_other", "unlock_other", "unlock_this"}) = FALSE
    BY DEF Init
  <2> QED
    BY <2>1, Zenon DEF tableApplied
<1>5. tableDying = {}
  BY ProcAssumption DEF Init, tableDying
<1>6. tableTold = [a \in Actor |-> {}]
  BY ProcAssumption DEF Init, tableTold, At
<1> QED
  BY <1>3, <1>4, <1>5, <1>6 DEF Init, Table!Init

\* A call is a call, but for one between an actor and itself, which does
\* nothing.
LEMMA CallTable ==
  ASSUME IInv, IInv', NEW t \in Thread, NEW r \in Request, Call(t, r)
  PROVE  [Table!Next]_Table!tvars
<1> USE ProcAssumption, OpAssumption
<1>1. CASE r.this = r.other
  BY <1>1 DEF Call, Table!tvars, tableLinks, tableApplied, tableDying, tableTold, At
<1>2. CASE r.this # r.other
  <2>1. /\ At(t, "idle") /\ request[t] = None
        /\ request' = [request EXCEPT ![t] = r]
        /\ pc' = [pc EXCEPT ![t] = "lock_this"]
        /\ links' = links /\ told' = told
    BY <1>2 DEF Call, Goto, IInv, InOperation
  <2>2. /\ \A u \in Thread \ {t} : pc'[u] = pc[u] /\ request'[u] = request[u]
        /\ pc'[t] = "lock_this"
        /\ \A a \in Actor : pc'[a] = pc[a]
    BY <2>1 DEF IInv, TypeOK
  <2>3. tableLinks' = tableLinks
    <3>1. \A a \in Actor : tableLinks'[a] = tableLinks[a]
      BY <2>1, <2>2, EntryKept DEF HalfWritten, At
    <3> QED
      BY <3>1, SameTable
  <2>4. tableApplied' = tableApplied
    BY <2>1, <2>2 DEF tableApplied, At
  <2>5. tableDying' = tableDying /\ tableTold' = tableTold
    BY <2>1, <2>2 DEF tableDying, tableTold, At
  <2>6. r \in Table!Request
    BY DEF Request, Table!Request, Ops, Table!Ops
  <2>7. Table!Call(t, r)
    BY <1>2, <2>1, <2>3, <2>4, <2>5 DEF Table!Call
  <2> QED
    BY <2>6, <2>7 DEF Table!Next
<1> QED
  BY <1>1, <1>2

\* A thread changes nothing of whom the dying tell: nobody that drains its map
\* has it written by another.
LEMMA OperateTold ==
  ASSUME IInv, NEW t \in Thread, Operate(t),
         \A a \in Actor : At(a, "draining") => links'[a] = links[a]
  PROVE  tableDying' = tableDying /\ tableTold' = tableTold
<1>1. (\A a \in Actor : pc'[a] = pc[a]) /\ told' = told
  BY OthersStay
<1>2. tableDying' = tableDying
  BY <1>1 DEF tableDying
<1>3. tableTold' = tableTold
  BY <1>1 DEF tableTold, At
<1> QED
  BY <1>2, <1>3

\* To take a lock, to complete the second map, and to release the lock on it
\* changes nothing that the table shows.
LEMMA OperateHidden ==
  ASSUME IInv, IInv', NEW t \in Thread,
         LockThis(t) \/ LockOther(t) \/ WriteOther(t) \/ UnlockOther(t)
  PROVE  UNCHANGED Table!tvars
<1>1. Operate(t)
  BY DEF Operate
<1>2. /\ \A u \in Thread \ {t} : pc'[u] = pc[u] /\ request'[u] = request[u]
      /\ \A a \in Actor : pc'[a] = pc[a]
  BY <1>1, OthersStay
<1>3. request' = request
  BY DEF LockThis, LockOther, WriteOther, UnlockOther
<1>4. CASE LockThis(t) \/ LockOther(t) \/ UnlockOther(t)
  <2>1. /\ links' = links
        /\ pc'[t] # "write_other" /\ ~At(t, "write_other")
        /\ pc[t] = "unlock_other" <=> pc'[t] \in {"unlock_other", "unlock_this"}
        /\ pc[t] # "unlock_this"
    BY <1>4, ProcAssumption
       DEF LockThis, LockOther, UnlockOther, Goto, At, NextLock, IInv, TypeOK
  <2>2. \A a \in Actor : tableLinks'[a] = tableLinks[a]
    BY <1>2, <1>3, <2>1, EntryKept, ProcAssumption DEF HalfWritten, At
  <2>3. tableApplied' = tableApplied
    BY <1>2, <2>1 DEF tableApplied, At
  <2> QED
    BY <1>1, <1>3, <2>1, <2>2, <2>3, SameTable, OperateTold DEF Table!tvars
<1>5. CASE WriteOther(t)
  <2> DEFINE r == request[t]
  <2>1. /\ At(t, "write_other") /\ r \in Request /\ r.op \in TwoSided
        /\ links' = [links EXCEPT ![r.other] = Change(r.op, @, r.this)]
        /\ pc'[t] = "unlock_other"
        /\ owner[r.other] = t
    BY <1>5, ProcAssumption
       DEF WriteOther, IInv, TypeOK, InOperation, HoldsOther, Goto, At
  <2>2. /\ links'[r.other] = Change(r.op, links[r.other], r.this)
        /\ \A a \in Actor : a # r.other => links'[a] = links[a]
    BY <2>1 DEF IInv, TypeOK, Request
  <2>3. ~At(r.other, "draining") /\ ~At(r.other, "draining")'
    BY <1>2, <1>3, <2>1, ProcAssumption DEF IInv, HoldsOwn, At, Request
  <2>4. \A u \in Thread : ~HalfWritten(u, r.other)'
    <3> SUFFICES ASSUME NEW u \in Thread, HalfWritten(u, r.other)' PROVE FALSE
      OBVIOUS
    <3>1. u # t /\ HalfWritten(u, r.other)
      BY <1>2, <1>3, <2>1 DEF HalfWritten, At
    <3>2. owner[r.other] = u
      BY <3>1 DEF HalfWritten, IInv, HoldsOther, At
    <3> QED
      BY <2>1, <3>1, <3>2
  <2>5. tableLinks'[r.other] = tableLinks[r.other]
    <3>1. tableLinks[r.other] = Change(r.op, links[r.other], r.this)
      BY <2>1, View DEF ViewOK, HalfWritten, Request
    <3>2. r.other \in Actor
      BY <2>1 DEF Request
    <3>3. tableLinks'[r.other] = links'[r.other]
      <4>1. ViewOK'
        BY ViewNext
      <4>2. ASSUME NEW b \in Actor, ~At(b, "draining")',
                   \A u \in Thread : ~HalfWritten(u, b)'
            PROVE  tableLinks'[b] = links'[b]
        BY <4>1, <4>2 DEF ViewOK
      <4>3. ASSUME NEW b \in Actor, b = r.other PROVE tableLinks'[b] = links'[b]
        BY <2>3, <2>4, <4>2, <4>3, <1>3 DEF HalfWritten, At
      <4> QED
        BY <3>2, <4>3
    <3> QED
      BY <2>2, <3>1, <3>3
  <2>6. \A a \in Actor : tableLinks'[a] = tableLinks[a]
    <3>1. ASSUME NEW a \in Actor, a # r.other PROVE tableLinks'[a] = tableLinks[a]
      BY <1>2, <1>3, <2>1, <2>2, <3>1, EntryKept DEF HalfWritten, At
    <3> QED
      BY <2>5, <3>1
  <2>7. tableApplied' = tableApplied
    BY <1>2, <2>1 DEF tableApplied, At
  <2>8. \A a \in Actor : At(a, "draining") => links'[a] = links[a]
    BY <2>2, <2>3
  <2> QED
    BY <1>1, <1>3, <2>6, <2>7, <2>8, SameTable, OperateTold DEF Table!tvars
<1> QED
  BY <1>4, <1>5

\* An operation takes effect when the first map is written: the lock on the
\* second one, if there is one, is held.
LEMMA WriteApplies ==
  ASSUME IInv, IInv', NEW t \in Thread, WriteThis(t)
  PROVE  Table!Apply(t)
<1> DEFINE r == request[t]
<1>1. Operate(t)
  BY DEF Operate
<1>2. /\ \A u \in Thread \ {t} : pc'[u] = pc[u] /\ request'[u] = request[u]
      /\ \A a \in Actor : pc'[a] = pc[a]
  BY <1>1, OthersStay
<1>3. /\ At(t, "write_this") /\ r \in Request /\ r.this # r.other /\ request' = request
      /\ links' = [links EXCEPT ![r.this] = Change(r.op, @, r.other)]
      /\ owner[r.this] = t
  BY DEF WriteThis, IInv, TypeOK, InOperation, HoldsThis, At
<1>4. \/ pc'[t] = "write_other" /\ r.op \in TwoSided
      \/ pc'[t] = "unlock_this" /\ r.op \notin TwoSided
  BY <1>3 DEF WriteThis, Goto, IInv, TypeOK
<1>5. /\ links'[r.this] = Change(r.op, links[r.this], r.other)
      /\ \A a \in Actor : a # r.this => links'[a] = links[a]
  BY <1>3 DEF IInv, TypeOK, Request
\* A map whose lock t holds is drained and half written by nobody else.
<1>6. ASSUME NEW a \in Actor, owner[a] = t
      PROVE  /\ ~At(a, "draining") /\ \A u \in Thread : ~HalfWritten(u, a)
             /\ tableLinks[a] = links[a]
  <2>1. ~At(a, "draining")
    BY <1>6, ProcAssumption DEF IInv, HoldsOwn
  <2>2. \A u \in Thread : ~HalfWritten(u, a)
    BY <1>3, <1>6 DEF HalfWritten, IInv, HoldsOther, At
  <2> QED
    BY <2>1, <2>2, View DEF ViewOK
<1>7. ASSUME NEW a \in Actor, a = r.this
      PROVE  tableLinks'[a] = Change(r.op, tableLinks[a], r.other)
  <2>1. ~At(a, "draining") /\ (\A u \in Thread : ~HalfWritten(u, a)) /\ tableLinks[a] = links[a]
    BY <1>3, <1>6, <1>7
  <2>2. ~At(a, "draining")' /\ \A u \in Thread : ~HalfWritten(u, a)'
    BY <1>2, <1>3, <1>7, <2>1 DEF HalfWritten, At
  <2>3. tableLinks'[a] = links'[a]
    BY <2>2, ViewNext DEF ViewOK
  <2> QED
    BY <1>5, <1>7, <2>1, <2>3
<1>8. ASSUME NEW a \in Actor, a = r.other, r.op \in TwoSided
      PROVE  tableLinks'[a] = Change(r.op, tableLinks[a], r.this)
  <2>1. owner[a] = t
    BY <1>3, <1>8 DEF IInv, HoldsOther
  <2>2. tableLinks[a] = links[a] /\ links'[a] = links[a]
    BY <1>3, <1>5, <1>6, <1>8, <2>1
  <2>3. HalfWritten(t, a)'
    BY <1>3, <1>4, <1>8 DEF HalfWritten, At
  <2>4. tableLinks'[a] = Change(request'[t].op, links'[a], request'[t].this)
    BY <2>3, ViewNext DEF ViewOK, Change
  <2> QED
    BY <1>3, <2>2, <2>4
<1>9. ASSUME NEW a \in Actor, a # r.this, a # r.other \/ r.op \notin TwoSided
      PROVE  tableLinks'[a] = tableLinks[a]
  <2>1. \A u \in Thread : HalfWritten(u, a)' <=> HalfWritten(u, a)
    BY <1>2, <1>3, <1>4, <1>9 DEF HalfWritten, At
  <2> QED
    BY <1>2, <1>3, <1>5, <1>9, <2>1, EntryKept DEF At
<1>10. tableLinks' = Table!Effect(r)
  <2>1. \A a \in Actor : tableLinks'[a] = Table!Effect(r)[a]
    <3> SUFFICES ASSUME NEW a \in Actor PROVE tableLinks'[a] = Table!Effect(r)[a]
      OBVIOUS
    <3>1. CASE a = r.this
      BY <1>7, <3>1 DEF Table!Effect, Table!Change, Change
    <3>2. CASE a # r.this /\ a = r.other /\ r.op \in TwoSided
      BY <1>8, <3>2 DEF Table!Effect, Table!Change, Change, TwoSided, Table!TwoSided
    <3>3. CASE a # r.this /\ (a # r.other \/ r.op \notin TwoSided)
      BY <1>9, <3>3 DEF Table!Effect, TwoSided, Table!TwoSided
    <3> QED
      BY <3>1, <3>2, <3>3
  <2>2. IsTable'
    BY TableDomain, PTL
  <2>3. Table!Effect(r) = [a \in Actor |-> Table!Effect(r)[a]]
    BY Zenon DEF Table!Effect
  <2> QED
    BY <2>1, <2>2, <2>3 DEF IsTable
<1>11. request[t] # None /\ ~tableApplied[t]
  BY <1>3, NoneAssumption DEF tableApplied, At
<1>12. tableApplied' = [tableApplied EXCEPT ![t] = TRUE]
  BY <1>2, <1>3, <1>4 DEF tableApplied, At
<1>13. \A a \in Actor : At(a, "draining") => links'[a] = links[a]
  BY <1>3, <1>5, <1>6 DEF Request
<1> QED
  BY <1>1, <1>3, <1>10, <1>11, <1>12, <1>13, OperateTold DEF Table!Apply

\* An operation returns when the lock on the first map is released.
LEMMA UnlockReturns ==
  ASSUME IInv, IInv', NEW t \in Thread, UnlockThis(t)
  PROVE  Table!Return(t)
<1>1. Operate(t)
  BY DEF Operate
<1>2. /\ \A u \in Thread \ {t} : pc'[u] = pc[u] /\ request'[u] = request[u]
      /\ \A a \in Actor : pc'[a] = pc[a]
  BY <1>1, OthersStay
<1>3. /\ At(t, "unlock_this") /\ pc'[t] = "idle" /\ links' = links
      /\ request' = [request EXCEPT ![t] = None]
  BY DEF UnlockThis, Goto, IInv, TypeOK
<1>4. tableLinks' = tableLinks
  <2>1. \A a \in Actor : tableLinks'[a] = tableLinks[a]
    BY <1>2, <1>3, EntryKept DEF HalfWritten, At
  <2> QED
    BY <2>1, SameTable
<1>5. tableApplied[t]
  BY <1>3 DEF tableApplied, At
<1>6. tableApplied' = [tableApplied EXCEPT ![t] = FALSE]
  <2>1. (pc'[t] \in {"write_other", "unlock_other", "unlock_this"}) = FALSE
    BY <1>3
  <2> QED
    BY <1>2, <2>1 DEF tableApplied
<1> QED
  BY <1>1, <1>3, <1>4, <1>5, <1>6, OperateTold DEF Table!Return

\* What a step of the task of a leaves alone: the threads and the other tasks,
\* and the links of the other actors and what these have told.
LEMMA OtherTasksStay ==
  ASSUME IInv, IInv', NEW a \in Actor, Die(a) \/ Drain(a)
  PROVE  /\ request' = request /\ tableApplied' = tableApplied
         /\ \A t \in Thread, b \in Actor : HalfWritten(t, b)' <=> HalfWritten(t, b)
         /\ \A b \in Actor \ {a} :
              /\ pc'[b] = pc[b] /\ links'[b] = links[b] /\ told'[b] = told[b]
              /\ tableLinks'[b] = tableLinks[b]
<1>1. /\ request' = request
      /\ \A p \in (Thread \cup Actor) \ {a} : pc'[p] = pc[p]
      /\ \A b \in Actor \ {a} : links'[b] = links[b] /\ told'[b] = told[b]
  <2> USE DEF IInv, TypeOK, Goto
  <2>1. CASE Die(a)
    BY <2>1 DEF Die
  <2>2. CASE LockLinks(a)
    BY <2>2 DEF LockLinks
  <2>3. ASSUME NEW b \in Actor, Tell(a, b)
        PROVE  /\ request' = request
               /\ \A p \in (Thread \cup Actor) \ {a} : pc'[p] = pc[p]
               /\ \A c \in Actor \ {a} : links'[c] = links[c] /\ told'[c] = told[c]
    BY <2>3 DEF Tell
  <2>4. CASE UnlockLinks(a)
    BY <2>4 DEF UnlockLinks
  <2> QED
    BY <2>1, <2>2, <2>3, <2>4 DEF Drain
<1>2. \A t \in Thread : pc'[t] = pc[t]
  BY <1>1, ProcAssumption
<1>3. \A t \in Thread, b \in Actor : HalfWritten(t, b)' <=> HalfWritten(t, b)
  BY <1>1, <1>2 DEF HalfWritten, At
<1>4. ASSUME NEW b \in Actor \ {a} PROVE tableLinks'[b] = tableLinks[b]
  BY <1>1, <1>3, <1>4, EntryKept DEF At
<1>5. tableApplied' = tableApplied
  BY <1>2 DEF tableApplied
<1> QED
  BY <1>1, <1>3, <1>4, <1>5

\* A map that its actor's task holds or that nobody holds is half written by
\* nobody.
LEMMA NotHalfWritten ==
  ASSUME IInv, NEW a \in Actor, owner[a] \in {a, None}
  PROVE  \A t \in Thread : ~HalfWritten(t, a)
<1> QED
  BY ProcAssumption DEF IInv, HoldsOther, HalfWritten, At

\* A dying actor's links and those it tells are settled when it gets the lock;
\* the telling, one after the other, shows nothing.
LEMMA DrainTable ==
  ASSUME IInv, IInv', NEW a \in Actor, Die(a) \/ Drain(a)
  PROVE  Table!Drain(a) \/ UNCHANGED Table!tvars
<1>1. /\ request' = request /\ tableApplied' = tableApplied
      /\ \A t \in Thread : HalfWritten(t, a)' <=> HalfWritten(t, a)
      /\ \A b \in Actor \ {a} :
           /\ pc'[b] = pc[b] /\ links'[b] = links[b] /\ told'[b] = told[b]
           /\ tableLinks'[b] = tableLinks[b]
  BY OtherTasksStay
<1>2. \A b \in Actor \ {a} : tableTold'[b] = tableTold[b]
  BY <1>1 DEF tableTold, At
<1>3. ASSUME tableLinks'[a] = tableLinks[a], tableTold'[a] = tableTold[a],
             pc[a] \in {"draining", "on_stop"} <=> pc'[a] \in {"draining", "on_stop"}
      PROVE  UNCHANGED Table!tvars
  <2>1. tableLinks' = tableLinks
    BY <1>1, <1>3, SameTable
  <2>2. tableTold' = tableTold
    <3>1. \A b \in Actor : tableTold'[b] = tableTold[b]
      BY <1>2, <1>3
    <3> QED
      BY <3>1 DEF tableTold
  <2>3. tableDying' = tableDying
    BY <1>1, <1>3 DEF tableDying
  <2> QED
    BY <1>1, <2>1, <2>2, <2>3 DEF Table!tvars
<1>4. CASE Die(a)
  <2>1. /\ pc[a] = "alive" /\ pc'[a] = "lock_links"
        /\ links' = links /\ told' = told
    BY <1>4 DEF Die, Goto, At, IInv, TypeOK
  <2>2. tableLinks'[a] = tableLinks[a]
    BY <1>1, <2>1, EntryKept DEF At
  <2>3. tableTold'[a] = tableTold[a]
    BY <2>1 DEF tableTold, At
  <2> QED
    BY <1>3, <2>1, <2>2, <2>3
<1>5. CASE LockLinks(a)
  <2>1. /\ pc[a] = "lock_links" /\ pc'[a] = "draining" /\ owner[a] = None
        /\ links' = links /\ told' = told /\ told[a] = {}
    BY <1>5 DEF LockLinks, Lock, Goto, At, IInv, TypeOK, HoldsOwn
  <2>2. tableLinks[a] = links[a]
    BY <2>1, NotHalfWritten, View DEF ViewOK, At
  <2>3. tableLinks'[a] = {}
    BY <2>1, ViewNext DEF ViewOK, At
  <2>4. tableLinks' = [tableLinks EXCEPT ![a] = {}]
    <3>1. IsTable /\ IsTable'
      BY TableDomain, PTL
    <3> QED
      BY <1>1, <2>3, <3>1 DEF IsTable
  <2>5. tableTold'[a] = tableLinks[a]
    BY <2>1, <2>2 DEF tableTold, At
  <2>6. tableTold' = [tableTold EXCEPT ![a] = tableLinks[a]]
    BY <1>2, <2>5 DEF tableTold
  <2>7. a \notin tableDying /\ tableDying' = tableDying \cup {a}
    BY <1>1, <2>1 DEF tableDying
  <2> QED
    BY <1>1, <2>4, <2>6, <2>7 DEF Table!Drain
<1>6. ASSUME NEW b \in Actor, Tell(a, b) PROVE UNCHANGED Table!tvars
  <2>1. /\ pc[a] = "draining" /\ pc'[a] = "draining" /\ b \in links[a]
        /\ links'[a] = links[a] \ {b} /\ told'[a] = told[a] \cup {b}
    BY <1>6 DEF Tell, At, IInv, TypeOK
  <2>2. tableLinks[a] = {} /\ tableLinks'[a] = {}
    BY <2>1, View, ViewNext DEF ViewOK, At
  <2>3. tableTold'[a] = tableTold[a]
    BY <2>1 DEF tableTold, At
  <2> QED
    BY <1>3, <2>1, <2>2, <2>3
<1>7. CASE UnlockLinks(a)
  <2>1. /\ pc[a] = "draining" /\ pc'[a] = "on_stop" /\ links[a] = {} /\ owner[a] = a
        /\ links' = links /\ told' = told
    BY <1>7 DEF UnlockLinks, Goto, At, IInv, TypeOK, HoldsOwn
  <2>2. tableLinks[a] = {}
    BY <2>1, View DEF ViewOK, At
  <2>3. tableLinks'[a] = links'[a]
    BY <1>1, <2>1, NotHalfWritten, ViewNext DEF ViewOK, At
  <2>4. tableTold'[a] = tableTold[a]
    BY <2>1 DEF tableTold, At
  <2> QED
    BY <1>3, <2>1, <2>2, <2>3, <2>4
<1> QED
  BY <1>4, <1>5, <1>6, <1>7 DEF Drain

LEMMA StepTable == IInv /\ IInv' /\ [Next]_vars => [Table!Next]_Table!tvars
<1> SUFFICES ASSUME IInv, IInv', [Next]_vars PROVE [Table!Next]_Table!tvars
  OBVIOUS
<1>1. CASE UNCHANGED vars
  BY <1>1 DEF vars, Table!tvars, tableLinks, tableApplied, tableDying, tableTold, At
<1>2. ASSUME NEW t \in Thread, Operate(t) PROVE [Table!Next]_Table!tvars
  <2>1. CASE LockThis(t) \/ LockOther(t) \/ WriteOther(t) \/ UnlockOther(t)
    BY <2>1, OperateHidden
  <2>2. CASE WriteThis(t)
    BY <2>2, WriteApplies DEF Table!Next
  <2>3. CASE UnlockThis(t)
    BY <2>3, UnlockReturns DEF Table!Next
  <2> QED
    BY <1>2, <2>1, <2>2, <2>3 DEF Operate
<1>3. ASSUME NEW t \in Thread, NEW r \in Request, Call(t, r)
      PROVE  [Table!Next]_Table!tvars
  BY <1>3, CallTable
<1>4. ASSUME NEW a \in Actor, Die(a) \/ Drain(a) PROVE [Table!Next]_Table!tvars
  BY <1>4, DrainTable DEF Table!Next
<1> QED
  BY <1>1, <1>2, <1>3, <1>4 DEF Next

\* "This operation is atomic": in any interleaving of threads and dying actors
\* link_child, unlink_child, link_together and unlink_together take effect at
\* one instant between their call and their return, and a dying actor tells
\* exactly those that are in its map at one instant.
THEOREM TableImplemented == Spec => ImplementsTable
<1>1. IInv /\ [Next]_vars /\ IInv' => [Table!Next]_Table!tvars
  BY StepTable
<1> QED
  BY InitTable, Invariance, <1>1, PTL DEF Spec, ImplementsTable, Table!Spec

-----------------------------------------------------------------------------
(* Deadlocks.                                                              *)

\* Locks are taken and released by those that use them.
LEMMA InUseStep == IInv /\ InUse /\ [Next]_vars => InUse'
<1> SUFFICES ASSUME IInv, InUse, [Next]_vars PROVE InUse'
  OBVIOUS
<1> USE ProcAssumption
<1>1. CASE UNCHANGED vars
  BY <1>1 DEF vars, InUse, At
<1>2. ASSUME NEW t \in Thread, NEW r \in Request, Call(t, r) PROVE InUse'
  <2>1. /\ pc[t] = "idle" /\ owner' = owner
        /\ \A u \in Thread \ {t} : pc'[u] = pc[u] /\ request'[u] = request[u]
        /\ \A a \in Actor : pc'[a] = pc[a]
    BY <1>2 DEF Call, Goto, At, IInv, TypeOK
  <2> QED
    BY <2>1 DEF InUse, At
<1>3. ASSUME NEW t \in Thread, Operate(t) PROVE InUse'
  <2>1. /\ \A u \in Thread \ {t} : pc'[u] = pc[u] /\ request'[u] = request[u]
        /\ \A a \in Actor : pc'[a] = pc[a]
    BY <1>3, OthersStay
  <2> DEFINE r == request[t]
  <2>2. CASE LockThis(t)
    <3>1. /\ owner' = [owner EXCEPT ![r.this] = t] /\ request' = request
          /\ pc[t] = "lock_this" /\ pc'[t] \in {"lock_other", "write_this"}
          /\ owner \in [Actor -> Thread \cup Actor \cup {None}]
      BY <2>2 DEF LockThis, Lock, Goto, NextLock, At, IInv, TypeOK
    <3> QED
      BY <2>1, <3>1 DEF InUse, At
  <2>3. CASE LockOther(t)
    <3>1. /\ owner' = [owner EXCEPT ![r.other] = t] /\ request' = request
          /\ pc[t] = "lock_other" /\ pc'[t] = "write_this" /\ r.op \in TwoSided
          /\ owner \in [Actor -> Thread \cup Actor \cup {None}]
      BY <2>3 DEF LockOther, Lock, Goto, At, IInv, TypeOK, InOperation
    <3> QED
      BY <2>1, <3>1 DEF InUse, At
  <2>4. CASE WriteThis(t) \/ WriteOther(t)
    <3>1. CASE WriteOther(t)
      <4>1. /\ owner' = owner /\ request' = request
            /\ pc[t] = "write_other" /\ pc'[t] = "unlock_other"
        BY <3>1 DEF WriteOther, Goto, At, IInv, TypeOK
      <4> QED
        BY <2>1, <4>1 DEF InUse, At
    <3>2. CASE WriteThis(t)
      <4>1. /\ owner' = owner /\ request' = request /\ pc[t] = "write_this"
            /\ \/ pc'[t] = "write_other"
               \/ pc'[t] = "unlock_this" /\ r.op \notin TwoSided
        BY <3>2 DEF WriteThis, Goto, At, IInv, TypeOK
      <4> QED
        BY <2>1, <4>1 DEF InUse, At
    <3> QED
      BY <2>4, <3>1, <3>2
  <2>5. CASE UnlockOther(t)
    <3>1. /\ owner' = [owner EXCEPT ![r.other] = None] /\ request' = request
          /\ pc[t] = "unlock_other" /\ pc'[t] = "unlock_this"
          /\ owner \in [Actor -> Thread \cup Actor \cup {None}]
      BY <2>5 DEF UnlockOther, Unlock, Goto, At, IInv, TypeOK
    <3> QED
      BY <2>1, <3>1 DEF InUse, At
  <2>6. CASE UnlockThis(t)
    <3>1. /\ owner' = [owner EXCEPT ![r.this] = None]
          /\ pc[t] = "unlock_this"
          /\ owner \in [Actor -> Thread \cup Actor \cup {None}]
      BY <2>6 DEF UnlockThis, Unlock, Goto, At, IInv, TypeOK
    <3> QED
      BY <2>1, <3>1 DEF InUse, At
  <2> QED
    BY <1>3, <2>2, <2>3, <2>4, <2>5, <2>6 DEF Operate
<1>4. ASSUME NEW a \in Actor, Die(a) \/ Drain(a) PROVE InUse'
  <2> USE DEF InUse, IInv, TypeOK, At, Goto
  <2>1. CASE Die(a)
    BY <1>4, <2>1 DEF Die
  <2>2. CASE LockLinks(a)
    BY <1>4, <2>2 DEF LockLinks, Lock
  <2>3. ASSUME NEW b \in Actor, Tell(a, b) PROVE InUse'
    BY <2>3 DEF Tell
  <2>4. CASE UnlockLinks(a)
    BY <2>4 DEF UnlockLinks, Unlock
  <2> QED
    BY <1>4, <2>1, <2>2, <2>3, <2>4 DEF Drain
<1> QED
  BY <1>1, <1>2, <1>3, <1>4 DEF Next

\* Who waits in a circle for a lock that is held by one of the circle holds the
\* lock of one map, waits for that of another, and is in a two-sided operation.
LEMMA CircleIsOpposed == IInv /\ InUse => CircleOnlyIfOpposed
<1> SUFFICES ASSUME IInv, InUse, CircularWait PROVE Opposed
  BY DEF CircleOnlyIfOpposed
<1> USE ProcAssumption
<1>1. PICK P \in (SUBSET (Thread \cup Actor)) \ {{}} :
        \A p \in P : \E a \in Actor : WaitsFor(p, a) /\ owner[a] \in P
  BY DEF CircularWait
<1> DEFINE S == {a \in Actor : owner[a] \in P}
<1>2. S \in (SUBSET Actor) \ {{}}
  BY <1>1
<1>3. ASSUME NEW a \in S
      PROVE  \E t \in Thread : /\ request[t] # None /\ request[t].op \in TwoSided
                               /\ request[t].this = a /\ request[t].other \in S
  <2>1. owner[a] \in P /\ owner[a] # None /\ a \in Actor
    BY <1>1
  <2>2. PICK b \in Actor : WaitsFor(owner[a], b) /\ owner[b] \in P
    BY <1>1, <2>1
  <2>3. PICK t \in Thread :
          /\ owner[a] = t
          /\ \/ request[t].this = a
             \/ request[t].other = a /\ pc[t] \in {"write_this", "write_other", "unlock_other"}
          /\ pc[t] \in {"lock_other", "write_this", "write_other", "unlock_other", "unlock_this"}
    <3>1. CASE owner[a] = a /\ At(a, "draining")
      BY <2>1, <2>2, <3>1 DEF WaitsFor, At
    <3>2. CASE ~(owner[a] = a /\ At(a, "draining"))
      BY <2>1, <3>2 DEF InUse
    <3> QED
      BY <3>1, <3>2
  <2>4. At(t, "lock_other") /\ request[t].other = b /\ request[t].this = a
    BY <2>2, <2>3 DEF WaitsFor, At
  <2>5. request[t] \in Request /\ request[t].op \in TwoSided
    BY <2>4 DEF IInv, InOperation, At
  <2> QED
    BY <2>2, <2>4, <2>5, NoneAssumption
<1> HIDE DEF S
<1> QED
  BY <1>2, <1>3 DEF Opposed

\* A deadlock around the links, of any number of threads and dying actors, has
\* one cause: link_together and unlink_together in opposite directions around
\* a circle of actors.  No dying actor, and no one-sided operation, is part of
\* one.
THEOREM DeadlockHasOneCause == Spec => []CircleOnlyIfOpposed
<1>1. Init => InUse
  BY DEF Init, InUse
<1> QED
  BY <1>1, InUseStep, CircleIsOpposed, Invariance, PTL DEF Spec

=============================================================================
