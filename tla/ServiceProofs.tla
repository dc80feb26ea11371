---------------------------- MODULE ServiceProofs ----------------------------
(***************************************************************************)
(* What follows from the promises of Service alone, and so holds of every  *)
(* actor that keeps them: in which order its senders are answered, and     *)
(* that it owes nobody an answer when it is over.                          *)
(***************************************************************************)
EXTENDS Service, Integers, TLAPS

\* Messages are told from the other signals, and from what is none.
Distinct ==
  /\ ReadOnly \subseteq Msg
  /\ Msg \cap (Peer \cup {Stop, None, Recovery}) = {}

\* Answers come in the order of the log: whoever sent a message before one
\* that has its reply has an answer too, unless the two are reads.
AnswersInOrder ==
  \A i, j \in 1..Len(log) :
    /\ i < j /\ log[i] \in Msg /\ log[j] \in Msg
    /\ log[i] \in Msg \ ReadOnly \/ log[j] \in Msg \ ReadOnly
    /\ outcome[log[j]] = "replied"
    => outcome[log[i]] # "pending"

\* When it is over the actor owes nobody an answer.
NothingOwed == phase = "over" => \A m \in Msg : outcome[m] # "pending"

-----------------------------------------------------------------------------
(* The invariant.                                                          *)

Outcomes == {"unsent", "sent", "pending", "replied", "stopped", "not_running", "given_up"}

Typed ==
  /\ log \in Seq(Signals) /\ next \in 1..(Len(log) + 1)
  /\ reading \subseteq ReadOnly /\ alone \notin ReadOnly
  /\ outcome \in [Msg -> Outcomes]

\* Being handled; and that, or answered.
Busy(m)   == m \in reading \/ m = alone
Served(m) == Busy(m) \/ outcome[m] = "replied"

SentOnce ==
  /\ \A i \in 1..Len(log) : log[i] \in Msg => outcome[log[i]] # "unsent"
  /\ \A i, j \in 1..Len(log) : log[i] \in Msg /\ log[i] = log[j] => i = j

\* Only what has begun is served, and who is owed an answer waits or is served.
ServedBegun ==
  \A m \in Msg : Served(m) => \E i \in 1..Len(log) : log[i] = m /\ i < next
Owed ==
  \A m \in Msg : outcome[m] = "pending" =>
    Busy(m) \/ \E i \in 1..Len(log) : log[i] = m /\ i >= next

\* What comes before something served, and is not a read beside a read, is over.
InTurn ==
  \A i, j \in 1..Len(log) :
    /\ i < j /\ log[i] \in Msg /\ log[j] \in Msg
    /\ log[i] \notin ReadOnly \/ log[j] \notin ReadOnly
    /\ Served(log[j])
    => ~Busy(log[i])

\* What is closed has nothing waiting, and what is over handles nothing.
Emptied ==
  /\ phase \in {"closed", "over"} => next = Len(log) + 1 /\ alone = None
  /\ phase = "over" => reading = {}

SInv == Typed /\ SentOnce /\ ServedBegun /\ Owed /\ InTurn /\ Emptied

\* Something served has begun before anything that waits.
LEMMA ServedFirst ==
  ASSUME SInv, NEW i \in 1..Len(log), log[i] \in Msg, Served(log[i])
  PROVE  i < next
<1>1. PICK k \in 1..Len(log) : log[k] = log[i] /\ k < next
  BY DEF SInv, ServedBegun
<1> QED
  BY <1>1 DEF SInv, SentOnce

-----------------------------------------------------------------------------
(* The steps.                                                              *)

\* Handling ends, replies come of what was handled, and what is passed over
\* without being handled is answered: nothing changes the order of answers.
LEMMA Ending ==
  ASSUME SInv, Distinct, UNCHANGED log, next' \in next..(Len(log) + 1),
         reading' \subseteq reading, alone' \in {alone, None, Recovery},
         outcome' \in [Msg -> Outcomes],
         \A m \in Msg : /\ outcome'[m] = "unsent" => outcome[m] = "unsent"
                        /\ outcome'[m] = "pending" => outcome[m] = "pending"
                        /\ outcome'[m] = "pending" /\ Busy(m) => Busy(m)'
                        /\ outcome'[m] = "replied" => Served(m),
         \A i \in 1..Len(log) :
           next <= i /\ i < next' /\ log[i] \in Msg => outcome'[log[i]] # "pending",
         Emptied'
  PROVE  SInv'
<1> USE DEF SInv, Typed
<1>0. /\ Len(log) \in Nat /\ next \in Nat /\ next' \in Nat
      /\ next <= next' /\ next' <= Len(log) + 1 /\ 1 <= next
  OBVIOUS
<1>1. /\ \A m \in Msg : Busy(m)' => Busy(m)
      /\ \A m \in Msg : Served(m)' => Served(m)
  BY DEF Busy, Served, Distinct
<1>2. Typed'
  BY DEF Distinct
<1>3. SentOnce'
  BY DEF SentOnce
<1>4. ServedBegun'
  <2> SUFFICES ASSUME NEW m \in Msg, Served(m)' PROVE \E i \in 1..Len(log') : log'[i] = m /\ i < next'
    BY DEF ServedBegun
  <2>1. PICK i \in 1..Len(log) : log[i] = m /\ i < next
    BY <1>1 DEF ServedBegun
  <2> QED
    BY <1>0, <2>1
<1>5. Owed'
  <2> SUFFICES ASSUME NEW m \in Msg, outcome'[m] = "pending", ~Busy(m)'
               PROVE  \E i \in 1..Len(log') : log'[i] = m /\ i >= next'
    BY DEF Owed
  <2>1. outcome[m] = "pending" /\ ~Busy(m)
    OBVIOUS
  <2>2. PICK i \in 1..Len(log) : log[i] = m /\ i >= next
    BY <2>1 DEF Owed
  <2>3. i >= next'
    BY <1>0, <2>2
  <2> QED
    BY <2>2, <2>3
<1>6. InTurn'
  BY <1>1 DEF InTurn
<1> QED
  BY <1>2, <1>3, <1>4, <1>5, <1>6

\* A signal that is next begins: a read when nothing is handled alone, and
\* anything else when nothing at all is handled.
LEMMA Beginning ==
  ASSUME SInv, Distinct, NEW s, Begin(s), UNCHANGED <<phase, log, outcome>>,
         \/ s \in ReadOnly /\ reading' = reading \cup {s} /\ UNCHANGED alone
         \/ s \notin ReadOnly /\ reading = {} /\ reading' = {} /\ alone' = s
  PROVE  SInv'
<1> USE DEF SInv, Typed
<1>1. /\ phase = "running" /\ alone = None /\ next \in 1..Len(log) /\ log[next] = s
      /\ next' = next + 1
  BY DEF Begin
<1>2. \A m \in Msg : /\ Busy(m)' <=> Busy(m) \/ m = s
                     /\ Served(m)' <=> Served(m) \/ m = s
  BY <1>1 DEF Busy, Served, Distinct
<1>3. Typed' /\ SentOnce' /\ Emptied'
  BY <1>1 DEF SentOnce, Emptied
<1>4. ServedBegun'
  <2> SUFFICES ASSUME NEW m \in Msg, Served(m)' PROVE \E i \in 1..Len(log') : log'[i] = m /\ i < next'
    BY DEF ServedBegun
  <2>1. CASE m = s
    <3>1. next < next' /\ next \in 1..Len(log') /\ log'[next] = m
      BY <1>1, <2>1
    <3> QED
      BY <3>1
  <2>2. CASE Served(m)
    <3>1. PICK i \in 1..Len(log) : log[i] = m /\ i < next
      BY <2>2 DEF ServedBegun
    <3> QED
      BY <1>1, <3>1
  <2> QED
    BY <1>2, <2>1, <2>2
<1>5. Owed'
  <2> SUFFICES ASSUME NEW m \in Msg, outcome'[m] = "pending", ~Busy(m)'
               PROVE  \E i \in 1..Len(log') : log'[i] = m /\ i >= next'
    BY DEF Owed
  <2>1. ~Busy(m) /\ m # s
    BY <1>2
  <2>2. PICK i \in 1..Len(log) : log[i] = m /\ i >= next
    BY <2>1 DEF Owed
  <2> QED
    BY <1>1, <2>1, <2>2
<1>6. InTurn'
  <2> SUFFICES ASSUME NEW i \in 1..Len(log), NEW j \in 1..Len(log), i < j,
                      log[i] \in Msg, log[j] \in Msg,
                      log[i] \notin ReadOnly \/ log[j] \notin ReadOnly,
                      Served(log[j])'
               PROVE  ~Busy(log[i])'
    BY DEF InTurn
  <2>1. CASE Served(log[j])
    <3>1. j < next
      BY <2>1, ServedFirst
    <3>2. log[i] # s
      BY <1>1, <3>1 DEF SentOnce
    <3> QED
      BY <1>2, <2>1, <3>2 DEF InTurn
  <2>2. CASE log[j] = s
    <3>1. j = next
      BY <1>1, <2>2 DEF SentOnce
    <3>2. log[i] # s
      BY <1>1, <3>1 DEF SentOnce
    <3>3. ~Busy(log[i])
      BY <1>1, <2>2 DEF Busy, Distinct
    <3> QED
      BY <1>2, <3>2, <3>3
  <2> QED
    BY <1>2, <2>1, <2>2
<1> QED
  BY <1>3, <1>4, <1>5, <1>6

\* What is accepted comes last in the log, and nothing of it has begun.
LEMMA Accepting1 ==
  ASSUME SInv, Distinct, Accepting, NEW s \in Signals, log' = Append(log, s),
         UNCHANGED <<phase, next, reading, alone>>,
         \/ /\ s \in Msg /\ outcome[s] = "unsent"
            /\ \E o \in {"pending", "sent"} : outcome' = [outcome EXCEPT ![s] = o]
         \/ s \notin Msg /\ UNCHANGED outcome
  PROVE  SInv'
<1> USE DEF SInv, Typed
<1>1. /\ log' \in Seq(Signals) /\ Len(log') = Len(log) + 1 /\ log'[Len(log) + 1] = s
      /\ Len(log) \in Nat
      /\ \A i \in 1..Len(log) : log'[i] = log[i]
  OBVIOUS
<1>2. /\ \A m \in Msg \ {s} : outcome'[m] = outcome[m]
      /\ s \in Msg => outcome[s] = "unsent" /\ outcome'[s] \in {"pending", "sent"}
      /\ outcome' \in [Msg -> Outcomes]
  BY DEF Outcomes
<1>3. \A i \in 1..Len(log) : log[i] \in Msg => log[i] # s
  BY <1>2 DEF SentOnce
<1>4. s \in Msg => ~Served(s)
  <2> SUFFICES ASSUME s \in Msg, Served(s) PROVE FALSE
    OBVIOUS
  <2>1. PICK i \in 1..Len(log) : log[i] = s /\ i < next
    BY DEF ServedBegun
  <2> QED
    BY <1>3, <2>1
<1>5. \A m \in Msg : (Busy(m)' <=> Busy(m)) /\ (Served(m)' <=> Served(m))
  BY <1>2, <1>4 DEF Busy, Served
<1>6. Typed' /\ Emptied'
  BY <1>1, <1>2 DEF Emptied, Accepting
<1>7. SentOnce'
  BY <1>1, <1>2, <1>3 DEF SentOnce
<1>8. ServedBegun'
  <2> SUFFICES ASSUME NEW m \in Msg, Served(m)' PROVE \E i \in 1..Len(log') : log'[i] = m /\ i < next'
    BY DEF ServedBegun
  <2>1. PICK i \in 1..Len(log) : log[i] = m /\ i < next
    BY <1>5 DEF ServedBegun
  <2> QED
    BY <1>1, <2>1
<1>9. Owed'
  <2> SUFFICES ASSUME NEW m \in Msg, outcome'[m] = "pending", ~Busy(m)'
               PROVE  \E i \in 1..Len(log') : log'[i] = m /\ i >= next'
    BY DEF Owed
  <2>1. CASE m = s
    <3>1. Len(log) + 1 \in 1..Len(log') /\ Len(log) + 1 >= next'
      BY <1>1
    <3> QED
      BY <1>1, <2>1, <3>1
  <2>2. CASE m # s
    <3>1. PICK i \in 1..Len(log) : log[i] = m /\ i >= next
      BY <1>2, <1>5, <2>2 DEF Owed
    <3>2. i \in 1..Len(log') /\ i >= next' /\ log'[i] = m
      BY <1>1, <3>1
    <3> QED
      BY <3>2
  <2> QED
    BY <2>1, <2>2
<1>10. InTurn'
  <2> SUFFICES ASSUME NEW i \in 1..Len(log'), NEW j \in 1..Len(log'), i < j,
                      log'[i] \in Msg, log'[j] \in Msg,
                      log'[i] \notin ReadOnly \/ log'[j] \notin ReadOnly,
                      Served(log[j])'
               PROVE  ~Busy(log[i])'
    BY DEF InTurn
  <2>1. i \in 1..Len(log) /\ log'[i] = log[i]
    BY <1>1
  <2>2. j \in 1..Len(log) /\ log'[j] = log[j]
    <3>1. j # Len(log) + 1
      BY <1>1, <1>4, <1>5
    <3> QED
      BY <1>1, <3>1
  <2>3. Served(log'[j]) /\ (Busy(log'[i]) <=> Busy(log[i])')
    BY <1>5, <2>2 DEF Busy, Served
  <2> QED
    BY <2>1, <2>2, <2>3 DEF InTurn
<1> QED
  BY <1>6, <1>7, <1>8, <1>9, <1>10

\* Whatever is handled is settled one way or the other.
LEMMA SettledAnswers ==
  ASSUME Typed, NEW m, Settled(m, outcome')
  PROVE  /\ outcome' \in [Msg -> Outcomes]
         /\ \A n \in Msg : n # m => outcome'[n] = outcome[n]
         /\ m \in Msg => /\ outcome'[m] # "pending"
                         /\ outcome'[m] = "unsent" => outcome[m] = "unsent"
  BY DEF Typed, Settled, Outcomes

LEMMA DroppedAnswers ==
  ASSUME Typed, NEW S, outcome' = Dropped(S)
  PROVE  /\ outcome' \in [Msg -> Outcomes]
         /\ \A n \in Msg : /\ outcome'[n] = "unsent" => outcome[n] = "unsent"
                           /\ outcome'[n] = "pending" => outcome[n] = "pending" /\ n \notin S
                           /\ outcome'[n] = "replied" => outcome[n] = "replied"
  BY DEF Typed, Dropped, Outcomes

\* The actor decides to stop, or its mailbox goes.
LEMMA LeavingSInv ==
  ASSUME SInv, Distinct, Decide \/ Close
  PROVE  SInv'
<1> USE DEF SInv, Typed
<1>1. CASE Decide
  <2>1. /\ next' \in next..(Len(log) + 1) /\ alone' = None
        /\ UNCHANGED <<log, reading>> /\ Emptied'
    BY <1>1 DEF Decide, Emptied
  <2> DEFINE passed == {log[i] : i \in next..(next' - 1)}
  <2>2. \A i \in 1..Len(log) : next <= i /\ i < next' => log[i] \in passed
    <3> SUFFICES ASSUME NEW i \in 1..Len(log), next <= i, i < next' PROVE log[i] \in passed
      OBVIOUS
    <3>1. next' = next \/ next' = next + 1
      BY <1>1 DEF Decide
    <3>2. next' = next + 1 /\ i = next
      BY <3>1
    <3>3. next..(next' - 1) = {next}
      BY <3>2
    <3> QED
      BY <3>2, <3>3
  <2>5. outcome' = Dropped({alone} \cup passed)
    BY <1>1 DEF Decide
  <2> HIDE DEF passed
  <2>3. \A m \in Msg : /\ outcome'[m] = "unsent" => outcome[m] = "unsent"
                       /\ outcome'[m] = "pending" => outcome[m] = "pending"
                       /\ outcome'[m] = "pending" /\ Busy(m) => Busy(m)'
                       /\ outcome'[m] = "replied" => Served(m)
    BY <2>1, <2>5, DroppedAnswers DEF Busy, Served
  <2>4. \A i \in 1..Len(log) :
           next <= i /\ i < next' /\ log[i] \in Msg => outcome'[log[i]] # "pending"
    BY <2>2, <2>5, DroppedAnswers
  <2> QED
    BY <2>1, <2>3, <2>4, <2>5, DroppedAnswers, Ending
<1>2. CASE Close
  <2>1. /\ next' = Len(log) + 1 /\ alone' = None
        /\ outcome' = Dropped({alone} \cup Waiting)
        /\ UNCHANGED <<log, reading>> /\ Emptied'
    BY <1>2 DEF Close, Emptied
  <2>2. \A i \in 1..Len(log) : next <= i /\ i < next' => log[i] \in Waiting
    BY <2>1 DEF Waiting
  <2>3. \A m \in Msg : /\ outcome'[m] = "unsent" => outcome[m] = "unsent"
                       /\ outcome'[m] = "pending" => outcome[m] = "pending"
                       /\ outcome'[m] = "pending" /\ Busy(m) => Busy(m)'
                       /\ outcome'[m] = "replied" => Served(m)
    BY <2>1, DroppedAnswers DEF Busy, Served
  <2>4. \A i \in 1..Len(log) :
           next <= i /\ i < next' /\ log[i] \in Msg => outcome'[log[i]] # "pending"
    BY <2>1, <2>2, DroppedAnswers
  <2>5. next' \in next..(Len(log) + 1)
    BY <2>1
  <2> QED
    BY <2>1, <2>3, <2>4, <2>5, DroppedAnswers, Ending
<1> QED
  BY <1>1, <1>2

LEMMA SInvStep == Distinct /\ SInv /\ [Next]_svars => SInv'
<1> SUFFICES ASSUME Distinct, SInv, [Next]_svars PROVE SInv'
  OBVIOUS
<1> USE DEF SInv, Typed
<1>1. ASSUME NEW m \in Msg, Send(m) PROVE SInv'
  <2>1. CASE Accepting
    <3>1. /\ \E o \in {"pending", "sent"} : outcome' = [outcome EXCEPT ![m] = o]
          /\ outcome[m] = "unsent" /\ log' = Append(log, m)
          /\ UNCHANGED <<phase, next, reading, alone>>
      BY <1>1, <2>1 DEF Send
    <3>2. m \in Signals
      BY DEF Signals
    <3> QED
      BY <2>1, <3>1, <3>2, Accepting1
  <2>2. CASE ~Accepting
    <3>1. /\ outcome' = [outcome EXCEPT ![m] = "not_running"] /\ outcome[m] = "unsent"
          /\ UNCHANGED <<phase, log, next, reading, alone>>
      BY <1>1, <2>2 DEF Send
    <3>2. outcome' \in [Msg -> Outcomes]
      BY <3>1 DEF Outcomes
    <3>3. Emptied' /\ next' \in next..(Len(log) + 1)
      BY <3>1 DEF Emptied
    <3>4. \A n \in Msg : outcome'[n] = IF n = m THEN "not_running" ELSE outcome[n]
      BY <3>1
    <3> QED
      BY <3>1, <3>2, <3>3, <3>4, Ending DEF Busy, Served
  <2> QED
    BY <2>1, <2>2
<1>2. ASSUME NEW m \in Msg, GiveUp(m) PROVE SInv'
  <2>1. /\ outcome' = [outcome EXCEPT ![m] = "given_up"] /\ outcome[m] = "pending"
        /\ UNCHANGED <<phase, log, next, reading, alone>>
    BY <1>2 DEF GiveUp
  <2>2. outcome' \in [Msg -> Outcomes]
    BY <2>1 DEF Outcomes
  <2>3. Emptied' /\ next' \in next..(Len(log) + 1)
    BY <2>1 DEF Emptied
  <2>4. \A n \in Msg : outcome'[n] = IF n = m THEN "given_up" ELSE outcome[n]
    BY <2>1
  <2> QED
    BY <2>1, <2>2, <2>3, <2>4, Ending DEF Busy, Served
<1>3. ASSUME NEW s \in Peer \cup {Stop}, SendSignal(s) PROVE SInv'
  BY <1>3, Accepting1 DEF SendSignal, Signals, Distinct
<1>4. CASE Start \/ Finish
  <2>1. UNCHANGED <<log, next, reading, alone, outcome>> /\ Emptied'
    BY <1>4 DEF Start, Finish, Emptied
  <2> QED
    BY <2>1, Ending DEF Busy, Served
<1>5. ASSUME NEW m \in ReadOnly, BeginRead(m) PROVE SInv'
  BY <1>5, Beginning DEF BeginRead
<1>6. ASSUME NEW m \in ReadOnly, EndRead(m) PROVE SInv'
  <2>1. /\ m \in reading /\ reading' = reading \ {m} /\ Settled(m, outcome')
        /\ UNCHANGED <<phase, log, next, alone>>
    BY <1>6 DEF EndRead
  <2>2. Emptied' /\ next' \in next..(Len(log) + 1)
    BY <2>1 DEF Emptied
  <2>3. \A n \in Msg : n # m => outcome'[n] = outcome[n] /\ (Busy(n) => Busy(n)')
    BY <2>1, SettledAnswers DEF Busy
  <2>4. m \in Msg /\ Served(m)
    BY <2>1 DEF Busy, Served, Distinct
  <2> QED
    BY <2>1, <2>2, <2>3, <2>4, SettledAnswers, Ending DEF Served
<1>7. ASSUME NEW s \in Signals \ (ReadOnly \cup {Stop}), BeginAlone(s) PROVE SInv'
  BY <1>7, Beginning DEF BeginAlone
<1>8. CASE EndAlone
  <2>1. /\ phase = "running" /\ alone' \in {None, Recovery} /\ Settled(alone, outcome')
        /\ UNCHANGED <<phase, log, next, reading>>
    BY <1>8 DEF EndAlone
  <2>2. Emptied' /\ next' \in next..(Len(log) + 1)
    BY <2>1 DEF Emptied
  <2>3. \A n \in Msg : n # alone => outcome'[n] = outcome[n] /\ (Busy(n) => Busy(n)')
    BY <2>1, SettledAnswers DEF Busy
  <2>4. Served(alone)
    BY DEF Busy, Served
  <2> QED
    BY <2>1, <2>2, <2>3, <2>4, SettledAnswers, Ending DEF Served
<1>9. CASE UNCHANGED svars
  BY <1>9 DEF svars, SentOnce, ServedBegun, Owed, InTurn, Emptied, Busy, Served
<1> QED
  BY <1>1, <1>2, <1>3, <1>4, <1>5, <1>6, <1>7, <1>8, <1>9, LeavingSInv DEF Next

-----------------------------------------------------------------------------

\* What is served is served in its turn, in every reachable state.
THEOREM SInvariance == ASSUME Distinct PROVE Spec => []SInv
<1>1. Init => SInv
  BY DEF Distinct, Init, SInv, Typed, SentOnce, ServedBegun, Owed, InTurn, Emptied, Busy,
         Served, Outcomes
<1> QED
  BY <1>1, SInvStep, PTL DEF Spec

\* Whoever sent a message before one that has its reply has an answer too,
\* unless the two are reads, which are handled side by side.
THEOREM InOrder == ASSUME Distinct PROVE Spec => []AnswersInOrder
<1>1. SInv => AnswersInOrder
  <2> SUFFICES ASSUME SInv, NEW i \in 1..Len(log), NEW j \in 1..Len(log), i < j,
                      log[i] \in Msg, log[j] \in Msg,
                      log[i] \notin ReadOnly \/ log[j] \notin ReadOnly,
                      outcome[log[j]] = "replied", outcome[log[i]] = "pending"
               PROVE  FALSE
    BY DEF AnswersInOrder
  <2>1. Served(log[j]) /\ i < next
    BY ServedFirst DEF Served, SInv, Typed
  <2>2. Busy(log[i])
    <3> SUFFICES ASSUME ~Busy(log[i]) PROVE FALSE
      OBVIOUS
    <3>1. PICK k \in 1..Len(log) : log[k] = log[i] /\ k >= next
      BY DEF SInv, Owed
    <3> QED
      BY <2>1, <3>1 DEF SInv, SentOnce, Typed
  <2> QED
    BY <2>1, <2>2 DEF SInv, InTurn
<1> QED
  BY <1>1, SInvariance, PTL

\* When the actor is over nobody waits for an answer.
THEOREM OverOwesNothing == ASSUME Distinct PROVE Spec => []NothingOwed
<1>1. SInv => NothingOwed
  BY DEF Distinct, SInv, Typed, Owed, Emptied, Busy, NothingOwed
<1> QED
  BY <1>1, SInvariance, PTL

=============================================================================
