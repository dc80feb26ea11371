----------------------- MODULE ExtractMessagesProofs -----------------------
(***************************************************************************)
(* Proof that extract_messages takes one message attribute off each method *)
(* that has one, whatever the impl block.                                  *)
(*                                                                         *)
(* Half way through a method, what was kept is its attributes up to here,  *)
(* but for the one that was taken.  Half way through the block, all that   *)
(* MarkedOnce says of the end holds of the methods passed.                 *)
(***************************************************************************)
EXTENDS ExtractMessages, FiniteSetTheorems, SequenceTheorems, TLAPS

TypeOK ==
  /\ impl \in Impl
  /\ next \in 1..(Len(impl) + 1)
  /\ attr \in Nat
  /\ next \in DOMAIN impl => attr <= Len(impl[next].attrs) + 1
  /\ next \notin DOMAIN impl => attr = 0
  /\ has_message \in BOOLEAN
  /\ infallible \in BOOLEAN
  /\ kept \in Seq(Seq(Attribute))
  /\ Len(kept) = IF attr = 0 THEN next - 1 ELSE next
  /\ messages \in Seq([method : ToSet(impl), infallible : BOOLEAN])
  /\ errors \in Nat

\* The attributes of the n-th method up to the m-th without the k-th.
Without(n, k, m) ==
  SubSeq(impl[n].attrs, 1, k - 1) \o SubSeq(impl[n].attrs, k + 1, m)

\* Whether the handler of method n is infallible if its k-th attribute counts.
Infallible(n, k) == impl[n].returns => impl[n].attrs[k] = "message(infallible)"

\* The method that is looked at, up to the attribute that is looked at.
Halfway ==
  attr > 0 =>
    IF has_message
    THEN \E k \in 1..(attr - 1) :
           /\ MarkedBy(next, k)
           /\ kept[next] = Without(next, k, attr - 1)
           /\ infallible = Infallible(next, k)
    ELSE /\ \A k \in 1..(attr - 1) : ~IsMessage(impl[next].attrs[k])
         /\ kept[next] = SubSeq(impl[next].attrs, 1, attr - 1)
         /\ infallible = ~impl[next].returns

\* A bad attribute was taken off this method already.
BadHere ==
  \E k \in 1..(attr - 1) : MarkedBy(next, k) /\ impl[next].attrs[k] = "message(?)"

Counted ==
  /\ errors = Cardinality(BadBefore(next)) + (IF BadHere THEN 1 ELSE 0)
  /\ Len(messages) = Cardinality(MarkedBefore(next))

\* A method that was passed, and the attribute that was taken off it.
Extracted(i, k) ==
  /\ MarkedBy(i, k)
  /\ kept[i] = RemoveAt(impl[i].attrs, k)
  /\ messages[Cardinality(MarkedBefore(i)) + 1] =
       [method |-> impl[i], infallible |-> Infallible(i, k)]

Passed ==
  \A i \in 1..(next - 1) :
    IF i \in MarkedBefore(next)
    THEN \E k \in DOMAIN impl[i].attrs : Extracted(i, k)
    ELSE kept[i] = impl[i].attrs

IInv == TypeOK /\ Halfway /\ Counted /\ Passed

-----------------------------------------------------------------------------
(* What is known of the impl block, and of the methods counted so far.     *)

LEMMA Block ==
  ASSUME TypeOK
  PROVE  /\ impl \in Seq(ToSet(impl)) /\ Len(impl) \in Nat /\ DOMAIN impl = 1..Len(impl)
         /\ \A i \in DOMAIN impl :
              /\ impl[i].attrs \in Seq(Attribute) /\ impl[i].returns \in BOOLEAN
              /\ Len(impl[i].attrs) \in Nat /\ DOMAIN impl[i].attrs = 1..Len(impl[i].attrs)
<1>1. /\ impl \in Seq(ToSet(impl))
      /\ \A i \in DOMAIN impl :
           impl[i].attrs \in Seq(Attribute) /\ impl[i].returns \in BOOLEAN
  BY ImplAssumption DEF TypeOK
<1>2. Len(impl) \in Nat /\ DOMAIN impl = 1..Len(impl)
  BY <1>1
<1> QED
  BY <1>1, <1>2

\* A method has one first message attribute.
LEMMA OneMark ==
  ASSUME TypeOK, NEW i \in DOMAIN impl, NEW k, NEW l, MarkedBy(i, k), MarkedBy(i, l)
  PROVE  k = l
<1>1. k \in Nat /\ l \in Nat /\ k >= 1 /\ l >= 1
  BY Block DEF MarkedBy
<1>2. ~(k < l) /\ ~(l < k)
  BY <1>1 DEF MarkedBy
<1> QED
  BY <1>1, <1>2

\* The sets that are counted are finite, and grow by the method passed.
LEMMA Grow ==
  ASSUME TypeOK, NEW n \in DOMAIN impl
  PROVE  /\ IsFiniteSet(MarkedBefore(n)) /\ IsFiniteSet(BadBefore(n))
         /\ n \notin MarkedBefore(n) /\ n \notin BadBefore(n)
         /\ MarkedBefore(n + 1) =
              IF \E k \in DOMAIN impl[n].attrs : MarkedBy(n, k)
              THEN MarkedBefore(n) \cup {n} ELSE MarkedBefore(n)
         /\ BadBefore(n + 1) =
              IF \E k \in DOMAIN impl[n].attrs :
                   MarkedBy(n, k) /\ impl[n].attrs[k] = "message(?)"
              THEN BadBefore(n) \cup {n} ELSE BadBefore(n)
<1>1. n \in Nat /\ n >= 1
  BY Block
<1>2. 1..n = (1..(n - 1)) \cup {n} /\ n \notin 1..(n - 1) /\ 1..((n + 1) - 1) = 1..n
  BY <1>1
<1>3. IsFiniteSet(1..(n - 1))
  BY <1>1, FS_Interval
<1>4. MarkedBefore(n) \subseteq 1..(n - 1) /\ BadBefore(n) \subseteq 1..(n - 1)
  BY DEF MarkedBefore, BadBefore
<1>5. IsFiniteSet(MarkedBefore(n)) /\ IsFiniteSet(BadBefore(n))
  BY <1>3, <1>4, FS_Subset
<1>6. MarkedBefore(n + 1) =
        IF \E k \in DOMAIN impl[n].attrs : MarkedBy(n, k)
        THEN MarkedBefore(n) \cup {n} ELSE MarkedBefore(n)
  BY <1>2 DEF MarkedBefore
<1>7. BadBefore(n + 1) =
        IF \E k \in DOMAIN impl[n].attrs :
             MarkedBy(n, k) /\ impl[n].attrs[k] = "message(?)"
        THEN BadBefore(n) \cup {n} ELSE BadBefore(n)
  BY <1>2 DEF BadBefore
<1> QED
  BY <1>2, <1>4, <1>5, <1>6, <1>7

\* The number of marked methods before a method that was passed and is marked
\* is the index of a message already there.
LEMMA Placed ==
  ASSUME TypeOK, next \in DOMAIN impl, NEW i \in MarkedBefore(next)
  PROVE  Cardinality(MarkedBefore(i)) + 1 \in 1..Cardinality(MarkedBefore(next))
<1>1. i \in Nat /\ i >= 1 /\ i <= next - 1 /\ next \in Nat /\ i \in DOMAIN impl
  BY Block DEF MarkedBefore, TypeOK
<1>2. \E k \in DOMAIN impl[i].attrs : MarkedBy(i, k)
  BY DEF MarkedBefore
<1>3. MarkedBefore(i + 1) = MarkedBefore(i) \cup {i} /\ i \notin MarkedBefore(i)
      /\ IsFiniteSet(MarkedBefore(i))
  BY <1>1, <1>2, Grow
<1>4. 1..((i + 1) - 1) \subseteq 1..(next - 1)
  BY <1>1
<1>5. MarkedBefore(i + 1) \subseteq MarkedBefore(next)
  BY <1>4 DEF MarkedBefore
<1>6. IsFiniteSet(MarkedBefore(next))
  BY Grow
<1>7. Cardinality(MarkedBefore(i + 1)) <= Cardinality(MarkedBefore(next))
  BY <1>5, <1>6, FS_Subset
<1>8. Cardinality(MarkedBefore(i + 1)) = Cardinality(MarkedBefore(i)) + 1
  BY <1>3, FS_AddElement
<1>9. Cardinality(MarkedBefore(i)) \in Nat /\ Cardinality(MarkedBefore(next)) \in Nat
  BY <1>3, <1>6, FS_CardinalityType
<1> QED
  BY <1>7, <1>8, <1>9

-----------------------------------------------------------------------------
(* The attributes that were kept, one more.                                *)

LEMMA SubSeqAppend ==
  ASSUME NEW S, NEW s \in Seq(S), NEW m \in 1..Len(s), NEW a \in 1..m
  PROVE  Append(SubSeq(s, a, m - 1), s[m]) = SubSeq(s, a, m)
<1>1. a \in 1..Len(s) /\ m \in a..Len(s) /\ s[m] \in S /\ Len(s) \in Nat
  OBVIOUS
<1>2. SubSeq(s, a, m) = SubSeq(s, a, m - 1) \o <<s[m]>>
  BY <1>1, SubSeqRecursiveSecond, Zenon
<1>3. SubSeq(s, a, m - 1) \in Seq(S)
  BY <1>1
<1> QED
  BY <1>1, <1>2, <1>3, AppendIsConcat, Zenon

\* The elements of a sequence up to the m-th, but for the k-th.
LEMMA WithoutOne ==
  ASSUME NEW S, NEW s \in Seq(S), NEW m \in 1..Len(s), NEW k \in 1..m
  PROVE  LET w == SubSeq(s, 1, k - 1) \o SubSeq(s, k + 1, m)
         IN  /\ w \in Seq(S) /\ Len(w) = m - 1
             /\ \A i \in 1..(m - 1) : w[i] = IF i < k THEN s[i] ELSE s[i + 1]
<1>1. PICK p \in Seq(S), q \in Seq(S) : p = SubSeq(s, 1, k - 1) /\ q = SubSeq(s, k + 1, m)
  <2>1. SubSeq(s, 1, k - 1) \in Seq(S) /\ SubSeq(s, k + 1, m) \in Seq(S)
    OBVIOUS
  <2> QED
    BY <2>1, Zenon
<1>2. Len(p) = k - 1 /\ Len(q) = m - k
  BY <1>1
<1>3. /\ \A i \in 1..(k - 1) : p[i] = s[i]
      /\ \A i \in 1..(m - k) : q[i] = s[k + i]
  BY <1>1
<1>4. /\ p \o q \in Seq(S) /\ Len(p \o q) = Len(p) + Len(q)
      /\ \A i \in 1..(Len(p) + Len(q)) :
           (p \o q)[i] = IF i <= Len(p) THEN p[i] ELSE q[i - Len(p)]
  BY ConcatProperties, Zenon
<1>5. \A i \in 1..(m - 1) : (p \o q)[i] = IF i < k THEN s[i] ELSE s[i + 1]
  <2> TAKE i \in 1..(m - 1)
  <2>1. i \in 1..(Len(p) + Len(q)) /\ (i <= Len(p) <=> i < k)
    BY <1>2
  <2>2. CASE i < k
    <3>1. i \in 1..(k - 1)
      BY <2>2
    <3> QED
      BY <1>3, <1>4, <2>1, <2>2, <3>1
  <2>3. CASE ~(i < k)
    <3>1. i - Len(p) \in 1..(m - k) /\ k + (i - Len(p)) = i + 1
      BY <1>2, <2>3
    <3>2. q[i - Len(p)] = s[i + 1]
      BY <1>3, <3>1
    <3>3. (p \o q)[i] = q[i - Len(p)]
      BY <1>4, <2>1, <2>3
    <3> QED
      BY <2>3, <3>2, <3>3
  <2> QED
    BY <2>2, <2>3
<1>6. Len(p \o q) = m - 1
  BY <1>2, <1>4
<1> QED
  BY <1>1, <1>4, <1>5, <1>6

LEMMA SubSeqsAppend ==
  ASSUME NEW S, NEW s \in Seq(S), NEW m \in 1..Len(s), NEW k \in 1..(m - 1)
  PROVE  Append(SubSeq(s, 1, k - 1) \o SubSeq(s, k + 1, m - 1), s[m]) =
           SubSeq(s, 1, k - 1) \o SubSeq(s, k + 1, m)
<1> DEFINE v == SubSeq(s, 1, k - 1) \o SubSeq(s, k + 1, m - 1)
           w == SubSeq(s, 1, k - 1) \o SubSeq(s, k + 1, m)
<1>1. /\ v \in Seq(S) /\ Len(v) = m - 2
      /\ \A i \in 1..(m - 2) : v[i] = IF i < k THEN s[i] ELSE s[i + 1]
  <2>1. m - 1 \in 1..Len(s) /\ k \in 1..(m - 1) /\ (m - 1) - 1 = m - 2
    OBVIOUS
  <2> QED
    BY <2>1, WithoutOne
<1>2. /\ w \in Seq(S) /\ Len(w) = m - 1
      /\ \A i \in 1..(m - 1) : w[i] = IF i < k THEN s[i] ELSE s[i + 1]
  <2>1. k \in 1..m
    OBVIOUS
  <2> QED
    BY <2>1, WithoutOne
<1> HIDE DEF v, w
<1>3. s[m] \in S
  OBVIOUS
<1>4. /\ Append(v, s[m]) \in Seq(S) /\ Len(Append(v, s[m])) = Len(v) + 1
      /\ \A i \in 1..Len(v) : Append(v, s[m])[i] = v[i]
      /\ Append(v, s[m])[Len(v) + 1] = s[m]
  BY <1>1, <1>3, AppendProperties
<1>5. \A i \in 1..(m - 1) : Append(v, s[m])[i] = w[i]
  BY <1>1, <1>2, <1>4
<1>6. Len(Append(v, s[m])) = Len(w)
  BY <1>1, <1>2, <1>4
<1>7. Append(v, s[m]) = w
  BY <1>2, <1>4, <1>5, <1>6, SeqEqual
<1> QED
  BY <1>7 DEF v, w

LEMMA OneMoreKept ==
  ASSUME TypeOK, NEW n \in DOMAIN impl, NEW m \in DOMAIN impl[n].attrs
  PROVE  /\ Append(SubSeq(impl[n].attrs, 1, m - 1), impl[n].attrs[m]) =
              SubSeq(impl[n].attrs, 1, m)
         /\ \A k \in 1..(m - 1) :
              Append(Without(n, k, m - 1), impl[n].attrs[m]) = Without(n, k, m)
<1>1. impl[n].attrs \in Seq(Attribute) /\ m \in 1..Len(impl[n].attrs)
  BY Block
<1>2. 1 \in 1..m
  BY <1>1
<1>3. Append(SubSeq(impl[n].attrs, 1, m - 1), impl[n].attrs[m]) = SubSeq(impl[n].attrs, 1, m)
  BY <1>1, <1>2, SubSeqAppend, Zenon
<1>4. \A k \in 1..(m - 1) :
        Append(Without(n, k, m - 1), impl[n].attrs[m]) = Without(n, k, m)
  BY <1>1, SubSeqsAppend, Zenon DEF Without
<1> QED
  BY <1>3, <1>4

-----------------------------------------------------------------------------
(* Every step keeps the invariant.                                         *)

LEMMA TypeStep == TypeOK /\ [Next]_vars => TypeOK'
<1> SUFFICES ASSUME TypeOK, [Next]_vars PROVE TypeOK'
  OBVIOUS
<1>1. /\ next \in Nat /\ attr \in Nat /\ Len(impl) \in Nat /\ DOMAIN impl = 1..Len(impl)
      /\ kept \in Seq(Seq(Attribute))
  BY Block DEF TypeOK
<1>2. CASE UNCHANGED vars
  BY <1>2 DEF vars, TypeOK
<1>3. CASE Begin
  <2>1. /\ next \in DOMAIN impl /\ Len(kept) = next - 1 /\ kept' = Append(kept, <<>>)
        /\ next' = next /\ impl' = impl /\ attr' = 1
        /\ UNCHANGED <<messages, errors>>
    BY <1>1, <1>3 DEF Begin, TypeOK
  <2>2. kept' \in Seq(Seq(Attribute)) /\ Len(kept') = next
    BY <1>1, <2>1
  <2>3. attr' <= Len(impl[next].attrs) + 1
    <3>1. Len(impl[next].attrs) \in Nat
      BY <2>1, Block
    <3> QED
      BY <2>1, <3>1
  <2>4. has_message' \in BOOLEAN /\ infallible' \in BOOLEAN
    BY <1>3 DEF Begin
  <2> QED
    BY <2>1, <2>2, <2>3, <2>4 DEF TypeOK
<1>4. CASE Retain
  <2>1. /\ next \in DOMAIN impl /\ next' = next /\ impl' = impl /\ messages' = messages
        /\ attr \in DOMAIN impl[next].attrs /\ attr' = attr + 1
    BY <1>1, <1>4 DEF Retain, TypeOK
  <2>2. /\ attr >= 1 /\ attr <= Len(impl[next].attrs) /\ Len(impl[next].attrs) \in Nat
        /\ impl[next].attrs[attr] \in Attribute
    BY <2>1, Block
  <2>3. /\ Len(kept) = next /\ kept[next] \in Seq(Attribute)
    BY <1>1, <2>1, <2>2 DEF TypeOK
  <2>4. Append(kept[next], impl[next].attrs[attr]) \in Seq(Attribute)
    BY <2>2, <2>3
  <2>5. kept' \in Seq(Seq(Attribute)) /\ Len(kept') = next
    <3> DEFINE A == Seq(Attribute)
               e == Append(kept[next], impl[next].attrs[attr])
    <3>1. kept' = [kept EXCEPT ![next] = e] \/ kept' = kept
      BY <1>4 DEF Retain
    <3>2. kept \in Seq(A) /\ next \in 1..Len(kept) /\ e \in A
      BY <1>1, <2>1, <2>3, <2>4
    <3> HIDE DEF A, e
    <3>3. [kept EXCEPT ![next] = e] \in Seq(A) /\ Len([kept EXCEPT ![next] = e]) = Len(kept)
      BY <3>2, ExceptSeq
    <3> QED
      BY <2>3, <3>1, <3>2, <3>3 DEF A
  <2>6. has_message' \in BOOLEAN /\ errors' \in Nat
    <3>1. /\ has_message' = TRUE \/ has_message' = has_message
          /\ errors' = errors + 1 \/ errors' = errors
      BY <1>4 DEF Retain
    <3>2. has_message' \in BOOLEAN
      BY <3>1, Zenon DEF TypeOK
    <3> QED
      BY <3>1, <3>2 DEF TypeOK
  <2>7. infallible' \in BOOLEAN
    <3>1. \/ infallible' = infallible
          \/ infallible' = (infallible \/ impl[next].attrs[attr] = "message(infallible)")
      BY <1>4 DEF Retain
    <3> QED
      BY <3>1, Zenon DEF TypeOK
  <2> QED
    BY <2>1, <2>2, <2>5, <2>6, <2>7 DEF TypeOK
<1>5. CASE End
  <2>1. /\ next \in DOMAIN impl /\ next' = next + 1 /\ impl' = impl /\ kept' = kept
        /\ attr > 0 /\ attr' = 0 /\ UNCHANGED <<has_message, infallible, errors>>
    <3>1. next \in DOMAIN impl
      BY <1>1, <1>5 DEF End, TypeOK
    <3>2. Len(impl[next].attrs) \in Nat
      BY <3>1, Block
    <3> QED
      BY <1>5, <3>1, <3>2 DEF End
  <2>2. impl[next] \in ToSet(impl)
    BY <2>1 DEF ToSet
  <2>3. messages' \in Seq([method : ToSet(impl), infallible : BOOLEAN])
    <3> DEFINE M == [method : ToSet(impl), infallible : BOOLEAN]
               m == [method |-> impl[next], infallible |-> infallible]
    <3>1. m \in M /\ messages \in Seq(M)
      BY <2>2 DEF TypeOK
    <3>2. messages' = IF has_message THEN Append(messages, m) ELSE messages
      BY <1>5 DEF End
    <3> HIDE DEF M, m
    <3>3. messages' \in Seq(M)
      BY <3>1, <3>2
    <3> QED
      BY <3>3 DEF M
  <2>4. next' \in 1..(Len(impl) + 1)
    BY <1>1, <2>1
  <2>5. Len(impl[next + 1].attrs) \in Nat \/ next + 1 \notin DOMAIN impl
    BY Block
  <2>6. Len(kept') = next' - 1
    BY <1>1, <2>1 DEF TypeOK
  <2> QED
    BY <1>1, <2>1, <2>3, <2>4, <2>5, <2>6 DEF TypeOK
<1> QED
  BY <1>2, <1>3, <1>4, <1>5 DEF Next, Done

\* The retain of one attribute: what is kept grows by it, or it is the first
\* that is taken.
LEMMA HalfwayStep == TypeOK /\ Halfway /\ [Next]_vars => Halfway'
<1> SUFFICES ASSUME TypeOK, Halfway, [Next]_vars PROVE Halfway'
  OBVIOUS
<1> USE Block
<1>1. CASE UNCHANGED vars
  BY <1>1 DEF vars, Halfway, MarkedBy, Without, Infallible
<1>2. CASE Begin
  <2>1. /\ impl' = impl /\ next' = next /\ attr' = 1 /\ ~has_message'
        /\ infallible' = ~impl[next].returns
        /\ kept' = Append(kept, <<>>) /\ Len(kept) = next - 1 /\ next \in Nat
    BY <1>2 DEF Begin, TypeOK
  <2>2. kept'[next] = <<>>
    BY <2>1 DEF TypeOK
  <2>3. SubSeq(impl[next].attrs, 1, 0) = <<>>
    BY SubSeqEmpty
  <2> QED
    BY <2>1, <2>2, <2>3 DEF Halfway
<1>3. CASE Retain
  <2> DEFINE a == impl[next].attrs[attr]
  <2>1. /\ impl' = impl /\ next' = next /\ attr' = attr + 1 /\ attr \in DOMAIN impl[next].attrs
        /\ next \in DOMAIN impl /\ attr \in Nat /\ attr > 0 /\ attr' - 1 = attr
        /\ kept \in Seq(Seq(Attribute)) /\ next \in DOMAIN kept /\ has_message \in BOOLEAN
    BY <1>3 DEF Retain, TypeOK
  <2>2. CASE Stays(a)
    <3>1. /\ kept' = [kept EXCEPT ![next] = Append(kept[next], a)]
          /\ UNCHANGED <<has_message, infallible>>
      BY <1>3, <2>2 DEF Retain
    <3>2. kept'[next] = Append(kept[next], a)
      BY <2>1, <3>1
    <3>3. CASE has_message
      <4>1. PICK k \in 1..(attr - 1) :
              /\ MarkedBy(next, k)
              /\ kept[next] = Without(next, k, attr - 1)
              /\ infallible = Infallible(next, k)
        BY <2>1, <3>3 DEF Halfway
      <4>2. kept'[next] = Without(next, k, attr)
        BY <2>1, <3>2, <4>1, OneMoreKept
      <4>3. k \in 1..(attr' - 1)
        BY <2>1, <4>1
      <4>4. MarkedBy(next, k)' /\ infallible' = Infallible(next, k)'
        BY <2>1, <3>1, <4>1 DEF MarkedBy, Infallible
      <4>5. kept'[next'] = Without(next, k, attr - 1)'
        BY <2>1, <4>2 DEF Without
      <4> QED
        BY <3>1, <3>3, <4>3, <4>4, <4>5 DEF Halfway
    <3>4. CASE ~has_message
      <4>1. /\ \A k \in 1..(attr - 1) : ~IsMessage(impl[next].attrs[k])
            /\ kept[next] = SubSeq(impl[next].attrs, 1, attr - 1)
            /\ infallible = ~impl[next].returns
        BY <2>1, <3>4 DEF Halfway
      <4>2. kept'[next] = SubSeq(impl[next].attrs, 1, attr)
        BY <2>1, <3>2, <4>1, OneMoreKept
      <4>3. \A k \in 1..attr : ~IsMessage(impl[next].attrs[k])
        <5>1. ~IsMessage(impl[next].attrs[attr])
          BY <2>2, <3>4 DEF Stays
        <5>2. \A k \in 1..attr : k \in 1..(attr - 1) \/ k = attr
          BY <2>1
        <5> QED
          BY <4>1, <5>1, <5>2
      <4> QED
        BY <2>1, <3>1, <3>4, <4>1, <4>2, <4>3 DEF Halfway
    <3> QED
      BY <3>3, <3>4
  <2>3. CASE ~Stays(a)
    <3>1. /\ ~has_message /\ IsMessage(a) /\ has_message' /\ kept' = kept
          /\ infallible' = (infallible \/ a = "message(infallible)")
      BY <1>3, <2>3 DEF Retain, Stays
    <3>2. /\ \A k \in 1..(attr - 1) : ~IsMessage(impl[next].attrs[k])
          /\ kept[next] = SubSeq(impl[next].attrs, 1, attr - 1)
          /\ infallible = ~impl[next].returns
      BY <2>1, <3>1 DEF Halfway
    <3>3. MarkedBy(next, attr)
      BY <2>1, <3>1, <3>2 DEF MarkedBy
    <3>4. kept[next] = Without(next, attr, attr)
      <4>1. SubSeq(impl[next].attrs, attr + 1, attr) = <<>>
        BY <2>1, SubSeqEmpty
      <4>2. SubSeq(impl[next].attrs, 1, attr - 1) \in Seq(Attribute)
        BY <2>1
      <4> QED
        BY <3>2, <4>1, <4>2, ConcatEmptySeq DEF Without
    <3>5. infallible' = Infallible(next, attr)
      BY <3>1, <3>2, <2>1 DEF Infallible
    <3>6. attr \in 1..(attr' - 1)
      BY <2>1
    <3> QED
      BY <2>1, <3>1, <3>3, <3>4, <3>5, <3>6 DEF Halfway, MarkedBy, Without, Infallible
  <2> QED
    BY <2>2, <2>3
<1>4. CASE End
  BY <1>4 DEF End, Halfway
<1> QED
  BY <1>1, <1>2, <1>3, <1>4 DEF Next, Done

-----------------------------------------------------------------------------
(* The counts, and what was passed.                                        *)

\* At the end of a method: whether it is marked is whether it was found to be.
LEMMA FoundAtEnd ==
  ASSUME TypeOK, Halfway, End
  PROVE  /\ next \in DOMAIN impl /\ attr = Len(impl[next].attrs) + 1 /\ attr > 0
         /\ has_message <=> \E k \in DOMAIN impl[next].attrs : MarkedBy(next, k)
         /\ BadHere <=> \E k \in DOMAIN impl[next].attrs :
                          MarkedBy(next, k) /\ impl[next].attrs[k] = "message(?)"
<1>1. next \in DOMAIN impl /\ attr = Len(impl[next].attrs) + 1
  BY Block DEF End, TypeOK
<1>2. /\ attr > 0 /\ 1..(attr - 1) = DOMAIN impl[next].attrs
  BY <1>1, Block
<1>3. has_message <=> \E k \in DOMAIN impl[next].attrs : MarkedBy(next, k)
  BY <1>2 DEF Halfway, MarkedBy
<1> QED
  BY <1>1, <1>2, <1>3 DEF BadHere

LEMMA CountedStep == TypeOK /\ Halfway /\ Counted /\ [Next]_vars => Counted'
<1> SUFFICES ASSUME TypeOK, Halfway, Counted, [Next]_vars PROVE Counted'
  OBVIOUS
<1>1. CASE UNCHANGED vars
  BY <1>1 DEF vars, Counted, BadHere, BadBefore, MarkedBefore, MarkedBy
<1>2. CASE Begin
  <2>1. /\ impl' = impl /\ next' = next /\ UNCHANGED <<messages, errors>>
        /\ attr = 0 /\ attr' = 1
    BY <1>2 DEF Begin
  <2>2. ~BadHere /\ ~BadHere'
    BY <2>1 DEF BadHere
  <2> QED
    BY <2>1, <2>2 DEF Counted, BadBefore, MarkedBefore, MarkedBy
<1>3. CASE Retain
  <2>1. /\ impl' = impl /\ next' = next /\ messages' = messages /\ attr' - 1 = attr
        /\ attr' > 0 /\ attr > 0 /\ attr \in Nat /\ attr \in DOMAIN impl[next].attrs
        /\ next \in DOMAIN impl
    BY <1>3, Block DEF Retain, TypeOK
  <2>2. BadBefore(next)' = BadBefore(next) /\ MarkedBefore(next)' = MarkedBefore(next)
    BY <2>1 DEF BadBefore, MarkedBefore, MarkedBy
  <2>3. BadHere' <=> BadHere \/ (MarkedBy(next, attr) /\ impl[next].attrs[attr] = "message(?)")
    <3>1. 1..(attr' - 1) = 1..(attr - 1) \cup {attr}
      BY <2>1
    <3> QED
      BY <2>1, <3>1 DEF BadHere, MarkedBy
  <2>4. CASE Stays(impl[next].attrs[attr])
    <3>1. errors' = errors
      BY <1>3, <2>4 DEF Retain
    <3>2. ~MarkedBy(next, attr)
      <4>1. CASE has_message
        <5>1. PICK k \in 1..(attr - 1) : MarkedBy(next, k)
          BY <2>1, <4>1 DEF Halfway
        <5>2. k # attr
          BY <2>1
        <5> QED
          BY <2>1, <5>1, <5>2, OneMark
      <4>2. CASE ~has_message
        BY <2>4, <4>2 DEF Stays, MarkedBy
      <4> QED
        BY <4>1, <4>2
    <3> QED
      BY <2>1, <2>2, <2>3, <3>1, <3>2 DEF Counted
  <2>5. CASE ~Stays(impl[next].attrs[attr])
    <3>1. /\ ~has_message /\ IsMessage(impl[next].attrs[attr])
          /\ errors' = IF impl[next].attrs[attr] = "message(?)" THEN errors + 1 ELSE errors
      BY <1>3, <2>5 DEF Retain, Stays
    <3>2. \A k \in 1..(attr - 1) : ~IsMessage(impl[next].attrs[k])
      BY <2>1, <3>1 DEF Halfway
    <3>3. MarkedBy(next, attr) /\ ~BadHere
      BY <2>1, <3>1, <3>2 DEF MarkedBy, BadHere
    <3>4. Cardinality(BadBefore(next)) \in Nat
      BY <2>1, Grow, FS_CardinalityType
    <3> QED
      BY <2>1, <2>2, <2>3, <3>1, <3>3, <3>4 DEF Counted
  <2> QED
    BY <2>4, <2>5
<1>4. CASE End
  <2>1. impl' = impl /\ next' = next + 1 /\ attr' = 0 /\ errors' = errors
    BY <1>4 DEF End
  <2>2. ~BadHere'
    BY <2>1 DEF BadHere
  <2>3. next \in DOMAIN impl
    BY <1>4, FoundAtEnd
  <2>4. BadBefore(next)' = BadBefore(next + 1) /\ MarkedBefore(next)' = MarkedBefore(next + 1)
    BY <2>1 DEF BadBefore, MarkedBefore, MarkedBy
  <2>5. /\ Cardinality(MarkedBefore(next)) \in Nat /\ Cardinality(BadBefore(next)) \in Nat
    BY <2>3, Grow, FS_CardinalityType
  <2>6. Cardinality(BadBefore(next + 1)) =
          Cardinality(BadBefore(next)) + (IF BadHere THEN 1 ELSE 0)
    <3>1. /\ BadBefore(next + 1) = IF BadHere THEN BadBefore(next) \cup {next} ELSE BadBefore(next)
          /\ IsFiniteSet(BadBefore(next)) /\ next \notin BadBefore(next)
      BY <1>4, <2>3, Grow, FoundAtEnd
    <3>2. Cardinality(BadBefore(next) \cup {next}) = Cardinality(BadBefore(next)) + 1
      BY <3>1, FS_AddElement
    <3> QED
      BY <2>5, <3>1, <3>2
  <2>7. Cardinality(MarkedBefore(next + 1)) =
          Cardinality(MarkedBefore(next)) + (IF has_message THEN 1 ELSE 0)
    <3>1. /\ MarkedBefore(next + 1) = IF has_message THEN MarkedBefore(next) \cup {next} ELSE MarkedBefore(next)
          /\ IsFiniteSet(MarkedBefore(next)) /\ next \notin MarkedBefore(next)
      BY <1>4, <2>3, Grow, FoundAtEnd
    <3>2. Cardinality(MarkedBefore(next) \cup {next}) = Cardinality(MarkedBefore(next)) + 1
      BY <3>1, FS_AddElement
    <3> QED
      BY <2>5, <3>1, <3>2
  <2>8. Len(messages') = Len(messages) + (IF has_message THEN 1 ELSE 0)
    BY <1>4 DEF End, TypeOK
  <2> QED
    BY <2>1, <2>2, <2>4, <2>5, <2>6, <2>7, <2>8 DEF Counted
<1> QED
  BY <1>1, <1>2, <1>3, <1>4 DEF Next, Done

\* What was passed stays, and the method at its end is passed as it was found.
LEMMA PassedStep == IInv /\ [Next]_vars => Passed'
<1> SUFFICES ASSUME IInv, [Next]_vars PROVE Passed'
  OBVIOUS
<1> USE DEF IInv
<1>1. next \in Nat /\ DOMAIN impl = 1..Len(impl) /\ Len(impl) \in Nat
      /\ kept \in Seq(Seq(Attribute))
  BY Block DEF TypeOK
\* None of the messages and attributes of what was passed is touched.
<1>2. ASSUME impl' = impl, next \in DOMAIN impl,
             \A i \in 1..(next - 1) : kept'[i] = kept[i],
             \A j \in 1..Len(messages) : messages'[j] = messages[j],
             NEW i \in 1..(next - 1)
      PROVE  /\ i \in MarkedBefore(next) =>
                  \E k \in DOMAIN impl[i].attrs : Extracted(i, k)'
             /\ i \notin MarkedBefore(next) => kept'[i] = impl[i].attrs
  <2>1. CASE i \in MarkedBefore(next)
    <3>1. PICK k \in DOMAIN impl[i].attrs : Extracted(i, k)
      BY <2>1 DEF Passed
    <3>2. Cardinality(MarkedBefore(i)) + 1 \in 1..Len(messages)
      BY <1>2, <2>1, Placed DEF Counted
    <3>3. MarkedBefore(i)' = MarkedBefore(i)
      BY <1>2 DEF MarkedBefore, MarkedBy
    <3>4. Extracted(i, k)'
      BY <1>2, <3>1, <3>2, <3>3 DEF Extracted, MarkedBy, Infallible
    <3> QED
      BY <2>1, <3>4
  <2>2. CASE i \notin MarkedBefore(next)
    BY <1>2, <2>2 DEF Passed
  <2> QED
    BY <2>1, <2>2
<1>3. CASE UNCHANGED vars
  BY <1>3 DEF vars, Passed, Extracted, MarkedBefore, MarkedBy, Infallible
<1>4. CASE Begin \/ Retain
  <2>1. /\ impl' = impl /\ next' = next /\ next \in DOMAIN impl /\ messages' = messages
    BY <1>1, <1>4 DEF Begin, Retain, TypeOK
  <2>2. \A i \in 1..(next - 1) : kept'[i] = kept[i]
    <3>1. CASE Begin
      <4>1. kept' = Append(kept, <<>>) /\ Len(kept) = next - 1
        BY <3>1 DEF Begin, TypeOK
      <4> QED
        BY <1>1, <4>1
    <3>2. CASE Retain
      <4>1. \/ kept' = [kept EXCEPT ![next] = Append(kept[next], impl[next].attrs[attr])]
            \/ kept' = kept
        BY <3>2 DEF Retain
      <4>2. Len(kept) = next - 1 \/ Len(kept) = next
        BY DEF TypeOK
      <4> QED
        BY <1>1, <4>1, <4>2
    <3> QED
      BY <1>4, <3>1, <3>2
  <2>3. MarkedBefore(next)' = MarkedBefore(next)
    BY <2>1 DEF MarkedBefore, MarkedBy
  <2>4. \A i \in 1..(next - 1) :
          /\ i \in MarkedBefore(next) => \E k \in DOMAIN impl[i].attrs : Extracted(i, k)'
          /\ i \notin MarkedBefore(next) => kept'[i] = impl[i].attrs
    BY <1>2, <2>1, <2>2
  <2> QED
    BY <2>1, <2>3, <2>4 DEF Passed
<1>5. CASE End
  <2>1. /\ impl' = impl /\ next' = next + 1 /\ kept' = kept /\ next \in DOMAIN impl
        /\ attr = Len(impl[next].attrs) + 1 /\ attr > 0
    BY <1>5, FoundAtEnd DEF End
  <2> DEFINE M == [method : ToSet(impl), infallible : BOOLEAN]
             m == [method |-> impl[next], infallible |-> infallible]
  <2>2. m \in M /\ messages \in Seq(M)
    BY <2>1 DEF TypeOK, ToSet
  <2>3. messages' = IF has_message THEN Append(messages, m) ELSE messages
    BY <1>5 DEF End
  <2> HIDE DEF M, m
  <2>4. /\ \A j \in 1..Len(messages) : messages'[j] = messages[j]
        /\ has_message => messages'[Len(messages) + 1] = m
    BY <2>2, <2>3
  <2>5. MarkedBefore(next)' = MarkedBefore(next + 1)
    BY <2>1 DEF MarkedBefore, MarkedBy
  <2>6. /\ MarkedBefore(next + 1) =
             IF has_message THEN MarkedBefore(next) \cup {next} ELSE MarkedBefore(next)
        /\ next \notin MarkedBefore(next)
    BY <1>5, <2>1, FoundAtEnd, Grow
  <2>7. 1..(next' - 1) = 1..(next - 1) \cup {next}
    BY <1>1, <2>1
  <2>8. ASSUME NEW i \in 1..(next - 1)
        PROVE  IF i \in MarkedBefore(next + 1)
               THEN \E k \in DOMAIN impl[i].attrs : Extracted(i, k)'
               ELSE kept'[i] = impl[i].attrs
    <3>1. i # next
      BY <1>1
    <3> QED
      BY <1>2, <2>1, <2>4, <2>6, <3>1
  <2>9. CASE has_message
    <3>1. PICK k \in 1..(attr - 1) :
            /\ MarkedBy(next, k)
            /\ kept[next] = Without(next, k, attr - 1)
            /\ infallible = Infallible(next, k)
      BY <2>1, <2>9 DEF Halfway
    <3>2. kept[next] = RemoveAt(impl[next].attrs, k)
      <4>1. attr - 1 = Len(impl[next].attrs)
        BY <2>1, Block
      <4> QED
        BY <3>1, <4>1 DEF Without, RemoveAt
    <3>3. MarkedBefore(next)' = MarkedBefore(next + 1)
      BY <2>5
    <3>4. Cardinality(MarkedBefore(next)) + 1 = Len(messages) + 1
      BY DEF Counted
    <3>5. messages'[Cardinality(MarkedBefore(next)) + 1] =
            [method |-> impl[next], infallible |-> Infallible(next, k)]
      BY <2>4, <2>9, <3>1, <3>4 DEF m
    <3>6. \A n : n = next => Extracted(n, k)'
      BY <2>1, <3>1, <3>2, <3>5 DEF Extracted, MarkedBy, MarkedBefore, Infallible
    <3>7. k \in DOMAIN impl[next].attrs
      BY <3>1 DEF MarkedBy
    <3>8. \A i \in 1..(next' - 1) :
            IF i \in MarkedBefore(next + 1)
            THEN \E l \in DOMAIN impl[i].attrs : Extracted(i, l)'
            ELSE kept'[i] = impl[i].attrs
      BY <2>6, <2>7, <2>8, <2>9, <3>6, <3>7
    <3> QED
      BY <2>1, <2>5, <3>8 DEF Passed
  <2>10. CASE ~has_message
    <3>1. kept[next] = impl[next].attrs
      <4>1. kept[next] = SubSeq(impl[next].attrs, 1, attr - 1)
        BY <2>1, <2>10 DEF Halfway
      <4>2. attr - 1 = Len(impl[next].attrs) /\ impl[next].attrs \in Seq(Attribute)
        BY <2>1, Block
      <4> QED
        BY <4>1, <4>2, SubSeqFull
    <3>2. \A i \in 1..(next' - 1) :
            IF i \in MarkedBefore(next + 1)
            THEN \E l \in DOMAIN impl[i].attrs : Extracted(i, l)'
            ELSE kept'[i] = impl[i].attrs
      BY <2>1, <2>6, <2>7, <2>8, <2>10, <3>1
    <3> QED
      BY <2>1, <2>5, <3>2 DEF Passed
  <2> QED
    BY <2>9, <2>10 DEF TypeOK
<1> QED
  BY <1>3, <1>4, <1>5 DEF Next, Done

THEOREM Invariance == Spec => []IInv
<1>1. Init => IInv
  <2> SUFFICES ASSUME Init PROVE IInv
    OBVIOUS
  <2>1. impl \in Seq(ToSet(impl)) /\ Len(impl) \in Nat /\ DOMAIN impl = 1..Len(impl)
    <3>1. impl \in Seq(ToSet(impl))
      BY ImplAssumption DEF Init
    <3> QED
      BY <3>1
  <2>2. \A i \in DOMAIN impl : Len(impl[i].attrs) \in Nat
    BY ImplAssumption DEF Init
  <2>3. TypeOK
    <3>1. kept \in Seq(Seq(Attribute)) /\ Len(kept) = 0
      BY DEF Init
    <3>2. messages \in Seq([method : ToSet(impl), infallible : BOOLEAN])
      BY DEF Init
    <3>3. next \in 1..(Len(impl) + 1) /\ impl \in Impl
      BY <2>1 DEF Init
    <3>4. has_message \in BOOLEAN /\ infallible \in BOOLEAN
      BY DEF Init
    <3>5. next = 1 /\ attr = 0 /\ errors = 0
      BY DEF Init
    <3> QED
      BY <2>2, <3>1, <3>2, <3>3, <3>4, <3>5 DEF TypeOK
  <2>4. Halfway
    BY DEF Init, Halfway
  <2>5. MarkedBefore(next) = {} /\ BadBefore(next) = {} /\ ~BadHere
    BY DEF Init, MarkedBefore, BadBefore, BadHere
  <2>6. Counted
    <3>1. Cardinality({}) = 0
      BY FS_EmptySet
    <3>2. errors = 0 /\ Len(messages) = 0
      BY DEF Init
    <3> QED
      BY <2>5, <3>1, <3>2 DEF Counted
  <2>7. Passed
    BY DEF Init, Passed
  <2> QED
    BY <2>3, <2>4, <2>6, <2>7 DEF IInv
<1>2. IInv /\ [Next]_vars => IInv'
  BY TypeStep, HalfwayStep, CountedStep, PassedStep DEF IInv
<1> QED
  BY <1>1, <1>2, PTL DEF Spec

\* Whatever the impl block: each method with a message attribute is one
\* message in its place, without that attribute and with all others, and each
\* bad one is an error.
THEOREM MarkedAttributes == Spec => []MarkedOnce
<1>1. IInv => MarkedOnce
  <2> SUFFICES ASSUME IInv, next > Len(impl) PROVE MarkedOnce
    BY DEF MarkedOnce
  <2>1. /\ DOMAIN impl = 1..Len(impl) /\ next = Len(impl) + 1 /\ Len(impl) \in Nat
        /\ next \notin DOMAIN impl /\ attr = 0
    BY Block DEF IInv, TypeOK
  <2>2. ~BadHere
    BY <2>1 DEF BadHere
  <2>3. errors = Cardinality(BadBefore(next))
    <3>1. IsFiniteSet(BadBefore(next))
      <4>1. IsFiniteSet(1..(next - 1)) /\ BadBefore(next) \subseteq 1..(next - 1)
        BY <2>1, FS_Interval DEF BadBefore
      <4> QED
        BY <4>1, FS_Subset
    <3>2. Cardinality(BadBefore(next)) \in Nat
      BY <3>1, FS_CardinalityType
    <3> QED
      BY <2>2, <3>2 DEF IInv, Counted
  <2>4. DOMAIN impl = 1..(next - 1)
    BY <2>1
  <2>5. Len(messages) = Cardinality(MarkedBefore(next))
    BY DEF IInv, Counted
  <2> QED
    BY <2>3, <2>4, <2>5 DEF IInv, Passed, Extracted, Infallible, MarkedOnce
<1> QED
  BY <1>1, Invariance, PTL

=============================================================================
