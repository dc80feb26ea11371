----------------------------- MODULE LinkTable -----------------------------
(***************************************************************************)
(* The links of all actors as one table, and what its users are promised:  *)
(* "This operation is atomic."  An operation takes effect at one instant   *)
(* between its call and its return, a one-sided operation on one entry, a  *)
(* two-sided one on both; a dying actor empties its entry at one instant   *)
(* and tells exactly those that were in it.                                *)
(***************************************************************************)
CONSTANTS
  Actor,   \* actors
  Thread,  \* threads that link and unlink them
  None     \* no value

Ops      == {"link_child", "unlink_child", "link_together", "unlink_together"}
TwoSided == {"link_together", "unlink_together"}
Request  == [op : Ops, this : Actor, other : Actor]

VARIABLES
  links,    \* the actors each actor is linked to
  request,  \* what each thread has called, or None
  applied,  \* whether that has taken effect
  dying,    \* actors that have emptied their entry
  told      \* those whom each of them tells of its death

tvars == <<links, request, applied, dying, told>>

Change(op, set, b) == IF op \in {"link_child", "link_together"} THEN set \cup {b} ELSE set \ {b}

\* The table after r took effect.
Effect(r) ==
  [a \in Actor |->
     CASE a = r.this                         -> Change(r.op, links[a], r.other)
       [] a = r.other /\ r.op \in TwoSided   -> Change(r.op, links[a], r.this)
       [] OTHER                              -> links[a]]

Call(t, r) ==
  /\ request[t] = None /\ r.this # r.other
  /\ request' = [request EXCEPT ![t] = r]
  /\ UNCHANGED <<links, applied, dying, told>>

Apply(t) ==
  /\ request[t] # None /\ ~applied[t]
  /\ links' = Effect(request[t])
  /\ applied' = [applied EXCEPT ![t] = TRUE]
  /\ UNCHANGED <<request, dying, told>>

Return(t) ==
  /\ applied[t]
  /\ applied' = [applied EXCEPT ![t] = FALSE]
  /\ request' = [request EXCEPT ![t] = None]
  /\ UNCHANGED <<links, dying, told>>

Drain(a) ==
  /\ a \notin dying
  /\ dying' = dying \cup {a}
  /\ told' = [told EXCEPT ![a] = links[a]]
  /\ links' = [links EXCEPT ![a] = {}]
  /\ UNCHANGED <<request, applied>>

Init ==
  /\ links = [a \in Actor |-> {}]
  /\ request = [t \in Thread |-> None]
  /\ applied = [t \in Thread |-> FALSE]
  /\ dying = {}
  /\ told = [a \in Actor |-> {}]

Next ==
  \/ \E t \in Thread : Apply(t) \/ Return(t) \/ \E r \in Request : Call(t, r)
  \/ \E a \in Actor : Drain(a)

Spec == Init /\ [][Next]_tvars

=============================================================================
