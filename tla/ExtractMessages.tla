-------------------------- MODULE ExtractMessages --------------------------
(***************************************************************************)
(* extract_messages: the methods of an impl block in turn, and of each     *)
(* method its attributes in turn, to find those that are messages.  What   *)
(* is in the impl block besides methods is passed over, and left out here. *)
(***************************************************************************)
EXTENDS Naturals, Sequences, FiniteSets, SequencesExt

CONSTANT Impl  \* impl blocks, each a sequence of methods

Attribute == {"message", "message(infallible)", "message(?)", "other"}

\* A method has attributes and a return type or none; the rest of its
\* signature does not matter here.
ASSUME ImplAssumption ==
  \A block \in Impl :
    /\ block \in Seq(ToSet(block))
    /\ \A i \in DOMAIN block :
         block[i].attrs \in Seq(Attribute) /\ block[i].returns \in BOOLEAN

VARIABLES
  impl,         \* the block that is expanded
  next,         \* index of the method that is looked at
  attr,         \* index of the attribute that is looked at, 0 before the first
  has_message,  \* whether a message attribute was found on this method
  infallible,   \* whether its handler cannot fail
  kept,         \* the attributes left on each method so far
  messages,     \* the methods given to Message::from so far
  errors        \* how many attributes could not be parsed

vars == <<impl, next, attr, has_message, infallible, kept, messages, errors>>

IsMessage(a) == a # "other"

Init ==
  /\ impl \in Impl
  /\ next = 1 /\ attr = 0 /\ has_message = FALSE /\ infallible = FALSE
  /\ kept = <<>> /\ messages = <<>> /\ errors = 0

\* The closure of filter_map begins with its locals anew.
Begin ==
  /\ next <= Len(impl) /\ attr = 0
  /\ attr' = 1
  /\ has_message' = FALSE
  /\ infallible' = ~impl[next].returns
  /\ kept' = Append(kept, <<>>)
  /\ UNCHANGED <<impl, next, messages, errors>>

\* Faulty: every message attribute is taken, and the last one counts.
Stays_Unmarked(a) == ~IsMessage(a)

\* attrs.retain(..): nothing after the first message attribute is looked at.
Stays(a) == has_message \/ ~IsMessage(a)

Retain ==
  /\ next <= Len(impl) /\ attr \in DOMAIN impl[next].attrs
  /\ attr' = attr + 1
  /\ LET a == impl[next].attrs[attr]
     IN  \/ /\ Stays(a)
            /\ kept' = [kept EXCEPT ![next] = Append(@, a)]
            /\ UNCHANGED <<has_message, infallible, errors>>
         \/ /\ ~Stays(a)
            /\ has_message' = TRUE
            /\ infallible' = (infallible \/ a = "message(infallible)")
            /\ errors' = IF a = "message(?)" THEN errors + 1 ELSE errors
            /\ UNCHANGED kept
  /\ UNCHANGED <<impl, next, messages>>

\* The closure returns: Some(Message::from(..)) or None.
End ==
  /\ next <= Len(impl) /\ attr = Len(impl[next].attrs) + 1
  /\ next' = next + 1 /\ attr' = 0
  /\ messages' = IF has_message
                 THEN Append(messages, [method |-> impl[next], infallible |-> infallible])
                 ELSE messages
  /\ UNCHANGED <<impl, has_message, infallible, kept, errors>>

Done == next > Len(impl) /\ UNCHANGED vars

Next == Begin \/ Retain \/ End \/ Done

Spec == Init /\ [][Next]_vars

-----------------------------------------------------------------------------
(* Properties.                                                             *)

\* The k-th attribute of method i is its first that says message.
MarkedBy(i, k) ==
  /\ k \in DOMAIN impl[i].attrs /\ IsMessage(impl[i].attrs[k])
  /\ \A l \in 1..(k - 1) : ~IsMessage(impl[i].attrs[l])

\* The methods before n that have one, and those where it is a bad one.
MarkedBefore(n) == {i \in 1..(n - 1) : \E k \in DOMAIN impl[i].attrs : MarkedBy(i, k)}

BadBefore(n) ==
  {i \in 1..(n - 1) : \E k \in DOMAIN impl[i].attrs :
     MarkedBy(i, k) /\ impl[i].attrs[k] = "message(?)"}

\* When all is done, each method with a message attribute is one message, at
\* the place that its order gives it.  It has lost that attribute and has kept
\* all others, a second message attribute included, and a bad one counts as an
\* error.  A handler that returns something can fail unless the attribute that
\* was taken says otherwise.
MarkedOnce ==
  next > Len(impl) =>
    /\ errors = Cardinality(BadBefore(next))
    /\ Len(messages) = Cardinality(MarkedBefore(next))
    /\ \A i \in DOMAIN impl :
         IF i \in MarkedBefore(next)
         THEN \E k \in DOMAIN impl[i].attrs :
                /\ MarkedBy(i, k)
                /\ kept[i] = RemoveAt(impl[i].attrs, k)
                /\ messages[Cardinality(MarkedBefore(i)) + 1] =
                     [method |-> impl[i],
                      infallible |-> impl[i].returns => impl[i].attrs[k] = "message(infallible)"]
         ELSE kept[i] = impl[i].attrs

=============================================================================
