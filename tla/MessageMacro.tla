---------------------------- MODULE MessageMacro ----------------------------
(***************************************************************************)
(* What #[actor] makes of an impl block: which methods become messages,    *)
(* the lifetimes it invents for the borrows in their parameters, and the   *)
(* generic arguments with which the sending methods address the mailbox.   *)
(*                                                                         *)
(* A type is a tree.  A lifetime is the sequence of the words of its name, *)
(* which the macro joins by underscores.                                   *)
(***************************************************************************)
EXTENDS ExtractMessages, Functions, TLC

-----------------------------------------------------------------------------
(* Types.                                                                  *)

Static == <<"static">>
Local  == <<"local">>    \* any lifetime of the method, written or elided

Owned         == [kind |-> "owned"]                  \* nothing to look into
Ref(l, t)     == [kind |-> "ref", life |-> l, elem |-> t]
Slice(t)      == [kind |-> "slice", elem |-> t]      \* arrays, groups and
Array(t)      == [kind |-> "array", elem |-> t]      \* parentheses likewise
Tuple(ts)     == [kind |-> "tuple", elems |-> ts]
Path(id, as)  == [kind |-> "path", ident |-> id, elems |-> as]  \* id<as>
Life(l)       == [kind |-> "lifetime", life |-> l]   \* as a path's argument
Opaque(t)     == [kind |-> "opaque", elem |-> t]     \* dyn, impl, fn, pointers

Wrapper == {"slice", "array"}
List    == {"tuple", "path"}

\* All lifetimes in a type, in order.
RECURSIVE LifetimesIn(_)
LifetimesIn(t) ==
  CASE t.kind = "owned"    -> <<>>
    [] t.kind = "lifetime" -> <<t.life>>
    [] t.kind = "ref"      -> <<t.life>> \o LifetimesIn(t.elem)
    [] t.kind \in List     -> FlattenSeq([i \in DOMAIN t.elems |-> LifetimesIn(t.elems[i])])
    [] OTHER               -> LifetimesIn(t.elem)

-----------------------------------------------------------------------------
(* inject_lifetimes: the name is one buffer that all of a parameter's type *)
(* shares, and what a nested type has appended stays in it.                *)

\* The word that the buffer ends with gives way to the index of an element.
Numbered_First(name, i) == Append(Front(name), "0")

Numbered(name, i) == Append(Front(name), ToString(i - 1))

Prefix(t) == IF t.kind = "tuple" THEN <<"tuple", "0">> ELSE <<t.ident, "0">>

\* The type with its lifetimes replaced, those it introduces, and the buffer.
RECURSIVE Inject(_, _)
Inject(name, t) ==
  CASE t.kind \in {"ref", "lifetime"} ->
         [type |-> [t EXCEPT !.life = name], lifetimes |-> <<name>>, name |-> name]
    [] t.kind \in Wrapper ->
         LET inner == Inject(Append(name, t.kind), t.elem)
         IN  [inner EXCEPT !.type = [t EXCEPT !.elem = inner.type]]
    [] t.kind \in List ->
         LET Step(done, i) ==
               LET e == Inject(Numbered(done.name, i), t.elems[i])
               IN  [type |-> [done.type EXCEPT !.elems[i] = e.type],
                    lifetimes |-> done.lifetimes \o e.lifetimes,
                    name |-> e.name]
         IN  FoldLeftDomain(Step, [type |-> t, lifetimes |-> <<>>, name |-> name \o Prefix(t)],
                            t.elems)
    [] OTHER -> [type |-> t, lifetimes |-> <<>>, name |-> name]

-----------------------------------------------------------------------------
(* Messages.                                                               *)

\* Message::from((vis, sig, infallible)).
MessageFrom(m) ==
  LET injected == [i \in DOMAIN m.method.params |->
                     Inject(m.method.params[i].name, m.method.params[i].type)]
  IN  [fields     |-> [i \in DOMAIN injected |-> injected[i].type],
       lifetimes  |-> FlattenSeq([i \in DOMAIN injected |-> injected[i].lifetimes]),
       types      |-> m.method.types,
       infallible |-> m.infallible,
       read_only  |-> m.method.receiver \in {"self", "&self"},
       method     |-> m.method]

\* What extract_messages returns.
Messages == [j \in DOMAIN messages |-> MessageFrom(messages[j])]

-----------------------------------------------------------------------------
(* What is generated for the messages of an impl block without errors.     *)

Expanded == next > Len(impl) /\ errors = 0

\* The parameters of the message type, in the order in which syn prints them:
\* the lifetimes of all messages, then the types.
Params ==
  FlattenSeq([j \in DOMAIN messages |-> Messages[j].lifetimes])
    \o FlattenSeq([j \in DOMAIN messages |-> Messages[j].types])

Unit == <<"()">>

\* Faulty: what the other messages put in the type is passed over.
MailboxArgs_Own(i) == Messages[i].lifetimes \o Messages[i].types

\* expand_mailbox: the arguments with which message i addresses the mailbox,
\* message by message.
MailboxArgs(i) ==
  LET Args(j, params, other) == IF i = j THEN params ELSE [k \in DOMAIN params |-> other]
  IN  FlattenSeq([j \in DOMAIN messages |->
        Args(j, Messages[j].lifetimes, Static) \o Args(j, Messages[j].types, Unit)])

\* actor_msg_generics: the type that the actor's own mailbox has.
ActorArgs ==
  LET count(f(_)) == FoldLeft(LAMBDA n, m : n + Len(f(m)), 0, Messages)
  IN  [k \in 1..count(LAMBDA m : m.lifetimes) |-> Static]
        \o [k \in 1..count(LAMBDA m : m.types) |-> Unit]

\* What rustc asks of the message type: each parameter is declared once, and
\* the fields name no other lifetime.
WellFormed ==
  /\ IsInjective(Params)
  /\ \A j \in DOMAIN messages : \A f \in Range(Messages[j].fields) :
       Range(LifetimesIn(f)) \subseteq Range(Messages[j].lifetimes) \cup {Static}

-----------------------------------------------------------------------------
(* Properties.                                                             *)

RECURSIVE HasList(_)
HasList(t) == t.kind \in List \/ (t.kind \in Wrapper /\ HasList(t.elem))

\* Borrows stand on their own, in slices and arrays, and in tuples and generic
\* arguments where at most the last element is made of several itself.
RECURSIVE Plain(_)
Plain(t) ==
  CASE t.kind \in {"owned", "lifetime"} -> TRUE
    [] t.kind \in {"ref", "opaque"}     -> Range(LifetimesIn(t.elem)) \subseteq {Static}
    [] t.kind \in Wrapper               -> Plain(t.elem)
    [] OTHER -> /\ \A e \in Range(t.elems) : Plain(e)
                /\ \A i \in DOMAIN t.elems : HasList(t.elems[i]) => i = Len(t.elems)

Types(m) == {p.type : p \in Range(m.method.params)}

\* A method with such parameters gets a message type that compiles: every
\* borrow has a lifetime of its own, although the buffer is never restored.
PlainCompiles ==
  Expanded /\ Len(messages) = 1 /\ (\A t \in Types(Messages[1]) : Plain(t)) => WellFormed

\* No message with type parameters stands before one that borrows.
TypesLast ==
  \A i, j \in DOMAIN messages :
    i < j /\ Messages[i].types # <<>> => Messages[j].lifetimes = <<>>

\* The mailbox is transmuted to a type that differs from the actor's in the
\* parameters of the message that is sent and in no other.
ArgumentsFit ==
  Expanded /\ WellFormed /\ TypesLast =>
    \A i \in DOMAIN messages :
      MailboxArgs(i) =
        [k \in DOMAIN Params |->
           IF Contains(Messages[i].lifetimes \o Messages[i].types, Params[k])
           THEN Params[k] ELSE ActorArgs[k]]

=============================================================================
