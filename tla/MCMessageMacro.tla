--------------------------- MODULE MCMessageMacro ---------------------------
(***************************************************************************)
(* Instances of MessageMacro for TLC.                                      *)
(***************************************************************************)
EXTENDS MessageMacro

\* Types by depth: what stands on its own, one level around it, two levels.
Leaves == {Owned, Ref(Local, Owned), Ref(Static, Owned)}

Simple == {Owned, Ref(Local, Owned)}

Pairs(S) == {<<s, t>> : s \in S, t \in S}

Around(S) ==
  {Array(t) : t \in S} \cup {Slice(t) : t \in S} \cup {Opaque(t) : t \in S}
    \cup {Ref(Local, t) : t \in S}
    \cup {Tuple(ts) : ts \in Pairs(S)} \cup {Tuple(<<>>)}
    \cup {Path("Vec", <<t>>) : t \in S}
    \cup {Path("Map", <<Life(Local)>> \o ts) : ts \in Pairs(S)}

Once  == Leaves \cup Around(Leaves)
Twice == Once \cup Around(Simple \cup Around(Simple))

\* Three elements, each of which may be a tuple.
Wide ==
  LET S == Simple \cup {Tuple(ts) : ts \in Pairs(Simple)} \cup {Array(Tuple(ts)) : ts \in Pairs(Simple)}
  IN  {Tuple(<<s, t, u>>) : s \in S, t \in S, u \in S}

Method(params, types, attrs, returns) ==
  [params   |-> [i \in DOMAIN params |->
                  [name |-> IF i = 1 THEN <<"x">> ELSE <<"y">>, type |-> params[i]]],
   types    |-> types,
   attrs    |-> attrs,
   returns  |-> returns,
   receiver |-> "&self"]

\* One method with one parameter of any type, or two of the smaller ones.
OneMethod ==
  {<<Method(<<t>>, <<>>, <<"message">>, TRUE)>> : t \in Twice \cup Wide}
    \cup {<<Method(ts, <<>>, <<"message">>, TRUE)>> : ts \in Pairs(Once)}

\* Three methods that borrow or are generic or neither, in any order.
Kinds ==
  {Method(ps, ts, <<"message">>, TRUE) :
     ps \in {<<>>, <<Ref(Local, Owned)>>, <<Ref(Local, Owned), Slice(Ref(Local, Owned))>>},
     ts \in {<<>>, <<<<"T">>>>}}

Named(ms) ==
  [i \in DOMAIN ms |->
     [ms[i] EXCEPT !.params = [j \in DOMAIN @ |-> [@[j] EXCEPT !.name = <<ToString(i)>> \o @]],
                   !.types = [j \in DOMAIN @ |-> <<ToString(i)>> \o @[j]]]]

ThreeMethods == {Named(<<k, l, m>>) : k \in Kinds, l \in Kinds, m \in Kinds}

\* Two methods with any two attributes each.
Marked ==
  {Method(<<>>, <<>>, as, r) : as \in Pairs(Attribute) \cup {<<>>}, r \in BOOLEAN}

AnyImpl == OneMethod \cup ThreeMethods \cup Pairs(Marked)

=============================================================================
