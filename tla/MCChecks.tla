------------------------------- MODULE MCChecks -------------------------------
EXTENDS Nullability

MCNames == {"A", "B", "C"}

Ref(n) == <<"ref", n>>
X == <<"term", "x">>
Group(a, b) == <<"group", <<a, b>> >>

\* Alternatives that depend on other rules, or not, in each way there is.
MCSome ==
  { <<X>>, <<Ref("A")>>, <<Ref("B")>>, << <<"opt", X>> >>, << <<"star", Ref("B")>> >>,
    << <<"plus", Ref("A")>> >>, <<Ref("B"), Ref("A")>>,
    <<Group(<<X>>, <<Ref("B")>>)>>, <<X, Group(<<Ref("A")>>, << <<"opt", X>> >>)>>,
    << <<"opt", Group(<<Ref("B")>>, << <<"plus", Ref("B")>> >>)>> >>,
    <<Group(<<X>>, <<Group(<<Ref("A")>>, <<Ref("B")>>)>>)>> }

\* Chains and cycles through three rules, in any order of definition.
MCLinks == {<<X>>, <<Ref("A")>>, <<Ref("B")>>, <<Ref("C")>>, <<Ref("B"), Ref("C")>>, << <<"opt", X>> >>}

MCAlternatives == MCSome \cup MCLinks \cup {<<Ref("D")>>}
  \cup {<< <<"plus", Ref("B")>> >>, <<Group(<<Ref("A")>>, <<Ref("B")>>)>>}

Bodies(alts, max) == UNION {[1 .. n -> alts] : n \in 1 .. max}
Defined(name, bodies) == [name : {name}, alts : bodies]

MCGrammars ==
  {<<>>}
  \cup {<<p, q>> : p \in Defined("A", Bodies(MCSome, 2)), q \in Defined("B", Bodies(MCSome, 2))}
  \cup {<<p, q, r>> : p \in [name : {"A", "B"}, alts : Bodies(MCLinks, 1)],
                      q \in [name : {"B", "A"}, alts : Bodies(MCLinks, 1)],
                      r \in [name : {"C", "A"}, alts : Bodies(MCLinks, 1)]}

==============================================================================
