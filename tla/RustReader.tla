------------------------------ MODULE RustReader ------------------------------
(***************************************************************************)
(* What the Rust port's limits promise, against the tree being built and   *)
(* against Notation: the registers measure that tree, nothing deeper than  *)
(* the limit is built, and nothing that fits is refused.                   *)
(***************************************************************************)
EXTENDS RustRules, Notation

\* How deep an element nests: a terminal one deep, each group and each operator
\* around it one more.
RECURSIVE Depth(_)
Deepest(elements) == Max({0} \cup {Depth(el) : el \in elements})
InAlts(alts) == UNION {Range(seq) : seq \in Range(alts)}
Depth(el) ==
  CASE el[1] = "group" -> 1 + Deepest(InAlts(el[2]))
    [] el[1] \in {"opt", "star", "plus"} -> 1 + Depth(el[2])
    [] OTHER -> 1

InGrammar(prods) == UNION {InAlts(prod.alts) : prod \in Range(prods)}

\* The elements that a rule holds, in its node or from its last child.
Held(x) == IF x = <<>> THEN {} ELSE Range(x[1])
Elements(frame) ==
  CASE frame.rule = "seq" -> Held(frame.node)
    [] frame.rule = "alts" -> UNION {Range(seq) : seq \in Held(frame.node)} \cup Held(frame.child)
    [] frame.rule \in {"prod", "atom"} -> UNION {Range(seq) : seq \in Held(frame.child)}
    [] frame.rule = "ebnf" -> InGrammar(frame.node[1])
    [] OTHER -> {}

\* The open groups, and what has been completed in the group at g and in no group
\* inside it; 0 stands for the whole source.
OpenGroups == {i \in DOMAIN stack : stack[i].rule = "atom" /\ stack[i].u # <<>>}
Around(i) == Max({0} \cup {g \in OpenGroups : g < i})
CompletedIn(g) ==
  UNION {Elements(stack[i]) : i \in {i \in DOMAIN stack : i = g \/ (i \notin OpenGroups /\ Around(i) = g)}}

\* The postfix operators read for the innermost element, wherever they are held.
Elem == Max({0} \cup {i \in DOMAIN stack : stack[i].rule = "elem"})
OperatorsRead ==
  FoldLeft(LAMBDA n, frame : n + Len(frame.node[1]), 0, SubSeq(stack, Elem + 1, Len(stack)))
    + (IF Top.child = <<>> THEN 0 ELSE Len(Top.child[1]))

Refused == status \notin {"reading", "parsed"}
Body == Without(src, {EndOfSource})

DocumentedSources == Sources(MaxTokens)
Admitted == {s \in DocumentedSources : Deepest(InGrammar(s[2])) <= MaxNestDepth}
AdmittedTexts == {s[1] : s \in Admitted}
AdmittedBeginnings == Beginnings(Admitted)

-----------------------------------------------------------------------------
\* Two counters and a saved value per group, written by six hooks, are at every step
\* the depths of the tree those hooks have built: level, of what the innermost open
\* group holds; each saved value, of what the group around it holds; nest, of the
\* element being completed, with the operators read so far.
RegistersFollowTheTree ==
  status = "reading" =>
    /\ level = Deepest(CompletedIn(Around(Len(stack) + 1)))
    /\ \A g \in OpenGroups : outerMax[g] = Deepest(CompletedIn(Around(g)))
    /\ Top.rule = "elem" /\ Top.u = <<>> /\ Top.child # <<>> => nest = Depth(Top.child[1])
    /\ Top.rule \in {"elem", "post"} /\ stack[Elem].u # <<>> =>
         nest = Depth(stack[Elem].u[1]) + OperatorsRead

\* What is accepted is a documented source that nests no deeper than the limit, read
\* as the tree it denotes: nothing deeper reaches the recursive walks that follow.
ReadsWithinTheLimit == status = "parsed" => <<Body, out>> \in Admitted

\* What is refused, for its depth or for anything else, is not a documented source
\* within the limit, nor the beginning of one: neither limit, and no register left
\* over from a group or an operator before, costs a source that fits.
RefusesTheRest ==
  Refused =>
    IF EndOfSource \in Range(src) THEN Body \notin AdmittedTexts ELSE src \notin AdmittedBeginnings

==============================================================================
