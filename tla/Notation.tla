------------------------------- MODULE Notation -------------------------------
(***************************************************************************)
(* The notation that ts/doc/reference.md documents ("Supported" and "Not   *)
(* supported"), as a set: every source of a bounded number of tokens that  *)
(* is written in it, each with the tree it denotes.                        *)
(*                                                                         *)
(*   source ::= (NAME ("::=" | "=") alts ";"?)*                            *)
(*   alts   ::= seq ("|" seq)*                                             *)
(*   seq    ::= elem (","? elem)*                                          *)
(*   elem   ::= (NAME | STRING | CLASS | HEX | "(" alts ")") [?*+]*        *)
(*                                                                         *)
(* Built from the shortest phrases up, with no parser anywhere: what the   *)
(* rule table must recognise, to compare it with.  A phrase is a pair, its *)
(* tokens and its tree.                                                    *)
(***************************************************************************)
EXTENDS Lexemes, SequencesExt

Operator(kind) == CASE kind = "QM" -> "opt" [] kind = "STAR" -> "star" [] kind = "PLUS" -> "plus"

\* The tree of an atom of one token.
Leaf(tkn) ==
  CASE Kind(tkn) = "ST" -> <<"term", Text(tkn)>>
    [] Kind(tkn) = "HX" -> <<"term", "code-point">>
    [] Kind(tkn) = "CC" -> <<"regex", Text(tkn)>>
    [] Kind(tkn) = "TX" -> <<"ref", Text(tkn)>>

Written(kinds) == {tkn \in Vocabulary : Kind(tkn) \in kinds /\ Text(tkn) # "!"}
AtomKinds == {"ST", "HX", "CC", "TX"}

\* Two phrases with sep between them: the tree of the second is appended to that of
\* the first.
Followed(x, sep, y) == <<x[1] \o sep \o y[1], Append(x[2], y[2])>>

\* n tokens in all: a phrase of f[k] and one of g, with one of seps between them.
Chain(f, g, n, k, sep) ==
  IF k + Len(sep) >= n THEN {}
  ELSE {Followed(x, sep, y) : x \in f[k], y \in g[n - k - Len(sep)]}

Chains(f, g, n, seps) == UNION {Chain(f, g, n, k, sep) : k \in 1 .. n, sep \in seps}

Alone(x) == <<x[1], <<x[2]>> >>
Mark(kind) == {<<tkn>> : tkn \in Written({kind})}

Atom(tkn) == << <<tkn>>, Leaf(tkn)>>
Grouped(lp, x, rp) == <<lp \o x[1] \o rp, <<"group", x[2]>> >>
Repeated(x, op) == <<Append(x[1], op), <<Operator(Kind(op)), x[2]>> >>

Atoms == {Atom(tkn) : tkn \in Written(AtomKinds)}
Parenthesised(alts) == {Grouped(lp, x, rp) : lp \in Mark("LP"), x \in alts, rp \in Mark("RP")}
Postfixed(elems) == {Repeated(x, op) : x \in elems, op \in Written({"QM", "STAR", "PLUS"})}

\* The productions of n + 2 tokens, alts[k] being the alternations of k.
Production(name, def, x, end) == << <<name, def>> \o x[1] \o end, [name |-> Text(name), alts |-> x[2]]>>
Terminators(n) == {end \in {<<>>} \cup Mark("SC") : Len(end) < n}
Productions(alts, n) ==
  UNION {{Production(name, def, x, end) :
            name \in Written({"TX"}), def \in Written({"DEF", "DEFE"}), x \in alts[n - Len(end)]} :
         end \in Terminators(n)}

\* What is written in n tokens, from what is written in fewer: p.elem[k], p.seq[k] and
\* p.alts[k] are the elements, sequences and alternations of k tokens, k < n; p.prod[k]
\* and p.source[k], as they begin with a name and its operator, those of k + 2.
Elems(p, n) ==
  (IF n = 1 THEN Atoms ELSE {})
  \cup (IF n < 3 THEN {} ELSE Parenthesised(p.alts[n - 2]))
  \cup (IF n < 2 THEN {} ELSE Postfixed(p.elem[n - 1]))

Seqs(p, n, elems) == {Alone(x) : x \in elems} \cup Chains(p.seq, p.elem, n, {<<>>} \cup Mark("CA"))
Alternations(p, n, seqs) == {Alone(x) : x \in seqs} \cup Chains(p.alts, p.seq, n, Mark("ALT"))
InOrder(p, n, prods) == {Alone(x) : x \in prods} \cup Chains(p.source, p.prod, n - 2, {<<>>})

Longer(p, n) ==
  LET elems == Elems(p, n)
      seqs == Seqs(p, n, elems)
      alts == Append(p.alts, Alternations(p, n, seqs))
      prods == Productions(alts, n)
  IN [elem |-> Append(p.elem, elems), seq |-> Append(p.seq, seqs), alts |-> alts,
      prod |-> Append(p.prod, prods), source |-> Append(p.source, InOrder(p, n, prods))]

\* All that is written in at most n tokens, or n + 2.  (p is bound, not
\* passed: TLC evaluates an operator's argument at every use of it.)
Phrases[n \in Nat] ==
  IF n = 0 THEN [elem |-> <<>>, seq |-> <<>>, alts |-> <<>>, prod |-> <<>>, source |-> <<>>]
  ELSE CHOOSE r \in {Longer(p, n) : p \in {Phrases[n - 1]}} : TRUE

\* Every source of at most max tokens, with its tree.
Sources(max) ==
  {<< <<>>, <<>> >>} \cup (IF max < 3 THEN {} ELSE UNION Range(Phrases[max - 2].source))

\* What can begin such a source.
Beginnings(sources) == UNION {{SubSeq(s[1], 1, k) : k \in 0 .. Len(s[1])} : s \in sources}

\* The tokens, without those of the set silent.
Without(tokens, silent) ==
  LET kept[n \in 0 .. Len(tokens)] ==
        IF n = 0 THEN <<>>
        ELSE IF tokens[n] \in silent THEN kept[n - 1] ELSE Append(kept[n - 1], tokens[n])
  IN kept[Len(tokens)]

==============================================================================
