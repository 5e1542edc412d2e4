------------------------------ MODULE Nullability ------------------------------
(***************************************************************************)
(* ts/src/converter.ts: which trees of the grammar IR derive the empty     *)
(* string, and the alternations of a production, for Checks; and the       *)
(* empty string itself, to compare with.  An element is a pair             *)
(* <<kind, content>>, an alternative a sequence of elements.               *)
(***************************************************************************)
EXTENDS Checks

RECURSIVE elDerivesEmpty(_, _)

altDerivesEmpty(alt, null) == \A i \in DOMAIN alt : elDerivesEmpty(alt[i], null)

elDerivesEmpty(el, null) ==
  CASE el[1] \in {"opt", "star"} -> TRUE
    [] el[1] = "plus"  -> elDerivesEmpty(el[2], null)
    [] el[1] = "group" -> \E i \in DOMAIN el[2] : altDerivesEmpty(el[2][i], null)
    [] el[1] = "ref"   -> el[2] \in null
    [] OTHER           -> FALSE

RECURSIVE Groups(_), GroupsOfAlts(_)

\* The alternations of the groups in an element, outermost and leftmost first.
Groups(el) ==
  CASE el[1] = "group" -> <<el[2]>> \o GroupsOfAlts(el[2])
    [] el[1] \in {"opt", "star", "plus"} -> Groups(el[2])
    [] OTHER -> <<>>

\* Those in a sequence of sequences of elements.
GroupsOfAlts(alts) ==
  IF alts = <<>> THEN <<>>
  ELSE IF Head(alts) = <<>> THEN GroupsOfAlts(Tail(alts))
  ELSE Groups(Head(Head(alts))) \o GroupsOfAlts(<<Tail(Head(alts))>> \o Tail(alts))

\* Mutant: groups are not looked into.
choicesOfRule(p) == <<p.alts>>

choices(p) == <<p.alts>> \o GroupsOfAlts(p.alts)

-----------------------------------------------------------------------------
(* The strings an alternative derives, as far as it matters: "" and "+" for  *)
(* a string that is not empty, in derivations that go at most d rules deep.  *)

Concat(L, M) ==
  {s \in {"", "+"} : \E x \in L, y \in M : s = IF x = "" THEN y ELSE "+"}

RECURSIVE ElStrings(_, _), AltStrings(_, _)

AltStrings(alt, d) ==
  IF alt = <<>> THEN {""} ELSE Concat(ElStrings(Head(alt), d), AltStrings(Tail(alt), d))

ElStrings(el, d) ==
  CASE el[1] \in {"term", "regex"} -> {"+"}
    [] el[1] = "opt"   -> {""} \cup ElStrings(el[2], d)
    [] el[1] = "plus"  -> LET L == ElStrings(el[2], d) IN L \cup Concat(L, L)
    [] el[1] = "star"  -> LET L == ElStrings(el[2], d) IN {""} \cup L \cup Concat(L, L)
    [] el[1] = "group" -> UNION {AltStrings(el[2][i], d) : i \in DOMAIN el[2]}
    [] el[1] = "ref"   ->
         IF d = 0 THEN {}
         ELSE UNION {AltStrings(alt, d - 1) :
                alt \in UNION {{p.alts[i] : i \in DOMAIN p.alts} :
                               p \in {prods[i] : i \in {i \in DOMAIN prods : prods[i].name = el[2]}}}}

\* nullableRules finds the rules that derive the empty string, by derivations as deep
\* as there are rules: a deeper one repeats a rule on some path, and can be cut.
NullableDerivesEmpty ==
  status \in {"choices", "accepted", "ambiguous"} =>
    nullable = {prods[i].name : i \in {i \in DOMAIN prods :
                  "" \in ElStrings(<<"ref", prods[i].name>>, Len(prods))}}

RECURSIVE Subtrees(_)

Within(alts) == UNION {UNION {Subtrees(alts[i][j]) : j \in DOMAIN alts[i]} : i \in DOMAIN alts}

Subtrees(el) ==
  {el} \cup CASE el[1] = "group" -> Within(el[2])
              [] el[1] \in {"opt", "star", "plus"} -> Subtrees(el[2])
              [] OTHER -> {}

\* No choice in an accepted grammar, however deep in groups and repetitions, has two
\* branches that both derive the empty string.
OneEmptyBranch ==
  status = "accepted" =>
    \A i \in DOMAIN prods :
      \A alts \in {prods[i].alts} \cup {g[2] : g \in {el \in Within(prods[i].alts) : el[1] = "group"}} :
        \A a, b \in DOMAIN alts :
          "" \in AltStrings(alts[a], Len(prods)) \cap AltStrings(alts[b], Len(prods)) => a = b

\* The two together: what a grammar derives agrees with what was decided about it.
DerivesAsDecided == NullableDerivesEmpty /\ OneEmptyBranch

==============================================================================
