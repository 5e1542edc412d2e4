-------------------------------- MODULE Checks --------------------------------
(***************************************************************************)
(* ts/src/converter.ts, parseEbnf once the rule table has read the source: *)
(* checkDuplicates, then checkNullableAlts with its nullableRules.         *)
(*                                                                         *)
(* What the elements of an alternative are does not matter here, only      *)
(* which alternatives derive the empty string once a set of rules is known *)
(* to (AltDerivesEmpty) and which alternations a production is made of     *)
(* (Choices).  Nullability gives both for the trees of the grammar IR.     *)
(***************************************************************************)
EXTENDS Naturals, Sequences, FiniteSets

CONSTANTS Names,                 (* rule names                             *)
          Alternatives,          (* what may stand between two |           *)
          Grammars,              (* the production lists that may be read  *)
          AltDerivesEmpty(_, _), (* (alternative, set of nullable rules)   *)
          Choices(_)             (* a production's alternations, its own
                                    first, then those of its groups        *)

Production == [name : Names, alts : Seq(Alternatives)]

ASSUME NamesAssumption == IsFiniteSet(Names)

ASSUME GrammarsAssumption ==
  \A g \in Grammars :
    /\ g \in Seq(Production)
    /\ \A i \in DOMAIN g :
         /\ Choices(g[i]) \in Seq(Seq(Alternatives))
         /\ Choices(g[i]) # <<>> /\ Choices(g[i])[1] = g[i].alts

\* A rule found to be nullable never makes an alternative less so.
ASSUME MonotoneAssumption ==
  \A a \in Alternatives, S, T \in SUBSET Names :
    /\ AltDerivesEmpty(a, S) \in BOOLEAN
    /\ S \subseteq T /\ AltDerivesEmpty(a, S) => AltDerivesEmpty(a, T)

VARIABLES prods,     (* the productions read                               *)
          status,    (* the check under way, or how parseEbnf ended        *)
          k,         (* the production its loop has come to                *)
          seen,      (* checkDuplicates: the names so far                  *)
          nullable,  (* nullableRules: the rules found nullable            *)
          changed,   (* nullableRules: this pass has found one             *)
          blamed     (* what the refusal names: the production, and whether
                        the "rule" itself or a "group" in it is at fault   *)

vars == <<prods, status, k, seen, nullable, changed, blamed>>

AtEnd == k > Len(prods)
Ended == {"accepted", "no productions", "defined twice", "ambiguous"}

Init ==
  /\ prods \in Grammars
  /\ status = "read" /\ k = 1
  /\ seen = {} /\ nullable = {} /\ changed = FALSE
  /\ blamed = <<>>

\* Throw the error that names production k.
Refuse(why, subject) ==
  /\ status' = why /\ blamed' = <<k, subject>>
  /\ UNCHANGED <<prods, k, seen, nullable, changed>>

NextProduction == k' = k + 1

\* Start check s at the first production.
Start(s) == status' = s /\ k' = 1

-----------------------------------------------------------------------------
parseEbnf ==
  /\ status = "read"
  /\ IF prods = <<>>
     THEN status' = "no productions" /\ UNCHANGED k
     ELSE Start("duplicates")
  /\ UNCHANGED <<prods, seen, nullable, changed, blamed>>

\* One turn of the loop, or its end.
checkDuplicates ==
  /\ status = "duplicates"
  /\ \/ /\ AtEnd
        /\ Start("nullable") /\ nullable' = {} /\ changed' = FALSE
        /\ UNCHANGED <<prods, seen, blamed>>
     \/ /\ ~AtEnd /\ prods[k].name \in seen
        /\ Refuse("defined twice", "rule")
     \/ /\ ~AtEnd /\ prods[k].name \notin seen
        /\ seen' = seen \cup {prods[k].name} /\ NextProduction
        /\ UNCHANGED <<prods, status, nullable, changed, blamed>>

\* Some alternative of p derives the empty string, if the rules of S do.
DerivesEmpty(p, S) == \E i \in DOMAIN p.alts : AltDerivesEmpty(p.alts[i], S)

\* Mutants: a single pass; and a rule that is found again, pass after pass.
nullableRulesOnce ==
  /\ status = "nullable"
  /\ \/ /\ AtEnd
        /\ Start("choices") /\ UNCHANGED <<nullable, changed>>
     \/ /\ ~AtEnd
        /\ IF prods[k].name \notin nullable /\ DerivesEmpty(prods[k], nullable)
           THEN nullable' = nullable \cup {prods[k].name} /\ changed' = TRUE
           ELSE UNCHANGED <<nullable, changed>>
        /\ NextProduction /\ UNCHANGED status
  /\ UNCHANGED <<prods, seen, blamed>>

nullableRulesAgain ==
  /\ status = "nullable"
  /\ \/ /\ AtEnd /\ changed
        /\ Start("nullable") /\ changed' = FALSE /\ UNCHANGED nullable
     \/ /\ AtEnd /\ ~changed
        /\ Start("choices") /\ UNCHANGED <<nullable, changed>>
     \/ /\ ~AtEnd
        /\ IF DerivesEmpty(prods[k], nullable)
           THEN nullable' = nullable \cup {prods[k].name} /\ changed' = TRUE
           ELSE UNCHANGED <<nullable, changed>>
        /\ NextProduction /\ UNCHANGED status
  /\ UNCHANGED <<prods, seen, blamed>>

\* One turn of the for loop; at its end another pass, or the check of the choices.
nullableRules ==
  /\ status = "nullable"
  /\ \/ /\ AtEnd /\ changed
        /\ Start("nullable") /\ changed' = FALSE /\ UNCHANGED nullable
     \/ /\ AtEnd /\ ~changed
        /\ Start("choices") /\ UNCHANGED <<nullable, changed>>
     \/ /\ ~AtEnd
        /\ IF prods[k].name \notin nullable /\ DerivesEmpty(prods[k], nullable)
           THEN nullable' = nullable \cup {prods[k].name} /\ changed' = TRUE
           ELSE UNCHANGED <<nullable, changed>>
        /\ NextProduction /\ UNCHANGED status
  /\ UNCHANGED <<prods, seen, blamed>>

\* Two alternatives of choice c derive the empty string.
Ambiguous(c, S) ==
  \E i, j \in DOMAIN c : i < j /\ AltDerivesEmpty(c[i], S) /\ AltDerivesEmpty(c[j], S)

AmbiguousChoices(p, S) == {c \in DOMAIN Choices(p) : Ambiguous(Choices(p)[c], S)}

\* Mutants: references are not followed; and one empty branch is one too many.
checkNullableAltsLocal ==
  /\ status = "choices"
  /\ \/ /\ AtEnd
        /\ status' = "accepted"
        /\ UNCHANGED <<prods, k, seen, nullable, changed, blamed>>
     \/ /\ ~AtEnd /\ AmbiguousChoices(prods[k], {}) # {}
        /\ Refuse("ambiguous", IF 1 \in AmbiguousChoices(prods[k], {}) THEN "rule" ELSE "group")
     \/ /\ ~AtEnd /\ AmbiguousChoices(prods[k], {}) = {}
        /\ NextProduction
        /\ UNCHANGED <<prods, status, seen, nullable, changed, blamed>>

checkNullableAltsAny ==
  /\ status = "choices"
  /\ \/ /\ AtEnd
        /\ status' = "accepted"
        /\ UNCHANGED <<prods, k, seen, nullable, changed, blamed>>
     \/ /\ ~AtEnd /\ DerivesEmpty(prods[k], nullable)
        /\ Refuse("ambiguous", "rule")
     \/ /\ ~AtEnd /\ ~DerivesEmpty(prods[k], nullable)
        /\ NextProduction
        /\ UNCHANGED <<prods, status, seen, nullable, changed, blamed>>

\* One turn of the loop: the production's own alternatives, then its groups'.
checkNullableAlts ==
  /\ status = "choices"
  /\ \/ /\ AtEnd
        /\ status' = "accepted"
        /\ UNCHANGED <<prods, k, seen, nullable, changed, blamed>>
     \/ /\ ~AtEnd /\ AmbiguousChoices(prods[k], nullable) # {}
        /\ Refuse("ambiguous", IF 1 \in AmbiguousChoices(prods[k], nullable) THEN "rule" ELSE "group")
     \/ /\ ~AtEnd /\ AmbiguousChoices(prods[k], nullable) = {}
        /\ NextProduction
        /\ UNCHANGED <<prods, status, seen, nullable, changed, blamed>>

Next == parseEbnf \/ checkDuplicates \/ nullableRules \/ checkNullableAlts

\* One synchronous call.
Spec == Init /\ [][Next]_vars /\ WF_vars(Next)

-----------------------------------------------------------------------------
TypeOK ==
  /\ prods \in Seq(Production)
  /\ status \in {"read", "duplicates", "nullable", "choices"} \cup Ended
  /\ k \in 1 .. Len(prods) + 1
  /\ seen \subseteq Names /\ nullable \subseteq Names
  /\ changed \in BOOLEAN
  /\ blamed \in {<<>>} \cup ((DOMAIN prods) \X {"rule", "group"})

DistinctNames == \A i, j \in DOMAIN prods : prods[i].name = prods[j].name => i = j

\* A set of rules nothing can be added to, and the least one: the rules that derive
\* the empty string.
Closed(S) == \A i \in DOMAIN prods : DerivesEmpty(prods[i], S) => prods[i].name \in S
Least == {n \in Names : \A S \in SUBSET Names : Closed(S) => n \in S}

\* nullableRules returns the least fixed point: it stops neither before a rule whose
\* nullability comes from a later one, nor with a rule that only a cycle supports.
NullableIsLeast == status \in {"choices", "accepted", "ambiguous"} => nullable = Least

\* An accepted grammar defines each rule once, and no choice in it, at any depth, has
\* two alternatives that derive the empty string.
AcceptsUnambiguous ==
  status = "accepted" =>
    /\ prods # <<>> /\ DistinctNames
    /\ \A i \in DOMAIN prods : AmbiguousChoices(prods[i], Least) = {}

\* A refusal is for a reason, and blames the first production that gives it.
RefusesForAReason ==
  /\ status = "defined twice" =>
       \E i \in DOMAIN prods : i < blamed[1] /\ prods[i].name = prods[blamed[1]].name
  /\ status = "ambiguous" =>
       /\ DistinctNames
       /\ \E c \in AmbiguousChoices(prods[blamed[1]], Least) : c = 1 <=> blamed[2] = "rule"
       /\ \A i \in 1 .. blamed[1] - 1 : AmbiguousChoices(prods[i], Least) = {}

\* The checks end: a pass of nullableRules that changes nothing comes.
Terminates == <>(status \in Ended)

==============================================================================
