----------------------------- MODULE ChecksProofs -----------------------------
(***************************************************************************)
(* Proofs about parseEbnf's checks, for every set of rule names, every     *)
(* grammar over them and every monotone AltDerivesEmpty: an accepted       *)
(* grammar defines each rule once and has no choice between two ways to    *)
(* derive the empty string; a refused one is refused for a reason.         *)
(*                                                                         *)
(* The inductive invariant IInv says what each loop has established for    *)
(* the productions behind k.  Its core is nullableRules: the set never     *)
(* holds more than the least fixed point (it lies within every closed      *)
(* set, Sound), and what this pass has gone past is closed as long as the  *)
(* pass has changed nothing (Stable).                                      *)
(***************************************************************************)
EXTENDS Checks, TLAPS

Behind == 1 .. k - 1

Types == prods \in Grammars /\ TypeOK

SeenNames ==
  /\ status = "read" => seen = {}
  /\ status = "duplicates" =>
       /\ prods # <<>>
       /\ seen = {prods[i].name : i \in Behind}
       /\ \A i, j \in Behind : prods[i].name = prods[j].name => i = j

Distinct ==
  status \in {"nullable", "choices", "accepted", "ambiguous"} => prods # <<>> /\ DistinctNames

Sound == \A S \in SUBSET Names : Closed(S) => nullable \subseteq S

Stable ==
  status = "nullable" /\ ~changed =>
    \A i \in Behind : DerivesEmpty(prods[i], nullable) => prods[i].name \in nullable

Complete == status \in {"choices", "accepted", "ambiguous"} => Closed(nullable)

Clean ==
  /\ status = "choices" => \A i \in Behind : AmbiguousChoices(prods[i], nullable) = {}
  /\ status = "accepted" => \A i \in DOMAIN prods : AmbiguousChoices(prods[i], nullable) = {}

Blame ==
  /\ status = "defined twice" =>
       \E i \in DOMAIN prods : i < blamed[1] /\ prods[i].name = prods[blamed[1]].name
  /\ status = "ambiguous" =>
       /\ \E c \in AmbiguousChoices(prods[blamed[1]], nullable) : c = 1 <=> blamed[2] = "rule"
       /\ \A i \in 1 .. blamed[1] - 1 : AmbiguousChoices(prods[i], nullable) = {}

IInv == Types /\ SeenNames /\ Distinct /\ Sound /\ Stable /\ Complete /\ Clean /\ Blame

-----------------------------------------------------------------------------
\* The productions read are records of names and alternatives.
LEMMA ProductionTypes ==
  ASSUME prods \in Grammars, NEW i \in DOMAIN prods
  PROVE  /\ i \in 1 .. Len(prods) /\ prods[i].name \in Names
         /\ prods[i].alts \in Seq(Alternatives)
         /\ \A j \in DOMAIN prods[i].alts : prods[i].alts[j] \in Alternatives
<1>1. prods \in Seq(Production)
  BY GrammarsAssumption
<1>2. i \in 1 .. Len(prods) /\ prods[i] \in Production
  BY <1>1
<1>3. prods[i].name \in Names /\ prods[i].alts \in Seq(Alternatives)
  BY <1>2 DEF Production
<1> QED
  BY <1>2, <1>3

\* More nullable rules, more productions that derive the empty string.
LEMMA DerivesEmptyMonotone ==
  ASSUME prods \in Grammars, NEW i \in DOMAIN prods,
         NEW S \in SUBSET Names, NEW T \in SUBSET Names, S \subseteq T,
         DerivesEmpty(prods[i], S)
  PROVE  DerivesEmpty(prods[i], T)
  BY ProductionTypes, MonotoneAssumption DEF DerivesEmpty

\* A closed set within every closed set is the least one.
LEMMA ClosedIsLeast ==
  ASSUME Sound, Closed(nullable), nullable \subseteq Names
  PROVE  nullable = Least
  BY DEF Sound, Least

-----------------------------------------------------------------------------
LEMMA InitEstablishes == Init => IInv
<1> SUFFICES ASSUME Init PROVE IInv
  OBVIOUS
<1>1. Types
  <2>1. prods \in Grammars /\ prods \in Seq(Production)
    BY GrammarsAssumption DEF Init
  <2>2. k \in 1 .. Len(prods) + 1
    BY <2>1 DEF Init
  <2> QED
    BY <2>1, <2>2 DEF Init, Types, TypeOK, Ended
<1> QED
  BY <1>1 DEF Init, IInv, SeenNames, Distinct, Sound, Stable, Complete, Clean, Blame

\* parseEbnf enters the first loop, or refuses a source without productions.
LEMMA ParseKeeps == IInv /\ parseEbnf => IInv'
<1> SUFFICES ASSUME IInv, parseEbnf PROVE IInv'
  OBVIOUS
<1>1. Types'
  <2>1. Types /\ Len(prods) \in Nat /\ k \in 1 .. Len(prods) + 1
    BY DEF IInv, Types, TypeOK
  <2>2. prods' = prods /\ k' \in 1 .. Len(prods) + 1
    <3>1. prods' = prods /\ (k' = k \/ k' = 1)
      BY DEF parseEbnf, Start
    <3> QED
      BY <2>1, <3>1
  <2>3. status' \in {"duplicates", "no productions"}
    BY DEF parseEbnf, Start
  <2>4. seen' = seen /\ nullable' = nullable /\ changed' = changed /\ blamed' = blamed
    BY DEF parseEbnf
  <2> QED
    BY <2>1, <2>2, <2>3, <2>4 DEF Types, TypeOK, Ended
<1>2. (SeenNames /\ Distinct /\ Stable /\ Complete /\ Clean /\ Blame)'
  <2>1. seen = {} /\ status = "read"
    BY DEF IInv, SeenNames, parseEbnf
  <2>2. CASE prods = <<>>
    BY <2>1, <2>2 DEF SeenNames, Distinct, Stable, Complete, Clean, Blame, parseEbnf
  <2>3. CASE prods # <<>>
    <3>1. k' = 1 /\ Behind' = {} /\ status' = "duplicates" /\ prods' = prods /\ seen' = {}
      BY <2>1, <2>3 DEF parseEbnf, Start, Behind
    <3> QED
      BY <2>3, <3>1 DEF SeenNames, Distinct, Stable, Complete, Clean, Blame
  <2> QED
    BY <2>2, <2>3
<1>3. Sound'
  BY DEF IInv, Sound, Closed, parseEbnf
<1> QED
  BY <1>1, <1>2, <1>3 DEF IInv

\* Refusing production k, which is one of them, keeps the types.
LEMMA RefuseTypes ==
  ASSUME Types, ~AtEnd, NEW why \in Ended, NEW subject \in {"rule", "group"}, Refuse(why, subject)
  PROVE  Types'
<1>1. k \in 1 .. Len(prods) + 1 /\ prods \in Seq(Production) /\ Len(prods) \in Nat
  BY DEF Types, TypeOK
<1>2. k \in DOMAIN prods
  BY <1>1 DEF AtEnd
<1>3. blamed' \in (DOMAIN prods) \X {"rule", "group"}
  BY <1>2 DEF Refuse
<1>4. prods' = prods /\ k' = k /\ seen' = seen /\ nullable' = nullable /\ changed' = changed /\ status' = why
  BY DEF Refuse
<1> QED
  BY <1>1, <1>3, <1>4 DEF Types, TypeOK

\* So does going on to the next production, or starting over at the first.
LEMMA LoopTypes ==
  ASSUME Types, status' \in {"duplicates", "nullable", "choices", "accepted"},
         prods' = prods, blamed' = blamed,
         seen' \subseteq Names, nullable' \subseteq Names, changed' \in BOOLEAN,
         k' = k \/ k' = 1 \/ (~AtEnd /\ k' = k + 1)
  PROVE  Types'
<1>1. k \in 1 .. Len(prods) + 1 /\ prods \in Seq(Production) /\ Len(prods) \in Nat
  BY DEF Types, TypeOK
<1>2. k' \in 1 .. Len(prods) + 1
  BY <1>1 DEF AtEnd
<1> QED
  BY <1>2 DEF Types, TypeOK, Ended

\* The production that a loop has come to.
LEMMA Current ==
  ASSUME Types, ~AtEnd
  PROVE  /\ k \in DOMAIN prods /\ k \in Nat \ {0}
         /\ prods[k].name \in Names
<1>1. k \in 1 .. Len(prods) + 1 /\ prods \in Seq(Production) /\ Len(prods) \in Nat
  BY DEF Types, TypeOK
<1>2. k \in DOMAIN prods /\ k \in Nat \ {0}
  BY <1>1 DEF AtEnd
<1> QED
  BY <1>2, ProductionTypes DEF Types

\* When a loop ends it has been through every production.
LEMMA AllBehind ==
  ASSUME Types, AtEnd
  PROVE  Behind = DOMAIN prods
<1>1. k \in 1 .. Len(prods) + 1 /\ prods \in Seq(Production) /\ Len(prods) \in Nat
  BY DEF Types, TypeOK
<1> QED
  BY <1>1 DEF AtEnd, Behind

\* The set is closed only against the productions and itself.
LEMMA SoundUnchanged ==
  ASSUME Sound, prods' = prods, nullable' = nullable
  PROVE  Sound'
  BY DEF Sound, Closed

-----------------------------------------------------------------------------
LEMMA DuplicatesKeeps == IInv /\ checkDuplicates => IInv'
<1> SUFFICES ASSUME IInv, checkDuplicates PROVE IInv'
  OBVIOUS
<1>0. status = "duplicates" /\ prods' = prods /\ Types
  BY DEF IInv, checkDuplicates, Refuse
<1>1. CASE AtEnd
  <2>1. /\ status' = "nullable" /\ k' = 1 /\ nullable' = {} /\ changed' = FALSE
        /\ seen' = seen /\ blamed' = blamed
    BY <1>1 DEF checkDuplicates, Start
  <2>2. Types'
    BY <1>0, <2>1, LoopTypes DEF Types, TypeOK
  <2>3. Distinct'
    BY <1>0, <1>1, <2>1, AllBehind DEF IInv, SeenNames, Distinct, DistinctNames
  <2>4. Sound' /\ Stable'
    BY <2>1 DEF Sound, Stable, Behind
  <2> QED
    BY <2>1, <2>2, <2>3, <2>4 DEF IInv, SeenNames, Complete, Clean, Blame
<1>2. CASE ~AtEnd /\ prods[k].name \in seen
  <2>1. Refuse("defined twice", "rule")
    BY <1>2 DEF checkDuplicates
  <2>2. Types'
    BY <1>0, <1>2, <2>1, RefuseTypes DEF Ended
  <2>3. /\ status' = "defined twice" /\ blamed' = <<k, "rule">>
        /\ nullable' = nullable
    BY <2>1 DEF Refuse
  <2>4. PICK i \in Behind : prods[i].name = prods[k].name
    BY <1>0, <1>2 DEF IInv, SeenNames
  <2>5. i \in DOMAIN prods /\ i < k
    <3>1. k \in 1 .. Len(prods) + 1 /\ prods \in Seq(Production) /\ Len(prods) \in Nat
      BY <1>0 DEF Types, TypeOK
    <3> QED
      BY <3>1, <2>4 DEF Behind
  <2>6. Blame'
    BY <1>0, <2>3, <2>4, <2>5 DEF Blame
  <2>7. Sound'
    BY <1>0, <2>3, SoundUnchanged DEF IInv
  <2> QED
    BY <2>2, <2>3, <2>6, <2>7 DEF IInv, SeenNames, Distinct, Stable, Complete, Clean
<1>3. CASE ~AtEnd /\ prods[k].name \notin seen
  <2>1. /\ status' = "duplicates" /\ k' = k + 1 /\ seen' = seen \cup {prods[k].name}
        /\ nullable' = nullable /\ changed' = changed /\ blamed' = blamed
    BY <1>0, <1>3 DEF checkDuplicates, NextProduction
  <2>2. Types'
    BY <1>0, <1>3, <2>1, LoopTypes, Current DEF Types, TypeOK
  <2>3. SeenNames'
    <3>1. Behind' = Behind \cup {k} /\ k \notin Behind
      BY <1>0, <1>3, <2>1, Current DEF Behind
    <3>2. /\ prods # <<>>
          /\ seen = {prods[i].name : i \in Behind}
          /\ \A i, j \in Behind : prods[i].name = prods[j].name => i = j
      BY <1>0 DEF IInv, SeenNames
    <3>3. seen' = {prods'[i].name : i \in Behind'}
      BY <1>0, <2>1, <3>1, <3>2
    <3>4. \A i, j \in Behind' : prods'[i].name = prods'[j].name => i = j
      BY <1>0, <1>3, <3>1, <3>2
    <3> QED
      BY <1>0, <2>1, <3>2, <3>3, <3>4 DEF SeenNames
  <2>4. Sound'
    BY <1>0, <2>1, SoundUnchanged DEF IInv
  <2> QED
    BY <2>1, <2>2, <2>3, <2>4 DEF IInv, Distinct, Stable, Complete, Clean, Blame
<1> QED
  BY <1>1, <1>2, <1>3

\* The heart of it.  A rule is added only when every closed set already holds it; a
\* pass that adds none leaves a closed set.
LEMMA NullableKeeps == IInv /\ nullableRules => IInv'
<1> SUFFICES ASSUME IInv, nullableRules PROVE IInv'
  OBVIOUS
<1>0. /\ status = "nullable" /\ Types /\ prods' = prods /\ seen' = seen /\ blamed' = blamed
      /\ Distinct /\ nullable \subseteq Names /\ prods \in Grammars
  BY DEF IInv, nullableRules, Types, TypeOK
<1>1. CASE AtEnd /\ changed
  <2>1. status' = "nullable" /\ k' = 1 /\ changed' = FALSE /\ nullable' = nullable
    BY <1>1 DEF nullableRules, Start
  <2>2. Types'
    BY <1>0, <2>1, LoopTypes DEF Types, TypeOK
  <2>3. Sound'
    BY <1>0, <2>1, SoundUnchanged DEF IInv
  <2> QED
    BY <1>0, <2>1, <2>2, <2>3 DEF IInv, SeenNames, Distinct, DistinctNames, Stable, Behind,
       Complete, Clean, Blame
<1>2. CASE AtEnd /\ ~changed
  <2>1. status' = "choices" /\ k' = 1 /\ changed' = changed /\ nullable' = nullable
    BY <1>2 DEF nullableRules, Start
  <2>2. Types'
    BY <1>0, <2>1, LoopTypes DEF Types, TypeOK
  <2>3. Complete'
    BY <1>0, <1>2, <2>1, AllBehind DEF IInv, Stable, Complete, Closed
  <2>4. Sound'
    BY <1>0, <2>1, SoundUnchanged DEF IInv
  <2> QED
    BY <1>0, <2>1, <2>2, <2>3, <2>4 DEF IInv, SeenNames, Distinct, DistinctNames, Stable, Behind,
       Clean, Blame
<1>3. CASE ~AtEnd
  <2>1. status' = "nullable" /\ k' = k + 1
    BY <1>0, <1>3 DEF nullableRules, NextProduction
  <2>2. k \in DOMAIN prods /\ k \in Nat \ {0} /\ prods[k].name \in Names
    BY <1>0, <1>3, Current
  <2>3. CASE prods[k].name \notin nullable /\ DerivesEmpty(prods[k], nullable)
    <3>1. nullable' = nullable \cup {prods[k].name} /\ changed' = TRUE
      BY <1>3, <2>3 DEF nullableRules
    <3>2. Types'
      BY <1>0, <1>3, <2>1, <2>2, <3>1, LoopTypes DEF Types, TypeOK
    <3>3. Sound'
      <4> SUFFICES ASSUME NEW S \in SUBSET Names, Closed(S) PROVE nullable' \subseteq S
        BY <1>0 DEF Sound, Closed
      <4>1. nullable \subseteq S
        BY DEF IInv, Sound
      <4>2. DerivesEmpty(prods[k], S)
        BY <1>0, <2>2, <2>3, <4>1, DerivesEmptyMonotone
      <4> QED
        BY <2>2, <3>1, <4>1, <4>2 DEF Closed
    <3> QED
      BY <1>0, <2>1, <3>1, <3>2, <3>3 DEF IInv, SeenNames, Distinct, DistinctNames, Stable,
         Complete, Clean, Blame
  <2>4. CASE ~(prods[k].name \notin nullable /\ DerivesEmpty(prods[k], nullable))
    <3>1. nullable' = nullable /\ changed' = changed
      BY <1>3, <2>4 DEF nullableRules
    <3>2. Types'
      BY <1>0, <1>3, <2>1, <3>1, LoopTypes DEF Types, TypeOK
    <3>3. Sound'
      BY <1>0, <3>1, SoundUnchanged DEF IInv
    <3>4. Stable'
      <4>1. Behind' = Behind \cup {k}
        BY <2>1, <2>2 DEF Behind
      <4> QED
        BY <1>0, <2>4, <3>1, <4>1 DEF IInv, Stable, DerivesEmpty
    <3> QED
      BY <1>0, <2>1, <3>1, <3>2, <3>3, <3>4 DEF IInv, SeenNames, Distinct, DistinctNames,
         Complete, Clean, Blame
  <2> QED
    BY <2>3, <2>4
<1> QED
  BY <1>1, <1>2, <1>3

LEMMA ChoicesKeeps == IInv /\ checkNullableAlts => IInv'
<1> SUFFICES ASSUME IInv, checkNullableAlts PROVE IInv'
  OBVIOUS
<1>0. /\ status = "choices" /\ Types /\ Distinct /\ Closed(nullable)
      /\ prods' = prods /\ seen' = seen /\ nullable' = nullable /\ changed' = changed
  BY DEF IInv, Complete, checkNullableAlts, Refuse
<1>1. Sound' /\ (Closed(nullable))'
  BY <1>0, SoundUnchanged DEF IInv, Closed
<1>2. CASE AtEnd
  <2>1. status' = "accepted" /\ k' = k /\ blamed' = blamed
    BY <1>2 DEF checkNullableAlts
  <2>2. Types'
    BY <1>0, <2>1, LoopTypes DEF Types, TypeOK
  <2>3. Clean'
    BY <1>0, <1>2, <2>1, AllBehind DEF IInv, Clean
  <2> QED
    BY <1>0, <1>1, <2>1, <2>2, <2>3 DEF IInv, SeenNames, Distinct, DistinctNames, Stable,
       Complete, Blame
<1>3. CASE ~AtEnd /\ AmbiguousChoices(prods[k], nullable) # {}
  <2> DEFINE subject == IF 1 \in AmbiguousChoices(prods[k], nullable) THEN "rule" ELSE "group"
  <2>1. Refuse("ambiguous", subject)
    BY <1>3 DEF checkNullableAlts
  <2>2. Types'
    BY <1>0, <1>3, <2>1, RefuseTypes DEF Ended
  <2>3. status' = "ambiguous" /\ blamed' = <<k, subject>> /\ blamed'[1] = k /\ blamed'[2] = subject
    BY <2>1 DEF Refuse
  <2>4. \E c \in AmbiguousChoices(prods[k], nullable) : c = 1 <=> subject = "rule"
    BY <1>3
  <2>5. \A i \in 1 .. k - 1 : AmbiguousChoices(prods[i], nullable) = {}
    BY <1>0 DEF IInv, Clean, Behind
  <2>6. Blame'
    <3> HIDE DEF subject
    <3> QED
      BY <1>0, <2>3, <2>4, <2>5 DEF Blame, AmbiguousChoices, Ambiguous
  <2> QED
    BY <1>0, <1>1, <2>2, <2>3, <2>6 DEF IInv, SeenNames, Distinct, DistinctNames, Stable,
       Complete, Clean
<1>4. CASE ~AtEnd /\ AmbiguousChoices(prods[k], nullable) = {}
  <2>1. status' = status /\ k' = k + 1 /\ blamed' = blamed
    BY <1>4 DEF checkNullableAlts, NextProduction
  <2>2. Types'
    BY <1>0, <1>4, <2>1, LoopTypes DEF Types, TypeOK
  <2>3. Clean'
    <3>1. Behind' = Behind \cup {k}
      BY <1>0, <1>4, <2>1, Current DEF Behind
    <3>2. \A i \in Behind' : AmbiguousChoices(prods[i], nullable) = {}
      BY <1>0, <1>4, <3>1 DEF IInv, Clean
    <3> QED
      BY <1>0, <2>1, <3>2 DEF Clean, AmbiguousChoices, Ambiguous
  <2> QED
    BY <1>0, <1>1, <2>1, <2>2, <2>3 DEF IInv, SeenNames, Distinct, DistinctNames, Stable,
       Complete, Blame
<1> QED
  BY <1>2, <1>3, <1>4

LEMMA StutterKeeps == IInv /\ UNCHANGED vars => IInv'
<1> SUFFICES ASSUME IInv, UNCHANGED vars PROVE IInv'
  OBVIOUS
<1> USE DEF IInv, vars
<1>1. Types' /\ SeenNames' /\ Distinct'
  BY DEF Types, TypeOK, SeenNames, Behind, Distinct, DistinctNames
<1>2. Sound' /\ Stable' /\ Complete'
  BY DEF Sound, Closed, DerivesEmpty, Stable, Behind, Complete
<1>3. Clean'
  BY DEF Clean, Behind, AmbiguousChoices, Ambiguous
<1>4. Blame'
  <2> HIDE DEF IInv
  <2>1. Blame /\ prods' = prods /\ status' = status /\ nullable' = nullable /\ blamed' = blamed
    BY DEF IInv
  <2> QED
    BY <2>1, ZenonT(30) DEF Blame
<1> QED
  BY <1>1, <1>2, <1>3, <1>4

-----------------------------------------------------------------------------
\* Every reachable state satisfies the inductive invariant.
THEOREM Inductive == Spec => []IInv
<1>1. IInv /\ [Next]_vars => IInv'
  BY ParseKeeps, DuplicatesKeeps, NullableKeeps, ChoicesKeeps, StutterKeeps DEF Next
<1> QED
  BY <1>1, InitEstablishes, PTL DEF Spec

\* The variables of parseEbnf's checks keep their types, and a refusal blames a
\* production of the source.
THEOREM TypeCorrect == Spec => []TypeOK
<1>1. IInv => TypeOK
  BY DEF IInv, Types
<1> QED
  BY <1>1, Inductive, PTL

\* nullableRules returns the least fixed point, for any grammar in any order.
LEMMA LeastReached == IInv => NullableIsLeast
  BY ClosedIsLeast DEF IInv, Complete, NullableIsLeast, Types, TypeOK

THEOREM NullableLeast == Spec => []NullableIsLeast
  BY LeastReached, Inductive, PTL

\* An accepted grammar has each rule once and no ambiguous choice.
THEOREM AcceptedUnambiguous == Spec => []AcceptsUnambiguous
<1>1. IInv => AcceptsUnambiguous
  BY LeastReached DEF IInv, NullableIsLeast, AcceptsUnambiguous, Distinct, Clean
<1> QED
  BY <1>1, Inductive, PTL

\* A refusal is for a repeated name or an ambiguous choice, in the production it blames.
THEOREM RefusedForAReason == Spec => []RefusesForAReason
<1>1. IInv => RefusesForAReason
  BY LeastReached DEF IInv, NullableIsLeast, RefusesForAReason, Distinct, Blame
<1> QED
  BY <1>1, Inductive, PTL

==============================================================================
