--------------------------- MODULE EbnfReaderProofs ---------------------------
(***************************************************************************)
(* The rule table of EbnfRules keeps the shape of its stack, names what it *)
(* refuses, moves on, and reads the documented notation and nothing else,  *)
(* whatever the source and however long.                                   *)
(*                                                                         *)
(* The first part unrolls the table: for each rule and state, what a step  *)
(* of it does to the stack and what the tokens in sight then are.  What    *)
(* comes after rests on those lemmas and never opens an alternative again. *)
(* The invariant of the second says what each rule knows: who waits for    *)
(* it, what has just been read and what is in sight, which groups are      *)
(* open.  That of the third says what each rule has heard, and that the    *)
(* tree it has made of it is the one the notation gives those words.  The  *)
(* last part is the Rust port: the same table, with two limits.            *)
(***************************************************************************)
EXTENDS EbnfReader, RustRules, NotationProofs, FiniteSetTheorems

-----------------------------------------------------------------------------
(* The first alternative.                                                   *)

\* The least element of a set of naturals is one.
LEMMA MinIsLeast ==
  ASSUME NEW I \in SUBSET Nat, I # {}
  PROVE  Min(I) \in I /\ \A i \in I : Min(I) <= i
  BY HasLeast DEF Min

\* Choice is the first alternative that agrees with what is in sight, or 0.
LEMMA ChoiceIsFirst ==
  ASSUME Len(Alternatives) \in Nat
  PROVE  \/ Choice = 0 /\ \A i \in 1 .. Len(Alternatives) : ~Agrees(Alternatives[i], Top)
         \/ /\ Choice \in 1 .. Len(Alternatives) /\ Agrees(Alternatives[Choice], Top)
            /\ \A i \in 1 .. Choice - 1 : ~Agrees(Alternatives[i], Top)
  <1> DEFINE I == {i \in 1 .. Len(Alternatives) : Agrees(Alternatives[i], Top)}
  <1>1. Choice = IF I # {} THEN Min(I) ELSE 0
    BY DEF Choice, SelectInSeq
  <1>2. CASE I = {}  BY <1>1, <1>2
  <1>3. CASE I # {}
    <2>1. Choice \in I /\ \A i \in I : Choice <= i
      <3>1. I \in SUBSET Nat /\ Choice = Min(I)
        BY <1>1, <1>3
      <3> HIDE DEF I
      <3> QED  BY <1>3, <3>1, MinIsLeast
    <2>2. \A i \in 1 .. Choice - 1 : i \notin I  BY <2>1
    <2> QED  BY <2>1, <2>2
  <1> QED  BY <1>2, <1>3

\* What is in sight allows kinds at the k-th token not consumed; that token is in
\* sight and of kinds; it is in sight and is not.
May(k, kinds) == pos + k <= Len(src) => Kind(src[pos + k]) \in kinds
Sees(k, kinds) == pos + k <= Len(src) /\ Kind(src[pos + k]) \in kinds
SeesOther(k, kinds) == pos + k <= Len(src) /\ Kind(src[pos + k]) \notin kinds

LEMMA NoPattern ==
  ASSUME NEW alt, alt.s = <<>>
  PROVE  Agrees(alt, Top) <=> Condition(alt, Top)
  BY DEF Agrees

LEMMA OneToken ==
  ASSUME NEW alt, NEW kinds, alt.s = <<kinds>>
  PROVE  /\ Agrees(alt, Top) <=> Condition(alt, Top) /\ May(1, kinds)
         /\ InSight(alt) <=> pos + 1 <= Len(src)
  BY DEF Agrees, InSight, May

LEMMA TwoTokens ==
  ASSUME NEW alt, alt.s = Header
  PROVE  /\ Agrees(alt, Top) <=> Condition(alt, Top) /\ May(1, {"TX"}) /\ May(2, DEFOP)
         /\ InSight(alt) <=> pos + 2 <= Len(src)
  BY DEF Agrees, InSight, May, Header

\* The elements of a concatenation.
LEMMA Joins ==
  ASSUME NEW S, NEW a \in Seq(S), NEW b \in Seq(S)
  PROVE  a \o b \in Seq(S) /\ Len(a \o b) = Len(a) + Len(b)
  OBVIOUS

LEMMA JoinsFirst ==
  ASSUME NEW S, NEW a \in Seq(S), NEW b \in Seq(S), NEW i \in 1 .. Len(a)
  PROVE  (a \o b)[i] = a[i]
  OBVIOUS

LEMMA JoinsSecond ==
  ASSUME NEW S, NEW a \in Seq(S), NEW b \in Seq(S), NEW i \in 1 .. Len(b)
  PROVE  (a \o b)[Len(a) + i] = b[i]
  OBVIOUS

LEMMA Joined ==
  ASSUME NEW S, NEW a \in Seq(S), NEW b \in Seq(S), NEW d, d = a \o b
  PROVE  /\ d \in Seq(S) /\ Len(d) = Len(a) + Len(b)
         /\ \A i \in 1 .. Len(a) : d[i] = a[i]
         /\ \A i \in 1 .. Len(b) : d[Len(a) + i] = b[i]
  OBVIOUS

LEMMA Parts ==
  ASSUME NEW S, NEW a \in Seq(S), NEW b \in Seq(S), NEW c \in Seq(S), NEW d \in Seq(S),
         Len(d) = Len(a) + Len(b), Len(a) = 1, Len(b) = 2, Len(c) = 3,
         \A i \in 1 .. Len(a) : d[i] = a[i],
         \A i \in 1 .. Len(b) : d[Len(a) + i] = b[i],
         c[1] = a[1], c[2] = b[1], c[3] = b[2]
  PROVE  d = c
  <1>2. d[1] = a[1] /\ d[2] = b[1] /\ d[3] = b[2]
    OBVIOUS
  <1>3. Len(d) = 3 /\ \A i \in 1 .. 3 : i = 1 \/ i = 2 \/ i = 3
    OBVIOUS
  <1>4. \A i \in 1 .. Len(d) : d[i] = c[i]
    BY <1>2, <1>3
  <1> QED
    BY <1>3, <1>4, SeqEqual

LEMMA Three ==
  ASSUME NEW x, NEW y, NEW z
  PROVE  <<x>> \o <<y, z>> = <<x, y, z>>
  <1> DEFINE S == {x, y, z}
             a == <<x>>
             b == <<y, z>>
             c == <<x, y, z>>
             d == a \o b
  <1>1. a \in Seq(S) /\ Len(a) = 1 /\ a[1] = x
    OBVIOUS
  <1>2. b \in Seq(S) /\ Len(b) = 2 /\ b[1] = y /\ b[2] = z
    OBVIOUS
  <1>3. c \in Seq(S) /\ Len(c) = 3 /\ c[1] = x /\ c[2] = y /\ c[3] = z
    OBVIOUS
  <1>4. d = a \o b
    OBVIOUS
  <1> HIDE DEF S, a, b, c, d
  <1>5. /\ d \in Seq(S) /\ Len(d) = Len(a) + Len(b)
        /\ \A i \in 1 .. Len(a) : d[i] = a[i]
        /\ \A i \in 1 .. Len(b) : d[Len(a) + i] = b[i]
    <2>1. a \in Seq(S) /\ b \in Seq(S)  BY <1>1, <1>2
    <2> QED  BY <1>4, <2>1, Joined
  <1>7. d = c
    BY <1>1, <1>2, <1>3, <1>5, Parts
  <1> QED  BY <1>7 DEF a, b, c, d

LEMMA DomainThree ==
  ASSUME NEW x, NEW y, NEW z
  PROVE  DOMAIN <<x, y, z>> = {1, 2, 3}
  OBVIOUS

LEMMA ThreeTokens ==
  ASSUME NEW alt, alt.s = <<{"SC"}>> \o Header
  PROVE  /\ Agrees(alt, Top) <=> Condition(alt, Top) /\ May(1, {"SC"}) /\ May(2, {"TX"}) /\ May(3, DEFOP)
         /\ InSight(alt) <=> pos + 3 <= Len(src)
         /\ Len(alt.s) = 3
  <1> DEFINE sc == {"SC"}
             tx == {"TX"}
  <1>1. alt.s = <<sc>> \o <<tx, DEFOP>>
    BY DEF Header
  <1> HIDE DEF sc, tx
  <1>2. alt.s = <<sc, tx, DEFOP>>
    BY <1>1, Three, Zenon
  <1>4. Len(alt.s) = 3 /\ alt.s[1] = sc /\ alt.s[2] = tx /\ alt.s[3] = DEFOP
    <2> DEFINE t == <<sc, tx, DEFOP>>
    <2>1. Len(t) = 3 /\ t[1] = sc /\ t[2] = tx /\ t[3] = DEFOP
      OBVIOUS
    <2> HIDE DEF t
    <2>2. alt.s = t
      BY <1>2, Zenon DEF t
    <2> QED  BY <2>1, <2>2, Zenon
  <1>5. alt.s[1] = {"SC"} /\ alt.s[2] = {"TX"} /\ alt.s[3] = DEFOP
    BY <1>4, Zenon DEF sc, tx
  <1>8. DOMAIN alt.s = {1, 2, 3}
    BY <1>2, Zenon, DomainThree
  <1>9. Agrees(alt, Top) <=> Condition(alt, Top) /\ May(1, alt.s[1]) /\ May(2, alt.s[2]) /\ May(3, alt.s[3])
    BY <1>8 DEF Agrees, May
  <1> QED  BY <1>4, <1>5, <1>9 DEF InSight

-----------------------------------------------------------------------------
(* Taking an alternative.                                                   *)

IsFrame(f) ==
  /\ f = [rule |-> f.rule, state |-> f.state, u |-> f.u, child |-> f.child, node |-> f.node]
  /\ f.rule \in RuleNames

WithState(frame) == [frame EXCEPT !.state = "close"]
WithU(frame, u) == [frame EXCEPT !.u = u]
WithChild(frame, node) == [frame EXCEPT !.child = node]
WithNode(frame, node) == [frame EXCEPT !.node = node]

LEMMA StateFields ==
  ASSUME NEW f, IsFrame(f)
  PROVE  /\ IsFrame(WithState(f))
         /\ WithState(f).rule = f.rule /\ WithState(f).state = "close" /\ WithState(f).u = f.u
         /\ WithState(f).child = f.child /\ WithState(f).node = f.node
  <1>1. WithState(f) = [rule |-> f.rule, state |-> "close", u |-> f.u, child |-> f.child, node |-> f.node]
    BY DEF IsFrame, WithState
  <1> QED  BY <1>1 DEF IsFrame

LEMMA UFields ==
  ASSUME NEW f, IsFrame(f), NEW x
  PROVE  /\ IsFrame(WithU(f, x))
         /\ WithU(f, x).rule = f.rule /\ WithU(f, x).state = f.state /\ WithU(f, x).u = x
         /\ WithU(f, x).child = f.child /\ WithU(f, x).node = f.node
  <1>1. WithU(f, x) = [rule |-> f.rule, state |-> f.state, u |-> x, child |-> f.child, node |-> f.node]
    BY DEF IsFrame, WithU
  <1> QED  BY <1>1 DEF IsFrame

LEMMA ChildFields ==
  ASSUME NEW f, IsFrame(f), NEW x
  PROVE  /\ IsFrame(WithChild(f, x))
         /\ WithChild(f, x).rule = f.rule /\ WithChild(f, x).state = f.state /\ WithChild(f, x).u = f.u
         /\ WithChild(f, x).child = x /\ WithChild(f, x).node = f.node
  <1>1. WithChild(f, x) = [rule |-> f.rule, state |-> f.state, u |-> f.u, child |-> x, node |-> f.node]
    BY DEF IsFrame, WithChild
  <1> QED  BY <1>1 DEF IsFrame

LEMMA NodeFields ==
  ASSUME NEW f, IsFrame(f), NEW x
  PROVE  /\ IsFrame(WithNode(f, x))
         /\ WithNode(f, x).rule = f.rule /\ WithNode(f, x).state = f.state /\ WithNode(f, x).u = f.u
         /\ WithNode(f, x).child = f.child /\ WithNode(f, x).node = x
  <1>1. WithNode(f, x) = [rule |-> f.rule, state |-> f.state, u |-> f.u, child |-> f.child, node |-> x]
    BY DEF IsFrame, WithNode
  <1> QED  BY <1>1 DEF IsFrame

LEMMA FrontIsSeq ==
  ASSUME NEW s, IsSeq(s), s # <<>>
  PROVE  /\ IsSeq(Front(s)) /\ Len(Front(s)) = Len(s) - 1
         /\ \A i \in 1 .. Len(s) - 1 : Front(s)[i] = s[i]
  <1>1. Len(s) \in Nat \ {0}
    BY DEF IsSeq
  <1>2. Front(s) = [i \in 1 .. Len(s) - 1 |-> s[i]]
    BY <1>1 DEF IsSeq, Front
  <1>3. Front(s) \in Seq(Range(s)) /\ Len(Front(s)) = Len(s) - 1 /\ \A i \in 1 .. Len(s) - 1 : Front(s)[i] = s[i]
    BY <1>1, <1>2 DEF IsSeq
  <1> QED  BY <1>3, SeqDef DEF IsSeq, Range

LEMMA ExceptIsSeq ==
  ASSUME NEW s, IsSeq(s), NEW k \in 1 .. Len(s), NEW x
  PROVE  /\ IsSeq([s EXCEPT ![k] = x]) /\ Len([s EXCEPT ![k] = x]) = Len(s)
         /\ \A i \in 1 .. Len(s) : [s EXCEPT ![k] = x][i] = IF i = k THEN x ELSE s[i]
  <1> DEFINE T == Range(s) \cup {x}
             e == [s EXCEPT ![k] = x]
  <1>1. s \in Seq(T) /\ x \in T
    BY DEF IsSeq
  <1>2. /\ e \in Seq(T) /\ Len(e) = Len(s)
        /\ \A i \in 1 .. Len(s) : e[i] = IF i = k THEN x ELSE s[i]
    <2> HIDE DEF T
    <2> QED  BY <1>1, ExceptSeq
  <1>3. IsSeq(e)
    BY <1>2, SeqOfRange DEF IsSeq
  <1> QED  BY <1>2, <1>3

IsReplaced(e, s, k, x) == e = [s EXCEPT ![k] = x]

LEMMA Replaced ==
  ASSUME NEW s, IsSeq(s), NEW k, k \in 1 .. Len(s), NEW x, NEW e, IsReplaced(e, s, k, x)
  PROVE  /\ IsSeq(e) /\ Len(e) = Len(s)
         /\ \A i \in 1 .. Len(s) : e[i] = IF i = k THEN x ELSE s[i]
  <1> USE DEF IsReplaced
  <1> DEFINE T == Range(s) \cup {x}
  <1>1. s \in Seq(T) /\ x \in T
    BY DEF IsSeq
  <1>2. /\ e \in Seq(T) /\ Len(e) = Len(s)
        /\ \A i \in 1 .. Len(s) : e[i] = IF i = k THEN x ELSE s[i]
    <2> HIDE DEF T
    <2> QED  BY <1>1, ExceptSeq
  <1>3. IsSeq(e)
    BY <1>2, SeqOfRange DEF IsSeq
  <1> QED  BY <1>2, <1>3

-----------------------------------------------------------------------------
\* The stack after a step, rule by rule: a child is pushed, a rule takes the place
\* of the top one, the top one stays, or it leaves its node to the one below.
Pushed(stk, frame, rule) ==
  /\ Len(stack') = Len(stk) + 1 /\ stack'[Len(stk) + 1] = New(rule) /\ stack'[Len(stk)] = frame
  /\ \A i \in 1 .. Len(stk) - 1 : stack'[i] = stk[i]
Topped(stk, frame) ==
  /\ Len(stack') = Len(stk) /\ stack'[Len(stk)] = frame
  /\ \A i \in 1 .. Len(stk) - 1 : stack'[i] = stk[i]
Left(stk, frame) ==
  /\ Len(stack') = Len(stk) - 1 /\ stack'[Len(stk) - 1] = WithChild(stk[Len(stk) - 1], frame.node)
  /\ \A i \in 1 .. Len(stk) - 2 : stack'[i] = stk[i]

Refuses(why) == status' = why /\ UNCHANGED <<pos, stack, out>>
GoesOn == UNCHANGED <<status, out>>

Seen(alt) == IF alt.s = <<>> THEN EndOfSource ELSE src[pos + 1]
Closed(alt, stk) == WithState(Act(alt, stk[Len(stk)], Seen(alt)))

\* What taking an alternative comes to.
LEMMA Taking ==
  ASSUME NEW alt, NEW stk, IsSeq(stk), stk # <<>>, Take(alt, stk), pos \in Nat, Len(alt.s) \in Nat
  PROVE  \/ Throws(alt, Seen(alt)) # "no" /\ Refuses(Throws(alt, Seen(alt)))
         \/ /\ Throws(alt, Seen(alt)) = "no"
            /\ pos' = IF Len(alt.s) > alt.b THEN pos + Len(alt.s) - alt.b ELSE pos
            /\ IsSeq(stack')
            /\ \/ alt.p # "none" /\ Pushed(stk, Closed(alt, stk), alt.p) /\ GoesOn
               \/ alt.p = "none" /\ alt.r # "none" /\ Topped(stk, New(alt.r)) /\ GoesOn
               \/ alt.p = "none" /\ alt.r = "none" /\ Top.state = "open" /\ Topped(stk, Closed(alt, stk)) /\ GoesOn
               \/ /\ alt.p = "none" /\ alt.r = "none" /\ Top.state # "open"
                  /\ Len(stk) > 1 /\ Left(stk, Closed(alt, stk)) /\ GoesOn
               \/ /\ alt.p = "none" /\ alt.r = "none" /\ Top.state # "open"
                  /\ Len(stk) = 1 /\ stack' = <<>> /\ status' = "parsed"
  <1> DEFINE m == Len(stk)
             frame == Closed(alt, stk)
             acted == [stk EXCEPT ![m] = frame]
  <1>1. m \in Nat /\ m # 0
    BY DEF IsSeq
  <1>2. /\ IsSeq(acted) /\ Len(acted) = m /\ acted[m] = frame
        /\ \A i \in 1 .. m - 1 : acted[i] = stk[i]
    <2> HIDE DEF frame
    <2>1. m \in 1 .. m
      BY <1>1
    <2>2. IsSeq(acted) /\ Len(acted) = m
      BY <2>1, ExceptIsSeq
    <2>3. \A i \in 1 .. m : acted[i] = IF i = m THEN frame ELSE stk[i]
      BY <2>1 DEF IsSeq
    <2> QED  BY <1>1, <2>2, <2>3
  <1>3. acted # <<>>
    BY <1>1, <1>2
  <1>4. CASE Throws(alt, Seen(alt)) # "no"
    BY <1>4 DEF Take, Seen, Refuses
  <1>5. CASE Throws(alt, Seen(alt)) = "no"
    <2>1. /\ pos' = IF Len(alt.s) > alt.b THEN pos + Len(alt.s) - alt.b ELSE pos
          /\ stack' = IF alt.p # "none" THEN Append(acted, New(alt.p))
                      ELSE IF alt.r # "none" THEN Append(Front(acted), New(alt.r))
                      ELSE IF Top.state = "open" THEN acted
                      ELSE Popped(acted)
          /\ IF stack' = <<>> THEN status' = "parsed" ELSE GoesOn
      BY <1>5 DEF Take, Seen, Closed, WithState, GoesOn
    <2> HIDE DEF acted, frame
    <2>2. CASE alt.p # "none"
      <3>1. stack' = Append(acted, New(alt.p))
        BY <2>1, <2>2
      <3>2. /\ IsSeq(stack') /\ Len(stack') = m + 1 /\ stack'[m + 1] = New(alt.p)
            /\ \A i \in 1 .. m : stack'[i] = acted[i]
        BY <3>1, <1>2, AppendIsSeq
      <3>3. Pushed(stk, frame, alt.p) /\ stack' # <<>>
        BY <3>2, <1>1, <1>2 DEF Pushed
      <3> QED  BY <2>1, <2>2, <1>5, <3>2, <3>3 DEF frame
    <2>3. CASE alt.p = "none" /\ alt.r # "none"
      <3>1. stack' = Append(Front(acted), New(alt.r))
        BY <2>1, <2>3
      <3>2. IsSeq(Front(acted)) /\ Len(Front(acted)) = m - 1 /\ \A i \in 1 .. m - 1 : Front(acted)[i] = acted[i]
        BY <1>2, <1>3, FrontIsSeq
      <3>3. /\ IsSeq(stack') /\ Len(stack') = m /\ stack'[m] = New(alt.r)
            /\ \A i \in 1 .. m - 1 : stack'[i] = Front(acted)[i]
        BY <3>1, <3>2, <1>1, AppendIsSeq
      <3>4. Topped(stk, New(alt.r)) /\ stack' # <<>>
        BY <3>2, <3>3, <1>1, <1>2 DEF Topped
      <3> QED  BY <2>1, <2>3, <1>5, <3>3, <3>4
    <2>4. CASE alt.p = "none" /\ alt.r = "none" /\ Top.state = "open"
      <3>1. stack' = acted
        BY <2>1, <2>4
      <3>2. Topped(stk, frame) /\ stack' # <<>>
        BY <3>1, <1>1, <1>2, <1>3 DEF Topped
      <3> QED  BY <2>1, <2>4, <1>5, <1>2, <3>1, <3>2 DEF frame
    <2>5. CASE alt.p = "none" /\ alt.r = "none" /\ Top.state # "open"
      <3>1. stack' = Popped(acted)
        BY <2>1, <2>5
      <3>2. CASE m = 1
        <4>1. stack' = <<>>
          BY <3>1, <3>2, <1>2 DEF Popped
        <4>2. IsSeq(stack')
          BY <4>1 DEF IsSeq, Range
        <4> QED  BY <2>1, <2>5, <1>5, <3>2, <4>1, <4>2
      <3>3. CASE m # 1
        <4>1. stack' = [Front(acted) EXCEPT ![m - 1] = WithChild(Front(acted)[m - 1], frame.node)]
          BY <3>1, <3>3, <1>2 DEF Popped, WithChild
        <4>2. IsSeq(Front(acted)) /\ Len(Front(acted)) = m - 1 /\ \A i \in 1 .. m - 1 : Front(acted)[i] = acted[i]
          BY <1>2, <1>3, FrontIsSeq
        <4>3. m - 1 \in 1 .. Len(Front(acted)) /\ Front(acted)[m - 1] = stk[m - 1]
          BY <4>2, <3>3, <1>1, <1>2
        <4>4. stack' = [Front(acted) EXCEPT ![m - 1] = WithChild(stk[m - 1], frame.node)]
          BY <4>1, <4>2, <4>3
        <4>5. /\ IsSeq(stack') /\ Len(stack') = m - 1
              /\ \A i \in 1 .. m - 1 :
                   stack'[i] = IF i = m - 1 THEN WithChild(stk[m - 1], frame.node) ELSE Front(acted)[i]
          <5> DEFINE child == WithChild(stk[m - 1], frame.node)
                     below == Front(acted)
                     k == m - 1
          <5> HIDE DEF child, below, k
          <5>1. IsSeq(below) /\ k \in 1 .. Len(below) /\ Len(below) = k
            BY <4>2, <4>3 DEF below, k
          <5>2. IsReplaced(stack', below, k, child)
            BY <4>4 DEF below, k, child, IsReplaced
          <5>3. /\ IsSeq(stack') /\ Len(stack') = Len(below)
                /\ \A i \in 1 .. Len(below) : stack'[i] = IF i = k THEN child ELSE below[i]
            BY <5>1, <5>2, Replaced
          <5> QED  BY <5>1, <5>3 DEF below, k, child
        <4>6. Left(stk, frame) /\ stack' # <<>> /\ m > 1
          BY <4>2, <4>3, <4>5, <3>3, <1>1, <1>2 DEF Left
        <4> QED  BY <2>1, <2>5, <1>5, <4>5, <4>6 DEF frame
      <3> QED  BY <3>2, <3>3
    <2> QED  BY <2>2, <2>3, <2>4, <2>5
  <1> QED  BY <1>4, <1>5

-----------------------------------------------------------------------------
(* The alternatives, one by one.                                            *)

Alternative(s, b, c, a, p, r) == [s |-> s, b |-> b, c |-> c, a |-> a, p |-> p, r |-> r]

LEMMA EbnfTable ==
  /\ Len(ebnfOpen) = 2
  /\ ebnfOpen[1] = Alternative(<<{"ZZ"}>>, 0, "always", "none", "none", "none")
  /\ ebnfOpen[2] = Alternative(<<>>, 0, "always", "none", "prod", "none")
  /\ Len(ebnfClose) = 1
  /\ ebnfClose[1] = Alternative(<<{"ZZ"}>>, 0, "always", "none", "none", "none")
  BY DEF ebnfOpen, ebnfClose, Alt, Alternative

LEMMA ProdTable ==
  /\ Len(prodOpen) = 1
  /\ prodOpen[1] = Alternative(Header, 0, "always", "name", "alts", "none")
  /\ Len(prodClose) = 4
  /\ prodClose[1] = Alternative(<<{"SC"}>> \o Header, 2, "always", "none", "none", "prod")
  /\ prodClose[2] = Alternative(<<{"SC"}>>, 0, "always", "none", "none", "none")
  /\ prodClose[3] = Alternative(Header, 2, "always", "none", "none", "prod")
  /\ prodClose[4] = Alternative(<<>>, 1, "always", "none", "none", "none")
  <1> DEFINE separated == <<{"SC"}>> \o Header
             header == Header
  <1>1. prodClose = << [Alt EXCEPT !.s = separated, !.b = 2, !.r = "prod"],
                       [Alt EXCEPT !.s = <<{"SC"}>>],
                       [Alt EXCEPT !.s = header, !.b = 2, !.r = "prod"],
                       Leave >>
    BY DEF prodClose
  <1>2. prodOpen = << [Alt EXCEPT !.s = header, !.a = "name", !.p = "alts"] >>
    BY DEF prodOpen
  <1> HIDE DEF separated, header
  <1>3. Len(prodOpen) = 1 /\ prodOpen[1] = Alternative(header, 0, "always", "name", "alts", "none")
    BY <1>2 DEF Alt, Alternative
  <1>4. Len(prodClose) = 4
    BY <1>1
  <1>5. prodClose[1] = Alternative(separated, 2, "always", "none", "none", "prod")
    BY <1>1 DEF Alt, Alternative
  <1>6. prodClose[2] = Alternative(<<{"SC"}>>, 0, "always", "none", "none", "none")
    BY <1>1 DEF Alt, Alternative
  <1>7. prodClose[3] = Alternative(header, 2, "always", "none", "none", "prod")
    BY <1>1 DEF Alt, Alternative
  <1>8. prodClose[4] = Alternative(<<>>, 1, "always", "none", "none", "none")
    BY <1>1 DEF Alt, Leave, Alternative
  <1> QED  BY <1>3, <1>4, <1>5, <1>6, <1>7, <1>8 DEF separated, header

LEMMA AltsTable ==
  /\ Len(altsOpen) = 1
  /\ altsOpen[1] = Alternative(<<>>, 0, "always", "none", "seq", "none")
  /\ Len(altsClose) = 2
  /\ altsClose[1] = Alternative(<<{"ALT"}>>, 0, "always", "none", "seq", "none")
  /\ altsClose[2] = Alternative(<<>>, 1, "always", "none", "none", "none")
  BY DEF altsOpen, altsClose, Alt, Leave, Alternative

LEMMA ElemTable ==
  /\ Len(elemOpen) = 1
  /\ elemOpen[1] = Alternative(<<>>, 0, "always", "none", "atom", "none")
  /\ Len(elemClose) = 2
  /\ elemClose[1] = Alternative(<<>>, 0, "not-got", "got", "post", "none")
  /\ elemClose[2] = Alternative(<<>>, 1, "always", "none", "none", "none")
  BY DEF elemOpen, elemClose, Alt, Leave, Alternative

LEMMA PostTable ==
  /\ Len(postOpen) = 4
  /\ postOpen[1] = Alternative(<<{"QM"}>>, 0, "always", "opt", "post", "none")
  /\ postOpen[2] = Alternative(<<{"STAR"}>>, 0, "always", "star", "post", "none")
  /\ postOpen[3] = Alternative(<<{"PLUS"}>>, 0, "always", "plus", "post", "none")
  /\ postOpen[4] = Alternative(<<>>, 1, "always", "none", "none", "none")
  /\ Len(postClose) = 1
  /\ postClose[1] = Alternative(<<>>, 1, "always", "none", "none", "none")
  BY DEF postOpen, postClose, Alt, Leave, Alternative

LEMMA AtomTable ==
  /\ Len(atomOpen) = 9
  /\ atomOpen[1] = Alternative(<<{"ST"}>>, 0, "always", "term", "none", "none")
  /\ atomOpen[2] = Alternative(<<{"CC"}>>, 0, "always", "regex", "none", "none")
  /\ atomOpen[3] = Alternative(<<{"HX"}>>, 0, "always", "code-point", "none", "none")
  /\ atomOpen[4] = Alternative(<<{"TX"}>>, 0, "always", "ref", "none", "none")
  /\ atomOpen[5] = Alternative(<<{"LP"}>>, 0, "always", "open-group", "alts", "none")
  /\ atomOpen[6] = Alternative(<<{"QM"}>>, 0, "always", "special-sequence", "none", "none")
  /\ atomOpen[7] = Alternative(<<{"SUB"}>>, 0, "always", "subtraction", "none", "none")
  /\ atomOpen[8] = Alternative(<<{"OB", "CB"}>>, 0, "always", "ISO-repetition", "none", "none")
  /\ atomOpen[9] = Alternative(<<{"OS"}>>, 0, "always", "stray-bracket", "none", "none")
  /\ Len(atomClose) = 3
  /\ atomClose[1] = Alternative(<<{"RP"}>>, 0, "group", "close-group", "none", "none")
  /\ atomClose[2] = Alternative(<<>>, 0, "group", "unclosed-group", "none", "none")
  /\ atomClose[3] = Alternative(<<>>, 1, "always", "none", "none", "none")
  BY DEF atomOpen, atomClose, Refuse, Alt, Leave, Alternative

\* The alternatives that the opening and the closing seq share.
seqTail ==
  << [Alt EXCEPT !.s = <<{"ST", "CC", "HX", "TX", "LP"}>>, !.b = 1, !.p = "elem"],
     Refuse({"QM"}, "special-sequence"),
     Refuse({"SUB"}, "subtraction"),
     Refuse({"OB", "CB"}, "ISO-repetition"),
     Refuse({"OS", "CS"}, "stray-bracket"),
     Refuse({"STAR", "PLUS"}, "dangling-postfix"),
     Leave >>
seqOpenHead ==
  << [Alt EXCEPT !.s = Header, !.b = 2, !.a = "empty-alternative"],
     Refuse({"ALT", "RP", "SC", "ZZ"}, "empty-alternative"),
     Refuse({"CA"}, "leading-comma") >>
seqCloseHead ==
  << [Alt EXCEPT !.s = Header, !.b = 2],
     [Alt EXCEPT !.s = <<{"ALT", "RP", "SC", "ZZ"}>>, !.b = 1],
     [Alt EXCEPT !.s = <<{"CA"}>>, !.p = "elem"] >>

seqOpen == seqAlts(TRUE)
seqClose == seqAlts(FALSE)

LEMMA SeqTail ==
  /\ Len(seqTail) = 7
  /\ seqTail[1] = Alternative(<<{"ST", "CC", "HX", "TX", "LP"}>>, 1, "always", "none", "elem", "none")
  /\ seqTail[2] = Alternative(<<{"QM"}>>, 0, "always", "special-sequence", "none", "none")
  /\ seqTail[3] = Alternative(<<{"SUB"}>>, 0, "always", "subtraction", "none", "none")
  /\ seqTail[4] = Alternative(<<{"OB", "CB"}>>, 0, "always", "ISO-repetition", "none", "none")
  /\ seqTail[5] = Alternative(<<{"OS", "CS"}>>, 0, "always", "stray-bracket", "none", "none")
  /\ seqTail[6] = Alternative(<<{"STAR", "PLUS"}>>, 0, "always", "dangling-postfix", "none", "none")
  /\ seqTail[7] = Alternative(<<>>, 1, "always", "none", "none", "none")
  BY DEF seqTail, Alt, Leave, Refuse, Alternative

LEMMA SeqHeads ==
  /\ Len(seqOpenHead) = 3
  /\ seqOpenHead[1] = Alternative(Header, 2, "always", "empty-alternative", "none", "none")
  /\ seqOpenHead[2] = Alternative(<<{"ALT", "RP", "SC", "ZZ"}>>, 0, "always", "empty-alternative", "none", "none")
  /\ seqOpenHead[3] = Alternative(<<{"CA"}>>, 0, "always", "leading-comma", "none", "none")
  /\ Len(seqCloseHead) = 3
  /\ seqCloseHead[1] = Alternative(Header, 2, "always", "none", "none", "none")
  /\ seqCloseHead[2] = Alternative(<<{"ALT", "RP", "SC", "ZZ"}>>, 1, "always", "none", "none", "none")
  /\ seqCloseHead[3] = Alternative(<<{"CA"}>>, 0, "always", "none", "elem", "none")
  BY DEF seqOpenHead, seqCloseHead, Alt, Refuse, Alternative

LEMMA TenAlternatives ==
  ASSUME NEW h1, NEW h2, NEW h3
  PROVE  /\ Len(<<h1, h2, h3>> \o seqTail) = 10
         /\ \A i \in 1 .. 3 : (<<h1, h2, h3>> \o seqTail)[i] = <<h1, h2, h3>>[i]
         /\ \A i \in 1 .. 7 : (<<h1, h2, h3>> \o seqTail)[i + 3] = seqTail[i]
  <1> DEFINE head == <<h1, h2, h3>>
             S == {h1, h2, h3, seqTail[1], seqTail[2], seqTail[3], seqTail[4], seqTail[5], seqTail[6], seqTail[7]}
  <1>1. seqTail = <<seqTail[1], seqTail[2], seqTail[3], seqTail[4], seqTail[5], seqTail[6], seqTail[7]>>
    BY DEF seqTail
  <1>2. head \in Seq(S)
    <2>1. h1 \in S /\ h2 \in S /\ h3 \in S
      OBVIOUS
    <2> HIDE DEF S
    <2> QED  BY <2>1
  <1>3. seqTail \in Seq(S)
    <2>1. /\ seqTail[1] \in S /\ seqTail[2] \in S /\ seqTail[3] \in S /\ seqTail[4] \in S
          /\ seqTail[5] \in S /\ seqTail[6] \in S /\ seqTail[7] \in S
      OBVIOUS
    <2>2. ASSUME NEW T, NEW a \in T, NEW b \in T, NEW c \in T, NEW d \in T, NEW e \in T, NEW f \in T, NEW g \in T
          PROVE  <<a, b, c, d, e, f, g>> \in Seq(T)
      OBVIOUS
    <2> HIDE DEF S
    <2>3. <<seqTail[1], seqTail[2], seqTail[3], seqTail[4], seqTail[5], seqTail[6], seqTail[7]>> \in Seq(S)
      BY <2>1, <2>2, Zenon
    <2> QED  BY <1>1, <2>3, Zenon
  <1>4. Len(head) = 3 /\ Len(seqTail) = 7
    BY SeqTail, Zenon
  <1> HIDE DEF head, S
  <1>5. Len(head \o seqTail) = 10
    <2>1. Len(head \o seqTail) = Len(head) + Len(seqTail)
      BY <1>2, <1>3, Joins, Zenon
    <2> QED  BY <1>4, <2>1
  <1>6. \A i \in 1 .. 3 : (head \o seqTail)[i] = head[i]
    <2> TAKE i \in 1 .. 3
    <2>1. i \in 1 .. Len(head)
      BY <1>4
    <2> QED  BY <1>2, <1>3, <2>1, JoinsFirst, Zenon
  <1>7. \A i \in 1 .. 7 : (head \o seqTail)[i + 3] = seqTail[i]
    <2> TAKE i \in 1 .. 7
    <2>1. i \in 1 .. Len(seqTail)
      BY <1>4
    <2>2. (head \o seqTail)[Len(head) + i] = seqTail[i]
      BY <1>2, <1>3, <2>1, JoinsSecond, Zenon
    <2>3. Len(head) + i = i + 3
      BY <1>4
    <2> QED  BY <2>2, <2>3, Zenon
  <1> QED  BY <1>5, <1>6, <1>7, Zenon DEF head

LEMMA SeqOpenTable ==
  /\ Len(seqOpen) = 10
  /\ seqOpen[1] = seqOpenHead[1]
  /\ seqOpen[2] = seqOpenHead[2]
  /\ seqOpen[3] = seqOpenHead[3]
  /\ seqOpen[4] = seqTail[1]
  /\ seqOpen[5] = seqTail[2]
  /\ seqOpen[6] = seqTail[3]
  /\ seqOpen[7] = seqTail[4]
  /\ seqOpen[8] = seqTail[5]
  /\ seqOpen[9] = seqTail[6]
  /\ seqOpen[10] = seqTail[7]
  <1>1. PICK h1, h2, h3 : seqOpenHead = <<h1, h2, h3>>
    BY DEF seqOpenHead
  <1>2. seqOpen = <<h1, h2, h3>> \o seqTail
    <2>1. seqOpen = seqOpenHead \o seqTail
      BY DEF seqOpen, seqAlts, seqOpenHead, seqTail
    <2> QED  BY <1>1, <2>1, Zenon
  <1>3. /\ Len(seqOpen) = 10
        /\ \A i \in 1 .. 3 : seqOpen[i] = seqOpenHead[i]
        /\ \A i \in 1 .. 7 : seqOpen[i + 3] = seqTail[i]
    <2> DEFINE joined == <<h1, h2, h3>> \o seqTail
    <2>1. Len(joined) = 10
      BY TenAlternatives
    <2>2. \A i \in 1 .. 3 : joined[i] = <<h1, h2, h3>>[i]
      BY TenAlternatives
    <2>3. \A i \in 1 .. 7 : joined[i + 3] = seqTail[i]
      BY TenAlternatives
    <2> HIDE DEF joined
    <2>4. seqOpen = joined
      BY <1>2 DEF joined
    <2> QED  BY <1>1, <2>1, <2>2, <2>3, <2>4, Zenon
  <1>4. /\ seqOpen[1 + 3] = seqTail[1] /\ seqOpen[2 + 3] = seqTail[2] /\ seqOpen[3 + 3] = seqTail[3]
        /\ seqOpen[4 + 3] = seqTail[4] /\ seqOpen[5 + 3] = seqTail[5] /\ seqOpen[6 + 3] = seqTail[6]
        /\ seqOpen[7 + 3] = seqTail[7]
    BY <1>3
  <1> QED  BY <1>3, <1>4

LEMMA SeqCloseTable ==
  /\ Len(seqClose) = 10
  /\ seqClose[1] = seqCloseHead[1]
  /\ seqClose[2] = seqCloseHead[2]
  /\ seqClose[3] = seqCloseHead[3]
  /\ seqClose[4] = seqTail[1]
  /\ seqClose[5] = seqTail[2]
  /\ seqClose[6] = seqTail[3]
  /\ seqClose[7] = seqTail[4]
  /\ seqClose[8] = seqTail[5]
  /\ seqClose[9] = seqTail[6]
  /\ seqClose[10] = seqTail[7]
  <1>1. PICK h1, h2, h3 : seqCloseHead = <<h1, h2, h3>>
    BY DEF seqCloseHead
  <1>2. seqClose = <<h1, h2, h3>> \o seqTail
    <2>1. seqClose = seqCloseHead \o seqTail
      BY DEF seqClose, seqAlts, seqCloseHead, seqTail
    <2> QED  BY <1>1, <2>1, Zenon
  <1>3. /\ Len(seqClose) = 10
        /\ \A i \in 1 .. 3 : seqClose[i] = seqCloseHead[i]
        /\ \A i \in 1 .. 7 : seqClose[i + 3] = seqTail[i]
    <2> DEFINE joined == <<h1, h2, h3>> \o seqTail
    <2>1. Len(joined) = 10
      BY TenAlternatives
    <2>2. \A i \in 1 .. 3 : joined[i] = <<h1, h2, h3>>[i]
      BY TenAlternatives
    <2>3. \A i \in 1 .. 7 : joined[i + 3] = seqTail[i]
      BY TenAlternatives
    <2> HIDE DEF joined
    <2>4. seqClose = joined
      BY <1>2 DEF joined
    <2> QED  BY <1>1, <2>1, <2>2, <2>3, <2>4, Zenon
  <1>4. /\ seqClose[1 + 3] = seqTail[1] /\ seqClose[2 + 3] = seqTail[2] /\ seqClose[3 + 3] = seqTail[3]
        /\ seqClose[4 + 3] = seqTail[4] /\ seqClose[5 + 3] = seqTail[5] /\ seqClose[6 + 3] = seqTail[6]
        /\ seqClose[7 + 3] = seqTail[7]
    BY <1>3
  <1> QED  BY <1>3, <1>4

-----------------------------------------------------------------------------
(* The hooks and the actions, as far as the shape of the stack goes.        *)

Height == Len(stack)

\* A stack that steps can be taken on.
Frames ==
  /\ IsSeq(stack) /\ stack # <<>> /\ pos \in Nat /\ Len(src) \in Nat
  /\ \A i \in 1 .. Height : IsFrame(stack[i])
  /\ Top.rule \in {"prod", "elem"} => Height > 1

\* A hook only adds to the nodes.
LikeFrame(g, f) ==
  /\ IsFrame(g) /\ g.rule = f.rule /\ g.state = f.state /\ g.u = f.u /\ g.child = f.child
  /\ f.node # <<>> => g.node # <<>>

Like(stk) == IsSeq(stk) /\ Len(stk) = Height /\ \A i \in 1 .. Height : LikeFrame(stk[i], stack[i])

LEMMA StackIsLike ==
  ASSUME Frames
  PROVE  Like(stack)
  BY DEF Frames, Like, LikeFrame, Height

LEMMA HookIsLike ==
  ASSUME Frames, NEW k \in 1 .. Height, NEW x, x # <<>>
  PROVE  Like([stack EXCEPT ![k] = [stack[k] EXCEPT !.node = x]])
  <1> DEFINE g == [stack[k] EXCEPT !.node = x]
             stk == [stack EXCEPT ![k] = g]
  <1>1. LikeFrame(g, stack[k])
    <2>1. IsFrame(stack[k])
      BY DEF Frames
    <2> DEFINE f == stack[k]
    <2> HIDE DEF f
    <2>2. /\ [f EXCEPT !.node = x].rule = f.rule /\ [f EXCEPT !.node = x].state = f.state
          /\ [f EXCEPT !.node = x].u = f.u /\ [f EXCEPT !.node = x].child = f.child
          /\ [f EXCEPT !.node = x].node = x
          /\ [f EXCEPT !.node = x] = [rule |-> f.rule, state |-> f.state, u |-> f.u, child |-> f.child, node |-> x]
      <3>1. IsFrame(f)
        BY <2>1 DEF f
      <3> QED  BY <3>1 DEF IsFrame
    <2> QED  BY <2>1, <2>2 DEF LikeFrame, IsFrame, f
  <1> HIDE DEF g
  <1>2. IsSeq(stack) /\ Len(stack) = Height
    BY DEF Frames, Height
  <1>3. IsSeq(stk) /\ Len(stk) = Height
    BY <1>2, ExceptIsSeq
  <1>4. \A i \in 1 .. Height : stk[i] = IF i = k THEN g ELSE stack[i]
    BY <1>2 DEF IsSeq
  <1>5. \A i \in 1 .. Height : LikeFrame(stack[i], stack[i])
    BY StackIsLike DEF Like
  <1>6. Like(stk)
    BY <1>1, <1>3, <1>4, <1>5 DEF Like
  <1> QED  BY <1>6 DEF g

LEMMA AfterBcIsLike ==
  ASSUME Frames
  PROVE  Like(AfterBc)
  <1>1. Height \in Nat \ {0} /\ IsSeq(stack) /\ Top = stack[Height]
    BY DEF Frames, Height, IsSeq, Top, Last
  <1>2. ASSUME NEW k \in 1 .. Height, NEW x
        PROVE  Like([stack EXCEPT ![k] = Extend(stack[k], x)])
    <2>1. Extend(stack[k], x) = [stack[k] EXCEPT !.node = <<Append(stack[k].node[1], x)>>]
      BY <1>2, IsFrame(stack[k]) DEF Extend, Frames, IsFrame
    <2> QED  BY <2>1, HookIsLike
  <1>3. ASSUME NEW x, Top.rule \in {"prod", "elem"}
        PROVE  Like(ToParent(x))
    <2>1. Height - 1 \in 1 .. Height
      BY <1>1, <1>3 DEF Frames
    <2>2. ToParent(x) = [stack EXCEPT ![Height - 1] = Extend(stack[Height - 1], x)]
      BY DEF ToParent, Height
    <2> QED  BY <1>2, <2>1, <2>2
  <1>4. Like(stack)
    BY StackIsLike
  <1>5. CASE Top.rule = "prod"
    BY <1>3, <1>4, <1>5 DEF AfterBc, prodBc
  <1>6. CASE Top.rule = "alts"
    <2>1. altsBc = IF Returned THEN [stack EXCEPT ![Height] = Extend(stack[Height], Top.child[1])] ELSE stack
      BY DEF altsBc, Height
    <2> QED  BY <1>1, <1>2, <1>4, <1>6, <2>1 DEF AfterBc
  <1>7. CASE Top.rule = "elem"
    <2>1. AfterBc = elemBc
      BY <1>7 DEF AfterBc
    <2> DEFINE x == Wrapped(Top.u[1], Top.child[1])
    <2>2. elemBc = IF Top.u # <<>> THEN ToParent(x) ELSE stack
      BY Zenon DEF elemBc
    <2> HIDE DEF x
    <2> QED  BY <1>3, <1>4, <1>7, <2>1, <2>2
  <1>8. CASE Top.rule = "post"
    <2>1. postBc = IF Returned
                   THEN [stack EXCEPT ![Height] = [stack[Height] EXCEPT !.node = << stack[Height].node[1] \o Top.child[1] >>]]
                   ELSE stack
      BY DEF postBc, Height
    <2> DEFINE x == << stack[Height].node[1] \o Top.child[1] >>
    <2>2. x # <<>>
      OBVIOUS
    <2>3. AfterBc = postBc
      BY <1>8 DEF AfterBc
    <2> HIDE DEF x
    <2>4. Like([stack EXCEPT ![Height] = [stack[Height] EXCEPT !.node = x]])
      <3>1. Height \in 1 .. Height
        BY <1>1
      <3> QED  BY <2>2, <3>1, HookIsLike
    <2> QED  BY <1>4, <2>1, <2>3, <2>4 DEF x
  <1>9. CASE Top.rule \notin {"prod", "alts", "elem", "post"}
    BY <1>4, <1>9 DEF AfterBc
  <1> QED  BY <1>5, <1>6, <1>7, <1>8, <1>9

\* What an action leaves of the rule it runs on.
ActedBy(a, g) ==
  /\ IsFrame(g) /\ g.rule = Top.rule /\ g.state = "close" /\ g.child = Top.child
  /\ a \in {"name", "open-group"} => g.u # <<>>
  /\ a = "got" => g.u = Top.child
  /\ a \notin {"name", "open-group", "got"} => g.u = Top.u
  /\ a \in {"term", "regex", "ref", "code-point", "close-group"} \/ Top.node # <<>> => g.node # <<>>

Actions == {"none", "name", "term", "regex", "ref", "code-point", "open-group", "close-group", "got",
            "opt", "star", "plus"}

LEMMA Acting ==
  ASSUME NEW alt, alt.a \in Actions, NEW f, LikeFrame(f, Top), NEW tkn
  PROVE  ActedBy(alt.a, WithState(Act(alt, f, tkn)))
  <1> DEFINE a == alt.a
  <1>1. /\ IsFrame(f) /\ f.rule = Top.rule /\ f.u = Top.u /\ f.child = Top.child
        /\ Top.node # <<>> => f.node # <<>>
    BY DEF LikeFrame
  <1>2. CASE a = "none"
    <2>1. Act(alt, f, tkn) = f
      BY <1>2 DEF Act
    <2> QED  BY <1>1, <1>2, <2>1, StateFields DEF ActedBy
  <1>3. ASSUME a \in {"name", "open-group"}, NEW x, x # <<>>, Act(alt, f, tkn) = WithU(f, x)
        PROVE  ActedBy(a, WithState(WithU(f, x)))
    <2> DEFINE g == WithU(f, x)
    <2>1. /\ IsFrame(g) /\ g.rule = f.rule /\ g.state = f.state /\ g.u = x /\ g.child = f.child /\ g.node = f.node
      BY <1>1, UFields
    <2> HIDE DEF g
    <2>2. ActedBy(a, WithState(g))
      BY <1>1, <1>3, <2>1, StateFields DEF ActedBy
    <2> QED  BY <2>2 DEF g
  <1>4. ASSUME a \in {"term", "regex", "ref", "code-point", "close-group", "opt", "star", "plus"},
               NEW x, x # <<>>, Act(alt, f, tkn) = WithNode(f, x)
        PROVE  ActedBy(a, WithState(WithNode(f, x)))
    <2> DEFINE g == WithNode(f, x)
    <2>1. /\ IsFrame(g) /\ g.rule = f.rule /\ g.state = f.state /\ g.u = f.u /\ g.child = f.child /\ g.node = x
      BY <1>1, NodeFields
    <2> HIDE DEF g
    <2>2. ActedBy(a, WithState(g))
      BY <1>1, <1>4, <2>1, StateFields DEF ActedBy
    <2> QED  BY <2>2 DEF g
  <1>5. CASE a = "name"
    <2>1. Act(alt, f, tkn) = WithU(f, <<Text(tkn)>>)
      BY <1>5 DEF Act, WithU
    <2> QED  BY <1>3, <1>5, <2>1
  <1>6. CASE a = "open-group"
    <2>1. Act(alt, f, tkn) = WithU(f, <<"group">>)
      BY <1>6 DEF Act, WithU
    <2> QED  BY <1>3, <1>6, <2>1
  <1>7. CASE a = "got"
    <2>1. Act(alt, f, tkn) = WithU(f, f.child)
      BY <1>7 DEF Act, WithU
    <2> DEFINE g == WithU(f, f.child)
    <2>2. /\ IsFrame(g) /\ g.rule = f.rule /\ g.state = f.state /\ g.u = f.child /\ g.child = f.child /\ g.node = f.node
      BY <1>1, UFields
    <2> HIDE DEF g
    <2>3. ActedBy(a, WithState(g))
      BY <1>1, <1>7, <2>2, StateFields DEF ActedBy
    <2> QED  BY <2>1, <2>3 DEF g
  <1>8. CASE a \in {"term", "regex", "ref"}
    <2>1. Act(alt, f, tkn) = WithNode(f, << <<a, Text(tkn)>> >>)
      BY <1>8 DEF Act, WithNode
    <2> QED  BY <1>4, <1>8, <2>1
  <1>9. CASE a = "code-point"
    <2>1. Act(alt, f, tkn) = WithNode(f, << <<"term", "code-point">> >>)
      BY <1>9 DEF Act, WithNode
    <2> QED  BY <1>4, <1>9, <2>1
  <1>10. CASE a = "close-group"
    <2>1. Act(alt, f, tkn) = WithNode(f, << <<"group", f.child[1]>> >>)
      BY <1>10 DEF Act, WithNode
    <2> QED  BY <1>4, <1>10, <2>1
  <1>11. CASE a \in {"opt", "star", "plus"}
    <2>1. Extend(f, a) = WithNode(f, << Append(f.node[1], a) >>)
      BY <1>1 DEF IsFrame, Extend, WithNode
    <2>2. Act(alt, f, tkn) = WithNode(f, << Append(f.node[1], a) >>)
      BY <1>11, <2>1 DEF Act
    <2> QED  BY <1>4, <1>11, <2>2
  <1> QED  BY <1>2, <1>5, <1>6, <1>7, <1>8, <1>9, <1>10, <1>11 DEF Actions

\* The stack after a step, up to what hooks add to nodes.
Below(m) == \A i \in 1 .. m : LikeFrame(stack'[i], stack[i])

Pushes(a, rule) ==
  /\ IsSeq(stack') /\ Len(stack') = Height + 1 /\ Below(Height - 1) /\ GoesOn
  /\ stack'[Height + 1] = New(rule) /\ ActedBy(a, stack'[Height])

Replaces(rule) ==
  /\ IsSeq(stack') /\ Len(stack') = Height /\ Below(Height - 1) /\ GoesOn
  /\ stack'[Height] = New(rule)

Stays(a) ==
  /\ IsSeq(stack') /\ Len(stack') = Height /\ Below(Height - 1) /\ GoesOn
  /\ ActedBy(a, stack'[Height])

\* g is f, given node by its child.
GivenBack(g, f, node) ==
  /\ IsFrame(g) /\ g.rule = f.rule /\ g.state = f.state /\ g.u = f.u /\ g.child = node
  /\ f.node # <<>> => g.node # <<>>

Returns(a) ==
  \/ /\ Height > 1 /\ IsSeq(stack') /\ Len(stack') = Height - 1 /\ Below(Height - 2) /\ GoesOn
     /\ \E g : ActedBy(a, g) /\ GivenBack(stack'[Height - 1], stack[Height - 1], g.node)
  \/ Height = 1 /\ stack' = <<>> /\ status' = "parsed"

Tokens(alt) == IF Len(alt.s) > alt.b THEN pos + Len(alt.s) - alt.b ELSE pos

Outcomes(alt) ==
  \/ Throws(alt, Seen(alt)) # "no" /\ Refuses(Throws(alt, Seen(alt)))
  \/ /\ Throws(alt, Seen(alt)) = "no" /\ pos' = Tokens(alt)
     /\ \/ alt.p # "none" /\ Pushes(alt.a, alt.p)
        \/ alt.p = "none" /\ alt.r # "none" /\ Replaces(alt.r)
        \/ alt.p = "none" /\ alt.r = "none" /\ Top.state = "open" /\ Stays(alt.a)
        \/ alt.p = "none" /\ alt.r = "none" /\ Top.state # "open" /\ Returns(alt.a)

LEMMA Outcome ==
  ASSUME Frames, NEW alt, NEW stk, Like(stk), Take(alt, stk), alt.a \in Actions \cup Refusals, Len(alt.s) \in Nat
  PROVE  Outcomes(alt)
  <1> DEFINE frame == Closed(alt, stk)
  <1>1. /\ IsSeq(stk) /\ Len(stk) = Height /\ Height \in Nat \ {0} /\ stk # <<>> /\ pos \in Nat
        /\ Top = stack[Height]
        /\ \A i \in 1 .. Height : LikeFrame(stk[i], stack[i])
    BY DEF Frames, Like, Height, IsSeq, Top, Last
  <1>2. CASE Throws(alt, Seen(alt)) # "no"
    BY <1>1, <1>2, Taking DEF Outcomes
  <1>3. CASE Throws(alt, Seen(alt)) = "no"
    <2>1. alt.a \in Actions
      BY <1>3 DEF Throws, Refusals
    <2>2. ActedBy(alt.a, frame)
      <3>1. LikeFrame(stk[Height], Top)
        BY <1>1
      <3> QED  BY <1>1, <2>1, <3>1, Acting DEF Closed
    <2> HIDE DEF frame
    <2>3. /\ pos' = Tokens(alt) /\ IsSeq(stack')
          /\ \/ alt.p # "none" /\ Pushed(stk, frame, alt.p) /\ GoesOn
             \/ alt.p = "none" /\ alt.r # "none" /\ Topped(stk, New(alt.r)) /\ GoesOn
             \/ alt.p = "none" /\ alt.r = "none" /\ Top.state = "open" /\ Topped(stk, frame) /\ GoesOn
             \/ /\ alt.p = "none" /\ alt.r = "none" /\ Top.state # "open"
                /\ Height > 1 /\ Left(stk, frame) /\ GoesOn
             \/ /\ alt.p = "none" /\ alt.r = "none" /\ Top.state # "open"
                /\ Height = 1 /\ stack' = <<>> /\ status' = "parsed"
      BY <1>1, <1>3, Taking DEF Tokens, frame
    <2>4. CASE alt.p # "none" /\ Pushed(stk, frame, alt.p) /\ GoesOn
      <3>1. Pushes(alt.a, alt.p)
        BY <1>1, <2>2, <2>3, <2>4 DEF Pushes, Pushed, Below
      <3> QED  BY <1>3, <2>3, <2>4, <3>1 DEF Outcomes
    <2>5. CASE alt.p = "none" /\ alt.r # "none" /\ Topped(stk, New(alt.r)) /\ GoesOn
      <3>1. Replaces(alt.r)
        BY <1>1, <2>3, <2>5 DEF Replaces, Topped, Below
      <3> QED  BY <1>3, <2>3, <2>5, <3>1 DEF Outcomes
    <2>6. CASE alt.p = "none" /\ alt.r = "none" /\ Top.state = "open" /\ Topped(stk, frame) /\ GoesOn
      <3>1. Stays(alt.a)
        BY <1>1, <2>2, <2>3, <2>6 DEF Stays, Topped, Below
      <3> QED  BY <1>3, <2>3, <2>6, <3>1 DEF Outcomes
    <2>7. CASE /\ alt.p = "none" /\ alt.r = "none" /\ Top.state # "open"
               /\ Height > 1 /\ Left(stk, frame) /\ GoesOn
      <3>1. Height - 1 \in 1 .. Height /\ LikeFrame(stk[Height - 1], stack[Height - 1])
        BY <1>1, <2>7
      <3>2. stack'[Height - 1] = WithChild(stk[Height - 1], frame.node) /\ Len(stack') = Height - 1
        BY <1>1, <2>7 DEF Left
      <3>3. GivenBack(stack'[Height - 1], stack[Height - 1], frame.node)
        BY <3>1, <3>2, ChildFields DEF GivenBack, LikeFrame
      <3>4. Below(Height - 2)
        BY <1>1, <2>7 DEF Left, Below
      <3>5. Returns(alt.a)
        BY <2>2, <2>3, <2>7, <3>2, <3>3, <3>4 DEF Returns
      <3> QED  BY <1>3, <2>3, <2>7, <3>5 DEF Outcomes
    <2>8. CASE /\ alt.p = "none" /\ alt.r = "none" /\ Top.state # "open"
               /\ Height = 1 /\ stack' = <<>> /\ status' = "parsed"
      <3>1. Returns(alt.a)
        BY <2>8 DEF Returns
      <3> QED  BY <1>3, <2>3, <2>8, <3>1 DEF Outcomes
    <2> QED  BY <2>3, <2>4, <2>5, <2>6, <2>7, <2>8
  <1> QED  BY <1>2, <1>3

\* A step of a rule: its first alternative that agrees, or none does.
Legal(alt) == alt.a \in Actions \cup Refusals /\ Len(alt.s) \in Nat

Begun(rule, state) == status = "reading" /\ src' = src /\ Top.rule = rule /\ Top.state = state /\ ~NeedsToken

Chosen(i) ==
  /\ Choice = i /\ Agrees(Alternatives[i], Top) /\ InSight(Alternatives[i])
  /\ \A j \in 1 .. i - 1 : ~Agrees(Alternatives[j], Top)
  /\ Outcomes(Alternatives[i])
NoneChosen ==
  Choice = 0 /\ Refuses("syntax") /\ \A i \in 1 .. Len(Alternatives) : ~Agrees(Alternatives[i], Top)

LEMMA Stepping ==
  ASSUME Frames, NEW rule \in RuleNames, NEW state \in {"open", "close"}, Step(rule, state), Len(Alternatives) \in Nat,
         \A i \in 1 .. Len(Alternatives) : Legal(Alternatives[i])
  PROVE  /\ Begun(rule, state)
         /\ NoneChosen \/ \E i \in 1 .. Len(Alternatives) : Chosen(i)
  <1>1. /\ status = "reading" /\ src' = src /\ Top.rule = rule /\ Top.state = state /\ ~NeedsToken
        /\ Choice = 0 => Refuses("syntax")
        /\ Choice # 0 => Take(Alternatives[Choice], IF state = "close" THEN AfterBc ELSE stack)
    BY DEF Step, Refuses
  <1>2. Like(IF state = "close" THEN AfterBc ELSE stack)
    BY StackIsLike, AfterBcIsLike
  <1>3. CASE Choice = 0
    BY <1>1, <1>3, ChoiceIsFirst DEF NoneChosen, Begun
  <1>4. CASE Choice # 0
    <2>1. Choice \in 1 .. Len(Alternatives) /\ Agrees(Alternatives[Choice], Top)
      BY <1>4, ChoiceIsFirst
    <2>2. \A j \in 1 .. Choice - 1 : ~Agrees(Alternatives[j], Top)
      BY <1>4, ChoiceIsFirst
    <2>3. InSight(Alternatives[Choice])
      BY <1>1, <1>4 DEF NeedsToken
    <2>4. Outcomes(Alternatives[Choice])
      BY <1>1, <1>2, <1>4, <2>1, Outcome DEF Legal
    <2> QED  BY <1>1, <2>1, <2>2, <2>3, <2>4 DEF Chosen, Begun
  <1> QED  BY <1>1, <1>3, <1>4 DEF Begun

-----------------------------------------------------------------------------
(* What an alternative tells of the tokens in sight, and what it does.      *)

LEMMA OneTokenAlternative ==
  ASSUME NEW alt, NEW kinds, NEW b, NEW a, NEW p, NEW r, alt = Alternative(<<kinds>>, b, "always", a, p, r)
  PROVE  /\ Agrees(alt, Top) /\ InSight(alt) => Sees(1, kinds)
         /\ ~Agrees(alt, Top) => SeesOther(1, kinds)
  <1>1. alt.s = <<kinds>> /\ Condition(alt, Top)
    BY DEF Alternative, Condition
  <1> QED  BY <1>1, OneToken DEF May, Sees, SeesOther

\* An alternative that throws, one that gives its token back, one that takes it.
LEMMA RefusingAlternative ==
  ASSUME NEW alt, NEW s, NEW b, NEW c, NEW a \in Refusals, NEW p, NEW r, alt = Alternative(s, b, c, a, p, r), Outcomes(alt)
  PROVE  Refuses(a)
  <1>1. alt.a = a
    BY DEF Alternative
  <1>2. Throws(alt, Seen(alt)) = a /\ a # "no"
    BY <1>1 DEF Throws, Refusals
  <1> QED  BY <1>2 DEF Outcomes

Effect(a, p, r) ==
  \/ p # "none" /\ Pushes(a, p)
  \/ p = "none" /\ r # "none" /\ Replaces(r)
  \/ p = "none" /\ r = "none" /\ Top.state = "open" /\ Stays(a)
  \/ p = "none" /\ r = "none" /\ Top.state # "open" /\ Returns(a)

Reads == {"name", "term", "regex", "code-point", "ref"}

LEMMA TakingAlternative ==
  ASSUME NEW alt, NEW s, NEW b, NEW c, NEW a \in Actions, NEW p, NEW r, alt = Alternative(s, b, c, a, p, r), Outcomes(alt)
  PROVE  \/ /\ a \in Reads
            /\ \E why \in {"symbol-name", "empty-literal", "character-class", "code-point"} : Refuses(why)
         \/ /\ pos' = Tokens(alt)
            /\ Effect(a, p, r)
  <1>1. alt.s = s /\ alt.b = b /\ alt.a = a /\ alt.p = p /\ alt.r = r
    BY DEF Alternative
  <1>2. \/ Throws(alt, Seen(alt)) = "no"
        \/ a \in Reads /\ Throws(alt, Seen(alt)) \in {"symbol-name", "empty-literal", "character-class", "code-point"}
    BY <1>1 DEF Throws, Refusals, Actions, Reads
  <1> QED  BY <1>1, <1>2 DEF Outcomes, Effect

\* A token that its decoder refuses.
Misread == \E why \in {"symbol-name", "empty-literal", "character-class", "code-point"} : Refuses(why)

LEMMA TakesOne ==
  ASSUME pos \in Nat, NEW kinds, NEW c, NEW a, NEW p, NEW r
  PROVE  Tokens(Alternative(<<kinds>>, 0, c, a, p, r)) = pos + 1
  BY DEF Tokens, Alternative

LEMMA OneIsTaken ==
  ASSUME Frames, NEW alt, NEW kinds, NEW a, NEW p, NEW r, alt = Alternative(<<kinds>>, 0, "always", a, p, r),
         Agrees(alt, Top), InSight(alt), pos' = Tokens(alt)
  PROVE  pos' = pos + 1 /\ Sees(1, kinds)
  <1>1. pos \in Nat
    BY DEF Frames
  <1>2. Tokens(alt) = pos + 1
    BY <1>1, TakesOne
  <1> QED  BY <1>2, OneTokenAlternative

LEMMA TakesNone ==
  ASSUME pos \in Nat, NEW c, NEW a, NEW p, NEW r, NEW b \in 0 .. 1
  PROVE  Tokens(Alternative(<<>>, b, c, a, p, r)) = pos
  BY DEF Tokens, Alternative

LEMMA GivesOneBack ==
  ASSUME pos \in Nat, NEW kinds, NEW c, NEW a, NEW p, NEW r
  PROVE  Tokens(Alternative(<<kinds>>, 1, c, a, p, r)) = pos
  BY DEF Tokens, Alternative

LEMMA TakesHeader ==
  ASSUME pos \in Nat, NEW c, NEW a, NEW p, NEW r
  PROVE  /\ Tokens(Alternative(Header, 0, c, a, p, r)) = pos + 2
         /\ Tokens(Alternative(Header, 2, c, a, p, r)) = pos
  BY DEF Tokens, Alternative, Header

LEMMA TakesSeparator ==
  ASSUME pos \in Nat, NEW c, NEW a, NEW p, NEW r
  PROVE  Tokens(Alternative(<<{"SC"}>> \o Header, 2, c, a, p, r)) = pos + 1
  <1> DEFINE alt == Alternative(<<{"SC"}>> \o Header, 2, c, a, p, r)
  <1>1. alt.s = <<{"SC"}>> \o Header /\ alt.b = 2
    BY DEF Alternative
  <1>2. Len(alt.s) = 3
    BY <1>1, ThreeTokens
  <1> HIDE DEF alt
  <1>3. Tokens(alt) = pos + 1
    BY <1>1, <1>2 DEF Tokens
  <1> QED  BY <1>3 DEF alt

LEMMA TakingOne ==
  ASSUME pos \in Nat, NEW alt, NEW kinds, NEW c, NEW a \in Actions \ Reads, NEW p, NEW r,
         alt = Alternative(<<kinds>>, 0, c, a, p, r), Outcomes(alt)
  PROVE  pos' = pos + 1 /\ Effect(a, p, r)
  BY TakingAlternative, TakesOne

LEMMA ReadingOne ==
  ASSUME pos \in Nat, NEW alt, NEW kinds, NEW c, NEW a \in Actions, NEW p, NEW r,
         alt = Alternative(<<kinds>>, 0, c, a, p, r), Outcomes(alt)
  PROVE  (pos' = pos + 1 /\ Effect(a, p, r)) \/ Misread
  BY TakingAlternative, TakesOne DEF Misread

LEMMA GivingOneBack ==
  ASSUME pos \in Nat, NEW alt, NEW kinds, NEW c, NEW a \in Actions \ Reads, NEW p, NEW r,
         alt = Alternative(<<kinds>>, 1, c, a, p, r), Outcomes(alt)
  PROVE  pos' = pos /\ Effect(a, p, r)
  BY TakingAlternative, GivesOneBack

LEMMA TakingNone ==
  ASSUME pos \in Nat, NEW alt, NEW c, NEW a \in Actions \ Reads, NEW p, NEW r,
         alt = Alternative(<<>>, 0, c, a, p, r), Outcomes(alt)
  PROVE  pos' = pos /\ Effect(a, p, r)
  <1>1. Tokens(alt) = pos
    BY DEF Tokens, Alternative
  <1> QED  BY <1>1, TakingAlternative

LEMMA GivingNothing ==
  ASSUME pos \in Nat, NEW alt, NEW c, NEW a \in Actions \ Reads, NEW p, NEW r,
         alt = Alternative(<<>>, 1, c, a, p, r), Outcomes(alt)
  PROVE  pos' = pos /\ Effect(a, p, r)
  <1>1. Tokens(alt) = pos
    BY DEF Tokens, Alternative
  <1> QED  BY <1>1, TakingAlternative

\* The action of the alternative that is taken.
Acts(a) == Choice # 0 /\ Alternatives[Choice].a = a

LEMMA ActsAs ==
  ASSUME NEW i, Choice = i, Choice # 0, NEW s, NEW b, NEW c, NEW a, NEW p, NEW r,
         Alternatives[i] = Alternative(s, b, c, a, p, r)
  PROVE  Acts(a)
  BY DEF Alternative, Acts

LEMMA GivingHeaderBack ==
  ASSUME pos \in Nat, NEW alt, NEW c, NEW a \in Actions \ Reads, NEW p, NEW r,
         alt = Alternative(Header, 2, c, a, p, r), Outcomes(alt)
  PROVE  pos' = pos /\ Effect(a, p, r)
  BY TakingAlternative, TakesHeader

LEMMA TakingSeparator ==
  ASSUME pos \in Nat, NEW alt, NEW c, NEW a \in Actions \ Reads, NEW p, NEW r,
         alt = Alternative(<<{"SC"}>> \o Header, 2, c, a, p, r), Outcomes(alt)
  PROVE  pos' = pos + 1 /\ Effect(a, p, r)
  BY TakingAlternative, TakesSeparator

LEMMA HeaderAlternative ==
  ASSUME NEW alt, NEW b, NEW a, NEW p, NEW r, alt = Alternative(Header, b, "always", a, p, r),
         Agrees(alt, Top), InSight(alt), pos \in Nat, Len(src) \in Nat
  PROVE  Sees(1, {"TX"}) /\ Sees(2, DEFOP)
  <1>1. alt.s = Header /\ Condition(alt, Top)
    BY DEF Alternative, Condition
  <1> QED  BY <1>1, TwoTokens DEF May, Sees

LEMMA BareAlternative ==
  ASSUME NEW alt, NEW b, NEW a, NEW p, NEW r, alt = Alternative(<<>>, b, "always", a, p, r)
  PROVE  Agrees(alt, Top)
  <1>1. alt.s = <<>> /\ Condition(alt, Top)
    BY DEF Alternative, Condition
  <1> QED  BY <1>1, NoPattern

LEMMA GroupAlternative ==
  ASSUME NEW alt, NEW kinds, NEW b, NEW a, NEW p, NEW r, alt = Alternative(<<kinds>>, b, "group", a, p, r)
  PROVE  /\ Agrees(alt, Top) /\ InSight(alt) => Sees(1, kinds) /\ Top.u # <<>>
         /\ ~Agrees(alt, Top) => SeesOther(1, kinds) \/ Top.u = <<>>
  <1>1. alt.s = <<kinds>> /\ (Condition(alt, Top) <=> Top.u # <<>>)
    BY DEF Alternative, Condition
  <1> QED  BY <1>1, OneToken DEF May, Sees, SeesOther

LEMMA BareGroupAlternative ==
  ASSUME NEW alt, NEW b, NEW a, NEW p, NEW r, alt = Alternative(<<>>, b, "group", a, p, r)
  PROVE  Agrees(alt, Top) <=> Top.u # <<>>
  <1>1. alt.s = <<>> /\ (Condition(alt, Top) <=> Top.u # <<>>)
    BY DEF Alternative, Condition
  <1> QED  BY <1>1, NoPattern

LEMMA NotGotAlternative ==
  ASSUME NEW alt, NEW b, NEW a, NEW p, NEW r, alt = Alternative(<<>>, b, "not-got", a, p, r)
  PROVE  Agrees(alt, Top) <=> Top.u = <<>>
  <1>1. alt.s = <<>> /\ (Condition(alt, Top) <=> Top.u = <<>>)
    BY DEF Alternative, Condition
  <1> QED  BY <1>1, NoPattern

LEMMA SeparatorAlternative ==
  ASSUME NEW alt, NEW b, NEW a, NEW p, NEW r, alt = Alternative(<<{"SC"}>> \o Header, b, "always", a, p, r),
         Agrees(alt, Top), InSight(alt), pos \in Nat, Len(src) \in Nat
  PROVE  Sees(1, {"SC"}) /\ Sees(2, {"TX"}) /\ Sees(3, DEFOP)
  <1>1. alt.s = <<{"SC"}>> \o Header /\ Condition(alt, Top)
    BY DEF Alternative, Condition
  <1>2. May(1, {"SC"}) /\ May(2, {"TX"}) /\ May(3, DEFOP) /\ pos + 3 <= Len(src)
    BY <1>1, ThreeTokens
  <1> QED  BY <1>2 DEF May, Sees

LEMMA ReadingHeader ==
  ASSUME pos \in Nat, NEW alt, NEW c, NEW a \in Actions, NEW p, NEW r,
         alt = Alternative(Header, 0, c, a, p, r), Outcomes(alt)
  PROVE  (pos' = pos + 2 /\ Effect(a, p, r)) \/ Misread
  BY TakingAlternative, TakesHeader DEF Misread

-----------------------------------------------------------------------------
(* Every alternative has an action of the table and a pattern.              *)

LEMMA LegalNone ==
  ASSUME NEW b, NEW c, NEW a \in Actions \cup Refusals, NEW p, NEW r
  PROVE  Legal(Alternative(<<>>, b, c, a, p, r))
  BY DEF Legal, Alternative

LEMMA LegalOne ==
  ASSUME NEW kinds, NEW b, NEW c, NEW a \in Actions \cup Refusals, NEW p, NEW r
  PROVE  Legal(Alternative(<<kinds>>, b, c, a, p, r))
  BY DEF Legal, Alternative

LEMMA LegalHeader ==
  ASSUME NEW b, NEW c, NEW a \in Actions \cup Refusals, NEW p, NEW r
  PROVE  Legal(Alternative(Header, b, c, a, p, r))
  BY DEF Legal, Alternative, Header

LEMMA LegalSeparator ==
  ASSUME NEW b, NEW c, NEW a \in Actions \cup Refusals, NEW p, NEW r
  PROVE  Legal(Alternative(<<{"SC"}>> \o Header, b, c, a, p, r))
  <1> DEFINE alt == Alternative(<<{"SC"}>> \o Header, b, c, a, p, r)
  <1>1. alt.s = <<{"SC"}>> \o Header /\ alt.a = a
    BY DEF Alternative
  <1>2. Len(alt.s) = 3
    BY <1>1, ThreeTokens
  <1> HIDE DEF alt
  <1>3. Legal(alt)
    BY <1>1, <1>2 DEF Legal
  <1> QED  BY <1>3 DEF alt

LEMMA EbnfOpenLegal == Len(ebnfOpen) = 2 /\ \A i \in 1 .. 2 : Legal(ebnfOpen[i])
  <1>1. Legal(ebnfOpen[1])
    BY DEF Legal, ebnfOpen, Alt, Refuse, Leave, Header, Actions, Refusals
  <1>2. Legal(ebnfOpen[2])
    BY DEF Legal, ebnfOpen, Alt, Refuse, Leave, Header, Actions, Refusals
  <1>3. Len(ebnfOpen) = 2
    BY DEF ebnfOpen
  <1> QED  BY <1>1, <1>2, <1>3

LEMMA EbnfCloseLegal == Len(ebnfClose) = 1 /\ \A i \in 1 .. 1 : Legal(ebnfClose[i])
  <1>1. Legal(ebnfClose[1])
    BY DEF Legal, ebnfClose, Alt, Refuse, Leave, Header, Actions, Refusals
  <1>2. Len(ebnfClose) = 1
    BY DEF ebnfClose
  <1> QED  BY <1>1, <1>2

LEMMA ProdOpenLegal == Len(prodOpen) = 1 /\ \A i \in 1 .. 1 : Legal(prodOpen[i])
  <1>1. Legal(prodOpen[1])
    BY DEF Legal, prodOpen, Alt, Refuse, Leave, Header, Actions, Refusals
  <1>2. Len(prodOpen) = 1
    BY DEF prodOpen
  <1> QED  BY <1>1, <1>2

LEMMA ProdCloseLegal == Len(prodClose) = 4 /\ \A i \in 1 .. 4 : Legal(prodClose[i])
  <1>1. /\ Legal(prodClose[1]) /\ Legal(prodClose[2]) /\ Legal(prodClose[3]) /\ Legal(prodClose[4])
    BY ProdTable, LegalNone, LegalOne, LegalHeader, LegalSeparator DEF Actions, Refusals
  <1>2. Len(prodClose) = 4
    BY ProdTable
  <1> QED  BY <1>1, <1>2

LEMMA AltsOpenLegal == Len(altsOpen) = 1 /\ \A i \in 1 .. 1 : Legal(altsOpen[i])
  <1>1. Legal(altsOpen[1])
    BY DEF Legal, altsOpen, Alt, Refuse, Leave, Header, Actions, Refusals
  <1>2. Len(altsOpen) = 1
    BY DEF altsOpen
  <1> QED  BY <1>1, <1>2

LEMMA AltsCloseLegal == Len(altsClose) = 2 /\ \A i \in 1 .. 2 : Legal(altsClose[i])
  <1>1. Legal(altsClose[1])
    BY DEF Legal, altsClose, Alt, Refuse, Leave, Header, Actions, Refusals
  <1>2. Legal(altsClose[2])
    BY DEF Legal, altsClose, Alt, Refuse, Leave, Header, Actions, Refusals
  <1>3. Len(altsClose) = 2
    BY DEF altsClose
  <1> QED  BY <1>1, <1>2, <1>3

LEMMA ElemOpenLegal == Len(elemOpen) = 1 /\ \A i \in 1 .. 1 : Legal(elemOpen[i])
  <1>1. Legal(elemOpen[1])
    BY DEF Legal, elemOpen, Alt, Refuse, Leave, Header, Actions, Refusals
  <1>2. Len(elemOpen) = 1
    BY DEF elemOpen
  <1> QED  BY <1>1, <1>2

LEMMA ElemCloseLegal == Len(elemClose) = 2 /\ \A i \in 1 .. 2 : Legal(elemClose[i])
  <1>1. Legal(elemClose[1])
    BY DEF Legal, elemClose, Alt, Refuse, Leave, Header, Actions, Refusals
  <1>2. Legal(elemClose[2])
    BY DEF Legal, elemClose, Alt, Refuse, Leave, Header, Actions, Refusals
  <1>3. Len(elemClose) = 2
    BY DEF elemClose
  <1> QED  BY <1>1, <1>2, <1>3

LEMMA PostOpenLegal == Len(postOpen) = 4 /\ \A i \in 1 .. 4 : Legal(postOpen[i])
  <1>1. Legal(postOpen[1])
    BY DEF Legal, postOpen, Alt, Refuse, Leave, Header, Actions, Refusals
  <1>2. Legal(postOpen[2])
    BY DEF Legal, postOpen, Alt, Refuse, Leave, Header, Actions, Refusals
  <1>3. Legal(postOpen[3])
    BY DEF Legal, postOpen, Alt, Refuse, Leave, Header, Actions, Refusals
  <1>4. Legal(postOpen[4])
    BY DEF Legal, postOpen, Alt, Refuse, Leave, Header, Actions, Refusals
  <1>5. Len(postOpen) = 4
    BY DEF postOpen
  <1> QED  BY <1>1, <1>2, <1>3, <1>4, <1>5

LEMMA PostCloseLegal == Len(postClose) = 1 /\ \A i \in 1 .. 1 : Legal(postClose[i])
  <1>1. Legal(postClose[1])
    BY DEF Legal, postClose, Alt, Refuse, Leave, Header, Actions, Refusals
  <1>2. Len(postClose) = 1
    BY DEF postClose
  <1> QED  BY <1>1, <1>2

LEMMA AtomOpenLegal == Len(atomOpen) = 9 /\ \A i \in 1 .. 9 : Legal(atomOpen[i])
  <1>1. Legal(atomOpen[1])
    BY DEF Legal, atomOpen, Alt, Refuse, Leave, Header, Actions, Refusals
  <1>2. Legal(atomOpen[2])
    BY DEF Legal, atomOpen, Alt, Refuse, Leave, Header, Actions, Refusals
  <1>3. Legal(atomOpen[3])
    BY DEF Legal, atomOpen, Alt, Refuse, Leave, Header, Actions, Refusals
  <1>4. Legal(atomOpen[4])
    BY DEF Legal, atomOpen, Alt, Refuse, Leave, Header, Actions, Refusals
  <1>5. Legal(atomOpen[5])
    BY DEF Legal, atomOpen, Alt, Refuse, Leave, Header, Actions, Refusals
  <1>6. Legal(atomOpen[6])
    BY DEF Legal, atomOpen, Alt, Refuse, Leave, Header, Actions, Refusals
  <1>7. Legal(atomOpen[7])
    BY DEF Legal, atomOpen, Alt, Refuse, Leave, Header, Actions, Refusals
  <1>8. Legal(atomOpen[8])
    BY DEF Legal, atomOpen, Alt, Refuse, Leave, Header, Actions, Refusals
  <1>9. Legal(atomOpen[9])
    BY DEF Legal, atomOpen, Alt, Refuse, Leave, Header, Actions, Refusals
  <1>10. Len(atomOpen) = 9
    BY DEF atomOpen
  <1> QED  BY <1>1, <1>2, <1>3, <1>4, <1>5, <1>6, <1>7, <1>8, <1>9, <1>10

LEMMA AtomCloseLegal == Len(atomClose) = 3 /\ \A i \in 1 .. 3 : Legal(atomClose[i])
  <1>1. Legal(atomClose[1])
    BY DEF Legal, atomClose, Alt, Refuse, Leave, Header, Actions, Refusals
  <1>2. Legal(atomClose[2])
    BY DEF Legal, atomClose, Alt, Refuse, Leave, Header, Actions, Refusals
  <1>3. Legal(atomClose[3])
    BY DEF Legal, atomClose, Alt, Refuse, Leave, Header, Actions, Refusals
  <1>4. Len(atomClose) = 3
    BY DEF atomClose
  <1> QED  BY <1>1, <1>2, <1>3, <1>4

LEMMA SeqTailLegal == \A i \in 1 .. 7 : Legal(seqTail[i])
  <1>1. Legal(seqTail[1])
    BY DEF Legal, seqTail, Alt, Leave, Actions, Refusals
  <1>2. Legal(seqTail[2])
    BY DEF Legal, seqTail, Alt, Refuse, Actions, Refusals
  <1>3. Legal(seqTail[3])
    BY DEF Legal, seqTail, Alt, Refuse, Actions, Refusals
  <1>4. Legal(seqTail[4])
    BY DEF Legal, seqTail, Alt, Refuse, Actions, Refusals
  <1>5. Legal(seqTail[5])
    BY DEF Legal, seqTail, Alt, Refuse, Actions, Refusals
  <1>6. Legal(seqTail[6])
    BY DEF Legal, seqTail, Alt, Refuse, Actions, Refusals
  <1>7. Legal(seqTail[7])
    BY DEF Legal, seqTail, Alt, Leave, Actions, Refusals
  <1> QED  BY <1>1, <1>2, <1>3, <1>4, <1>5, <1>6, <1>7

LEMMA SeqOpenLegal == Len(seqOpen) = 10 /\ \A i \in 1 .. 10 : Legal(seqOpen[i])
  <1>1. Legal(seqOpenHead[1])
    BY DEF Legal, seqOpenHead, Alt, Refuse, Header, Actions, Refusals
  <1>2. Legal(seqOpenHead[2])
    BY DEF Legal, seqOpenHead, Alt, Refuse, Header, Actions, Refusals
  <1>3. Legal(seqOpenHead[3])
    BY DEF Legal, seqOpenHead, Alt, Refuse, Header, Actions, Refusals
  <1>4. /\ Legal(seqOpen[1]) /\ Legal(seqOpen[2]) /\ Legal(seqOpen[3]) /\ Legal(seqOpen[4]) /\ Legal(seqOpen[5])
        /\ Legal(seqOpen[6]) /\ Legal(seqOpen[7]) /\ Legal(seqOpen[8]) /\ Legal(seqOpen[9]) /\ Legal(seqOpen[10])
    BY <1>1, <1>2, <1>3, SeqTailLegal, SeqOpenTable
  <1> QED  BY <1>4, SeqOpenTable

LEMMA SeqCloseLegal == Len(seqClose) = 10 /\ \A i \in 1 .. 10 : Legal(seqClose[i])
  <1>1. Legal(seqCloseHead[1])
    BY DEF Legal, seqCloseHead, Alt, Refuse, Header, Actions, Refusals
  <1>2. Legal(seqCloseHead[2])
    BY DEF Legal, seqCloseHead, Alt, Refuse, Header, Actions, Refusals
  <1>3. Legal(seqCloseHead[3])
    BY DEF Legal, seqCloseHead, Alt, Refuse, Header, Actions, Refusals
  <1>4. /\ Legal(seqClose[1]) /\ Legal(seqClose[2]) /\ Legal(seqClose[3]) /\ Legal(seqClose[4]) /\ Legal(seqClose[5])
        /\ Legal(seqClose[6]) /\ Legal(seqClose[7]) /\ Legal(seqClose[8]) /\ Legal(seqClose[9]) /\ Legal(seqClose[10])
    BY <1>1, <1>2, <1>3, SeqTailLegal, SeqCloseTable
  <1> QED  BY <1>4, SeqCloseTable

-----------------------------------------------------------------------------
(* The table, unrolled: what a step of each rule does, and when.            *)

\* An atom is read, or a group opens.
LEMMA AtomOpenStep ==
  ASSUME Frames, Step("atom", "open")
  PROVE  /\ Begun("atom", "open")
         /\ \/ Sees(1, {"ST", "CC", "HX", "TX"}) /\ Misread
            \/ Sees(1, {"ST", "CC", "HX", "TX"}) /\ pos' = pos + 1 /\ \E a \in {"term", "regex", "code-point", "ref"} : Stays(a)
            \/ /\ Sees(1, {"LP"}) /\ pos' = pos + 1 /\ Pushes("open-group", "alts")
               /\ Acts("open-group")
            \/ Sees(1, {"QM"}) /\ Refuses("special-sequence")
            \/ Sees(1, {"SUB"}) /\ Refuses("subtraction")
            \/ Sees(1, {"OB", "CB"}) /\ Refuses("ISO-repetition")
            \/ Sees(1, {"OS"}) /\ Refuses("stray-bracket")
            \/ SeesOther(1, {"ST", "CC", "HX", "TX", "LP", "QM", "SUB", "OB", "CB", "OS"}) /\ Refuses("syntax")
  <1>1. Top.rule = "atom" /\ Top.state = "open" /\ pos \in Nat /\ Len(src) \in Nat
    BY DEF Step, Frames
  <1>2. Alternatives = atomOpen
    BY <1>1 DEF Alternatives, Open
  <1>3. Begun("atom", "open") /\ (NoneChosen \/ \E i \in 1 .. 9 : Chosen(i))
    BY <1>2, AtomOpenLegal, Stepping DEF RuleNames
  <1>4. NoneChosen \/ Chosen(1) \/ Chosen(2) \/ Chosen(3) \/ Chosen(4) \/ Chosen(5) \/ Chosen(6)
        \/ Chosen(7) \/ Chosen(8) \/ Chosen(9)
    BY <1>3
  <1>5. CASE Chosen(1)
    <2>1. Agrees(atomOpen[1], Top) /\ InSight(atomOpen[1]) /\ Outcomes(atomOpen[1]) /\ Choice = 1 /\ Choice # 0
      BY <1>2, <1>5 DEF Chosen
    <2>2. atomOpen[1] = Alternative(<<{"ST"}>>, 0, "always", "term", "none", "none")
      BY AtomTable
    <2>3. Sees(1, {"ST"})
      BY <2>1, <2>2, OneTokenAlternative
    <2>4. (pos' = pos + 1 /\ Effect("term", "none", "none")) \/ Misread
      BY <1>1, <2>1, <2>2, ReadingOne DEF Actions, Reads
    <2>5. (pos' = pos + 1 /\ Stays("term")) \/ Misread
      BY <1>1, <2>4 DEF Effect
    <2> QED  BY <1>3, <2>3, <2>5 DEF Sees
  <1>6. CASE Chosen(2)
    <2>1. Agrees(atomOpen[2], Top) /\ InSight(atomOpen[2]) /\ Outcomes(atomOpen[2]) /\ Choice = 2 /\ Choice # 0
      BY <1>2, <1>6 DEF Chosen
    <2>2. atomOpen[2] = Alternative(<<{"CC"}>>, 0, "always", "regex", "none", "none")
      BY AtomTable
    <2>3. Sees(1, {"CC"})
      BY <2>1, <2>2, OneTokenAlternative
    <2>4. (pos' = pos + 1 /\ Effect("regex", "none", "none")) \/ Misread
      BY <1>1, <2>1, <2>2, ReadingOne DEF Actions, Reads
    <2>5. (pos' = pos + 1 /\ Stays("regex")) \/ Misread
      BY <1>1, <2>4 DEF Effect
    <2> QED  BY <1>3, <2>3, <2>5 DEF Sees
  <1>7. CASE Chosen(3)
    <2>1. Agrees(atomOpen[3], Top) /\ InSight(atomOpen[3]) /\ Outcomes(atomOpen[3]) /\ Choice = 3 /\ Choice # 0
      BY <1>2, <1>7 DEF Chosen
    <2>2. atomOpen[3] = Alternative(<<{"HX"}>>, 0, "always", "code-point", "none", "none")
      BY AtomTable
    <2>3. Sees(1, {"HX"})
      BY <2>1, <2>2, OneTokenAlternative
    <2>4. (pos' = pos + 1 /\ Effect("code-point", "none", "none")) \/ Misread
      BY <1>1, <2>1, <2>2, ReadingOne DEF Actions, Reads
    <2>5. (pos' = pos + 1 /\ Stays("code-point")) \/ Misread
      BY <1>1, <2>4 DEF Effect
    <2> QED  BY <1>3, <2>3, <2>5 DEF Sees
  <1>8. CASE Chosen(4)
    <2>1. Agrees(atomOpen[4], Top) /\ InSight(atomOpen[4]) /\ Outcomes(atomOpen[4]) /\ Choice = 4 /\ Choice # 0
      BY <1>2, <1>8 DEF Chosen
    <2>2. atomOpen[4] = Alternative(<<{"TX"}>>, 0, "always", "ref", "none", "none")
      BY AtomTable
    <2>3. Sees(1, {"TX"})
      BY <2>1, <2>2, OneTokenAlternative
    <2>4. (pos' = pos + 1 /\ Effect("ref", "none", "none")) \/ Misread
      BY <1>1, <2>1, <2>2, ReadingOne DEF Actions, Reads
    <2>5. (pos' = pos + 1 /\ Stays("ref")) \/ Misread
      BY <1>1, <2>4 DEF Effect
    <2> QED  BY <1>3, <2>3, <2>5 DEF Sees
  <1>9. CASE Chosen(5)
    <2>1. Agrees(atomOpen[5], Top) /\ InSight(atomOpen[5]) /\ Outcomes(atomOpen[5]) /\ Choice = 5 /\ Choice # 0
      BY <1>2, <1>9 DEF Chosen
    <2>2. atomOpen[5] = Alternative(<<{"LP"}>>, 0, "always", "open-group", "alts", "none")
      BY AtomTable
    <2>3. Sees(1, {"LP"})
      BY <2>1, <2>2, OneTokenAlternative
    <2>4. pos' = pos + 1 /\ Effect("open-group", "alts", "none")
      BY <1>1, <2>1, <2>2, TakingOne DEF Actions, Reads
    <2>5. Alternatives[5] = Alternative(<<{"LP"}>>, 0, "always", "open-group", "alts", "none")
      BY <1>2, <2>2, Zenon
    <2>6. Acts("open-group")
      BY <2>1, <2>5, ActsAs, Zenon
    <2>7. pos' = pos + 1 /\ Pushes("open-group", "alts")
      BY <1>1, <2>4 DEF Effect
    <2> QED  BY <1>3, <2>3, <2>7, <2>6
  <1>10. CASE Chosen(6)
    <2>1. Agrees(atomOpen[6], Top) /\ InSight(atomOpen[6]) /\ Outcomes(atomOpen[6]) /\ Choice = 6 /\ Choice # 0
      BY <1>2, <1>10 DEF Chosen
    <2>2. atomOpen[6] = Alternative(<<{"QM"}>>, 0, "always", "special-sequence", "none", "none")
      BY AtomTable
    <2>3. Sees(1, {"QM"})
      BY <2>1, <2>2, OneTokenAlternative
    <2>4. Refuses("special-sequence")
      BY <2>1, <2>2, "special-sequence" \in Refusals, RefusingAlternative DEF Refusals
    <2> QED  BY <1>1, <1>3, <2>3, <2>4
  <1>11. CASE Chosen(7)
    <2>1. Agrees(atomOpen[7], Top) /\ InSight(atomOpen[7]) /\ Outcomes(atomOpen[7]) /\ Choice = 7 /\ Choice # 0
      BY <1>2, <1>11 DEF Chosen
    <2>2. atomOpen[7] = Alternative(<<{"SUB"}>>, 0, "always", "subtraction", "none", "none")
      BY AtomTable
    <2>3. Sees(1, {"SUB"})
      BY <2>1, <2>2, OneTokenAlternative
    <2>4. Refuses("subtraction")
      BY <2>1, <2>2, "subtraction" \in Refusals, RefusingAlternative DEF Refusals
    <2> QED  BY <1>1, <1>3, <2>3, <2>4
  <1>12. CASE Chosen(8)
    <2>1. Agrees(atomOpen[8], Top) /\ InSight(atomOpen[8]) /\ Outcomes(atomOpen[8]) /\ Choice = 8 /\ Choice # 0
      BY <1>2, <1>12 DEF Chosen
    <2>2. atomOpen[8] = Alternative(<<{"OB", "CB"}>>, 0, "always", "ISO-repetition", "none", "none")
      BY AtomTable
    <2>3. Sees(1, {"OB", "CB"})
      BY <2>1, <2>2, OneTokenAlternative
    <2>4. Refuses("ISO-repetition")
      BY <2>1, <2>2, "ISO-repetition" \in Refusals, RefusingAlternative DEF Refusals
    <2> QED  BY <1>1, <1>3, <2>3, <2>4
  <1>13. CASE Chosen(9)
    <2>1. Agrees(atomOpen[9], Top) /\ InSight(atomOpen[9]) /\ Outcomes(atomOpen[9]) /\ Choice = 9 /\ Choice # 0
      BY <1>2, <1>13 DEF Chosen
    <2>2. atomOpen[9] = Alternative(<<{"OS"}>>, 0, "always", "stray-bracket", "none", "none")
      BY AtomTable
    <2>3. Sees(1, {"OS"})
      BY <2>1, <2>2, OneTokenAlternative
    <2>4. Refuses("stray-bracket")
      BY <2>1, <2>2, "stray-bracket" \in Refusals, RefusingAlternative DEF Refusals
    <2> QED  BY <1>1, <1>3, <2>3, <2>4
  <1>14. CASE NoneChosen
    <2>1. /\ ~Agrees(atomOpen[1], Top) /\ ~Agrees(atomOpen[2], Top) /\ ~Agrees(atomOpen[3], Top)
      /\ ~Agrees(atomOpen[4], Top) /\ ~Agrees(atomOpen[5], Top) /\ ~Agrees(atomOpen[6], Top)
      /\ ~Agrees(atomOpen[7], Top) /\ ~Agrees(atomOpen[8], Top) /\ ~Agrees(atomOpen[9], Top)
      BY <1>2, <1>14, AtomOpenLegal DEF NoneChosen
    <2>2. SeesOther(1, {"ST"})
      BY <2>1, AtomTable, OneTokenAlternative
    <2>3. SeesOther(1, {"CC"})
      BY <2>1, AtomTable, OneTokenAlternative
    <2>4. SeesOther(1, {"HX"})
      BY <2>1, AtomTable, OneTokenAlternative
    <2>5. SeesOther(1, {"TX"})
      BY <2>1, AtomTable, OneTokenAlternative
    <2>6. SeesOther(1, {"LP"})
      BY <2>1, AtomTable, OneTokenAlternative
    <2>7. SeesOther(1, {"QM"})
      BY <2>1, AtomTable, OneTokenAlternative
    <2>8. SeesOther(1, {"SUB"})
      BY <2>1, AtomTable, OneTokenAlternative
    <2>9. SeesOther(1, {"OB", "CB"})
      BY <2>1, AtomTable, OneTokenAlternative
    <2>10. SeesOther(1, {"OS"})
      BY <2>1, AtomTable, OneTokenAlternative
    <2> QED  BY <1>3, <1>14, <2>2, <2>3, <2>4, <2>5, <2>6, <2>7, <2>8, <2>9, <2>10 DEF NoneChosen, SeesOther
  <1> QED  BY <1>4, <1>5, <1>6, <1>7, <1>8, <1>9, <1>10, <1>11, <1>12, <1>13, <1>14

\* A group closes, or stays open for good; an atom of one token goes.
LEMMA AtomCloseStep ==
  ASSUME Frames, Step("atom", "close")
  PROVE  /\ Begun("atom", "close")
         /\ \/ /\ Sees(1, {"RP"}) /\ Top.u # <<>> /\ pos' = pos + 1 /\ Returns("close-group")
               /\ Acts("close-group")
            \/ SeesOther(1, {"RP"}) /\ Top.u # <<>> /\ Refuses("unclosed-group")
            \/ Top.u = <<>> /\ pos' = pos /\ Returns("none") /\ Acts("none")
  <1>1. Top.rule = "atom" /\ Top.state = "close" /\ pos \in Nat /\ Len(src) \in Nat
    BY DEF Step, Frames
  <1>2. Alternatives = atomClose
    BY <1>1 DEF Alternatives, Close
  <1>3. Begun("atom", "close") /\ (NoneChosen \/ \E i \in 1 .. 3 : Chosen(i))
    BY <1>2, AtomCloseLegal, Stepping DEF RuleNames
  <1>4. NoneChosen \/ Chosen(1) \/ Chosen(2) \/ Chosen(3)
    BY <1>3
  <1>5. CASE Chosen(1)
    <2>1. Agrees(atomClose[1], Top) /\ InSight(atomClose[1]) /\ Outcomes(atomClose[1]) /\ Choice = 1 /\ Choice # 0
      BY <1>2, <1>5 DEF Chosen
    <2>2. atomClose[1] = Alternative(<<{"RP"}>>, 0, "group", "close-group", "none", "none")
      BY AtomTable
    <2>3. Sees(1, {"RP"}) /\ Top.u # <<>>
      BY <2>1, <2>2, GroupAlternative
    <2>4. pos' = pos + 1 /\ Effect("close-group", "none", "none")
      BY <1>1, <2>1, <2>2, TakingOne DEF Actions, Reads
    <2>5. Alternatives[1] = Alternative(<<{"RP"}>>, 0, "group", "close-group", "none", "none")
      BY <1>2, <2>2, Zenon
    <2>6. Acts("close-group")
      BY <2>1, <2>5, ActsAs, Zenon
    <2>7. pos' = pos + 1 /\ Returns("close-group")
      BY <1>1, <2>4 DEF Effect
    <2> QED  BY <1>3, <2>3, <2>7, <2>6
  <1>6. CASE Chosen(2)
    <2>1. Agrees(atomClose[2], Top) /\ InSight(atomClose[2]) /\ Outcomes(atomClose[2]) /\ Choice = 2 /\ Choice # 0
      BY <1>2, <1>6 DEF Chosen
    <2>2. atomClose[2] = Alternative(<<>>, 0, "group", "unclosed-group", "none", "none")
      BY AtomTable
    <2>3. Refuses("unclosed-group")
      BY <2>1, <2>2, "unclosed-group" \in Refusals, RefusingAlternative DEF Refusals
    <2>4. Top.u # <<>>
      BY <2>1, <2>2, BareGroupAlternative
    <2>5. ~Agrees(atomClose[1], Top)
      BY <1>2, <1>6 DEF Chosen
    <2>6. SeesOther(1, {"RP"})
      BY <2>4, <2>5, AtomTable, GroupAlternative
    <2> QED  BY <1>3, <2>3, <2>4, <2>6
  <1>7. CASE Chosen(3)
    <2>1. Agrees(atomClose[3], Top) /\ InSight(atomClose[3]) /\ Outcomes(atomClose[3]) /\ Choice = 3 /\ Choice # 0
      BY <1>2, <1>7 DEF Chosen
    <2>2. atomClose[3] = Alternative(<<>>, 1, "always", "none", "none", "none")
      BY AtomTable
    <2>3. pos' = pos /\ Effect("none", "none", "none")
      BY <1>1, <2>1, <2>2, GivingNothing DEF Actions, Reads
    <2>4. ~Agrees(atomClose[2], Top)
      BY <1>2, <1>7 DEF Chosen
    <2>5. Top.u = <<>>
      BY <2>4, AtomTable, BareGroupAlternative
    <2>6. Alternatives[3] = Alternative(<<>>, 1, "always", "none", "none", "none")
      BY <1>2, <2>2, Zenon
    <2>7. Acts("none")
      BY <2>1, <2>6, ActsAs, Zenon
    <2> QED  BY <1>1, <1>3, <2>3, <2>5, <2>7 DEF Effect
  <1>8. CASE NoneChosen
    <2>1. ~Agrees(atomClose[3], Top)
      BY <1>2, <1>8, AtomCloseLegal DEF NoneChosen
    <2>2. atomClose[3] = Alternative(<<>>, 1, "always", "none", "none", "none")
      BY AtomTable
    <2> QED  BY <2>1, <2>2, BareAlternative
  <1> QED  BY <1>4, <1>5, <1>6, <1>7, <1>8

\* A postfix operator, or none.
LEMMA PostOpenStep ==
  ASSUME Frames, Step("post", "open")
  PROVE  /\ Begun("post", "open")
         /\ \/ /\ Sees(1, {"QM", "STAR", "PLUS"}) /\ pos' = pos + 1 /\ \E a \in {"opt", "star", "plus"} : Acts(a) /\ Pushes(a, "post")
            \/ SeesOther(1, {"QM", "STAR", "PLUS"}) /\ pos' = pos /\ Stays("none") /\ Acts("none")
  <1>1. Top.rule = "post" /\ Top.state = "open" /\ pos \in Nat /\ Len(src) \in Nat
    BY DEF Step, Frames
  <1>2. Alternatives = postOpen
    BY <1>1 DEF Alternatives, Open
  <1>3. Begun("post", "open") /\ (NoneChosen \/ \E i \in 1 .. 4 : Chosen(i))
    BY <1>2, PostOpenLegal, Stepping DEF RuleNames
  <1>4. NoneChosen \/ Chosen(1) \/ Chosen(2) \/ Chosen(3) \/ Chosen(4)
    BY <1>3
  <1>5. CASE Chosen(1)
    <2>1. Agrees(postOpen[1], Top) /\ InSight(postOpen[1]) /\ Outcomes(postOpen[1]) /\ Choice = 1 /\ Choice # 0
      BY <1>2, <1>5 DEF Chosen
    <2>2. postOpen[1] = Alternative(<<{"QM"}>>, 0, "always", "opt", "post", "none")
      BY PostTable
    <2>3. Sees(1, {"QM"})
      BY <2>1, <2>2, OneTokenAlternative
    <2>4. pos' = pos + 1 /\ Effect("opt", "post", "none")
      BY <1>1, <2>1, <2>2, TakingOne DEF Actions, Reads
    <2>5. Alternatives[1] = Alternative(<<{"QM"}>>, 0, "always", "opt", "post", "none")
      BY <1>2, <2>2, Zenon
    <2>6. Acts("opt")
      BY <2>1, <2>5, ActsAs, Zenon
    <2>7. pos' = pos + 1 /\ Pushes("opt", "post")
      BY <1>1, <2>4 DEF Effect
    <2> QED  BY <1>3, <2>3, <2>7, <2>6 DEF Sees
  <1>6. CASE Chosen(2)
    <2>1. Agrees(postOpen[2], Top) /\ InSight(postOpen[2]) /\ Outcomes(postOpen[2]) /\ Choice = 2 /\ Choice # 0
      BY <1>2, <1>6 DEF Chosen
    <2>2. postOpen[2] = Alternative(<<{"STAR"}>>, 0, "always", "star", "post", "none")
      BY PostTable
    <2>3. Sees(1, {"STAR"})
      BY <2>1, <2>2, OneTokenAlternative
    <2>4. pos' = pos + 1 /\ Effect("star", "post", "none")
      BY <1>1, <2>1, <2>2, TakingOne DEF Actions, Reads
    <2>5. Alternatives[2] = Alternative(<<{"STAR"}>>, 0, "always", "star", "post", "none")
      BY <1>2, <2>2, Zenon
    <2>6. Acts("star")
      BY <2>1, <2>5, ActsAs, Zenon
    <2>7. pos' = pos + 1 /\ Pushes("star", "post")
      BY <1>1, <2>4 DEF Effect
    <2> QED  BY <1>3, <2>3, <2>7, <2>6 DEF Sees
  <1>7. CASE Chosen(3)
    <2>1. Agrees(postOpen[3], Top) /\ InSight(postOpen[3]) /\ Outcomes(postOpen[3]) /\ Choice = 3 /\ Choice # 0
      BY <1>2, <1>7 DEF Chosen
    <2>2. postOpen[3] = Alternative(<<{"PLUS"}>>, 0, "always", "plus", "post", "none")
      BY PostTable
    <2>3. Sees(1, {"PLUS"})
      BY <2>1, <2>2, OneTokenAlternative
    <2>4. pos' = pos + 1 /\ Effect("plus", "post", "none")
      BY <1>1, <2>1, <2>2, TakingOne DEF Actions, Reads
    <2>5. Alternatives[3] = Alternative(<<{"PLUS"}>>, 0, "always", "plus", "post", "none")
      BY <1>2, <2>2, Zenon
    <2>6. Acts("plus")
      BY <2>1, <2>5, ActsAs, Zenon
    <2>7. pos' = pos + 1 /\ Pushes("plus", "post")
      BY <1>1, <2>4 DEF Effect
    <2> QED  BY <1>3, <2>3, <2>7, <2>6 DEF Sees
  <1>8. CASE Chosen(4)
    <2>1. Agrees(postOpen[4], Top) /\ InSight(postOpen[4]) /\ Outcomes(postOpen[4]) /\ Choice = 4 /\ Choice # 0
      BY <1>2, <1>8 DEF Chosen
    <2>2. postOpen[4] = Alternative(<<>>, 1, "always", "none", "none", "none")
      BY PostTable
    <2>3. pos' = pos /\ Effect("none", "none", "none")
      BY <1>1, <2>1, <2>2, GivingNothing DEF Actions, Reads
    <2>4. ~Agrees(postOpen[1], Top) /\ ~Agrees(postOpen[2], Top) /\ ~Agrees(postOpen[3], Top)
      BY <1>2, <1>8 DEF Chosen
    <2>5. SeesOther(1, {"QM"})
      BY <2>4, PostTable, OneTokenAlternative
    <2>6. SeesOther(1, {"STAR"})
      BY <2>4, PostTable, OneTokenAlternative
    <2>7. SeesOther(1, {"PLUS"})
      BY <2>4, PostTable, OneTokenAlternative
    <2>8. Alternatives[4] = Alternative(<<>>, 1, "always", "none", "none", "none")
      BY <1>2, <2>2, Zenon
    <2>9. Acts("none")
      BY <2>1, <2>8, ActsAs, Zenon
    <2> QED  BY <1>1, <1>3, <2>3, <2>5, <2>6, <2>7, <2>9 DEF Effect, SeesOther
  <1>9. CASE NoneChosen
    <2>1. ~Agrees(postOpen[4], Top)
      BY <1>2, <1>9, PostOpenLegal DEF NoneChosen
    <2>2. postOpen[4] = Alternative(<<>>, 1, "always", "none", "none", "none")
      BY PostTable
    <2> QED  BY <2>1, <2>2, BareAlternative
  <1> QED  BY <1>4, <1>5, <1>6, <1>7, <1>8, <1>9

\* A chain of operators goes, link by link.
LEMMA PostCloseStep ==
  ASSUME Frames, Step("post", "close")
  PROVE  /\ Begun("post", "close")
         /\ pos' = pos /\ Returns("none") /\ Acts("none")
  <1>1. Top.rule = "post" /\ Top.state = "close" /\ pos \in Nat /\ Len(src) \in Nat
    BY DEF Step, Frames
  <1>2. Alternatives = postClose
    BY <1>1 DEF Alternatives, Close
  <1>3. Begun("post", "close") /\ (NoneChosen \/ \E i \in 1 .. 1 : Chosen(i))
    BY <1>2, PostCloseLegal, Stepping DEF RuleNames
  <1>4. NoneChosen \/ Chosen(1)
    BY <1>3
  <1>5. CASE Chosen(1)
    <2>1. Agrees(postClose[1], Top) /\ InSight(postClose[1]) /\ Outcomes(postClose[1]) /\ Choice = 1 /\ Choice # 0
      BY <1>2, <1>5 DEF Chosen
    <2>2. postClose[1] = Alternative(<<>>, 1, "always", "none", "none", "none")
      BY PostTable
    <2>3. pos' = pos /\ Effect("none", "none", "none")
      BY <1>1, <2>1, <2>2, GivingNothing DEF Actions, Reads
    <2>4. Alternatives[1] = Alternative(<<>>, 1, "always", "none", "none", "none")
      BY <1>2, <2>2, Zenon
    <2>5. Acts("none")
      BY <2>1, <2>4, ActsAs, Zenon
    <2> QED  BY <1>1, <1>3, <2>3, <2>5 DEF Effect
  <1>6. CASE NoneChosen
    <2>1. ~Agrees(postClose[1], Top)
      BY <1>2, <1>6, PostCloseLegal DEF NoneChosen
    <2>2. postClose[1] = Alternative(<<>>, 1, "always", "none", "none", "none")
      BY PostTable
    <2> QED  BY <2>1, <2>2, BareAlternative
  <1> QED  BY <1>4, <1>5, <1>6

\* An element begins with its atom.
LEMMA ElemOpenStep ==
  ASSUME Frames, Step("elem", "open")
  PROVE  /\ Begun("elem", "open")
         /\ pos' = pos /\ Pushes("none", "atom")
  <1>1. Top.rule = "elem" /\ Top.state = "open" /\ pos \in Nat /\ Len(src) \in Nat
    BY DEF Step, Frames
  <1>2. Alternatives = elemOpen
    BY <1>1 DEF Alternatives, Open
  <1>3. Begun("elem", "open") /\ (NoneChosen \/ \E i \in 1 .. 1 : Chosen(i))
    BY <1>2, ElemOpenLegal, Stepping DEF RuleNames
  <1>4. NoneChosen \/ Chosen(1)
    BY <1>3
  <1>5. CASE Chosen(1)
    <2>1. Agrees(elemOpen[1], Top) /\ InSight(elemOpen[1]) /\ Outcomes(elemOpen[1]) /\ Choice = 1 /\ Choice # 0
      BY <1>2, <1>5 DEF Chosen
    <2>2. elemOpen[1] = Alternative(<<>>, 0, "always", "none", "atom", "none")
      BY ElemTable
    <2>3. pos' = pos /\ Effect("none", "atom", "none")
      BY <1>1, <2>1, <2>2, TakingNone DEF Actions, Reads
    <2> QED  BY <1>1, <1>3, <2>3 DEF Effect
  <1>6. CASE NoneChosen
    <2>1. ~Agrees(elemOpen[1], Top)
      BY <1>2, <1>6, ElemOpenLegal DEF NoneChosen
    <2>2. elemOpen[1] = Alternative(<<>>, 0, "always", "none", "atom", "none")
      BY ElemTable
    <2> QED  BY <2>1, <2>2, BareAlternative
  <1> QED  BY <1>4, <1>5, <1>6

\* Once with its atom, once with its operators.
LEMMA ElemCloseStep ==
  ASSUME Frames, Step("elem", "close")
  PROVE  /\ Begun("elem", "close")
         /\ \/ Top.u = <<>> /\ pos' = pos /\ Pushes("got", "post")
            \/ Top.u # <<>> /\ pos' = pos /\ Returns("none")
  <1>1. Top.rule = "elem" /\ Top.state = "close" /\ pos \in Nat /\ Len(src) \in Nat
    BY DEF Step, Frames
  <1>2. Alternatives = elemClose
    BY <1>1 DEF Alternatives, Close
  <1>3. Begun("elem", "close") /\ (NoneChosen \/ \E i \in 1 .. 2 : Chosen(i))
    BY <1>2, ElemCloseLegal, Stepping DEF RuleNames
  <1>4. NoneChosen \/ Chosen(1) \/ Chosen(2)
    BY <1>3
  <1>5. CASE Chosen(1)
    <2>1. Agrees(elemClose[1], Top) /\ InSight(elemClose[1]) /\ Outcomes(elemClose[1]) /\ Choice = 1 /\ Choice # 0
      BY <1>2, <1>5 DEF Chosen
    <2>2. elemClose[1] = Alternative(<<>>, 0, "not-got", "got", "post", "none")
      BY ElemTable
    <2>3. pos' = pos /\ Effect("got", "post", "none")
      BY <1>1, <2>1, <2>2, TakingNone DEF Actions, Reads
    <2>4. Top.u = <<>>
      BY <2>1, <2>2, NotGotAlternative
    <2> QED  BY <1>1, <1>3, <2>3, <2>4 DEF Effect
  <1>6. CASE Chosen(2)
    <2>1. Agrees(elemClose[2], Top) /\ InSight(elemClose[2]) /\ Outcomes(elemClose[2]) /\ Choice = 2 /\ Choice # 0
      BY <1>2, <1>6 DEF Chosen
    <2>2. elemClose[2] = Alternative(<<>>, 1, "always", "none", "none", "none")
      BY ElemTable
    <2>3. pos' = pos /\ Effect("none", "none", "none")
      BY <1>1, <2>1, <2>2, GivingNothing DEF Actions, Reads
    <2>4. ~Agrees(elemClose[1], Top)
      BY <1>2, <1>6 DEF Chosen
    <2>5. Top.u # <<>>
      BY <2>4, ElemTable, NotGotAlternative
    <2> QED  BY <1>1, <1>3, <2>3, <2>5 DEF Effect
  <1>7. CASE NoneChosen
    <2>1. ~Agrees(elemClose[2], Top)
      BY <1>2, <1>7, ElemCloseLegal DEF NoneChosen
    <2>2. elemClose[2] = Alternative(<<>>, 1, "always", "none", "none", "none")
      BY ElemTable
    <2> QED  BY <2>1, <2>2, BareAlternative
  <1> QED  BY <1>4, <1>5, <1>6, <1>7

\* Alternatives begin with a sequence.
LEMMA AltsOpenStep ==
  ASSUME Frames, Step("alts", "open")
  PROVE  /\ Begun("alts", "open")
         /\ pos' = pos /\ Pushes("none", "seq")
  <1>1. Top.rule = "alts" /\ Top.state = "open" /\ pos \in Nat /\ Len(src) \in Nat
    BY DEF Step, Frames
  <1>2. Alternatives = altsOpen
    BY <1>1 DEF Alternatives, Open
  <1>3. Begun("alts", "open") /\ (NoneChosen \/ \E i \in 1 .. 1 : Chosen(i))
    BY <1>2, AltsOpenLegal, Stepping DEF RuleNames
  <1>4. NoneChosen \/ Chosen(1)
    BY <1>3
  <1>5. CASE Chosen(1)
    <2>1. Agrees(altsOpen[1], Top) /\ InSight(altsOpen[1]) /\ Outcomes(altsOpen[1]) /\ Choice = 1 /\ Choice # 0
      BY <1>2, <1>5 DEF Chosen
    <2>2. altsOpen[1] = Alternative(<<>>, 0, "always", "none", "seq", "none")
      BY AltsTable
    <2>3. pos' = pos /\ Effect("none", "seq", "none")
      BY <1>1, <2>1, <2>2, TakingNone DEF Actions, Reads
    <2> QED  BY <1>1, <1>3, <2>3 DEF Effect
  <1>6. CASE NoneChosen
    <2>1. ~Agrees(altsOpen[1], Top)
      BY <1>2, <1>6, AltsOpenLegal DEF NoneChosen
    <2>2. altsOpen[1] = Alternative(<<>>, 0, "always", "none", "seq", "none")
      BY AltsTable
    <2> QED  BY <2>1, <2>2, BareAlternative
  <1> QED  BY <1>4, <1>5, <1>6

\* A bar is followed by another sequence.
LEMMA AltsCloseStep ==
  ASSUME Frames, Step("alts", "close")
  PROVE  /\ Begun("alts", "close")
         /\ \/ Sees(1, {"ALT"}) /\ pos' = pos + 1 /\ Pushes("none", "seq")
            \/ SeesOther(1, {"ALT"}) /\ pos' = pos /\ Returns("none")
  <1>1. Top.rule = "alts" /\ Top.state = "close" /\ pos \in Nat /\ Len(src) \in Nat
    BY DEF Step, Frames
  <1>2. Alternatives = altsClose
    BY <1>1 DEF Alternatives, Close
  <1>3. Begun("alts", "close") /\ (NoneChosen \/ \E i \in 1 .. 2 : Chosen(i))
    BY <1>2, AltsCloseLegal, Stepping DEF RuleNames
  <1>4. NoneChosen \/ Chosen(1) \/ Chosen(2)
    BY <1>3
  <1>5. CASE Chosen(1)
    <2>1. Agrees(altsClose[1], Top) /\ InSight(altsClose[1]) /\ Outcomes(altsClose[1]) /\ Choice = 1 /\ Choice # 0
      BY <1>2, <1>5 DEF Chosen
    <2>2. altsClose[1] = Alternative(<<{"ALT"}>>, 0, "always", "none", "seq", "none")
      BY AltsTable
    <2>3. Sees(1, {"ALT"})
      BY <2>1, <2>2, OneTokenAlternative
    <2>4. pos' = pos + 1 /\ Effect("none", "seq", "none")
      BY <1>1, <2>1, <2>2, TakingOne DEF Actions, Reads
    <2>5. pos' = pos + 1 /\ Pushes("none", "seq")
      BY <1>1, <2>4 DEF Effect
    <2> QED  BY <1>3, <2>3, <2>5
  <1>6. CASE Chosen(2)
    <2>1. Agrees(altsClose[2], Top) /\ InSight(altsClose[2]) /\ Outcomes(altsClose[2]) /\ Choice = 2 /\ Choice # 0
      BY <1>2, <1>6 DEF Chosen
    <2>2. altsClose[2] = Alternative(<<>>, 1, "always", "none", "none", "none")
      BY AltsTable
    <2>3. pos' = pos /\ Effect("none", "none", "none")
      BY <1>1, <2>1, <2>2, GivingNothing DEF Actions, Reads
    <2>4. ~Agrees(altsClose[1], Top)
      BY <1>2, <1>6 DEF Chosen
    <2>5. SeesOther(1, {"ALT"})
      BY <2>4, AltsTable, OneTokenAlternative
    <2> QED  BY <1>1, <1>3, <2>3, <2>5 DEF Effect, SeesOther
  <1>7. CASE NoneChosen
    <2>1. ~Agrees(altsClose[2], Top)
      BY <1>2, <1>7, AltsCloseLegal DEF NoneChosen
    <2>2. altsClose[2] = Alternative(<<>>, 1, "always", "none", "none", "none")
      BY AltsTable
    <2> QED  BY <2>1, <2>2, BareAlternative
  <1> QED  BY <1>4, <1>5, <1>6, <1>7

\* A source is empty or begins with a production.
LEMMA EbnfOpenStep ==
  ASSUME Frames, Step("ebnf", "open")
  PROVE  /\ Begun("ebnf", "open")
         /\ \/ Sees(1, {"ZZ"}) /\ pos' = pos + 1 /\ Stays("none")
            \/ SeesOther(1, {"ZZ"}) /\ pos' = pos /\ Pushes("none", "prod")
  <1>1. Top.rule = "ebnf" /\ Top.state = "open" /\ pos \in Nat /\ Len(src) \in Nat
    BY DEF Step, Frames
  <1>2. Alternatives = ebnfOpen
    BY <1>1 DEF Alternatives, Open
  <1>3. Begun("ebnf", "open") /\ (NoneChosen \/ \E i \in 1 .. 2 : Chosen(i))
    BY <1>2, EbnfOpenLegal, Stepping DEF RuleNames
  <1>4. NoneChosen \/ Chosen(1) \/ Chosen(2)
    BY <1>3
  <1>5. CASE Chosen(1)
    <2>1. Agrees(ebnfOpen[1], Top) /\ InSight(ebnfOpen[1]) /\ Outcomes(ebnfOpen[1]) /\ Choice = 1 /\ Choice # 0
      BY <1>2, <1>5 DEF Chosen
    <2>2. ebnfOpen[1] = Alternative(<<{"ZZ"}>>, 0, "always", "none", "none", "none")
      BY EbnfTable
    <2>3. Sees(1, {"ZZ"})
      BY <2>1, <2>2, OneTokenAlternative
    <2>4. pos' = pos + 1 /\ Effect("none", "none", "none")
      BY <1>1, <2>1, <2>2, TakingOne DEF Actions, Reads
    <2>5. pos' = pos + 1 /\ Stays("none")
      BY <1>1, <2>4 DEF Effect
    <2> QED  BY <1>3, <2>3, <2>5
  <1>6. CASE Chosen(2)
    <2>1. Agrees(ebnfOpen[2], Top) /\ InSight(ebnfOpen[2]) /\ Outcomes(ebnfOpen[2]) /\ Choice = 2 /\ Choice # 0
      BY <1>2, <1>6 DEF Chosen
    <2>2. ebnfOpen[2] = Alternative(<<>>, 0, "always", "none", "prod", "none")
      BY EbnfTable
    <2>3. pos' = pos /\ Effect("none", "prod", "none")
      BY <1>1, <2>1, <2>2, TakingNone DEF Actions, Reads
    <2>4. ~Agrees(ebnfOpen[1], Top)
      BY <1>2, <1>6 DEF Chosen
    <2>5. SeesOther(1, {"ZZ"})
      BY <2>4, EbnfTable, OneTokenAlternative
    <2> QED  BY <1>1, <1>3, <2>3, <2>5 DEF Effect, SeesOther
  <1>7. CASE NoneChosen
    <2>1. ~Agrees(ebnfOpen[2], Top)
      BY <1>2, <1>7, EbnfOpenLegal DEF NoneChosen
    <2>2. ebnfOpen[2] = Alternative(<<>>, 0, "always", "none", "prod", "none")
      BY EbnfTable
    <2> QED  BY <2>1, <2>2, BareAlternative
  <1> QED  BY <1>4, <1>5, <1>6, <1>7

\* After the productions the source ends.
LEMMA EbnfCloseStep ==
  ASSUME Frames, Step("ebnf", "close")
  PROVE  /\ Begun("ebnf", "close")
         /\ \/ Sees(1, {"ZZ"}) /\ pos' = pos + 1 /\ Returns("none")
            \/ SeesOther(1, {"ZZ"}) /\ Refuses("syntax")
  <1>1. Top.rule = "ebnf" /\ Top.state = "close" /\ pos \in Nat /\ Len(src) \in Nat
    BY DEF Step, Frames
  <1>2. Alternatives = ebnfClose
    BY <1>1 DEF Alternatives, Close
  <1>3. Begun("ebnf", "close") /\ (NoneChosen \/ \E i \in 1 .. 1 : Chosen(i))
    BY <1>2, EbnfCloseLegal, Stepping DEF RuleNames
  <1>4. NoneChosen \/ Chosen(1)
    BY <1>3
  <1>5. CASE Chosen(1)
    <2>1. Agrees(ebnfClose[1], Top) /\ InSight(ebnfClose[1]) /\ Outcomes(ebnfClose[1]) /\ Choice = 1 /\ Choice # 0
      BY <1>2, <1>5 DEF Chosen
    <2>2. ebnfClose[1] = Alternative(<<{"ZZ"}>>, 0, "always", "none", "none", "none")
      BY EbnfTable
    <2>3. Sees(1, {"ZZ"})
      BY <2>1, <2>2, OneTokenAlternative
    <2>4. pos' = pos + 1 /\ Effect("none", "none", "none")
      BY <1>1, <2>1, <2>2, TakingOne DEF Actions, Reads
    <2>5. pos' = pos + 1 /\ Returns("none")
      BY <1>1, <2>4 DEF Effect
    <2> QED  BY <1>3, <2>3, <2>5
  <1>6. CASE NoneChosen
    <2>1. ~Agrees(ebnfClose[1], Top)
      BY <1>2, <1>6, EbnfCloseLegal DEF NoneChosen
    <2>2. SeesOther(1, {"ZZ"})
      BY <2>1, EbnfTable, OneTokenAlternative
    <2> QED  BY <1>3, <1>6, <2>2 DEF NoneChosen, SeesOther
  <1> QED  BY <1>4, <1>5, <1>6

\* A production begins with its name and an operator.
LEMMA ProdOpenStep ==
  ASSUME Frames, Step("prod", "open")
  PROVE  /\ Begun("prod", "open")
         /\ \/ Sees(1, {"TX"}) /\ Sees(2, DEFOP) /\ Misread
            \/ Sees(1, {"TX"}) /\ Sees(2, DEFOP) /\ pos' = pos + 2 /\ Pushes("name", "alts")
            \/ Refuses("syntax")
  <1>1. Top.rule = "prod" /\ Top.state = "open" /\ pos \in Nat /\ Len(src) \in Nat
    BY DEF Step, Frames
  <1>2. Alternatives = prodOpen
    BY <1>1 DEF Alternatives, Open
  <1>3. Begun("prod", "open") /\ (NoneChosen \/ \E i \in 1 .. 1 : Chosen(i))
    BY <1>2, ProdOpenLegal, Stepping DEF RuleNames
  <1>4. NoneChosen \/ Chosen(1)
    BY <1>3
  <1>5. CASE Chosen(1)
    <2>1. Agrees(prodOpen[1], Top) /\ InSight(prodOpen[1]) /\ Outcomes(prodOpen[1]) /\ Choice = 1 /\ Choice # 0
      BY <1>2, <1>5 DEF Chosen
    <2>2. prodOpen[1] = Alternative(Header, 0, "always", "name", "alts", "none")
      BY ProdTable
    <2>3. Sees(1, {"TX"}) /\ Sees(2, DEFOP)
      BY <1>1, <2>1, <2>2, HeaderAlternative
    <2>4. (pos' = pos + 2 /\ Effect("name", "alts", "none")) \/ Misread
      BY <1>1, <2>1, <2>2, ReadingHeader DEF Actions, Reads
    <2> QED  BY <1>1, <1>3, <2>3, <2>4 DEF Effect
  <1>6. CASE NoneChosen
    BY <1>3, <1>6 DEF NoneChosen
  <1> QED  BY <1>4, <1>5, <1>6

\* The next production, if a header is in sight; never a refusal.
LEMMA ProdCloseStep ==
  ASSUME Frames, Step("prod", "close")
  PROVE  /\ Begun("prod", "close")
         /\ \/ Sees(1, {"SC"}) /\ Sees(2, {"TX"}) /\ Sees(3, DEFOP) /\ pos' = pos + 1 /\ Replaces("prod")
            \/ Sees(1, {"SC"}) /\ pos' = pos + 1 /\ Returns("none")
            \/ Sees(1, {"TX"}) /\ Sees(2, DEFOP) /\ pos' = pos /\ Replaces("prod")
            \/ SeesOther(1, {"SC"}) /\ pos' = pos /\ Returns("none")
  <1>1. Top.rule = "prod" /\ Top.state = "close" /\ pos \in Nat /\ Len(src) \in Nat
    BY DEF Step, Frames
  <1>2. Alternatives = prodClose
    BY <1>1 DEF Alternatives, Close
  <1>3. Begun("prod", "close") /\ (NoneChosen \/ \E i \in 1 .. 4 : Chosen(i))
    BY <1>2, ProdCloseLegal, Stepping DEF RuleNames
  <1>4. NoneChosen \/ Chosen(1) \/ Chosen(2) \/ Chosen(3) \/ Chosen(4)
    BY <1>3
  <1>5. CASE Chosen(1)
    <2>1. Agrees(prodClose[1], Top) /\ InSight(prodClose[1]) /\ Outcomes(prodClose[1]) /\ Choice = 1 /\ Choice # 0
      BY <1>2, <1>5 DEF Chosen
    <2>2. prodClose[1] = Alternative(<<{"SC"}>> \o Header, 2, "always", "none", "none", "prod")
      BY ProdTable
    <2>3. Sees(1, {"SC"}) /\ Sees(2, {"TX"}) /\ Sees(3, DEFOP)
      BY <1>1, <2>1, <2>2, SeparatorAlternative
    <2>4. pos' = pos + 1 /\ Effect("none", "none", "prod")
      BY <1>1, <2>1, <2>2, TakingSeparator DEF Actions, Reads
    <2> QED  BY <1>1, <1>3, <2>3, <2>4 DEF Effect
  <1>6. CASE Chosen(2)
    <2>1. Agrees(prodClose[2], Top) /\ InSight(prodClose[2]) /\ Outcomes(prodClose[2]) /\ Choice = 2 /\ Choice # 0
      BY <1>2, <1>6 DEF Chosen
    <2>2. prodClose[2] = Alternative(<<{"SC"}>>, 0, "always", "none", "none", "none")
      BY ProdTable
    <2>3. Sees(1, {"SC"})
      BY <2>1, <2>2, OneTokenAlternative
    <2>4. pos' = pos + 1 /\ Effect("none", "none", "none")
      BY <1>1, <2>1, <2>2, TakingOne DEF Actions, Reads
    <2>5. pos' = pos + 1 /\ Returns("none")
      BY <1>1, <2>4 DEF Effect
    <2> QED  BY <1>3, <2>3, <2>5
  <1>7. CASE Chosen(3)
    <2>1. Agrees(prodClose[3], Top) /\ InSight(prodClose[3]) /\ Outcomes(prodClose[3]) /\ Choice = 3 /\ Choice # 0
      BY <1>2, <1>7 DEF Chosen
    <2>2. prodClose[3] = Alternative(Header, 2, "always", "none", "none", "prod")
      BY ProdTable
    <2>3. Sees(1, {"TX"}) /\ Sees(2, DEFOP)
      BY <1>1, <2>1, <2>2, HeaderAlternative
    <2>4. pos' = pos /\ Effect("none", "none", "prod")
      BY <1>1, <2>1, <2>2, GivingHeaderBack DEF Actions, Reads
    <2> QED  BY <1>1, <1>3, <2>3, <2>4 DEF Effect
  <1>8. CASE Chosen(4)
    <2>1. Agrees(prodClose[4], Top) /\ InSight(prodClose[4]) /\ Outcomes(prodClose[4]) /\ Choice = 4 /\ Choice # 0
      BY <1>2, <1>8 DEF Chosen
    <2>2. prodClose[4] = Alternative(<<>>, 1, "always", "none", "none", "none")
      BY ProdTable
    <2>3. pos' = pos /\ Effect("none", "none", "none")
      BY <1>1, <2>1, <2>2, GivingNothing DEF Actions, Reads
    <2>4. ~Agrees(prodClose[1], Top) /\ ~Agrees(prodClose[2], Top) /\ ~Agrees(prodClose[3], Top)
      BY <1>2, <1>8 DEF Chosen
    <2>5. SeesOther(1, {"SC"})
      BY <2>4, ProdTable, OneTokenAlternative
    <2> QED  BY <1>1, <1>3, <2>3, <2>5 DEF Effect, SeesOther
  <1>9. CASE NoneChosen
    <2>1. ~Agrees(prodClose[4], Top)
      BY <1>2, <1>9, ProdCloseLegal DEF NoneChosen
    <2>2. prodClose[4] = Alternative(<<>>, 1, "always", "none", "none", "none")
      BY ProdTable
    <2> QED  BY <2>1, <2>2, BareAlternative
  <1> QED  BY <1>4, <1>5, <1>6, <1>7, <1>8, <1>9

\* An expression is due.
LEMMA SeqOpenStep ==
  ASSUME Frames, Step("seq", "open")
  PROVE  /\ Begun("seq", "open")
         /\ \/ Sees(1, {"TX"}) /\ Sees(2, DEFOP) /\ Refuses("empty-alternative")
            \/ Sees(1, {"ALT", "RP", "SC", "ZZ"}) /\ Refuses("empty-alternative")
            \/ Sees(1, {"CA"}) /\ Refuses("leading-comma")
            \/ Sees(1, {"ST", "CC", "HX", "TX", "LP"}) /\ pos' = pos /\ Pushes("none", "elem")
            \/ Sees(1, {"QM"}) /\ Refuses("special-sequence")
            \/ Sees(1, {"SUB"}) /\ Refuses("subtraction")
            \/ Sees(1, {"OB", "CB"}) /\ Refuses("ISO-repetition")
            \/ Sees(1, {"OS", "CS"}) /\ Refuses("stray-bracket")
            \/ Sees(1, {"STAR", "PLUS"}) /\ Refuses("dangling-postfix")
            \/ SeesOther(1, {"ALT", "RP", "SC", "ZZ", "CA", "ST", "CC", "HX", "TX", "LP", "QM", "SUB", "OB", "CB", "OS", "CS", "STAR", "PLUS"}) /\ pos' = pos /\ Stays("none")
  <1>1. Top.rule = "seq" /\ Top.state = "open" /\ pos \in Nat /\ Len(src) \in Nat
    BY DEF Step, Frames
  <1>2. Alternatives = seqOpen
    BY <1>1 DEF Alternatives, Open, seqOpen
  <1>3. Begun("seq", "open") /\ (NoneChosen \/ \E i \in 1 .. 10 : Chosen(i))
    BY <1>2, SeqOpenLegal, Stepping DEF RuleNames
  <1>4. NoneChosen \/ Chosen(1) \/ Chosen(2) \/ Chosen(3) \/ Chosen(4) \/ Chosen(5) \/ Chosen(6)
        \/ Chosen(7) \/ Chosen(8) \/ Chosen(9) \/ Chosen(10)
    BY <1>3
  <1>5. CASE Chosen(1)
    <2>1. Agrees(seqOpen[1], Top) /\ InSight(seqOpen[1]) /\ Outcomes(seqOpen[1]) /\ Choice = 1 /\ Choice # 0
      BY <1>2, <1>5 DEF Chosen
    <2>2. seqOpen[1] = Alternative(Header, 2, "always", "empty-alternative", "none", "none")
      BY SeqOpenTable, SeqHeads, SeqTail
    <2>3. Sees(1, {"TX"}) /\ Sees(2, DEFOP)
      BY <1>1, <2>1, <2>2, HeaderAlternative
    <2>4. Refuses("empty-alternative")
      BY <2>1, <2>2, "empty-alternative" \in Refusals, RefusingAlternative DEF Refusals
    <2> QED  BY <1>1, <1>3, <2>3, <2>4
  <1>6. CASE Chosen(2)
    <2>1. Agrees(seqOpen[2], Top) /\ InSight(seqOpen[2]) /\ Outcomes(seqOpen[2]) /\ Choice = 2 /\ Choice # 0
      BY <1>2, <1>6 DEF Chosen
    <2>2. seqOpen[2] = Alternative(<<{"ALT", "RP", "SC", "ZZ"}>>, 0, "always", "empty-alternative", "none", "none")
      BY SeqOpenTable, SeqHeads, SeqTail
    <2>3. Sees(1, {"ALT", "RP", "SC", "ZZ"})
      BY <2>1, <2>2, OneTokenAlternative
    <2>4. Refuses("empty-alternative")
      BY <2>1, <2>2, "empty-alternative" \in Refusals, RefusingAlternative DEF Refusals
    <2> QED  BY <1>1, <1>3, <2>3, <2>4
  <1>7. CASE Chosen(3)
    <2>1. Agrees(seqOpen[3], Top) /\ InSight(seqOpen[3]) /\ Outcomes(seqOpen[3]) /\ Choice = 3 /\ Choice # 0
      BY <1>2, <1>7 DEF Chosen
    <2>2. seqOpen[3] = Alternative(<<{"CA"}>>, 0, "always", "leading-comma", "none", "none")
      BY SeqOpenTable, SeqHeads, SeqTail
    <2>3. Sees(1, {"CA"})
      BY <2>1, <2>2, OneTokenAlternative
    <2>4. Refuses("leading-comma")
      BY <2>1, <2>2, "leading-comma" \in Refusals, RefusingAlternative DEF Refusals
    <2> QED  BY <1>1, <1>3, <2>3, <2>4
  <1>8. CASE Chosen(4)
    <2>1. Agrees(seqOpen[4], Top) /\ InSight(seqOpen[4]) /\ Outcomes(seqOpen[4]) /\ Choice = 4 /\ Choice # 0
      BY <1>2, <1>8 DEF Chosen
    <2>2. seqOpen[4] = Alternative(<<{"ST", "CC", "HX", "TX", "LP"}>>, 1, "always", "none", "elem", "none")
      BY SeqOpenTable, SeqHeads, SeqTail
    <2>3. Sees(1, {"ST", "CC", "HX", "TX", "LP"})
      BY <2>1, <2>2, OneTokenAlternative
    <2>4. pos' = pos /\ Effect("none", "elem", "none")
      BY <1>1, <2>1, <2>2, GivingOneBack DEF Actions, Reads
    <2>5. pos' = pos /\ Pushes("none", "elem")
      BY <1>1, <2>4 DEF Effect
    <2> QED  BY <1>3, <2>3, <2>5
  <1>9. CASE Chosen(5)
    <2>1. Agrees(seqOpen[5], Top) /\ InSight(seqOpen[5]) /\ Outcomes(seqOpen[5]) /\ Choice = 5 /\ Choice # 0
      BY <1>2, <1>9 DEF Chosen
    <2>2. seqOpen[5] = Alternative(<<{"QM"}>>, 0, "always", "special-sequence", "none", "none")
      BY SeqOpenTable, SeqHeads, SeqTail
    <2>3. Sees(1, {"QM"})
      BY <2>1, <2>2, OneTokenAlternative
    <2>4. Refuses("special-sequence")
      BY <2>1, <2>2, "special-sequence" \in Refusals, RefusingAlternative DEF Refusals
    <2> QED  BY <1>1, <1>3, <2>3, <2>4
  <1>10. CASE Chosen(6)
    <2>1. Agrees(seqOpen[6], Top) /\ InSight(seqOpen[6]) /\ Outcomes(seqOpen[6]) /\ Choice = 6 /\ Choice # 0
      BY <1>2, <1>10 DEF Chosen
    <2>2. seqOpen[6] = Alternative(<<{"SUB"}>>, 0, "always", "subtraction", "none", "none")
      BY SeqOpenTable, SeqHeads, SeqTail
    <2>3. Sees(1, {"SUB"})
      BY <2>1, <2>2, OneTokenAlternative
    <2>4. Refuses("subtraction")
      BY <2>1, <2>2, "subtraction" \in Refusals, RefusingAlternative DEF Refusals
    <2> QED  BY <1>1, <1>3, <2>3, <2>4
  <1>11. CASE Chosen(7)
    <2>1. Agrees(seqOpen[7], Top) /\ InSight(seqOpen[7]) /\ Outcomes(seqOpen[7]) /\ Choice = 7 /\ Choice # 0
      BY <1>2, <1>11 DEF Chosen
    <2>2. seqOpen[7] = Alternative(<<{"OB", "CB"}>>, 0, "always", "ISO-repetition", "none", "none")
      BY SeqOpenTable, SeqHeads, SeqTail
    <2>3. Sees(1, {"OB", "CB"})
      BY <2>1, <2>2, OneTokenAlternative
    <2>4. Refuses("ISO-repetition")
      BY <2>1, <2>2, "ISO-repetition" \in Refusals, RefusingAlternative DEF Refusals
    <2> QED  BY <1>1, <1>3, <2>3, <2>4
  <1>12. CASE Chosen(8)
    <2>1. Agrees(seqOpen[8], Top) /\ InSight(seqOpen[8]) /\ Outcomes(seqOpen[8]) /\ Choice = 8 /\ Choice # 0
      BY <1>2, <1>12 DEF Chosen
    <2>2. seqOpen[8] = Alternative(<<{"OS", "CS"}>>, 0, "always", "stray-bracket", "none", "none")
      BY SeqOpenTable, SeqHeads, SeqTail
    <2>3. Sees(1, {"OS", "CS"})
      BY <2>1, <2>2, OneTokenAlternative
    <2>4. Refuses("stray-bracket")
      BY <2>1, <2>2, "stray-bracket" \in Refusals, RefusingAlternative DEF Refusals
    <2> QED  BY <1>1, <1>3, <2>3, <2>4
  <1>13. CASE Chosen(9)
    <2>1. Agrees(seqOpen[9], Top) /\ InSight(seqOpen[9]) /\ Outcomes(seqOpen[9]) /\ Choice = 9 /\ Choice # 0
      BY <1>2, <1>13 DEF Chosen
    <2>2. seqOpen[9] = Alternative(<<{"STAR", "PLUS"}>>, 0, "always", "dangling-postfix", "none", "none")
      BY SeqOpenTable, SeqHeads, SeqTail
    <2>3. Sees(1, {"STAR", "PLUS"})
      BY <2>1, <2>2, OneTokenAlternative
    <2>4. Refuses("dangling-postfix")
      BY <2>1, <2>2, "dangling-postfix" \in Refusals, RefusingAlternative DEF Refusals
    <2> QED  BY <1>1, <1>3, <2>3, <2>4
  <1>14. CASE Chosen(10)
    <2>1. Agrees(seqOpen[10], Top) /\ InSight(seqOpen[10]) /\ Outcomes(seqOpen[10]) /\ Choice = 10 /\ Choice # 0
      BY <1>2, <1>14 DEF Chosen
    <2>2. seqOpen[10] = Alternative(<<>>, 1, "always", "none", "none", "none")
      BY SeqOpenTable, SeqHeads, SeqTail
    <2>3. pos' = pos /\ Effect("none", "none", "none")
      BY <1>1, <2>1, <2>2, GivingNothing DEF Actions, Reads
    <2>4. /\ ~Agrees(seqOpen[1], Top) /\ ~Agrees(seqOpen[2], Top) /\ ~Agrees(seqOpen[3], Top)
      /\ ~Agrees(seqOpen[4], Top) /\ ~Agrees(seqOpen[5], Top) /\ ~Agrees(seqOpen[6], Top)
      /\ ~Agrees(seqOpen[7], Top) /\ ~Agrees(seqOpen[8], Top) /\ ~Agrees(seqOpen[9], Top)
      BY <1>2, <1>14 DEF Chosen
    <2>5. seqOpen[2] = Alternative(<<{"ALT", "RP", "SC", "ZZ"}>>, 0, "always", "empty-alternative", "none", "none")
      BY SeqOpenTable, SeqHeads, SeqTail
    <2>6. SeesOther(1, {"ALT", "RP", "SC", "ZZ"})
      BY <2>4, <2>5, OneTokenAlternative
    <2>7. seqOpen[3] = Alternative(<<{"CA"}>>, 0, "always", "leading-comma", "none", "none")
      BY SeqOpenTable, SeqHeads, SeqTail
    <2>8. SeesOther(1, {"CA"})
      BY <2>4, <2>7, OneTokenAlternative
    <2>9. seqOpen[4] = Alternative(<<{"ST", "CC", "HX", "TX", "LP"}>>, 1, "always", "none", "elem", "none")
      BY SeqOpenTable, SeqHeads, SeqTail
    <2>10. SeesOther(1, {"ST", "CC", "HX", "TX", "LP"})
      BY <2>4, <2>9, OneTokenAlternative
    <2>11. seqOpen[5] = Alternative(<<{"QM"}>>, 0, "always", "special-sequence", "none", "none")
      BY SeqOpenTable, SeqHeads, SeqTail
    <2>12. SeesOther(1, {"QM"})
      BY <2>4, <2>11, OneTokenAlternative
    <2>13. seqOpen[6] = Alternative(<<{"SUB"}>>, 0, "always", "subtraction", "none", "none")
      BY SeqOpenTable, SeqHeads, SeqTail
    <2>14. SeesOther(1, {"SUB"})
      BY <2>4, <2>13, OneTokenAlternative
    <2>15. seqOpen[7] = Alternative(<<{"OB", "CB"}>>, 0, "always", "ISO-repetition", "none", "none")
      BY SeqOpenTable, SeqHeads, SeqTail
    <2>16. SeesOther(1, {"OB", "CB"})
      BY <2>4, <2>15, OneTokenAlternative
    <2>17. seqOpen[8] = Alternative(<<{"OS", "CS"}>>, 0, "always", "stray-bracket", "none", "none")
      BY SeqOpenTable, SeqHeads, SeqTail
    <2>18. SeesOther(1, {"OS", "CS"})
      BY <2>4, <2>17, OneTokenAlternative
    <2>19. seqOpen[9] = Alternative(<<{"STAR", "PLUS"}>>, 0, "always", "dangling-postfix", "none", "none")
      BY SeqOpenTable, SeqHeads, SeqTail
    <2>20. SeesOther(1, {"STAR", "PLUS"})
      BY <2>4, <2>19, OneTokenAlternative
    <2> QED  BY <1>1, <1>3, <2>3, <2>6, <2>8, <2>10, <2>12, <2>14, <2>16, <2>18, <2>20 DEF Effect, SeesOther
  <1>15. CASE NoneChosen
    <2>1. ~Agrees(seqOpen[10], Top)
      BY <1>2, <1>15, SeqOpenLegal DEF NoneChosen
    <2>2. seqOpen[10] = Alternative(<<>>, 1, "always", "none", "none", "none")
      BY SeqOpenTable, SeqHeads, SeqTail
    <2> QED  BY <2>1, <2>2, BareAlternative
  <1> QED  BY <1>4, <1>5, <1>6, <1>7, <1>8, <1>9, <1>10, <1>11, <1>12, <1>13, <1>14, <1>15

\* The next element, or the end of the sequence.
LEMMA SeqCloseStep ==
  ASSUME Frames, Step("seq", "close")
  PROVE  /\ Begun("seq", "close")
         /\ \/ Sees(1, {"TX"}) /\ Sees(2, DEFOP) /\ pos' = pos /\ Returns("none")
            \/ Sees(1, {"ALT", "RP", "SC", "ZZ"}) /\ pos' = pos /\ Returns("none")
            \/ Sees(1, {"CA"}) /\ pos' = pos + 1 /\ Pushes("none", "elem")
            \/ Sees(1, {"ST", "CC", "HX", "TX", "LP"}) /\ pos' = pos /\ Pushes("none", "elem")
            \/ Sees(1, {"QM"}) /\ Refuses("special-sequence")
            \/ Sees(1, {"SUB"}) /\ Refuses("subtraction")
            \/ Sees(1, {"OB", "CB"}) /\ Refuses("ISO-repetition")
            \/ Sees(1, {"OS", "CS"}) /\ Refuses("stray-bracket")
            \/ Sees(1, {"STAR", "PLUS"}) /\ Refuses("dangling-postfix")
            \/ SeesOther(1, {"ALT", "RP", "SC", "ZZ", "CA", "ST", "CC", "HX", "TX", "LP", "QM", "SUB", "OB", "CB", "OS", "CS", "STAR", "PLUS"}) /\ pos' = pos /\ Returns("none")
  <1>1. Top.rule = "seq" /\ Top.state = "close" /\ pos \in Nat /\ Len(src) \in Nat
    BY DEF Step, Frames
  <1>2. Alternatives = seqClose
    BY <1>1 DEF Alternatives, Close, seqClose
  <1>3. Begun("seq", "close") /\ (NoneChosen \/ \E i \in 1 .. 10 : Chosen(i))
    BY <1>2, SeqCloseLegal, Stepping DEF RuleNames
  <1>4. NoneChosen \/ Chosen(1) \/ Chosen(2) \/ Chosen(3) \/ Chosen(4) \/ Chosen(5) \/ Chosen(6)
        \/ Chosen(7) \/ Chosen(8) \/ Chosen(9) \/ Chosen(10)
    BY <1>3
  <1>5. CASE Chosen(1)
    <2>1. Agrees(seqClose[1], Top) /\ InSight(seqClose[1]) /\ Outcomes(seqClose[1]) /\ Choice = 1 /\ Choice # 0
      BY <1>2, <1>5 DEF Chosen
    <2>2. seqClose[1] = Alternative(Header, 2, "always", "none", "none", "none")
      BY SeqCloseTable, SeqHeads, SeqTail
    <2>3. Sees(1, {"TX"}) /\ Sees(2, DEFOP)
      BY <1>1, <2>1, <2>2, HeaderAlternative
    <2>4. pos' = pos /\ Effect("none", "none", "none")
      BY <1>1, <2>1, <2>2, GivingHeaderBack DEF Actions, Reads
    <2> QED  BY <1>1, <1>3, <2>3, <2>4 DEF Effect
  <1>6. CASE Chosen(2)
    <2>1. Agrees(seqClose[2], Top) /\ InSight(seqClose[2]) /\ Outcomes(seqClose[2]) /\ Choice = 2 /\ Choice # 0
      BY <1>2, <1>6 DEF Chosen
    <2>2. seqClose[2] = Alternative(<<{"ALT", "RP", "SC", "ZZ"}>>, 1, "always", "none", "none", "none")
      BY SeqCloseTable, SeqHeads, SeqTail
    <2>3. Sees(1, {"ALT", "RP", "SC", "ZZ"})
      BY <2>1, <2>2, OneTokenAlternative
    <2>4. pos' = pos /\ Effect("none", "none", "none")
      BY <1>1, <2>1, <2>2, GivingOneBack DEF Actions, Reads
    <2>5. pos' = pos /\ Returns("none")
      BY <1>1, <2>4 DEF Effect
    <2> QED  BY <1>3, <2>3, <2>5
  <1>7. CASE Chosen(3)
    <2>1. Agrees(seqClose[3], Top) /\ InSight(seqClose[3]) /\ Outcomes(seqClose[3]) /\ Choice = 3 /\ Choice # 0
      BY <1>2, <1>7 DEF Chosen
    <2>2. seqClose[3] = Alternative(<<{"CA"}>>, 0, "always", "none", "elem", "none")
      BY SeqCloseTable, SeqHeads, SeqTail
    <2>3. Sees(1, {"CA"})
      BY <2>1, <2>2, OneTokenAlternative
    <2>4. pos' = pos + 1 /\ Effect("none", "elem", "none")
      BY <1>1, <2>1, <2>2, TakingOne DEF Actions, Reads
    <2>5. pos' = pos + 1 /\ Pushes("none", "elem")
      BY <1>1, <2>4 DEF Effect
    <2> QED  BY <1>3, <2>3, <2>5
  <1>8. CASE Chosen(4)
    <2>1. Agrees(seqClose[4], Top) /\ InSight(seqClose[4]) /\ Outcomes(seqClose[4]) /\ Choice = 4 /\ Choice # 0
      BY <1>2, <1>8 DEF Chosen
    <2>2. seqClose[4] = Alternative(<<{"ST", "CC", "HX", "TX", "LP"}>>, 1, "always", "none", "elem", "none")
      BY SeqCloseTable, SeqHeads, SeqTail
    <2>3. Sees(1, {"ST", "CC", "HX", "TX", "LP"})
      BY <2>1, <2>2, OneTokenAlternative
    <2>4. pos' = pos /\ Effect("none", "elem", "none")
      BY <1>1, <2>1, <2>2, GivingOneBack DEF Actions, Reads
    <2>5. pos' = pos /\ Pushes("none", "elem")
      BY <1>1, <2>4 DEF Effect
    <2> QED  BY <1>3, <2>3, <2>5
  <1>9. CASE Chosen(5)
    <2>1. Agrees(seqClose[5], Top) /\ InSight(seqClose[5]) /\ Outcomes(seqClose[5]) /\ Choice = 5 /\ Choice # 0
      BY <1>2, <1>9 DEF Chosen
    <2>2. seqClose[5] = Alternative(<<{"QM"}>>, 0, "always", "special-sequence", "none", "none")
      BY SeqCloseTable, SeqHeads, SeqTail
    <2>3. Sees(1, {"QM"})
      BY <2>1, <2>2, OneTokenAlternative
    <2>4. Refuses("special-sequence")
      BY <2>1, <2>2, "special-sequence" \in Refusals, RefusingAlternative DEF Refusals
    <2> QED  BY <1>1, <1>3, <2>3, <2>4
  <1>10. CASE Chosen(6)
    <2>1. Agrees(seqClose[6], Top) /\ InSight(seqClose[6]) /\ Outcomes(seqClose[6]) /\ Choice = 6 /\ Choice # 0
      BY <1>2, <1>10 DEF Chosen
    <2>2. seqClose[6] = Alternative(<<{"SUB"}>>, 0, "always", "subtraction", "none", "none")
      BY SeqCloseTable, SeqHeads, SeqTail
    <2>3. Sees(1, {"SUB"})
      BY <2>1, <2>2, OneTokenAlternative
    <2>4. Refuses("subtraction")
      BY <2>1, <2>2, "subtraction" \in Refusals, RefusingAlternative DEF Refusals
    <2> QED  BY <1>1, <1>3, <2>3, <2>4
  <1>11. CASE Chosen(7)
    <2>1. Agrees(seqClose[7], Top) /\ InSight(seqClose[7]) /\ Outcomes(seqClose[7]) /\ Choice = 7 /\ Choice # 0
      BY <1>2, <1>11 DEF Chosen
    <2>2. seqClose[7] = Alternative(<<{"OB", "CB"}>>, 0, "always", "ISO-repetition", "none", "none")
      BY SeqCloseTable, SeqHeads, SeqTail
    <2>3. Sees(1, {"OB", "CB"})
      BY <2>1, <2>2, OneTokenAlternative
    <2>4. Refuses("ISO-repetition")
      BY <2>1, <2>2, "ISO-repetition" \in Refusals, RefusingAlternative DEF Refusals
    <2> QED  BY <1>1, <1>3, <2>3, <2>4
  <1>12. CASE Chosen(8)
    <2>1. Agrees(seqClose[8], Top) /\ InSight(seqClose[8]) /\ Outcomes(seqClose[8]) /\ Choice = 8 /\ Choice # 0
      BY <1>2, <1>12 DEF Chosen
    <2>2. seqClose[8] = Alternative(<<{"OS", "CS"}>>, 0, "always", "stray-bracket", "none", "none")
      BY SeqCloseTable, SeqHeads, SeqTail
    <2>3. Sees(1, {"OS", "CS"})
      BY <2>1, <2>2, OneTokenAlternative
    <2>4. Refuses("stray-bracket")
      BY <2>1, <2>2, "stray-bracket" \in Refusals, RefusingAlternative DEF Refusals
    <2> QED  BY <1>1, <1>3, <2>3, <2>4
  <1>13. CASE Chosen(9)
    <2>1. Agrees(seqClose[9], Top) /\ InSight(seqClose[9]) /\ Outcomes(seqClose[9]) /\ Choice = 9 /\ Choice # 0
      BY <1>2, <1>13 DEF Chosen
    <2>2. seqClose[9] = Alternative(<<{"STAR", "PLUS"}>>, 0, "always", "dangling-postfix", "none", "none")
      BY SeqCloseTable, SeqHeads, SeqTail
    <2>3. Sees(1, {"STAR", "PLUS"})
      BY <2>1, <2>2, OneTokenAlternative
    <2>4. Refuses("dangling-postfix")
      BY <2>1, <2>2, "dangling-postfix" \in Refusals, RefusingAlternative DEF Refusals
    <2> QED  BY <1>1, <1>3, <2>3, <2>4
  <1>14. CASE Chosen(10)
    <2>1. Agrees(seqClose[10], Top) /\ InSight(seqClose[10]) /\ Outcomes(seqClose[10]) /\ Choice = 10 /\ Choice # 0
      BY <1>2, <1>14 DEF Chosen
    <2>2. seqClose[10] = Alternative(<<>>, 1, "always", "none", "none", "none")
      BY SeqCloseTable, SeqHeads, SeqTail
    <2>3. pos' = pos /\ Effect("none", "none", "none")
      BY <1>1, <2>1, <2>2, GivingNothing DEF Actions, Reads
    <2>4. /\ ~Agrees(seqClose[1], Top) /\ ~Agrees(seqClose[2], Top) /\ ~Agrees(seqClose[3], Top)
      /\ ~Agrees(seqClose[4], Top) /\ ~Agrees(seqClose[5], Top) /\ ~Agrees(seqClose[6], Top)
      /\ ~Agrees(seqClose[7], Top) /\ ~Agrees(seqClose[8], Top) /\ ~Agrees(seqClose[9], Top)
      BY <1>2, <1>14 DEF Chosen
    <2>5. seqClose[2] = Alternative(<<{"ALT", "RP", "SC", "ZZ"}>>, 1, "always", "none", "none", "none")
      BY SeqCloseTable, SeqHeads, SeqTail
    <2>6. SeesOther(1, {"ALT", "RP", "SC", "ZZ"})
      BY <2>4, <2>5, OneTokenAlternative
    <2>7. seqClose[3] = Alternative(<<{"CA"}>>, 0, "always", "none", "elem", "none")
      BY SeqCloseTable, SeqHeads, SeqTail
    <2>8. SeesOther(1, {"CA"})
      BY <2>4, <2>7, OneTokenAlternative
    <2>9. seqClose[4] = Alternative(<<{"ST", "CC", "HX", "TX", "LP"}>>, 1, "always", "none", "elem", "none")
      BY SeqCloseTable, SeqHeads, SeqTail
    <2>10. SeesOther(1, {"ST", "CC", "HX", "TX", "LP"})
      BY <2>4, <2>9, OneTokenAlternative
    <2>11. seqClose[5] = Alternative(<<{"QM"}>>, 0, "always", "special-sequence", "none", "none")
      BY SeqCloseTable, SeqHeads, SeqTail
    <2>12. SeesOther(1, {"QM"})
      BY <2>4, <2>11, OneTokenAlternative
    <2>13. seqClose[6] = Alternative(<<{"SUB"}>>, 0, "always", "subtraction", "none", "none")
      BY SeqCloseTable, SeqHeads, SeqTail
    <2>14. SeesOther(1, {"SUB"})
      BY <2>4, <2>13, OneTokenAlternative
    <2>15. seqClose[7] = Alternative(<<{"OB", "CB"}>>, 0, "always", "ISO-repetition", "none", "none")
      BY SeqCloseTable, SeqHeads, SeqTail
    <2>16. SeesOther(1, {"OB", "CB"})
      BY <2>4, <2>15, OneTokenAlternative
    <2>17. seqClose[8] = Alternative(<<{"OS", "CS"}>>, 0, "always", "stray-bracket", "none", "none")
      BY SeqCloseTable, SeqHeads, SeqTail
    <2>18. SeesOther(1, {"OS", "CS"})
      BY <2>4, <2>17, OneTokenAlternative
    <2>19. seqClose[9] = Alternative(<<{"STAR", "PLUS"}>>, 0, "always", "dangling-postfix", "none", "none")
      BY SeqCloseTable, SeqHeads, SeqTail
    <2>20. SeesOther(1, {"STAR", "PLUS"})
      BY <2>4, <2>19, OneTokenAlternative
    <2> QED  BY <1>1, <1>3, <2>3, <2>6, <2>8, <2>10, <2>12, <2>14, <2>16, <2>18, <2>20 DEF Effect, SeesOther
  <1>15. CASE NoneChosen
    <2>1. ~Agrees(seqClose[10], Top)
      BY <1>2, <1>15, SeqCloseLegal DEF NoneChosen
    <2>2. seqClose[10] = Alternative(<<>>, 1, "always", "none", "none", "none")
      BY SeqCloseTable, SeqHeads, SeqTail
    <2> QED  BY <2>1, <2>2, BareAlternative
  <1> QED  BY <1>4, <1>5, <1>6, <1>7, <1>8, <1>9, <1>10, <1>11, <1>12, <1>13, <1>14, <1>15

-----------------------------------------------------------------------------
(* The invariant.                                                           *)

\* The rules of f and g allow g on top of f; f waits for g to return; f is on top.
Follows(f, g) == g.rule # "ebnf" /\ f.rule \in Parents[g.rule]
Waits(f, g) ==
  /\ f.state = "close"
  /\ f.rule = "atom" => f.u # <<>>
  /\ f.rule = "elem" => (g.rule = "post" <=> f.u # <<>>)
Ready(f) ==
  /\ f.state \in {"open", "close"}
  /\ f.state = "open" => f.u = <<>>
  /\ f.state = "close" /\ f.u = <<>> /\ f.rule = "atom" => f.node # <<>>
  /\ f.state = "close" /\ f.u = <<>> /\ f.rule = "elem" => f.child # <<>>

Shape ==
  /\ IsSeq(stack) /\ stack # <<>> /\ \A i \in 1 .. Height : IsFrame(stack[i])
  /\ stack[1].rule = "ebnf"
  /\ \A i \in 1 .. Height - 1 : Follows(stack[i], stack[i + 1]) /\ Waits(stack[i], stack[i + 1])
  /\ Ready(stack[Height])

\* What can end an element, be put behind it, and begin one.
Ends == {"ST", "CC", "HX", "TX", "RP", "QM", "STAR", "PLUS"}
Postfix == {"QM", "STAR", "PLUS"}
Begins == {"ST", "CC", "HX", "TX", "LP"}

\* An expression is due and a definition operator comes; an element has been read
\* with all its operators.
Misplaced == AtStart /\ Offender \in DEFOP
After == Before \in Ends /\ Offender \notin Postfix \cup {"none"}

\* What a rule on top knows of the tokens around it.
Knows(rule, state, u) ==
  /\ rule \in {"alts", "seq"} /\ state = "open" => AtStart
  /\ rule \in {"elem", "atom"} /\ state = "open" => Before = "CA" \/ Offender \in Begins
  /\ rule \in {"elem", "atom"} /\ state = "close" /\ u = <<>> => Before \in Ends
  /\ rule = "post" /\ state = "open" => Before \in Ends
  /\ rule = "post" /\ state = "close" => After
  /\ rule = "elem" /\ state = "close" /\ u # <<>> => After
  /\ rule = "seq" /\ state = "close" => After \/ Misplaced
  /\ rule = "alts" /\ state = "close" => Before \in Ends \/ Misplaced
  /\ rule = "atom" /\ state = "close" /\ u # <<>> => Before \in Ends \/ Misplaced

\* The groups that are open are the parentheses not closed.
IsGroup(f) == f.rule = "atom" /\ f.u # <<>>
OpenGroups == {i \in 1 .. Height : IsGroup(stack[i])}
Balanced == Count("LP", Consumed) = Count("RP", Consumed) + Cardinality(OpenGroups)

Inv ==
  /\ TypeOK /\ NamesTheMistake
  /\ status = "reading" => Shape /\ Knows(Top.rule, Top.state, Top.u) /\ Balanced

-----------------------------------------------------------------------------
(* The tokens around pos.                                                   *)

Tokenised == src \in Seq(Vocabulary \cup {EndOfSource}) /\ pos \in 0 .. Len(src)

Kinds == FixedKinds \cup {"TX", "ST", "CC", "HX", "ZZ"}

LEMMA KindOf ==
  ASSUME NEW tkn \in Vocabulary \cup {EndOfSource}
  PROVE  Kind(tkn) \in Kinds
  <1>1. CASE tkn = EndOfSource
    BY <1>1 DEF Kind, Kinds, EndOfSource
  <1>2. CASE tkn \in FixedKinds \X {""}
    BY <1>2 DEF Kind, Kinds
  <1>3. CASE tkn \in {"TX"} \X (Names \cup {"!"})
    BY <1>3 DEF Kind, Kinds
  <1>4. CASE tkn \in {"ST", "CC", "HX"} \X {"ok", "!"}
    BY <1>4 DEF Kind, Kinds
  <1> QED  BY <1>1, <1>2, <1>3, <1>4, VocabularyAssumption DEF Lexeme

LEMMA InSightNext ==
  ASSUME Tokenised, NEW kinds
  PROVE  /\ Sees(1, kinds) => pos < Len(src) /\ Offender \in kinds
         /\ SeesOther(1, kinds) => pos < Len(src) /\ Offender \in Kinds \ kinds
  <1>1. pos < Len(src) => src[pos + 1] \in Vocabulary \cup {EndOfSource}
    BY DEF Tokenised
  <1>2. pos < Len(src) => Offender = Kind(src[pos + 1]) /\ Offender \in Kinds
    BY <1>1, KindOf DEF Offender
  <1>3. pos + 1 <= Len(src) => pos < Len(src)
    BY DEF Tokenised
  <1> QED  BY <1>2, <1>3 DEF Sees, SeesOther

LEMMA Keeping ==
  ASSUME Tokenised, pos' = pos, src' = src
  PROVE  Tokenised' /\ Before' = Before /\ Offender' = Offender /\ Consumed' = Consumed
  BY DEF Tokenised, Before, Offender, Consumed

LEMMA Consuming ==
  ASSUME Tokenised, NEW kinds, Sees(1, kinds), pos' = pos + 1, src' = src
  PROVE  Tokenised' /\ Before' \in kinds /\ Before' = Offender
  <1>1. pos < Len(src) /\ Offender \in kinds
    BY InSightNext
  <1>2. Before' = Kind(src[pos + 1])
    BY DEF Before, Tokenised
  <1> QED  BY <1>1, <1>2 DEF Tokenised, Offender

LEMMA ConsumingHeader ==
  ASSUME Tokenised, Sees(1, {"TX"}), Sees(2, DEFOP), pos' = pos + 2, src' = src
  PROVE  Tokenised' /\ Before' \in DEFOP
  <1>1. pos + 2 <= Len(src) /\ Kind(src[pos + 2]) \in DEFOP
    BY DEF Sees
  <1>2. Before' = Kind(src[pos + 2])
    BY DEF Before, Tokenised
  <1> QED  BY <1>1, <1>2 DEF Tokenised

\* Reading one token more changes nothing around the tokens consumed.
LEMMA Lexing ==
  ASSUME Tokenised, NEW tkn \in Vocabulary \cup {EndOfSource}, src' = Append(src, tkn), pos' = pos
  PROVE  /\ Tokenised' /\ Before' = Before /\ Consumed' = Consumed
         /\ Offender # "none" => Offender' = Offender
  <1>1. /\ Len(src') = Len(src) + 1 /\ src' \in Seq(Vocabulary \cup {EndOfSource})
        /\ \A i \in 1 .. Len(src) : src'[i] = src[i]
    BY DEF Tokenised
  <1>2. Tokenised' /\ Before' = Before
    BY <1>1 DEF Tokenised, Before
  <1>3. Consumed' = Consumed
    BY <1>1 DEF Tokenised, Consumed
  <1>4. Offender # "none" => Offender' = Offender
    BY <1>1 DEF Tokenised, Offender
  <1> QED  BY <1>2, <1>3, <1>4

\* Counting the tokens consumed.
Upto(kind, m) == {i \in 1 .. m : Kind(src[i]) = kind}

LEMMA UptoConsumed ==
  ASSUME Tokenised, NEW kind
  PROVE  Count(kind, Consumed) = Cardinality(Upto(kind, pos))
  <1>1. DOMAIN Consumed = 1 .. pos /\ \A i \in 1 .. pos : Consumed[i] = src[i]
    BY DEF Tokenised, Consumed
  <1>2. {i \in DOMAIN Consumed : Kind(Consumed[i]) = kind} = Upto(kind, pos)
    BY <1>1 DEF Upto
  <1> QED  BY <1>2 DEF Count

LEMMA UptoNext ==
  ASSUME NEW m \in Nat, NEW kind
  PROVE  /\ Cardinality(Upto(kind, m)) \in Nat
         /\ Cardinality(Upto(kind, m + 1)) = Cardinality(Upto(kind, m)) + (IF Kind(src[m + 1]) = kind THEN 1 ELSE 0)
  <1> DEFINE I == Upto(kind, m)
             J == Upto(kind, m + 1)
  <1>1. \A i : i \in I <=> i \in 1 .. m /\ Kind(src[i]) = kind
    BY DEF Upto
  <1>2. \A i : i \in J <=> i \in 1 .. m + 1 /\ Kind(src[i]) = kind
    BY DEF Upto
  <1>3. 1 .. m + 1 = (1 .. m) \cup {m + 1} /\ m + 1 \notin 1 .. m
    OBVIOUS
  <1>4. IsFiniteSet(I)
    <2>1. I \subseteq 1 .. m /\ IsFiniteSet(1 .. m)
      BY FS_Interval DEF Upto
    <2> QED  BY <2>1, FS_Subset
  <1> HIDE DEF I, J
  <1>5. m + 1 \notin I
    BY <1>1, <1>3
  <1>6. \A i : i \in J <=> i \in I \/ (i = m + 1 /\ Kind(src[m + 1]) = kind)
    BY <1>1, <1>2, <1>3
  <1>7. J = IF Kind(src[m + 1]) = kind THEN I \cup {m + 1} ELSE I
    BY <1>6
  <1>8. Cardinality(I) \in Nat
    BY <1>4, FS_CardinalityType
  <1>9. Cardinality(I \cup {m + 1}) = Cardinality(I) + 1
    BY <1>4, <1>5, FS_AddElement
  <1>10. Cardinality(J) = Cardinality(I) + (IF Kind(src[m + 1]) = kind THEN 1 ELSE 0)
    BY <1>7, <1>8, <1>9
  <1> QED  BY <1>8, <1>10 DEF I, J

\* Neither a group was opened nor one closed.
SameCounts == Count("LP", Consumed)' = Count("LP", Consumed) /\ Count("RP", Consumed)' = Count("RP", Consumed)

LEMMA Counting ==
  ASSUME Tokenised, Tokenised', pos < Len(src), pos' = pos + 1, src' = src, NEW kind
  PROVE  Count(kind, Consumed)' = Count(kind, Consumed) + (IF Offender = kind THEN 1 ELSE 0)
  <1>1. Count(kind, Consumed) = Cardinality(Upto(kind, pos))
    BY UptoConsumed
  <1>2. Count(kind, Consumed)' = Cardinality(Upto(kind, pos + 1))
    <2>1. DOMAIN Consumed' = 1 .. pos + 1 /\ \A i \in 1 .. pos + 1 : Consumed'[i] = src[i]
      BY DEF Tokenised, Consumed
    <2>2. {i \in DOMAIN Consumed' : Kind(Consumed'[i]) = kind} = Upto(kind, pos + 1)
      BY <2>1 DEF Upto
    <2> QED  BY <2>2 DEF Count
  <1>3. pos \in Nat /\ Offender = Kind(src[pos + 1])
    BY DEF Tokenised, Offender
  <1> QED  BY <1>1, <1>2, <1>3, UptoNext

\* The steps that consume nothing, a token that is no parenthesis, a header.
LEMMA Still ==
  ASSUME Tokenised, pos' = pos, src' = src
  PROVE  Tokenised' /\ Before' = Before /\ Offender' = Offender /\ SameCounts
  BY Keeping DEF SameCounts, Count

LEMMA Onward ==
  ASSUME Tokenised, NEW kinds, Sees(1, kinds), "LP" \notin kinds, "RP" \notin kinds, pos' = pos + 1, src' = src
  PROVE  Tokenised' /\ Before' \in kinds /\ SameCounts
  <1>1. Tokenised' /\ Before' \in kinds
    BY Consuming
  <1>2. pos < Len(src) /\ Offender \in kinds
    BY InSightNext
  <1>3. \A kind : Count(kind, Consumed)' = Count(kind, Consumed) + (IF Offender = kind THEN 1 ELSE 0)
    BY <1>1, <1>2, Counting
  <1>4. Count("LP", Consumed) \in Nat /\ Count("RP", Consumed) \in Nat
    BY UptoConsumed, UptoNext DEF Tokenised
  <1> QED  BY <1>1, <1>2, <1>3, <1>4 DEF SameCounts

LEMMA OnwardHeader ==
  ASSUME Tokenised, Sees(1, {"TX"}), Sees(2, DEFOP), pos' = pos + 2, src' = src
  PROVE  Tokenised' /\ Before' \in DEFOP /\ SameCounts
  <1>1. Tokenised' /\ Before' \in DEFOP
    BY ConsumingHeader
  <1>2. Kind(src[pos + 1]) = "TX" /\ Kind(src[pos + 2]) \in {"DEF", "DEFE"} /\ pos \in Nat
    BY DEF Sees, DEFOP, Tokenised
  <1>3. ASSUME NEW kind \in {"LP", "RP"}
        PROVE  Count(kind, Consumed)' = Count(kind, Consumed)
    <2>1. Count(kind, Consumed) = Cardinality(Upto(kind, pos)) /\ Cardinality(Upto(kind, pos)) \in Nat
      BY <1>2, UptoConsumed, UptoNext
    <2>2. Count(kind, Consumed)' = Cardinality(Upto(kind, pos + 2))
      <3>1. DOMAIN Consumed' = 1 .. pos + 2 /\ \A i \in 1 .. pos + 2 : Consumed'[i] = src[i]
        BY <1>1 DEF Tokenised, Consumed
      <3>2. {i \in DOMAIN Consumed' : Kind(Consumed'[i]) = kind} = Upto(kind, pos + 2)
        BY <3>1 DEF Upto
      <3> QED  BY <3>2 DEF Count
    <2>3. Cardinality(Upto(kind, pos + 1)) = Cardinality(Upto(kind, pos))
      BY <1>2, <1>3, <2>1, UptoNext
    <2>4. Cardinality(Upto(kind, (pos + 1) + 1)) = Cardinality(Upto(kind, pos + 1))
      <3>1. Kind(src[(pos + 1) + 1]) # kind
        BY <1>2, <1>3
      <3>2. Cardinality(Upto(kind, (pos + 1) + 1)) = Cardinality(Upto(kind, pos + 1)) + 0
        BY <1>2, <3>1, UptoNext
      <3> QED  BY <2>1, <2>3, <3>2
    <2>5. (pos + 1) + 1 = pos + 2
      BY <1>2
    <2> QED  BY <2>1, <2>2, <2>3, <2>4, <2>5
  <1> QED  BY <1>1, <1>3 DEF SameCounts

-----------------------------------------------------------------------------
(* The shape of the stack.                                                  *)

LEMMA NewFields ==
  ASSUME NEW rule \in RuleNames
  PROVE  /\ IsFrame(New(rule)) /\ New(rule).rule = rule /\ New(rule).state = "open" /\ New(rule).u = <<>>
         /\ Ready(New(rule)) /\ ~IsGroup(New(rule))
  BY DEF IsFrame, New, Ready, IsGroup

\* Which rule is under which.
LEMMA WhatFollows ==
  ASSUME NEW f, NEW g, g.rule \in RuleNames, Follows(f, g)
  PROVE  \/ g.rule = "prod" /\ f.rule = "ebnf"
         \/ g.rule = "alts" /\ f.rule \in {"prod", "atom"}
         \/ g.rule = "seq" /\ f.rule = "alts"
         \/ g.rule = "elem" /\ f.rule = "seq"
         \/ g.rule = "post" /\ f.rule \in {"elem", "post"}
         \/ g.rule = "atom" /\ f.rule = "elem"
  <1>1. /\ Parents["prod"] = {"ebnf"} /\ Parents["alts"] = {"prod", "atom"} /\ Parents["seq"] = {"alts"}
        /\ Parents["elem"] = {"seq"} /\ Parents["post"] = {"elem", "post"} /\ Parents["atom"] = {"elem"}
    BY DEF Parents
  <1> QED  BY <1>1 DEF Follows, RuleNames

\* What matters of a rule that waits does not change under it.
LEMMA StillWaits ==
  ASSUME NEW f, NEW f2, NEW g, NEW g2, f2.rule = f.rule, f2.state = f.state, f2.u = f.u, g2.rule = g.rule,
         Follows(f, g), Waits(f, g)
  PROVE  Follows(f2, g2) /\ Waits(f2, g2)
  BY DEF Follows, Waits

LEMMA ShapeFrames ==
  ASSUME Tokenised, Shape
  PROVE  /\ Frames /\ Height \in Nat \ {0} /\ Top = stack[Height]
         /\ Top.rule = "ebnf" <=> Height = 1
         /\ Top.rule # "ebnf" => /\ Height > 1 /\ Follows(stack[Height - 1], Top) /\ Waits(stack[Height - 1], Top)
                                 /\ IsFrame(stack[Height - 1])
  <1>1. Height \in Nat \ {0} /\ Top = stack[Height] /\ Len(src) \in Nat /\ pos \in Nat
    BY DEF Shape, IsSeq, Height, Top, Last, Tokenised
  <1>2. Height > 1 => /\ Height - 1 \in 1 .. Height - 1 /\ Height - 1 \in 1 .. Height /\ Height - 1 + 1 = Height
    BY <1>1
  <1>3. Height > 1 => Follows(stack[Height - 1], Top) /\ Waits(stack[Height - 1], Top) /\ IsFrame(stack[Height - 1])
    BY <1>1, <1>2 DEF Shape
  <1>4. Height > 1 => Top.rule # "ebnf"
    BY <1>3 DEF Follows
  <1>5. Height = 1 => Top.rule = "ebnf"
    BY <1>1 DEF Shape
  <1>6. Frames
    BY <1>1, <1>5 DEF Shape, Frames
  <1> QED  BY <1>1, <1>3, <1>4, <1>5, <1>6

LEMMA PushShape ==
  ASSUME Shape, NEW a, NEW rule \in RuleNames, Pushes(a, rule),
         Follows(stack[Height], New(rule)), Waits(stack'[Height], New(rule))
  PROVE  Shape' /\ Top' = New(rule)
  <1>1. /\ Height \in Nat \ {0} /\ Height' = Height + 1
        /\ IsSeq(stack') /\ stack' # <<>> /\ Top' = New(rule) /\ stack'[Height + 1] = New(rule)
    <2>1. Height \in Nat \ {0} /\ IsSeq(stack') /\ Height' = Height + 1 /\ stack'[Height + 1] = New(rule)
      BY DEF Shape, IsSeq, Height, Pushes
    <2> QED  BY <2>1 DEF Height, Top, Last
  <1>2. /\ \A i \in 1 .. Height - 1 : LikeFrame(stack'[i], stack[i])
        /\ ActedBy(a, stack'[Height])
    BY DEF Pushes, Below
  <1>3. stack'[Height].rule = stack[Height].rule /\ IsFrame(stack'[Height])
    BY <1>1, <1>2 DEF ActedBy, Top, Last, Height
  <1>4. \A i \in 1 .. Height + 1 : IsFrame(stack'[i])
    BY <1>1, <1>2, <1>3, NewFields DEF LikeFrame
  <1>5. stack'[1].rule = "ebnf"
    BY <1>1, <1>2, <1>3 DEF LikeFrame, Shape
  <1>6. ASSUME NEW i \in 1 .. Height
        PROVE  Follows(stack'[i], stack'[i + 1]) /\ Waits(stack'[i], stack'[i + 1])
    <2>1. CASE i < Height
      <3>1. i \in 1 .. Height - 1 /\ (i + 1 \in 1 .. Height - 1 \/ i + 1 = Height)
        BY <1>1, <2>1
      <3>2. stack'[i].rule = stack[i].rule /\ stack'[i].state = stack[i].state /\ stack'[i].u = stack[i].u
        BY <1>2, <3>1 DEF LikeFrame
      <3>3. stack'[i + 1].rule = stack[i + 1].rule
        BY <1>2, <1>3, <3>1 DEF LikeFrame
      <3>4. Follows(stack[i], stack[i + 1]) /\ Waits(stack[i], stack[i + 1])
        BY <3>1 DEF Shape
      <3> QED  BY <3>2, <3>3, <3>4, StillWaits
    <2>2. CASE i = Height
      BY <1>1, <1>3, <2>2 DEF Follows
    <2> QED  BY <1>1, <2>1, <2>2
  <1>7. Ready(stack'[Height'])
    BY <1>1, NewFields
  <1> QED  BY <1>1, <1>4, <1>5, <1>6, <1>7 DEF Shape

\* The same for a rule that stays on top, as g.
LEMMA TopShape ==
  ASSUME Shape, IsSeq(stack'), Len(stack') = Height, Below(Height - 1),
         IsFrame(stack'[Height]), stack'[Height].rule = stack[Height].rule, Ready(stack'[Height])
  PROVE  Shape' /\ Top' = stack'[Height]
  <1>1. /\ Height \in Nat \ {0} /\ Height' = Height /\ stack' # <<>> /\ Top' = stack'[Height]
    <2>1. Height \in Nat \ {0} /\ Height' = Height
      BY DEF Shape, IsSeq, Height
    <2> QED  BY <2>1 DEF Height, Top, Last
  <1>2. \A i \in 1 .. Height - 1 : LikeFrame(stack'[i], stack[i])
    BY DEF Below
  <1>4. \A i \in 1 .. Height : IsFrame(stack'[i])
    BY <1>1, <1>2 DEF LikeFrame
  <1>5. stack'[1].rule = "ebnf"
    BY <1>1, <1>2 DEF LikeFrame, Shape
  <1>6. ASSUME NEW i \in 1 .. Height - 1
        PROVE  Follows(stack'[i], stack'[i + 1]) /\ Waits(stack'[i], stack'[i + 1])
    <2>1. i \in 1 .. Height - 1 /\ (i + 1 \in 1 .. Height - 1 \/ i + 1 = Height)
      BY <1>1
    <2>2. stack'[i].rule = stack[i].rule /\ stack'[i].state = stack[i].state /\ stack'[i].u = stack[i].u
      BY <1>2, <2>1 DEF LikeFrame
    <2>3. stack'[i + 1].rule = stack[i + 1].rule
      BY <1>2, <2>1 DEF LikeFrame
    <2>4. Follows(stack[i], stack[i + 1]) /\ Waits(stack[i], stack[i + 1])
      BY <2>1 DEF Shape
    <2> QED  BY <2>2, <2>3, <2>4, StillWaits, SMTT(30)
  <1> QED  BY <1>1, <1>4, <1>5, <1>6 DEF Shape

LEMMA StayShape ==
  ASSUME Shape, NEW a, Stays(a), Ready(stack'[Height])
  PROVE  Shape' /\ Top' = stack'[Height] /\ ActedBy(a, Top')
  <1>1. stack'[Height].rule = stack[Height].rule /\ IsFrame(stack'[Height])
    BY DEF Stays, ActedBy, Top, Last, Height
  <1> QED  BY <1>1, TopShape DEF Stays

LEMMA ReplaceShape ==
  ASSUME Shape, Replaces(stack[Height].rule)
  PROVE  Shape' /\ Top' = New(stack[Height].rule)
  <1>1. stack[Height].rule \in RuleNames
    <2>1. Height \in 1 .. Height
      BY DEF Shape, IsSeq, Height
    <2> QED  BY <2>1 DEF Shape, IsFrame
  <1> QED  BY <1>1, TopShape, NewFields DEF Replaces

\* The rule below is on top again; an element without operators yet has its atom.
LEMMA ReturnShape ==
  ASSUME Shape, Height > 1, NEW a, Returns(a), Top = stack[Height],
         Top.rule = "atom" => a = "close-group" \/ Top.node # <<>>
  PROVE  /\ Shape' /\ GoesOn
         /\ Top'.rule = stack[Height - 1].rule /\ Top'.state = "close" /\ Top'.u = stack[Height - 1].u
  <1>1. PICK g : ActedBy(a, g) /\ GivenBack(stack'[Height - 1], stack[Height - 1], g.node)
    BY DEF Returns
  <1>2. /\ IsSeq(stack') /\ Len(stack') = Height - 1 /\ Below(Height - 2) /\ GoesOn
    BY DEF Returns
  <1>3. /\ Height \in Nat /\ Height' = Height - 1 /\ stack' # <<>> /\ Top' = stack'[Height - 1]
    <2>1. Height \in Nat /\ Height' = Height - 1
      BY <1>2 DEF Shape, IsSeq, Height
    <2> QED  BY <2>1 DEF Height, Top, Last
  <1>4. /\ IsFrame(Top') /\ Top'.rule = stack[Height - 1].rule /\ Top'.state = stack[Height - 1].state
        /\ Top'.u = stack[Height - 1].u /\ Top'.child = g.node
        /\ stack[Height - 1].node # <<>> => Top'.node # <<>>
    BY <1>1, <1>3 DEF GivenBack
  <1>5. Follows(stack[Height - 1], Top) /\ Waits(stack[Height - 1], Top)
    <2>1. Height - 1 \in 1 .. Height - 1 /\ Height - 1 + 1 = Height
      BY <1>3
    <2> QED  BY <2>1 DEF Shape
  <1>6. \A i \in 1 .. Height - 2 : LikeFrame(stack'[i], stack[i])
    BY <1>2 DEF Below
  <1>7. Ready(Top')
    <2>1. Top'.state = "close" /\ (Top'.rule = "atom" => Top'.u # <<>>)
      BY <1>4, <1>5 DEF Waits
    <2>2. Top'.rule = "elem" /\ Top'.u = <<>> => Top.rule = "atom"
      <3>1. Top.rule \in RuleNames
        BY <1>1 DEF ActedBy, IsFrame
      <3> QED  BY <1>4, <1>5, <3>1, WhatFollows DEF Waits
    <2>3. Top'.rule = "elem" /\ Top'.u = <<>> => Top'.child # <<>>
      BY <1>1, <1>4, <2>2 DEF ActedBy
    <2> QED  BY <2>1, <2>3 DEF Ready
  <1>8. \A i \in 1 .. Height - 1 : IsFrame(stack'[i])
    BY <1>3, <1>4, <1>6 DEF LikeFrame
  <1>9. stack'[1].rule = "ebnf"
    BY <1>3, <1>4, <1>6 DEF LikeFrame, Shape
  <1>10. ASSUME NEW i \in 1 .. Height - 2
         PROVE  Follows(stack'[i], stack'[i + 1]) /\ Waits(stack'[i], stack'[i + 1])
    <2>1. i \in 1 .. Height - 1 /\ (i + 1 \in 1 .. Height - 2 \/ i + 1 = Height - 1)
      BY <1>3
    <2>2. stack'[i].rule = stack[i].rule /\ stack'[i].state = stack[i].state /\ stack'[i].u = stack[i].u
      BY <1>6 DEF LikeFrame
    <2>3. stack'[i + 1].rule = stack[i + 1].rule
      BY <1>3, <1>4, <1>6, <2>1 DEF LikeFrame
    <2>4. Follows(stack[i], stack[i + 1]) /\ Waits(stack[i], stack[i + 1])
      BY <2>1 DEF Shape
    <2> QED  BY <2>2, <2>3, <2>4, StillWaits, SMTT(30)
  <1>11. Shape'
    <2>1. Height' = Height - 1 /\ Height' - 1 = Height - 2
      BY <1>3
    <2>2. Ready(stack'[Height'])
      BY <1>3, <1>7, <2>1
    <2> QED  BY <1>2, <1>3, <1>8, <1>9, <1>10, <2>1, <2>2 DEF Shape
  <1> QED  BY <1>2, <1>4, <1>5, <1>11 DEF Waits

-----------------------------------------------------------------------------
(* The groups that are open.                                                *)

LEMMA GroupsFinite ==
  ASSUME Shape
  PROVE  /\ IsFiniteSet(OpenGroups) /\ Cardinality(OpenGroups) \in Nat
         /\ Height \in OpenGroups => Cardinality(OpenGroups) > 0
  <1>1. OpenGroups \subseteq 1 .. Height /\ IsFiniteSet(1 .. Height)
    BY FS_Interval DEF OpenGroups, Shape, IsSeq, Height
  <1>2. IsFiniteSet(OpenGroups) /\ Cardinality(OpenGroups) \in Nat
    BY <1>1, FS_Subset, FS_CardinalityType
  <1>3. Cardinality(OpenGroups) = 0 <=> OpenGroups = {}
    BY <1>2, FS_EmptySet
  <1> QED  BY <1>2, <1>3

LEMMA GroupsBelow ==
  ASSUME NEW m \in Nat, Below(m)
  PROVE  \A i \in 1 .. m : IsGroup(stack'[i]) <=> IsGroup(stack[i])
  BY DEF Below, LikeFrame, IsGroup

LEMMA GroupsTop ==
  ASSUME Shape, Len(stack') = Height, Below(Height - 1), IsGroup(stack'[Height]) <=> IsGroup(stack[Height])
  PROVE  OpenGroups' = OpenGroups
  <1>1. Height \in Nat \ {0} /\ Height' = Height
    BY DEF Shape, IsSeq, Height
  <1>2. \A i \in 1 .. Height : IsGroup(stack'[i]) <=> IsGroup(stack[i])
    BY <1>1, GroupsBelow
  <1> QED  BY <1>1, <1>2 DEF OpenGroups

LEMMA GroupsPush ==
  ASSUME Shape, NEW a, NEW rule \in RuleNames, Pushes(a, rule)
  PROVE  OpenGroups' = (OpenGroups \ {Height}) \cup (IF IsGroup(stack'[Height]) THEN {Height} ELSE {})
  <1>1. Height \in Nat \ {0} /\ Height' = Height + 1 /\ ~IsGroup(stack'[Height + 1])
    BY NewFields DEF Shape, IsSeq, Height, Pushes
  <1>2. \A i \in 1 .. Height - 1 : IsGroup(stack'[i]) <=> IsGroup(stack[i])
    BY <1>1, GroupsBelow DEF Pushes
  <1>3. \A i : i \in OpenGroups' <=> i \in 1 .. Height + 1 /\ IsGroup(stack'[i])
    BY <1>1 DEF OpenGroups
  <1>4. \A i : i \in OpenGroups <=> i \in 1 .. Height /\ IsGroup(stack[i])
    BY DEF OpenGroups
  <1>5. \A i : i \in 1 .. Height + 1 <=> i \in 1 .. Height - 1 \/ i = Height \/ i = Height + 1
    BY <1>1
  <1>6. \A i : i \in 1 .. Height <=> i \in 1 .. Height - 1 \/ i = Height
    BY <1>1
  <1>7. Height \notin 1 .. Height - 1
    BY <1>1
  <1> QED  BY <1>1, <1>2, <1>3, <1>4, <1>5, <1>6, <1>7

LEMMA GroupsReturn ==
  ASSUME Shape, Height > 1, NEW a, Returns(a)
  PROVE  OpenGroups' = OpenGroups \ {Height}
  <1>1. Height \in Nat \ {0} /\ Height' = Height - 1 /\ Below(Height - 2)
    BY DEF Shape, IsSeq, Height, Returns
  <1>2. \A i \in 1 .. Height - 2 : IsGroup(stack'[i]) <=> IsGroup(stack[i])
    BY <1>1, GroupsBelow
  <1>3. IsGroup(stack'[Height - 1]) <=> IsGroup(stack[Height - 1])
    BY DEF Returns, GivenBack, IsGroup
  <1>4. \A i \in 1 .. Height - 1 : IsGroup(stack'[i]) <=> IsGroup(stack[i])
    BY <1>1, <1>2, <1>3
  <1>5. \A i : i \in 1 .. Height - 1 <=> i \in 1 .. Height /\ i # Height
    BY <1>1
  <1> QED  BY <1>1, <1>4, <1>5 DEF OpenGroups

-----------------------------------------------------------------------------
(* What a step may come to.                                                 *)

Mistakes == {"syntax", "symbol-name", "empty-literal", "character-class", "code-point"} \cup Refusals

\* why would be a true name of the mistake in sight.
Named(why) ==
  /\ why = "empty-alternative" => AtStart /\ Offender \in {"ALT", "RP", "SC", "ZZ", "TX"}
  /\ why = "leading-comma" => AtStart /\ Offender = "CA"
  /\ why = "dangling-postfix" => AtStart /\ Offender \in {"STAR", "PLUS"}
  /\ why = "special-sequence" => (AtStart \/ Before = "CA") /\ Offender = "QM"
  /\ why = "subtraction" => Offender = "SUB"
  /\ why = "ISO-repetition" => Offender \in {"OB", "CB"}
  /\ why = "stray-bracket" => Offender \in {"OS", "CS"}
  /\ why = "unclosed-group" =>
       /\ Count("LP", Consumed) > Count("RP", Consumed) /\ Offender # "RP"
       /\ ~AtStart \/ Offender \in DEFOP
  /\ why = "syntax" /\ (\E i \in DOMAIN stack : stack[i].rule = "seq") =>
       Offender \notin {"SUB", "OB", "CB", "OS", "QM"}

LEMMA Refusing ==
  ASSUME Inv, status = "reading", src' = src, NEW why \in Mistakes, Refuses(why), Named(why)
  PROVE  Inv'
  <1>1. Before' = Before /\ Offender' = Offender /\ Consumed' = Consumed /\ stack' = stack /\ pos' = pos /\ status' = why
    BY DEF Refuses, Before, Offender, Consumed
  <1>2. why \notin {"reading", "parsed"}
    BY DEF Mistakes, Refusals
  <1>3. NamesTheMistake'
    BY <1>1 DEF NamesTheMistake, Named, AtStart, Count
  <1>4. TypeOK'
    BY <1>1, <1>2 DEF Inv, TypeOK, Mistakes
  <1> QED  BY <1>1, <1>2, <1>3, <1>4 DEF Inv

LEMMA Going ==
  ASSUME Inv, status = "reading", src' = src, Tokenised', GoesOn, Shape', Knows(Top.rule, Top.state, Top.u)', Balanced'
  PROVE  Inv'
  <1>1. status' = "reading"
    BY DEF GoesOn
  <1>2. NamesTheMistake'
    BY <1>1 DEF NamesTheMistake
  <1>3. Len(stack') \in Nat \ {0} /\ DOMAIN stack' = 1 .. Len(stack') /\ stack' # <<>>
    BY DEF Shape, IsSeq
  <1>4. ASSUME NEW i \in DOMAIN stack'
        PROVE  IF i = 1 THEN stack'[i].rule = "ebnf"
               ELSE stack'[i].rule # "ebnf" /\ stack'[i - 1].rule \in Parents[stack'[i].rule]
    <2>1. CASE i = 1
      BY <2>1 DEF Shape
    <2>2. CASE i # 1
      <3>1. i - 1 \in 1 .. Height' - 1 /\ i - 1 + 1 = i
        BY <1>3, <2>2 DEF Height
      <3>2. Follows(stack'[i - 1], stack'[i])
        BY <3>1 DEF Shape
      <3> QED  BY <2>2, <3>2 DEF Follows
    <2> QED  BY <2>1, <2>2
  <1>5. TypeOK'
    BY <1>1, <1>3, <1>4 DEF TypeOK, Tokenised
  <1> QED  BY <1>1, <1>2, <1>5 DEF Inv

LEMMA Ending ==
  ASSUME Inv, src' = src, Tokenised', stack' = <<>>, status' = "parsed"
  PROVE  Inv'
  <1>1. NamesTheMistake'
    BY DEF NamesTheMistake
  <1>2. TypeOK'
    BY DEF TypeOK, Tokenised
  <1> QED  BY <1>1, <1>2 DEF Inv

\* Where a step begins.
LEMMA Now ==
  ASSUME Inv, status = "reading"
  PROVE  /\ Tokenised /\ Shape /\ Frames /\ Knows(Top.rule, Top.state, Top.u) /\ Balanced
         /\ Height \in Nat \ {0} /\ Top = stack[Height] /\ Ready(Top)
         /\ Top.rule = "ebnf" <=> Height = 1
         /\ Top.rule # "ebnf" => /\ Height > 1 /\ Follows(stack[Height - 1], Top) /\ Waits(stack[Height - 1], Top)
                                 /\ IsFrame(stack[Height - 1])
  <1>1. Tokenised /\ Shape /\ Knows(Top.rule, Top.state, Top.u) /\ Balanced
    BY DEF Inv, TypeOK, Tokenised
  <1>2. Top = stack[Height] /\ Ready(Top)
    BY <1>1, ShapeFrames DEF Shape
  <1> QED  BY <1>1, <1>2, ShapeFrames

LEMMA StillBalanced ==
  ASSUME Balanced, SameCounts, OpenGroups' = OpenGroups
  PROVE  Balanced'
  <1>1. /\ Count("LP", Consumed)' = Count("LP", Consumed) /\ Count("RP", Consumed)' = Count("RP", Consumed)
        /\ Cardinality(OpenGroups)' = Cardinality(OpenGroups)
    BY DEF SameCounts
  <1> QED  BY <1>1 DEF Balanced

LEMMA Pushing ==
  ASSUME Inv, status = "reading", src' = src, Tokenised', SameCounts,
         NEW a, NEW rule \in RuleNames, Pushes(a, rule), Follows(Top, New(rule)), Waits(stack'[Height], New(rule)),
         Top.rule # "atom", Knows(rule, "open", <<>>)'
  PROVE  Inv'
  <1>1. Shape /\ Balanced /\ Top = stack[Height]
    BY Now
  <1>2. Shape' /\ Top' = New(rule)
    BY <1>1, PushShape
  <1>3. ~IsGroup(stack'[Height]) /\ ~IsGroup(stack[Height])
    BY <1>1 DEF Pushes, ActedBy, IsGroup
  <1>4. OpenGroups' = OpenGroups
    BY <1>1, <1>3, GroupsPush DEF OpenGroups
  <1>5. Balanced'
    BY <1>1, <1>4, StillBalanced
  <1>6. Knows(Top.rule, Top.state, Top.u)'
    BY <1>2, NewFields
  <1> QED  BY <1>2, <1>5, <1>6, Going DEF Pushes

LEMMA Staying ==
  ASSUME Inv, status = "reading", src' = src, Tokenised', SameCounts,
         NEW a, Stays(a), a \notin {"name", "open-group", "got"}, Ready(stack'[Height]),
         NEW rule, NEW u, rule = Top.rule, u = Top.u, Knows(rule, "close", u)'
  PROVE  Inv'
  <1>1. Shape /\ Balanced /\ Top = stack[Height]
    BY Now
  <1>2. Shape' /\ Top' = stack'[Height] /\ ActedBy(a, Top')
    BY <1>1, StayShape
  <1>3. Top'.rule = rule /\ Top'.state = "close" /\ Top'.u = u
    BY <1>2 DEF ActedBy
  <1>4. OpenGroups' = OpenGroups
    BY <1>1, <1>2, <1>3, GroupsTop DEF Stays, IsGroup
  <1>5. Balanced'
    BY <1>1, <1>4, StillBalanced
  <1>6. Knows(Top.rule, Top.state, Top.u)'
    BY <1>3
  <1> QED  BY <1>2, <1>5, <1>6, Going DEF Stays

LEMMA Replacing ==
  ASSUME Inv, status = "reading", src' = src, Tokenised', SameCounts,
         Replaces(Top.rule), Top.rule = "prod"
  PROVE  Inv'
  <1>1. Shape /\ Balanced /\ Top = stack[Height]
    BY Now
  <1>2. Shape' /\ Top' = New("prod")
    BY <1>1, ReplaceShape
  <1>3. ~IsGroup(stack'[Height]) /\ ~IsGroup(stack[Height])
    BY <1>1, "prod" \in RuleNames, NewFields DEF Replaces, IsGroup, RuleNames
  <1>4. OpenGroups' = OpenGroups
    BY <1>1, <1>3, GroupsTop DEF Replaces
  <1>5. Balanced'
    BY <1>1, <1>4, StillBalanced
  <1>6. Knows(Top.rule, Top.state, Top.u)'
    BY <1>2, NewFields DEF RuleNames, Knows
  <1> QED  BY <1>2, <1>5, <1>6, Going DEF Replaces

LEMMA Returning ==
  ASSUME Inv, status = "reading", src' = src, Tokenised', SameCounts, Top.rule # "ebnf",
         NEW a, Returns(a), ~IsGroup(Top), Top.rule = "atom" => Top.node # <<>>,
         NEW rule, NEW u, rule = stack[Height - 1].rule, u = stack[Height - 1].u, Knows(rule, "close", u)'
  PROVE  Inv'
  <1>1. Shape /\ Balanced /\ Top = stack[Height] /\ Height > 1
    BY Now
  <1>2. Shape' /\ GoesOn /\ Top'.rule = rule /\ Top'.state = "close" /\ Top'.u = u
    BY <1>1, ReturnShape
  <1>3. OpenGroups' = OpenGroups
    BY <1>1, GroupsReturn DEF OpenGroups
  <1>4. Balanced'
    BY <1>1, <1>3, StillBalanced
  <1>5. Knows(Top.rule, Top.state, Top.u)'
    BY <1>2
  <1> QED  BY <1>2, <1>4, <1>5, Going

-----------------------------------------------------------------------------
(* Every step keeps the invariant.                                          *)

LEMMA At ==
  ASSUME Inv, NEW rule, NEW state, Step(rule, state)
  PROVE  /\ status = "reading" /\ src' = src /\ Top.rule = rule /\ Top.state = state
         /\ Tokenised /\ Shape /\ Frames /\ Balanced /\ Knows(rule, state, Top.u)
         /\ Height \in Nat \ {0} /\ Top = stack[Height] /\ Ready(Top)
         /\ rule = "ebnf" <=> Height = 1
         /\ rule # "ebnf" => /\ Height > 1 /\ Follows(stack[Height - 1], Top) /\ Waits(stack[Height - 1], Top)
                             /\ Top.rule \in RuleNames
  <1>1. status = "reading" /\ src' = src /\ Top.rule = rule /\ Top.state = state
    BY DEF Step
  <1>2. Top.rule \in RuleNames
    <2>1. Height \in 1 .. Height /\ Top = stack[Height] /\ Shape
      BY <1>1, Now
    <2> QED  BY <2>1 DEF Shape, IsFrame
  <1> QED  BY <1>1, <1>2, Now

\* Who may push whom.
LEMMA CanFollow ==
  ASSUME NEW f, NEW rule,
         \/ rule = "prod" /\ f.rule = "ebnf"
         \/ rule = "alts" /\ f.rule \in {"prod", "atom"}
         \/ rule = "seq" /\ f.rule = "alts"
         \/ rule = "elem" /\ f.rule = "seq"
         \/ rule = "post" /\ f.rule \in {"elem", "post"}
         \/ rule = "atom" /\ f.rule = "elem"
  PROVE  rule \in RuleNames /\ Follows(f, New(rule))
  <1>1. /\ Parents["prod"] = {"ebnf"} /\ Parents["alts"] = {"prod", "atom"} /\ Parents["seq"] = {"alts"}
        /\ Parents["elem"] = {"seq"} /\ Parents["post"] = {"elem", "post"} /\ Parents["atom"] = {"elem"}
    BY DEF Parents
  <1>2. rule \in RuleNames /\ rule # "ebnf"
    BY DEF RuleNames
  <1>3. New(rule).rule = rule
    BY <1>2, NewFields
  <1> QED  BY <1>1, <1>2, <1>3 DEF Follows

\* Only an atom and an element wait on a condition.
LEMMA PusherWaits ==
  ASSUME NEW a, NEW rule, Pushes(a, rule), Top.rule \notin {"atom", "elem"}
  PROVE  Waits(stack'[Height], New(rule))
  BY DEF Pushes, ActedBy, Waits

\* Between productions, no expression is being read.
LEMMA NoSeq ==
  ASSUME Shape, Height \in Nat \ {0}, stack[Height].rule \in {"ebnf", "prod"}
  PROVE  ~ \E i \in DOMAIN stack : stack[i].rule = "seq"
  <1>1. DOMAIN stack = 1 .. Height
    BY DEF Shape, IsSeq, Height
  <1>2. \A i \in 1 .. Height - 1 : Follows(stack[i], stack[i + 1])
    BY DEF Shape
  <1>3. \A i \in 2 .. Height : stack[i].rule # "ebnf"
    <2> TAKE i \in 2 .. Height
    <2>1. i - 1 \in 1 .. Height - 1 /\ i - 1 + 1 = i
      OBVIOUS
    <2>2. Follows(stack[i - 1], stack[i])
      BY <1>2, <2>1
    <2> QED  BY <2>2 DEF Follows
  <1>4. CASE Height = 1
    BY <1>1, <1>4 DEF Shape
  <1>5. CASE Height > 1
    <2>1. stack[Height].rule = "prod"
      BY <1>3, <1>5
    <2>2. Height - 1 \in 1 .. Height - 1 /\ Height - 1 + 1 = Height
      BY <1>5
    <2>3. stack[Height - 1].rule = "ebnf"
      <3>1. Follows(stack[Height - 1], stack[Height])
        BY <1>2, <2>2
      <3>2. "prod" \in RuleNames
        BY DEF RuleNames
      <3> QED  BY <2>1, <3>1, <3>2, WhatFollows
    <2>4. Height = 2
      BY <1>3, <1>5, <2>3
    <2> QED  BY <1>1, <2>1, <2>3, <2>4
  <1> QED  BY <1>4, <1>5

\* What is not the name of a construct says little.
LEMMA Misreading ==
  ASSUME Inv, status = "reading", src' = src, Misread
  PROVE  Inv'
  <1>1. PICK why \in {"symbol-name", "empty-literal", "character-class", "code-point"} : Refuses(why)
    BY DEF Misread
  <1>2. why \in Mistakes /\ Named(why)
    BY DEF Mistakes, Named
  <1> QED  BY <1>1, <1>2, Refusing

LEMMA EbnfOpens ==
  ASSUME Inv, Step("ebnf", "open")
  PROVE  Inv'
  <1>1. /\ status = "reading" /\ src' = src /\ Top.rule = "ebnf" /\ Tokenised /\ Shape /\ Frames
        /\ Height \in Nat \ {0} /\ Top = stack[Height]
    BY At
  <1>2. CASE Sees(1, {"ZZ"}) /\ pos' = pos + 1 /\ Stays("none")
    <2>1. Tokenised' /\ SameCounts
      BY <1>1, <1>2, Onward
    <2>2. Ready(stack'[Height])
      BY <1>1, <1>2 DEF Ready, Stays, ActedBy
    <2>3. PICK u : u = Top.u
      OBVIOUS
    <2>4. Knows("ebnf", "close", u)'
      BY DEF Knows
    <2> QED  BY <1>1, <1>2, <2>1, <2>2, <2>3, <2>4, Staying
  <1>3. CASE SeesOther(1, {"ZZ"}) /\ pos' = pos /\ Pushes("none", "prod")
    <2>1. Tokenised' /\ SameCounts
      BY <1>1, <1>3, Still
    <2>2. "prod" \in RuleNames /\ Follows(Top, New("prod")) /\ Waits(stack'[Height], New("prod"))
      BY <1>1, <1>3, CanFollow, PusherWaits
    <2>3. Knows("prod", "open", <<>>)'
      BY DEF Knows
    <2> QED  BY <1>1, <1>3, <2>1, <2>2, <2>3, Pushing
  <1> QED  BY <1>1, <1>2, <1>3, EbnfOpenStep

LEMMA EbnfCloses ==
  ASSUME Inv, Step("ebnf", "close")
  PROVE  Inv'
  <1>1. /\ status = "reading" /\ src' = src /\ Top.rule = "ebnf" /\ Tokenised /\ Shape /\ Frames
        /\ Height = 1 /\ Top = stack[Height]
    BY At
  <1>2. CASE Sees(1, {"ZZ"}) /\ pos' = pos + 1 /\ Returns("none")
    <2>1. Tokenised'
      BY <1>1, <1>2, Onward
    <2>2. stack' = <<>> /\ status' = "parsed"
      BY <1>1, <1>2 DEF Returns
    <2> QED  BY <1>1, <2>1, <2>2, Ending
  <1>3. CASE SeesOther(1, {"ZZ"}) /\ Refuses("syntax")
    <2>1. ~ \E i \in DOMAIN stack : stack[i].rule = "seq"
      BY <1>1, NoSeq
    <2>2. "syntax" \in Mistakes /\ Named("syntax")
      BY <2>1 DEF Mistakes, Named
    <2> QED  BY <1>1, <1>3, <2>2, Refusing
  <1> QED  BY <1>1, <1>2, <1>3, EbnfCloseStep

LEMMA ProdOpens ==
  ASSUME Inv, Step("prod", "open")
  PROVE  Inv'
  <1>1. /\ status = "reading" /\ src' = src /\ Top.rule = "prod" /\ Tokenised /\ Shape /\ Frames
        /\ Height \in Nat \ {0} /\ Top = stack[Height]
    BY At
  <1>2. CASE Misread
    BY <1>1, <1>2, Misreading
  <1>3. CASE Sees(1, {"TX"}) /\ Sees(2, DEFOP) /\ pos' = pos + 2 /\ Pushes("name", "alts")
    <2>1. Tokenised' /\ Before' \in DEFOP /\ SameCounts
      BY <1>1, <1>3, OnwardHeader
    <2>2. "alts" \in RuleNames /\ Follows(Top, New("alts")) /\ Waits(stack'[Height], New("alts"))
      BY <1>1, <1>3, CanFollow, PusherWaits
    <2>3. Knows("alts", "open", <<>>)'
      BY <2>1 DEF Knows, AtStart, DEFOP
    <2> QED  BY <1>1, <1>3, <2>1, <2>2, <2>3, Pushing
  <1>4. CASE Refuses("syntax")
    <2>1. ~ \E i \in DOMAIN stack : stack[i].rule = "seq"
      BY <1>1, NoSeq
    <2>2. "syntax" \in Mistakes /\ Named("syntax")
      BY <2>1 DEF Mistakes, Named
    <2> QED  BY <1>1, <1>4, <2>2, Refusing
  <1> QED  BY <1>1, <1>2, <1>3, <1>4, ProdOpenStep

LEMMA ProdCloses ==
  ASSUME Inv, Step("prod", "close")
  PROVE  Inv'
  <1>1. /\ status = "reading" /\ src' = src /\ Top.rule = "prod" /\ Tokenised /\ Shape /\ Frames
        /\ Height \in Nat \ {0} /\ Top = stack[Height] /\ Top.rule \in RuleNames
        /\ Follows(stack[Height - 1], Top) /\ ~IsGroup(Top)
    BY At DEF IsGroup
  <1>2. /\ Sees(1, {"SC"}) /\ pos' = pos + 1 => Tokenised' /\ SameCounts
        /\ pos' = pos => Tokenised' /\ SameCounts
    BY <1>1, Onward, Still
  <1>3. CASE Tokenised' /\ SameCounts /\ Replaces("prod")
    BY <1>1, <1>3, Replacing
  <1>4. CASE Tokenised' /\ SameCounts /\ Returns("none")
    <2>1. PICK u : u = stack[Height - 1].u
      OBVIOUS
    <2>2. stack[Height - 1].rule = "ebnf"
      BY <1>1, WhatFollows
    <2>3. Knows("ebnf", "close", u)'
      BY DEF Knows
    <2> QED  BY <1>1, <1>4, <2>1, <2>2, <2>3, Returning
  <1> QED  BY <1>1, <1>2, <1>3, <1>4, ProdCloseStep

LEMMA AltsOpens ==
  ASSUME Inv, Step("alts", "open")
  PROVE  Inv'
  <1>1. /\ status = "reading" /\ src' = src /\ Top.rule = "alts" /\ Tokenised /\ Frames
        /\ Knows("alts", "open", Top.u)
    BY At
  <1>2. pos' = pos /\ Pushes("none", "seq")
    BY <1>1, AltsOpenStep
  <1>3. Tokenised' /\ Before' = Before /\ SameCounts
    BY <1>1, <1>2, Still
  <1>4. "seq" \in RuleNames /\ Follows(Top, New("seq")) /\ Waits(stack'[Height], New("seq"))
    BY <1>1, <1>2, CanFollow, PusherWaits
  <1>5. Knows("seq", "open", <<>>)'
    BY <1>1, <1>3 DEF Knows, AtStart
  <1> QED  BY <1>1, <1>2, <1>3, <1>4, <1>5, Pushing

LEMMA AltsCloses ==
  ASSUME Inv, Step("alts", "close")
  PROVE  Inv'
  <1>1. /\ status = "reading" /\ src' = src /\ Top.rule = "alts" /\ Tokenised /\ Frames
        /\ Knows("alts", "close", Top.u) /\ Top.rule \in RuleNames /\ ~IsGroup(Top)
        /\ Follows(stack[Height - 1], Top) /\ Waits(stack[Height - 1], Top)
    BY At DEF IsGroup
  <1>2. CASE Sees(1, {"ALT"}) /\ pos' = pos + 1 /\ Pushes("none", "seq")
    <2>1. Tokenised' /\ Before' \in {"ALT"} /\ SameCounts
      BY <1>1, <1>2, Onward
    <2>2. "seq" \in RuleNames /\ Follows(Top, New("seq")) /\ Waits(stack'[Height], New("seq"))
      BY <1>1, <1>2, CanFollow, PusherWaits
    <2>3. Knows("seq", "open", <<>>)'
      BY <2>1 DEF Knows, AtStart
    <2> QED  BY <1>1, <1>2, <2>1, <2>2, <2>3, Pushing
  <1>3. CASE SeesOther(1, {"ALT"}) /\ pos' = pos /\ Returns("none")
    <2>1. Tokenised' /\ Before' = Before /\ Offender' = Offender /\ SameCounts
      BY <1>1, <1>3, Still
    <2>2. PICK rule, u : rule = stack[Height - 1].rule /\ u = stack[Height - 1].u
      OBVIOUS
    <2>3. rule \in {"prod", "atom"} /\ (rule = "atom" => u # <<>>)
      BY <1>1, <2>2, WhatFollows DEF Waits
    <2>4. Before \in Ends \/ Misplaced
      BY <1>1 DEF Knows
    <2>5. Before' \in Ends \/ Misplaced'
      BY <2>1, <2>4 DEF Misplaced, AtStart
    <2>6. Knows(rule, "close", u)'
      BY <2>3, <2>5 DEF Knows
    <2> QED  BY <1>1, <1>3, <2>1, <2>2, <2>6, Returning
  <1> QED  BY <1>1, <1>2, <1>3, AltsCloseStep

\* Subtractions, repetitions and brackets of ISO 14977 are named wherever they are met.
LEMMA NamingOther ==
  ASSUME Inv, status = "reading", src' = src, Tokenised,
         \/ Sees(1, {"SUB"}) /\ Refuses("subtraction")
         \/ Sees(1, {"OB", "CB"}) /\ Refuses("ISO-repetition")
         \/ Sees(1, {"OS", "CS"}) /\ Refuses("stray-bracket")
  PROVE  Inv'
  <1>1. CASE Sees(1, {"SUB"}) /\ Refuses("subtraction")
    <2>1. Offender = "SUB"
      BY <1>1, InSightNext
    <2>2. "subtraction" \in Mistakes /\ Named("subtraction")
      BY <2>1 DEF Mistakes, Refusals, Named
    <2> QED  BY <1>1, <2>2, Refusing
  <1>2. CASE Sees(1, {"OB", "CB"}) /\ Refuses("ISO-repetition")
    <2>1. Offender \in {"OB", "CB"}
      BY <1>2, InSightNext
    <2>2. "ISO-repetition" \in Mistakes /\ Named("ISO-repetition")
      BY <2>1 DEF Mistakes, Refusals, Named
    <2> QED  BY <1>2, <2>2, Refusing
  <1>3. CASE Sees(1, {"OS", "CS"}) /\ Refuses("stray-bracket")
    <2>1. Offender \in {"OS", "CS"}
      BY <1>3, InSightNext
    <2>2. "stray-bracket" \in Mistakes /\ Named("stray-bracket")
      BY <2>1 DEF Mistakes, Refusals, Named
    <2> QED  BY <1>3, <2>2, Refusing
  <1> QED  BY <1>1, <1>2, <1>3

LEMMA SeqOpens ==
  ASSUME Inv, Step("seq", "open")
  PROVE  Inv'
  <1>1. /\ status = "reading" /\ src' = src /\ Top.rule = "seq" /\ Tokenised /\ Frames
        /\ Knows("seq", "open", Top.u)
    BY At
  <1>2. AtStart
    BY <1>1 DEF Knows
  <1>3. CASE Sees(1, {"ST", "CC", "HX", "TX", "LP"}) /\ pos' = pos /\ Pushes("none", "elem")
    <2>1. Tokenised' /\ Offender' = Offender /\ SameCounts
      BY <1>1, <1>3, Still
    <2>2. "elem" \in RuleNames /\ Follows(Top, New("elem")) /\ Waits(stack'[Height], New("elem"))
      BY <1>1, <1>3, CanFollow, PusherWaits
    <2>3. Offender \in Begins
      BY <1>1, <1>3, InSightNext DEF Begins
    <2>4. Knows("elem", "open", <<>>)'
      BY <2>1, <2>3 DEF Knows
    <2> QED  BY <1>1, <1>3, <2>1, <2>2, <2>4, Pushing
  <1>4. CASE /\ SeesOther(1, {"ALT", "RP", "SC", "ZZ", "CA", "ST", "CC", "HX", "TX", "LP", "QM", "SUB", "OB", "CB",
                              "OS", "CS", "STAR", "PLUS"})
             /\ pos' = pos /\ Stays("none")
    <2>1. Tokenised' /\ Before' = Before /\ Offender' = Offender /\ SameCounts
      BY <1>1, <1>4, Still
    <2>2. Offender \in DEFOP
      BY <1>1, <1>4, InSightNext DEF Kinds, FixedKinds, DEFOP
    <2>3. Misplaced'
      BY <1>2, <2>1, <2>2 DEF Misplaced, AtStart
    <2>4. Ready(stack'[Height])
      BY <1>1, <1>4 DEF Ready, Stays, ActedBy
    <2>5. PICK u : u = Top.u
      OBVIOUS
    <2>6. Knows("seq", "close", u)'
      BY <2>3 DEF Knows
    <2> QED  BY <1>1, <1>4, <2>1, <2>4, <2>5, <2>6, Staying
  <1>5. CASE Sees(1, {"TX"}) /\ Refuses("empty-alternative")
    <2>1. Offender = "TX"
      BY <1>1, <1>5, InSightNext
    <2>2. "empty-alternative" \in Mistakes /\ Named("empty-alternative")
      BY <1>2, <2>1 DEF Mistakes, Refusals, Named
    <2> QED  BY <1>1, <1>5, <2>2, Refusing
  <1>6. CASE Sees(1, {"ALT", "RP", "SC", "ZZ"}) /\ Refuses("empty-alternative")
    <2>1. Offender \in {"ALT", "RP", "SC", "ZZ"}
      BY <1>1, <1>6, InSightNext
    <2>2. "empty-alternative" \in Mistakes /\ Named("empty-alternative")
      BY <1>2, <2>1 DEF Mistakes, Refusals, Named
    <2> QED  BY <1>1, <1>6, <2>2, Refusing
  <1>7. CASE Sees(1, {"CA"}) /\ Refuses("leading-comma")
    <2>1. Offender = "CA"
      BY <1>1, <1>7, InSightNext
    <2>2. "leading-comma" \in Mistakes /\ Named("leading-comma")
      BY <1>2, <2>1 DEF Mistakes, Refusals, Named
    <2> QED  BY <1>1, <1>7, <2>2, Refusing
  <1>8. CASE Sees(1, {"QM"}) /\ Refuses("special-sequence")
    <2>1. Offender = "QM"
      BY <1>1, <1>8, InSightNext
    <2>2. "special-sequence" \in Mistakes /\ Named("special-sequence")
      BY <1>2, <2>1 DEF Mistakes, Refusals, Named
    <2> QED  BY <1>1, <1>8, <2>2, Refusing
  <1>9. CASE Sees(1, {"STAR", "PLUS"}) /\ Refuses("dangling-postfix")
    <2>1. Offender \in {"STAR", "PLUS"}
      BY <1>1, <1>9, InSightNext
    <2>2. "dangling-postfix" \in Mistakes /\ Named("dangling-postfix")
      BY <1>2, <2>1 DEF Mistakes, Refusals, Named
    <2> QED  BY <1>1, <1>9, <2>2, Refusing
  <1>10. \/ Sees(1, {"SUB"}) /\ Refuses("subtraction")
         \/ Sees(1, {"OB", "CB"}) /\ Refuses("ISO-repetition")
         \/ Sees(1, {"OS", "CS"}) /\ Refuses("stray-bracket")
         => Inv'
    BY <1>1, NamingOther
  <1> QED  BY <1>1, <1>3, <1>4, <1>5, <1>6, <1>7, <1>8, <1>9, <1>10, SeqOpenStep

LEMMA SeqCloses ==
  ASSUME Inv, Step("seq", "close")
  PROVE  Inv'
  <1>1. /\ status = "reading" /\ src' = src /\ Top.rule = "seq" /\ Tokenised /\ Frames
        /\ Knows("seq", "close", Top.u) /\ Top.rule \in RuleNames /\ ~IsGroup(Top)
        /\ Follows(stack[Height - 1], Top)
    BY At DEF IsGroup
  <1>2. After \/ Misplaced
    BY <1>1 DEF Knows
  <1>3. CASE Sees(1, {"CA"}) /\ pos' = pos + 1 /\ Pushes("none", "elem")
    <2>1. Tokenised' /\ Before' \in {"CA"} /\ SameCounts
      BY <1>1, <1>3, Onward
    <2>2. "elem" \in RuleNames /\ Follows(Top, New("elem")) /\ Waits(stack'[Height], New("elem"))
      BY <1>1, <1>3, CanFollow, PusherWaits
    <2>3. Knows("elem", "open", <<>>)'
      BY <2>1 DEF Knows
    <2> QED  BY <1>1, <1>3, <2>1, <2>2, <2>3, Pushing
  <1>4. CASE Sees(1, {"ST", "CC", "HX", "TX", "LP"}) /\ pos' = pos /\ Pushes("none", "elem")
    <2>1. Tokenised' /\ Offender' = Offender /\ SameCounts
      BY <1>1, <1>4, Still
    <2>2. "elem" \in RuleNames /\ Follows(Top, New("elem")) /\ Waits(stack'[Height], New("elem"))
      BY <1>1, <1>4, CanFollow, PusherWaits
    <2>3. Offender \in Begins
      BY <1>1, <1>4, InSightNext DEF Begins
    <2>4. Knows("elem", "open", <<>>)'
      BY <2>1, <2>3 DEF Knows
    <2> QED  BY <1>1, <1>4, <2>1, <2>2, <2>4, Pushing
  <1>5. CASE pos' = pos /\ Returns("none")
    <2>1. Tokenised' /\ Before' = Before /\ Offender' = Offender /\ SameCounts
      BY <1>1, <1>5, Still
    <2>2. PICK u : u = stack[Height - 1].u
      OBVIOUS
    <2>3. stack[Height - 1].rule = "alts"
      BY <1>1, WhatFollows
    <2>4. Before' \in Ends \/ Misplaced'
      BY <1>2, <2>1 DEF After, Misplaced, AtStart
    <2>5. Knows("alts", "close", u)'
      BY <2>4 DEF Knows
    <2> QED  BY <1>1, <1>5, <2>1, <2>2, <2>3, <2>5, Returning
  <1>6. ~ Sees(1, {"QM"}) /\ ~ Sees(1, {"STAR", "PLUS"})
    BY <1>1, <1>2, InSightNext DEF After, Misplaced, Postfix, DEFOP
  <1>7. \/ Sees(1, {"SUB"}) /\ Refuses("subtraction")
        \/ Sees(1, {"OB", "CB"}) /\ Refuses("ISO-repetition")
        \/ Sees(1, {"OS", "CS"}) /\ Refuses("stray-bracket")
        => Inv'
    BY <1>1, NamingOther
  <1> QED  BY <1>1, <1>3, <1>4, <1>5, <1>6, <1>7, SeqCloseStep

LEMMA ElemOpens ==
  ASSUME Inv, Step("elem", "open")
  PROVE  Inv'
  <1>1. /\ status = "reading" /\ src' = src /\ Top.rule = "elem" /\ Top.state = "open" /\ Tokenised /\ Frames
        /\ Knows("elem", "open", Top.u) /\ Ready(Top)
    BY At
  <1>2. pos' = pos /\ Pushes("none", "atom")
    BY <1>1, ElemOpenStep
  <1>3. Tokenised' /\ Before' = Before /\ Offender' = Offender /\ SameCounts
    BY <1>1, <1>2, Still
  <1>4. "atom" \in RuleNames /\ Follows(Top, New("atom"))
    BY <1>1, CanFollow
  <1>5. Waits(stack'[Height], New("atom"))
    <2>1. New("atom").rule = "atom"
      BY <1>4, NewFields
    <2>2. ActedBy("none", stack'[Height])
      BY <1>2 DEF Pushes
    <2> QED  BY <1>1, <2>1, <2>2 DEF ActedBy, Waits, Ready
  <1>6. Knows("atom", "open", <<>>)'
    BY <1>1, <1>3 DEF Knows
  <1> QED  BY <1>1, <1>2, <1>3, <1>4, <1>5, <1>6, Pushing

LEMMA ElemCloses ==
  ASSUME Inv, Step("elem", "close")
  PROVE  Inv'
  <1>1. /\ status = "reading" /\ src' = src /\ Top.rule = "elem" /\ Top.state = "close" /\ Tokenised /\ Frames
        /\ Knows("elem", "close", Top.u) /\ Ready(Top) /\ Top.rule \in RuleNames /\ ~IsGroup(Top)
        /\ Follows(stack[Height - 1], Top)
    BY At DEF IsGroup
  <1>2. pos' = pos => Tokenised' /\ Before' = Before /\ Offender' = Offender /\ SameCounts
    BY <1>1, Still
  <1>3. CASE Top.u = <<>> /\ pos' = pos /\ Pushes("got", "post")
    <2>1. "post" \in RuleNames /\ Follows(Top, New("post"))
      BY <1>1, CanFollow
    <2>2. Waits(stack'[Height], New("post"))
      <3>1. New("post").rule = "post"
        BY <2>1, NewFields
      <3>2. ActedBy("got", stack'[Height])
        BY <1>3 DEF Pushes
      <3> QED  BY <1>1, <1>3, <3>1, <3>2 DEF ActedBy, Waits, Ready
    <2>3. Before \in Ends
      BY <1>1, <1>3 DEF Knows
    <2>4. Knows("post", "open", <<>>)'
      BY <1>2, <1>3, <2>3 DEF Knows
    <2> QED  BY <1>1, <1>2, <1>3, <2>1, <2>2, <2>4, Pushing
  <1>4. CASE Top.u # <<>> /\ pos' = pos /\ Returns("none")
    <2>1. PICK u : u = stack[Height - 1].u
      OBVIOUS
    <2>2. stack[Height - 1].rule = "seq"
      BY <1>1, WhatFollows
    <2>3. After'
      BY <1>1, <1>2, <1>4 DEF Knows, After
    <2>4. Knows("seq", "close", u)'
      BY <2>3 DEF Knows
    <2> QED  BY <1>1, <1>2, <1>4, <2>1, <2>2, <2>4, Returning
  <1> QED  BY <1>1, <1>3, <1>4, ElemCloseStep

LEMMA PostOpens ==
  ASSUME Inv, Step("post", "open")
  PROVE  Inv'
  <1>1. /\ status = "reading" /\ src' = src /\ Top.rule = "post" /\ Tokenised /\ Frames
        /\ Knows("post", "open", Top.u)
    BY At
  <1>2. ASSUME NEW a, Sees(1, {"QM", "STAR", "PLUS"}), pos' = pos + 1, Pushes(a, "post")
        PROVE  Inv'
    <2>1. Tokenised' /\ Before' \in {"QM", "STAR", "PLUS"} /\ SameCounts
      BY <1>1, <1>2, Onward
    <2>2. "post" \in RuleNames /\ Follows(Top, New("post")) /\ Waits(stack'[Height], New("post"))
      BY <1>1, <1>2, CanFollow, PusherWaits
    <2>3. Knows("post", "open", <<>>)'
      BY <2>1 DEF Knows, Ends
    <2> QED  BY <1>1, <1>2, <2>1, <2>2, <2>3, Pushing
  <1>3. CASE SeesOther(1, {"QM", "STAR", "PLUS"}) /\ pos' = pos /\ Stays("none")
    <2>1. Tokenised' /\ Before' = Before /\ Offender' = Offender /\ SameCounts
      BY <1>1, <1>3, Still
    <2>2. Before \in Ends /\ Offender \in Kinds \ {"QM", "STAR", "PLUS"}
      BY <1>1, <1>3, InSightNext DEF Knows
    <2>3. After'
      BY <2>1, <2>2 DEF After, Postfix, Kinds, FixedKinds
    <2>4. Ready(stack'[Height])
      BY <1>1, <1>3 DEF Ready, Stays, ActedBy
    <2>5. PICK u : u = Top.u
      OBVIOUS
    <2>6. Knows("post", "close", u)'
      BY <2>3 DEF Knows
    <2> QED  BY <1>1, <1>3, <2>1, <2>4, <2>5, <2>6, Staying
  <1> QED  BY <1>1, <1>2, <1>3, PostOpenStep

LEMMA PostCloses ==
  ASSUME Inv, Step("post", "close")
  PROVE  Inv'
  <1>1. /\ status = "reading" /\ src' = src /\ Top.rule = "post" /\ Tokenised /\ Frames
        /\ Knows("post", "close", Top.u) /\ Top.rule \in RuleNames /\ ~IsGroup(Top)
        /\ Follows(stack[Height - 1], Top) /\ Waits(stack[Height - 1], Top)
    BY At DEF IsGroup
  <1>2. pos' = pos /\ Returns("none")
    BY <1>1, PostCloseStep
  <1>3. Tokenised' /\ Before' = Before /\ Offender' = Offender /\ SameCounts
    BY <1>1, <1>2, Still
  <1>4. PICK rule, u : rule = stack[Height - 1].rule /\ u = stack[Height - 1].u
    OBVIOUS
  <1>5. rule \in {"elem", "post"} /\ (rule = "elem" => u # <<>>)
    BY <1>1, <1>4, WhatFollows DEF Waits
  <1>6. After'
    BY <1>1, <1>3 DEF Knows, After
  <1>7. Knows(rule, "close", u)'
    BY <1>5, <1>6 DEF Knows
  <1> QED  BY <1>1, <1>2, <1>3, <1>4, <1>7, Returning

\* A parenthesis is read and a group opens.
LEMMA GroupOpens ==
  ASSUME Inv, status = "reading", src' = src, Top.rule = "atom", Top.u = <<>>,
         Sees(1, {"LP"}), pos' = pos + 1, Pushes("open-group", "alts")
  PROVE  Inv'
  <1>1. Tokenised /\ Shape /\ Balanced /\ Top = stack[Height] /\ Height \in Nat \ {0}
    BY Now
  <1>2. Tokenised' /\ Before' = "LP"
    BY <1>1, Consuming
  <1>3. pos < Len(src) /\ Offender = "LP"
    BY <1>1, InSightNext
  <1>4. /\ Count("LP", Consumed)' = Count("LP", Consumed) + 1
        /\ Count("RP", Consumed)' = Count("RP", Consumed) + 0
    BY <1>1, <1>2, <1>3, Counting
  <1>5. Count("LP", Consumed) \in Nat /\ Count("RP", Consumed) \in Nat
    BY <1>1, UptoConsumed, UptoNext DEF Tokenised
  <1>6. "alts" \in RuleNames /\ Follows(Top, New("alts"))
    BY CanFollow
  <1>7. stack'[Height].rule = "atom" /\ stack'[Height].state = "close" /\ stack'[Height].u # <<>>
    BY DEF Pushes, ActedBy
  <1>8. Waits(stack'[Height], New("alts"))
    BY <1>7 DEF Waits
  <1>9. Shape' /\ Top' = New("alts")
    BY <1>1, <1>6, <1>8, PushShape
  <1>10. Height \notin OpenGroups
    BY <1>1 DEF OpenGroups, IsGroup
  <1>11. OpenGroups' = OpenGroups \cup {Height}
    <2>1. IsGroup(stack'[Height])
      BY <1>7 DEF IsGroup
    <2>2. OpenGroups' = (OpenGroups \ {Height}) \cup {Height}
      BY <1>1, <1>6, <2>1, GroupsPush
    <2> QED  BY <2>2
  <1>12. IsFiniteSet(OpenGroups) /\ Cardinality(OpenGroups) \in Nat
    BY <1>1, GroupsFinite
  <1>13. Cardinality(OpenGroups)' = Cardinality(OpenGroups) + 1
    <2>1. Cardinality(OpenGroups \cup {Height}) = Cardinality(OpenGroups) + 1
      BY <1>10, <1>12, FS_AddElement
    <2> QED  BY <1>11, <2>1
  <1>14. Balanced'
    BY <1>1, <1>4, <1>5, <1>12, <1>13 DEF Balanced
  <1>15. Knows("alts", "open", <<>>)'
    BY <1>2 DEF Knows, AtStart
  <1>16. Knows(Top.rule, Top.state, Top.u)'
    BY <1>6, <1>9, <1>15, NewFields
  <1> QED  BY <1>2, <1>9, <1>14, <1>16, Going DEF Pushes

\* Its parenthesis is read and it closes.
LEMMA GroupCloses ==
  ASSUME Inv, status = "reading", src' = src, Top.rule = "atom", Top.u # <<>>, Top.rule \in RuleNames,
         Sees(1, {"RP"}), pos' = pos + 1, Returns("close-group")
  PROVE  Inv'
  <1>1. /\ Tokenised /\ Shape /\ Balanced /\ Top = stack[Height] /\ Height \in Nat \ {0} /\ Height > 1
        /\ Follows(stack[Height - 1], Top) /\ Waits(stack[Height - 1], Top)
    BY Now
  <1>2. Tokenised' /\ Before' = "RP"
    BY <1>1, Consuming
  <1>3. pos < Len(src) /\ Offender = "RP"
    BY <1>1, InSightNext
  <1>4. /\ Count("LP", Consumed)' = Count("LP", Consumed) + 0
        /\ Count("RP", Consumed)' = Count("RP", Consumed) + 1
    BY <1>1, <1>2, <1>3, Counting
  <1>5. Count("LP", Consumed) \in Nat /\ Count("RP", Consumed) \in Nat
    BY <1>1, UptoConsumed, UptoNext DEF Tokenised
  <1>6. /\ Shape' /\ GoesOn
        /\ Top'.rule = stack[Height - 1].rule /\ Top'.state = "close" /\ Top'.u = stack[Height - 1].u
    BY <1>1, ReturnShape
  <1>7. OpenGroups' = OpenGroups \ {Height}
    BY <1>1, GroupsReturn
  <1>8. Height \in OpenGroups
    BY <1>1 DEF OpenGroups, IsGroup
  <1>9. IsFiniteSet(OpenGroups) /\ Cardinality(OpenGroups) \in Nat
    BY <1>1, GroupsFinite
  <1>10. Cardinality(OpenGroups)' = Cardinality(OpenGroups) - 1
    <2>1. Cardinality(OpenGroups \ {Height}) = Cardinality(OpenGroups) - 1
      BY <1>8, <1>9, FS_RemoveElement
    <2> QED  BY <1>7, <2>1
  <1>11. Balanced'
    BY <1>1, <1>4, <1>5, <1>9, <1>10 DEF Balanced
  <1>12. stack[Height - 1].rule = "elem" /\ stack[Height - 1].u = <<>>
    BY <1>1, WhatFollows DEF Waits
  <1>13. Knows("elem", "close", <<>>)'
    BY <1>2 DEF Knows, Ends
  <1>14. Knows(Top.rule, Top.state, Top.u)'
    BY <1>6, <1>12, <1>13
  <1> QED  BY <1>2, <1>6, <1>11, <1>14, Going

LEMMA AtomOpens ==
  ASSUME Inv, Step("atom", "open")
  PROVE  Inv'
  <1>1. /\ status = "reading" /\ src' = src /\ Top.rule = "atom" /\ Top.state = "open" /\ Tokenised /\ Frames
        /\ Knows("atom", "open", Top.u) /\ Top.u = <<>>
    BY At DEF Ready
  <1>2. Before = "CA" \/ Offender \in Begins
    BY <1>1 DEF Knows
  <1>3. CASE Misread
    BY <1>1, <1>3, Misreading
  <1>4. ASSUME NEW a \in {"term", "regex", "code-point", "ref"},
               Sees(1, {"ST", "CC", "HX", "TX"}), pos' = pos + 1, Stays(a)
        PROVE  Inv'
    <2>1. Tokenised' /\ Before' \in {"ST", "CC", "HX", "TX"} /\ SameCounts
      BY <1>1, <1>4, Onward
    <2>2. ActedBy(a, stack'[Height])
      BY <1>4 DEF Stays
    <2>3. Ready(stack'[Height])
      BY <1>1, <2>2 DEF Ready, ActedBy
    <2>4. Knows("atom", "close", <<>>)'
      BY <2>1 DEF Knows, Ends
    <2> QED  BY <1>1, <1>4, <2>1, <2>3, <2>4, Staying
  <1>5. CASE Sees(1, {"LP"}) /\ pos' = pos + 1 /\ Pushes("open-group", "alts")
    BY <1>1, <1>5, GroupOpens
  <1>6. CASE Sees(1, {"QM"}) /\ Refuses("special-sequence")
    <2>1. Offender = "QM"
      BY <1>1, <1>6, InSightNext
    <2>2. Before = "CA"
      BY <1>2, <2>1 DEF Begins
    <2>3. "special-sequence" \in Mistakes /\ Named("special-sequence")
      BY <2>1, <2>2 DEF Mistakes, Refusals, Named
    <2> QED  BY <1>1, <1>6, <2>3, Refusing
  <1>7. \/ Sees(1, {"SUB"}) /\ Refuses("subtraction")
        \/ Sees(1, {"OB", "CB"}) /\ Refuses("ISO-repetition")
        \/ Sees(1, {"OS", "CS"}) /\ Refuses("stray-bracket")
        => Inv'
    BY <1>1, NamingOther
  <1>8. Sees(1, {"OS"}) => Sees(1, {"OS", "CS"})
    BY DEF Sees
  <1>9. CASE /\ SeesOther(1, {"ST", "CC", "HX", "TX", "LP", "QM", "SUB", "OB", "CB", "OS"})
             /\ Refuses("syntax")
    <2>1. Offender \notin {"ST", "CC", "HX", "TX", "LP", "QM", "SUB", "OB", "CB", "OS"}
      BY <1>1, <1>9, InSightNext
    <2>2. "syntax" \in Mistakes /\ Named("syntax")
      BY <2>1 DEF Mistakes, Named
    <2> QED  BY <1>1, <1>9, <2>2, Refusing
  <1> QED  BY <1>1, <1>3, <1>4, <1>5, <1>6, <1>7, <1>8, <1>9, AtomOpenStep

LEMMA AtomCloses ==
  ASSUME Inv, Step("atom", "close")
  PROVE  Inv'
  <1>1. /\ status = "reading" /\ src' = src /\ Top.rule = "atom" /\ Top.state = "close" /\ Tokenised /\ Frames
        /\ Shape /\ Balanced /\ Height \in Nat \ {0} /\ Top = stack[Height]
        /\ Knows("atom", "close", Top.u) /\ Ready(Top) /\ Top.rule \in RuleNames
        /\ Follows(stack[Height - 1], Top) /\ Waits(stack[Height - 1], Top)
    BY At
  <1>2. CASE Sees(1, {"RP"}) /\ Top.u # <<>> /\ pos' = pos + 1 /\ Returns("close-group")
    BY <1>1, <1>2, GroupCloses
  <1>3. CASE SeesOther(1, {"RP"}) /\ Top.u # <<>> /\ Refuses("unclosed-group")
    <2>1. Offender # "RP"
      BY <1>1, <1>3, InSightNext
    <2>2. Height \in OpenGroups
      BY <1>1, <1>3 DEF OpenGroups, IsGroup
    <2>3. Cardinality(OpenGroups) \in Nat /\ Cardinality(OpenGroups) > 0
      BY <1>1, <2>2, GroupsFinite
    <2>4. Count("RP", Consumed) \in Nat
      BY <1>1, UptoConsumed, UptoNext DEF Tokenised
    <2>5. Count("LP", Consumed) > Count("RP", Consumed)
      BY <1>1, <2>3, <2>4 DEF Balanced
    <2>6. ~AtStart \/ Offender \in DEFOP
      BY <1>1, <1>3 DEF Knows, Ends, Misplaced, AtStart
    <2>7. "unclosed-group" \in Mistakes /\ Named("unclosed-group")
      BY <2>1, <2>5, <2>6 DEF Mistakes, Refusals, Named
    <2> QED  BY <1>1, <1>3, <2>7, Refusing
  <1>4. CASE Top.u = <<>> /\ pos' = pos /\ Returns("none")
    <2>1. Tokenised' /\ Before' = Before /\ Offender' = Offender /\ SameCounts
      BY <1>1, <1>4, Still
    <2>2. ~IsGroup(Top) /\ Top.node # <<>>
      BY <1>1, <1>4 DEF IsGroup, Ready
    <2>3. stack[Height - 1].rule = "elem" /\ stack[Height - 1].u = <<>>
      BY <1>1, WhatFollows DEF Waits
    <2>4. Before \in Ends
      BY <1>1, <1>4 DEF Knows
    <2>5. Knows("elem", "close", <<>>)'
      BY <2>1, <2>4 DEF Knows
    <2> QED  BY <1>1, <1>4, <2>1, <2>2, <2>3, <2>5, Returning
  <1> QED  BY <1>1, <1>2, <1>3, <1>4, AtomCloseStep

\* The alternative that needs a token is held back until it is read.
LEMMA Lexes ==
  ASSUME Inv, Lex
  PROVE  Inv'
  <1>1. /\ status = "reading" /\ pos' = pos /\ stack' = stack /\ status' = status
        /\ \E tkn \in Vocabulary \cup {EndOfSource} : src' = Append(src, tkn)
    BY DEF Lex
  <1>2. /\ Tokenised /\ Shape /\ Knows(Top.rule, Top.state, Top.u) /\ Balanced
        /\ \A i \in 1 .. Height : IsFrame(stack[i])
    BY <1>1, Now DEF Shape
  <1>3. /\ Tokenised' /\ Before' = Before /\ Consumed' = Consumed
        /\ Offender # "none" => Offender' = Offender
    BY <1>1, <1>2, Lexing
  <1>4. /\ Shape' /\ Top' = Top /\ OpenGroups' = OpenGroups
    BY <1>1, <1>2 DEF Shape, Top, Last, OpenGroups, Height
  <1>5. Balanced'
    BY <1>2, <1>3, <1>4 DEF Balanced, Count
  <1>6. PICK rule, state, u : rule = Top.rule /\ state = Top.state /\ u = Top.u
    OBVIOUS
  <1>7. /\ Offender \in Begins \cup DEFOP => Offender' = Offender
        /\ Offender \notin Postfix \cup {"none"} => Offender' = Offender
    BY <1>3 DEF Begins, DEFOP
  <1>8. Knows(rule, state, u)'
    <2>1. Knows(rule, state, u)
      BY <1>2, <1>6
    <2>2. /\ AtStart' = AtStart
          /\ After => After'
          /\ Misplaced => Misplaced'
      BY <1>3, <1>7 DEF AtStart, After, Misplaced
    <2> QED  BY <1>3, <1>7, <2>1, <2>2 DEF Knows
  <1>9. Knows(Top.rule, Top.state, Top.u)'
    BY <1>4, <1>6, <1>8
  <1>10. TypeOK'
    BY <1>1, <1>3 DEF Inv, TypeOK, Tokenised
  <1>11. NamesTheMistake'
    BY <1>1 DEF NamesTheMistake
  <1> QED  BY <1>4, <1>5, <1>9, <1>10, <1>11 DEF Inv

LEMMA Starts ==
  ASSUME Init
  PROVE  Inv
  <1>1. src = <<>> /\ pos = 0 /\ stack = <<New("ebnf")>> /\ status = "reading"
    BY DEF Init
  <1>2. /\ IsFrame(New("ebnf")) /\ New("ebnf").rule = "ebnf" /\ New("ebnf").state = "open" /\ Ready(New("ebnf"))
        /\ ~IsGroup(New("ebnf"))
    BY "ebnf" \in RuleNames, NewFields DEF RuleNames
  <1>3. Height = 1 /\ stack[1] = New("ebnf") /\ stack # <<>> /\ IsSeq(stack) /\ DOMAIN stack = {1}
    BY <1>1 DEF Height, IsSeq, Range
  <1>4. Top = New("ebnf")
    BY <1>3 DEF Top, Last, Height
  <1>5. Shape
    BY <1>2, <1>3 DEF Shape
  <1>6. Tokenised
    BY <1>1 DEF Tokenised
  <1>7. TypeOK
    BY <1>1, <1>2, <1>3, <1>6 DEF TypeOK, Tokenised
  <1>8. NamesTheMistake
    BY <1>1 DEF NamesTheMistake
  <1>9. Knows(Top.rule, Top.state, Top.u)
    BY <1>2, <1>4 DEF Knows
  <1>10. Balanced
    <2>1. OpenGroups = {}
      BY <1>2, <1>3 DEF OpenGroups
    <2>2. Cardinality(OpenGroups) = 0
      BY <2>1, FS_EmptySet
    <2>3. \A kind : Count(kind, Consumed) = 0
      <3> TAKE kind
      <3>1. Upto(kind, 0) = {}
        BY DEF Upto
      <3>2. Cardinality(Upto(kind, 0)) = 0
        BY <3>1, FS_EmptySet
      <3> QED  BY <1>1, <1>6, <3>2, UptoConsumed
    <2> QED  BY <2>2, <2>3 DEF Balanced
  <1> QED  BY <1>5, <1>7, <1>8, <1>9, <1>10 DEF Inv

LEMMA Keeps ==
  ASSUME Inv, [Next]_vars
  PROVE  Inv'
  <1>1. CASE Lex
    BY <1>1, Lexes
  <1>2. ASSUME NEW rule \in RuleNames, NEW state \in {"open", "close"}, Step(rule, state)
        PROVE  Inv'
    <2>1. CASE rule = "ebnf"
      BY <1>2, <2>1, EbnfOpens, EbnfCloses
    <2>2. CASE rule = "prod"
      BY <1>2, <2>2, ProdOpens, ProdCloses
    <2>3. CASE rule = "alts"
      BY <1>2, <2>3, AltsOpens, AltsCloses
    <2>4. CASE rule = "seq"
      BY <1>2, <2>4, SeqOpens, SeqCloses
    <2>5. CASE rule = "elem"
      BY <1>2, <2>5, ElemOpens, ElemCloses
    <2>6. CASE rule = "post"
      BY <1>2, <2>6, PostOpens, PostCloses
    <2>7. CASE rule = "atom"
      BY <1>2, <2>7, AtomOpens, AtomCloses
    <2> QED  BY <2>1, <2>2, <2>3, <2>4, <2>5, <2>6, <2>7 DEF RuleNames
  <1>3. CASE UNCHANGED vars
    <2>1. src' = src /\ pos' = pos /\ stack' = stack /\ status' = status
      BY <1>3 DEF vars
    <2>2. Before' = Before /\ Offender' = Offender /\ Consumed' = Consumed /\ Top' = Top /\ Height' = Height
      BY <2>1 DEF Before, Offender, Consumed, Top, Height
    <2> QED  BY <2>1, <2>2 DEF Inv, TypeOK, NamesTheMistake, Shape, Knows, Balanced, AtStart, After, Misplaced,
                              OpenGroups, Count
  <1> QED  BY <1>1, <1>2, <1>3 DEF Next

-----------------------------------------------------------------------------
(* The theorems.                                                            *)

\* Whatever the source, every rule on the stack is on the rule that may hold it, each
\* rule below the top waits in its close state, and as many groups are open as there
\* are parentheses not closed; what the rule on top takes for granted of the tokens
\* around it is so.
THEOREM StackIsSound == Spec => []Inv
  <1>1. Init => Inv
    BY Starts
  <1>2. Inv /\ [Next]_vars => Inv'
    BY Keeps
  <1> QED  BY <1>1, <1>2, PTL DEF Spec

\* The types of the reader's state, and who may be whose parent (EbnfReader!TypeOK):
\* every bc hook of the table appends to the array of the rule it means.
THEOREM ReaderTypes == Spec => []TypeOK
  <1>1. Inv => TypeOK
    BY DEF Inv
  <1> QED  BY <1>1, StackIsSound, PTL

\* A diagnostic that names a construct is given for that construct, and where an
\* expression is being read the operators of ISO 14977 are refused by name
\* (EbnfReader!NamesTheMistake): for sources of every length.
THEOREM MistakesAreNamed == Spec => []NamesTheMistake
  <1>1. Inv => NamesTheMistake
    BY DEF Inv
  <1> QED  BY <1>1, StackIsSound, PTL

-----------------------------------------------------------------------------
(* Reading moves on.                                                        *)

Distance(next) == IF next \in DEFOP THEN 0 ELSE 20

LEMMA AheadIs ==
  ASSUME NEW f, NEW next
  PROVE  /\ f.state = "open" => /\ f.rule = "ebnf" => Ahead(f, next) = 6
                                /\ f.rule = "prod" => Ahead(f, next) = 1
                                /\ f.rule = "alts" => Ahead(f, next) = 16
                                /\ f.rule = "seq" => Ahead(f, next) = 11
                                /\ f.rule = "elem" => Ahead(f, next) = 6
                                /\ f.rule = "atom" => Ahead(f, next) = 1
                                /\ f.rule = "post" => Ahead(f, next) = Distance(next) + 2
         /\ f.state = "close" => /\ f.rule = "post" => Ahead(f, next) = Distance(next) + 1
                                 /\ f.rule \in {"elem", "atom"} /\ f.u # <<>> => Ahead(f, next) = Distance(next) + 0
                                 /\ f.rule = "elem" /\ f.u = <<>> => Ahead(f, next) = Distance(next) + 7
                                 /\ f.rule = "atom" /\ f.u = <<>> => Ahead(f, next) = Distance(next) + 4
                                 /\ f.rule \in {"ebnf", "prod", "alts", "seq"} =>
                                      Ahead(f, next) = Distance(next) + 0
  BY DEF Ahead, Distance

\* A step of a rule that consumes nothing.
Idle(rule, state) ==
  Inv /\ Inv' /\ Step(rule, state) /\ status' = "reading" /\ pos' = pos

LEMMA IdleAt ==
  ASSUME NEW rule, NEW state, Idle(rule, state)
  PROVE  /\ Frames /\ Top.rule = rule /\ Top.state = state /\ Tokenised /\ Height \in Nat \ {0}
         /\ Top.rule \in RuleNames /\ Ready(Top)
         /\ rule # "ebnf" => Height > 1 /\ Follows(stack[Height - 1], Top) /\ Waits(stack[Height - 1], Top)
         /\ Rank = 4 * Height + Ahead(Top, Offender)
         /\ Distance(Offender) \in {0, 20}
         /\ pos' # pos + 1 /\ pos' # pos + 2
         /\ \A why : Refuses(why) => why = "reading"
         /\ ~Misread
  <1>1. /\ Frames /\ Top.rule = rule /\ Top.state = state /\ Tokenised /\ Height \in Nat \ {0} /\ Ready(Top)
        /\ rule # "ebnf" => Height > 1 /\ Follows(stack[Height - 1], Top) /\ Waits(stack[Height - 1], Top)
    BY At DEF Idle
  <1>2. Top.rule \in RuleNames
    <2>1. Height \in 1 .. Height /\ Top = stack[Height] /\ Shape
      BY <1>1, At DEF Idle
    <2> QED  BY <2>1 DEF Shape, IsFrame
  <1>3. \A why : Refuses(why) => why = "reading"
    BY DEF Refuses, Idle
  <1>4. ~Misread
    BY <1>3 DEF Misread
  <1>5. pos' # pos + 1 /\ pos' # pos + 2
    BY <1>1 DEF Idle, Tokenised
  <1> QED  BY <1>1, <1>2, <1>3, <1>4, <1>5 DEF Rank, Height, Distance

\* Where it leads.
LEMMA IdleTo ==
  ASSUME NEW rule, NEW state, Idle(rule, state)
  PROVE  Rank' = 4 * Len(stack') + Ahead(stack'[Len(stack')], Offender)
  <1>1. src' = src /\ pos' = pos /\ Shape'
    BY DEF Idle, Step, Inv
  <1>2. Offender' = Offender
    BY <1>1 DEF Offender
  <1>3. Top' = stack'[Len(stack')]
    BY <1>1 DEF Shape, Top, Last, Height
  <1> QED  BY <1>2, <1>3 DEF Rank

LEMMA IdlePush ==
  ASSUME NEW rule, NEW state, Idle(rule, state), NEW a, NEW child \in RuleNames, Pushes(a, child)
  PROVE  /\ Rank' = 4 * (Height + 1) + Ahead(New(child), Offender)
         /\ New(child).rule = child /\ New(child).state = "open" /\ New(child).u = <<>>
  <1>1. Len(stack') = Height + 1 /\ stack'[Height + 1] = New(child)
    BY DEF Pushes
  <1> QED  BY <1>1, IdleTo, NewFields

LEMMA IdleStay ==
  ASSUME NEW rule, NEW state, Idle(rule, state), Stays("none")
  PROVE  \E g : /\ Rank' = 4 * Height + Ahead(g, Offender)
                /\ g.rule = rule /\ g.state = "close" /\ g.u = Top.u
  <1>1. Len(stack') = Height /\ ActedBy("none", stack'[Height]) /\ Top.rule = rule
    BY IdleAt DEF Stays
  <1>2. stack'[Height].rule = rule /\ stack'[Height].state = "close" /\ stack'[Height].u = Top.u
    BY <1>1 DEF ActedBy
  <1> QED  BY <1>1, <1>2, IdleTo

LEMMA IdleReturn ==
  ASSUME NEW rule, NEW state, Idle(rule, state), rule # "ebnf", NEW a, Returns(a)
  PROVE  \E g : /\ Rank' = 4 * (Height - 1) + Ahead(g, Offender)
                /\ g.rule = stack[Height - 1].rule /\ g.state = "close" /\ g.u = stack[Height - 1].u
  <1>1. Height > 1 /\ Waits(stack[Height - 1], Top) /\ Height \in Nat \ {0}
    BY IdleAt
  <1>2. Len(stack') = Height - 1 /\ \E node : GivenBack(stack'[Height - 1], stack[Height - 1], node)
    BY <1>1 DEF Returns
  <1>3. /\ stack'[Height - 1].rule = stack[Height - 1].rule /\ stack'[Height - 1].state = "close"
        /\ stack'[Height - 1].u = stack[Height - 1].u
    BY <1>1, <1>2 DEF GivenBack, Waits
  <1> QED  BY <1>2, <1>3, IdleTo

LEMMA RulesMoveOn ==
  ASSUME NEW rule \in RuleNames, NEW state \in {"open", "close"}, Idle(rule, state)
  PROVE  Rank' < Rank
  <1>1. /\ Frames /\ Top.rule = rule /\ Top.state = state /\ Tokenised /\ Height \in Nat \ {0}
        /\ Top.rule \in RuleNames /\ Ready(Top)
        /\ rule # "ebnf" => Height > 1 /\ Follows(stack[Height - 1], Top) /\ Waits(stack[Height - 1], Top)
        /\ Rank = 4 * Height + Ahead(Top, Offender)
        /\ Distance(Offender) \in {0, 20}
        /\ pos' # pos + 1 /\ pos' # pos + 2
        /\ \A why : Refuses(why) => why = "reading"
        /\ ~Misread
    BY IdleAt
  <1>2. Step(rule, state)
    BY DEF Idle
  <1>3. CASE rule = "ebnf" /\ state = "open"
    <2>1. Pushes("none", "prod") /\ "prod" \in RuleNames
      BY <1>1, <1>2, <1>3, EbnfOpenStep DEF RuleNames
    <2>2. Rank' = 4 * (Height + 1) + 1
      BY <2>1, IdlePush, AheadIs
    <2>3. Rank = 4 * Height + 6
      BY <1>1, <1>3, AheadIs
    <2> QED  BY <1>1, <2>2, <2>3
  <1>4. ~(rule = "ebnf" /\ state = "close")
    <2>1. ~Refuses("syntax")
      BY <1>1
    <2> QED  BY <1>1, <1>2, <2>1, EbnfCloseStep
  <1>5. ~(rule = "prod" /\ state = "open")
    <2>1. ~Refuses("syntax")
      BY <1>1
    <2> QED  BY <1>1, <1>2, <2>1, ProdOpenStep
  <1>6. CASE rule = "prod" /\ state = "close"
    <2>1. Rank = 4 * Height + Distance(Offender)
      <3>1. Rank = 4 * Height + (Distance(Offender) + 0)
        BY <1>1, <1>6, AheadIs
      <3> QED  BY <1>1, <3>1
    <2>2. CASE Sees(1, {"TX"}) /\ Replaces("prod")
      <3>1. Distance(Offender) = 20
        <4>1. Offender = "TX"
          BY <1>1, <2>2, InSightNext
        <4> QED  BY <4>1 DEF Distance, DEFOP
      <3>2. Len(stack') = Height /\ stack'[Height] = New("prod") /\ New("prod").rule = "prod" /\ New("prod").state = "open"
        BY <1>1, <1>6, <2>2, NewFields DEF Replaces
      <3>3. Rank' = 4 * Height + 1
        BY <3>2, IdleTo, AheadIs
      <3> QED  BY <1>1, <2>1, <3>1, <3>3
    <2>3. CASE Returns("none")
      <3>1. stack[Height - 1].rule = "ebnf"
        BY <1>1, <1>6, WhatFollows
      <3>2. Rank' = 4 * (Height - 1) + (Distance(Offender) + 0)
        BY <1>6, <2>3, <3>1, IdleReturn, AheadIs
      <3> QED  BY <1>1, <2>1, <3>2
    <2> QED  BY <1>1, <1>2, <1>6, <2>2, <2>3, ProdCloseStep
  <1>7. CASE rule = "alts" /\ state = "open"
    <2>1. Pushes("none", "seq") /\ "seq" \in RuleNames
      BY <1>1, <1>2, <1>7, AltsOpenStep DEF RuleNames
    <2>2. Rank' = 4 * (Height + 1) + 11
      BY <2>1, IdlePush, AheadIs
    <2>3. Rank = 4 * Height + 16
      BY <1>1, <1>7, AheadIs
    <2> QED  BY <1>1, <2>2, <2>3
  <1>8. CASE rule = "alts" /\ state = "close"
    <2>1. Rank = 4 * Height + (Distance(Offender) + 0)
      BY <1>1, <1>8, AheadIs
    <2>2. Returns("none")
      BY <1>1, <1>2, <1>8, AltsCloseStep
    <2>3. /\ stack[Height - 1].rule \in {"prod", "atom"}
          /\ stack[Height - 1].rule = "atom" => stack[Height - 1].u # <<>>
      BY <1>1, <1>8, WhatFollows DEF Waits
    <2>4. Rank' = 4 * (Height - 1) + (Distance(Offender) + 0)
      BY <1>8, <2>2, <2>3, IdleReturn, AheadIs
    <2> QED  BY <1>1, <2>1, <2>4
  <1>9. CASE rule = "seq" /\ state = "open"
    <2>1. Rank = 4 * Height + 11
      BY <1>1, <1>9, AheadIs
    <2>2. CASE Pushes("none", "elem")
      <3>1. "elem" \in RuleNames
        BY DEF RuleNames
      <3>2. Rank' = 4 * (Height + 1) + 6
        BY <2>2, <3>1, IdlePush, AheadIs
      <3> QED  BY <1>1, <2>1, <3>2
    <2>3. CASE /\ SeesOther(1, {"ALT", "RP", "SC", "ZZ", "CA", "ST", "CC", "HX", "TX", "LP", "QM", "SUB", "OB",
                                "CB", "OS", "CS", "STAR", "PLUS"})
               /\ Stays("none")
      <3>1. Distance(Offender) = 0
        <4>1. Offender \in DEFOP
          BY <1>1, <2>3, InSightNext DEF Kinds, FixedKinds, DEFOP
        <4> QED  BY <4>1 DEF Distance
      <3>2. Rank' = 4 * Height + (Distance(Offender) + 0)
        BY <1>9, <2>3, IdleStay, AheadIs
      <3> QED  BY <1>1, <2>1, <3>1, <3>2
    <2> QED  BY <1>1, <1>2, <1>9, <2>2, <2>3, SeqOpenStep
  <1>10. CASE rule = "seq" /\ state = "close"
    <2>1. Rank = 4 * Height + (Distance(Offender) + 0)
      BY <1>1, <1>10, AheadIs
    <2>2. CASE Sees(1, {"ST", "CC", "HX", "TX", "LP"}) /\ Pushes("none", "elem")
      <3>1. Distance(Offender) = 20
        <4>1. Offender \in {"ST", "CC", "HX", "TX", "LP"}
          BY <1>1, <2>2, InSightNext
        <4> QED  BY <4>1 DEF Distance, DEFOP
      <3>2. "elem" \in RuleNames
        BY DEF RuleNames
      <3>3. Rank' = 4 * (Height + 1) + 6
        BY <2>2, <3>2, IdlePush, AheadIs
      <3> QED  BY <1>1, <2>1, <3>1, <3>3
    <2>3. CASE Returns("none")
      <3>1. stack[Height - 1].rule = "alts"
        BY <1>1, <1>10, WhatFollows
      <3>2. Rank' = 4 * (Height - 1) + (Distance(Offender) + 0)
        BY <1>10, <2>3, <3>1, IdleReturn, AheadIs
      <3> QED  BY <1>1, <2>1, <3>2
    <2> QED  BY <1>1, <1>2, <1>10, <2>2, <2>3, SeqCloseStep
  <1>11. CASE rule = "elem" /\ state = "open"
    <2>1. Pushes("none", "atom") /\ "atom" \in RuleNames
      BY <1>1, <1>2, <1>11, ElemOpenStep DEF RuleNames
    <2>2. Rank' = 4 * (Height + 1) + 1
      BY <2>1, IdlePush, AheadIs
    <2>3. Rank = 4 * Height + 6
      BY <1>1, <1>11, AheadIs
    <2> QED  BY <1>1, <2>2, <2>3
  <1>12. CASE rule = "elem" /\ state = "close"
    <2>1. CASE Top.u = <<>> /\ Pushes("got", "post")
      <3>1. "post" \in RuleNames
        BY DEF RuleNames
      <3>2. Rank' = 4 * (Height + 1) + (Distance(Offender) + 2)
        BY <2>1, <3>1, IdlePush, AheadIs
      <3>3. Rank = 4 * Height + (Distance(Offender) + 7)
        BY <1>1, <1>12, <2>1, AheadIs
      <3> QED  BY <1>1, <3>2, <3>3
    <2>2. CASE Top.u # <<>> /\ Returns("none")
      <3>1. stack[Height - 1].rule = "seq"
        BY <1>1, <1>12, WhatFollows
      <3>2. Rank' = 4 * (Height - 1) + (Distance(Offender) + 0)
        BY <1>12, <2>2, <3>1, IdleReturn, AheadIs
      <3>3. Rank = 4 * Height + (Distance(Offender) + 0)
        BY <1>1, <1>12, <2>2, AheadIs
      <3> QED  BY <1>1, <3>2, <3>3
    <2> QED  BY <1>1, <1>2, <1>12, <2>1, <2>2, ElemCloseStep
  <1>13. CASE rule = "post" /\ state = "open"
    <2>1. Stays("none")
      BY <1>1, <1>2, <1>13, PostOpenStep
    <2>2. Rank' = 4 * Height + (Distance(Offender) + 1)
      BY <1>13, <2>1, IdleStay, AheadIs
    <2>3. Rank = 4 * Height + (Distance(Offender) + 2)
      BY <1>1, <1>13, AheadIs
    <2> QED  BY <1>1, <2>2, <2>3
  <1>14. CASE rule = "post" /\ state = "close"
    <2>1. Returns("none")
      BY <1>1, <1>2, <1>14, PostCloseStep
    <2>2. /\ stack[Height - 1].rule \in {"elem", "post"}
          /\ stack[Height - 1].rule = "elem" => stack[Height - 1].u # <<>>
      BY <1>1, <1>14, WhatFollows DEF Waits
    <2>3. \/ Rank' = 4 * (Height - 1) + (Distance(Offender) + 0)
          \/ Rank' = 4 * (Height - 1) + (Distance(Offender) + 1)
      BY <1>14, <2>1, <2>2, IdleReturn, AheadIs
    <2>4. Rank = 4 * Height + (Distance(Offender) + 1)
      BY <1>1, <1>14, AheadIs
    <2> QED  BY <1>1, <2>3, <2>4
  <1>15. ~(rule = "atom" /\ state = "open" /\ ~ \E a : Stays(a) /\ pos' = pos + 1)
    <2>1. ~Refuses("special-sequence") /\ ~Refuses("subtraction") /\ ~Refuses("ISO-repetition")
          /\ ~Refuses("stray-bracket") /\ ~Refuses("syntax")
      BY <1>1
    <2> QED  BY <1>1, <1>2, <2>1, AtomOpenStep
  <1>16. CASE rule = "atom" /\ state = "close"
    <2>1. ~Refuses("unclosed-group")
      BY <1>1
    <2>2. Top.u = <<>> /\ Returns("none")
      BY <1>1, <1>2, <1>16, <2>1, AtomCloseStep
    <2>3. stack[Height - 1].rule = "elem" /\ stack[Height - 1].u = <<>>
      BY <1>1, <1>16, WhatFollows DEF Waits
    <2>4. Rank' = 4 * (Height - 1) + (Distance(Offender) + 7)
      BY <1>16, <2>2, <2>3, IdleReturn, AheadIs
    <2>5. Rank = 4 * Height + (Distance(Offender) + 4)
      BY <1>1, <1>16, <2>2, AheadIs
    <2> QED  BY <1>1, <2>4, <2>5
  <1> QED  BY <1>1, <1>3, <1>4, <1>5, <1>6, <1>7, <1>8, <1>9, <1>10, <1>11, <1>12, <1>13, <1>14, <1>15, <1>16
           DEF RuleNames

\* A step that neither consumes a token nor asks for one lowers Rank, a natural number
\* (EbnfReader!MovesOn), whatever the source: no rule is pushed, replaced or closed
\* again for ever.
THEOREM ReadingMovesOn == Spec => MovesOn
  <1>1. ASSUME Inv, Inv', [Next]_vars
        PROVE  [status' = "reading" /\ pos' = pos /\ src' = src => Rank' < Rank]_vars
    <2>1. SUFFICES ASSUME ~UNCHANGED vars, status' = "reading", pos' = pos, src' = src
                   PROVE  Rank' < Rank
      OBVIOUS
    <2>2. CASE Lex
      <3>1. src \in Seq(Vocabulary \cup {EndOfSource}) /\ \E tkn : src' = Append(src, tkn)
        BY <1>1, <2>2 DEF Lex, Inv, TypeOK
      <3>2. Len(src') = Len(src) + 1 /\ Len(src) \in Nat
        BY <3>1
      <3> QED  BY <2>1, <3>2
    <2>3. CASE status # "reading"
      BY <1>1, <2>1, <2>3 DEF Next, Lex, Step
    <2>4. ASSUME NEW rule \in RuleNames, NEW state \in {"open", "close"}, Step(rule, state)
          PROVE  Rank' < Rank
      BY <1>1, <2>1, <2>4, RulesMoveOn DEF Idle
    <2> QED  BY <1>1, <2>1, <2>2, <2>3, <2>4 DEF Next
  <1> QED  BY <1>1, StackIsSound, PTL DEF Spec, MovesOn

-----------------------------------------------------------------------------
(* The operators around an element.                                         *)

\* g is el with the first 0, 1, ..., m of ops around it.
Wraps(g, m, el, ops) == g = [k \in 0 .. m |-> IF k = 0 THEN el ELSE <<ops[k], g[k - 1]>>]

LEMMA WrappingOne ==
  ASSUME NEW el, NEW ops, NEW m \in Nat
  PROVE  \E g : Wraps(g, m, el, ops)
  <1> DEFINE I == {n \in Nat : \E g : Wraps(g, n, el, ops)}
  <1>1. 0 \in I
    <2> DEFINE g == [k \in 0 .. 0 |-> el]
    <2>0. \A k \in 0 .. 0 : k = 0
      OBVIOUS
    <2>1. g = [k \in 0 .. 0 |-> IF k = 0 THEN el ELSE <<ops[k], g[k - 1]>>]
      BY <2>0, Zenon
    <2> QED  BY <2>1, Zenon DEF Wraps
  <1>2. ASSUME NEW n \in I
        PROVE  n + 1 \in I
    <2>1. PICK g : Wraps(g, n, el, ops)
      OBVIOUS
    <2> DEFINE Nth(v, k) == <<ops[k], v>>
               h == [k \in 0 .. n + 1 |-> IF k = n + 1 THEN Nth(g[n], n + 1) ELSE g[k]]
    <2>2. ASSUME NEW k \in 0 .. n + 1
          PROVE  h[k] = IF k = 0 THEN el ELSE Nth(h[k - 1], k)
      <3>1. CASE k = n + 1
        <4>1. k - 1 \in 0 .. n + 1 /\ k - 1 # n + 1 /\ k # 0 /\ k - 1 = n
          BY <3>1
        <4> HIDE DEF Nth
        <4>2. h[k] = Nth(g[n], n + 1)
          BY <3>1, Zenon
        <4>3. h[k - 1] = g[k - 1]
          BY <4>1, Zenon
        <4> QED  BY <4>1, <4>2, <4>3, <3>1, Zenon
      <3>2. CASE k # n + 1
        <4>1. k \in 0 .. n /\ (k # 0 => k - 1 \in 0 .. n + 1 /\ k - 1 # n + 1)
          BY <3>2
        <4>2. h[k] = g[k]
          BY <3>2, Zenon
        <4>3. g[k] = IF k = 0 THEN el ELSE Nth(g[k - 1], k)
          BY <2>1, <4>1, Zenon DEF Wraps
        <4>4. k # 0 => h[k - 1] = g[k - 1]
          <5> HIDE DEF Nth
          <5> QED  BY <4>1, Zenon
        <4> HIDE DEF Nth
        <4> QED  BY <4>2, <4>3, <4>4, Zenon
      <3> QED  BY <3>1, <3>2, Zenon
    <2>3. h = [k \in 0 .. n + 1 |-> IF k = 0 THEN el ELSE Nth(h[k - 1], k)]
      <3> HIDE DEF h, Nth
      <3> SUFFICES h = [k \in 0 .. n + 1 |-> h[k]]
        BY <2>2, Zenon
      <3> QED  BY Zenon DEF h
    <2>4. Wraps(h, n + 1, el, ops) /\ n + 1 \in Nat
      <3> HIDE DEF h
      <3>1. Wraps(h, n + 1, el, ops)
        BY <2>3, Zenon DEF Wraps
      <3> QED  BY <3>1
    <2> QED  BY <2>4, Zenon
  <1> HIDE DEF I
  <1>3. I = Nat
    <2>1. I \in SUBSET Nat
      BY DEF I
    <2> QED  BY <1>1, <1>2, <2>1, AllNaturals
  <1> QED  BY <1>3 DEF I

LEMMA WrappedIs ==
  ASSUME NEW el, NEW ops, Len(ops) \in Nat
  PROVE  \E g : Wraps(g, Len(ops), el, ops) /\ Wrapped(el, ops) = g[Len(ops)]
  <1> DEFINE g == CHOOSE g : Wraps(g, Len(ops), el, ops)
  <1>1. Wraps(g, Len(ops), el, ops)
    BY WrappingOne, Zenon
  <1>2. Wrapped(el, ops) = g[Len(ops)]
    BY Zenon DEF Wrapped, Wraps
  <1> QED  BY <1>1, <1>2, Zenon

LEMMA WrappedNone ==
  ASSUME NEW el
  PROVE  Wrapped(el, <<>>) = el
  <1>1. Len(<<>>) = 0 /\ 0 \in 0 .. 0
    OBVIOUS
  <1>2. PICK g : Wraps(g, Len(<<>>), el, <<>>) /\ Wrapped(el, <<>>) = g[Len(<<>>)]
    BY <1>1, WrappedIs
  <1> QED  BY <1>1, <1>2, Zenon DEF Wraps

\* The first operator is the innermost.
LEMMA WrappedFirst ==
  ASSUME NEW el, NEW op, NEW ops, IsSeq(ops)
  PROVE  Wrapped(el, <<op>> \o ops) = Wrapped(<<op, el>>, ops)
  <1> DEFINE all == <<op>> \o ops
             in == <<op, el>>
  <1> SUFFICES ASSUME NEW n \in Nat, n = Len(ops), NEW j \in Nat, j = n + 1
               PROVE  Wrapped(el, all) = Wrapped(in, ops)
    BY DEF IsSeq
  <1>1. Len(all) = j /\ all[1] = op /\ \A i \in 1 .. n : \A k \in Nat : k = i + 1 => all[k] = ops[i]
    BY DEF IsSeq
  <1> HIDE DEF all
  <1>2. PICK g : Wraps(g, n, in, ops) /\ Wrapped(in, ops) = g[n]
    BY WrappedIs
  <1>3. PICK h : Wraps(h, j, el, all) /\ Wrapped(el, all) = h[j]
    BY <1>1, WrappedIs
  <1> DEFINE I == {i \in Nat : i <= n => \A k \in Nat : k = i + 1 => g[i] = h[k]}
  <1>4. 0 \in I
    <2> SUFFICES ASSUME NEW k \in Nat, k = 1  PROVE g[0] = h[k]
      OBVIOUS
    <2>1. 0 \in 0 .. n /\ 0 \in 0 .. j /\ 1 \in 0 .. j /\ 1 # 0 /\ 1 - 1 = 0
      OBVIOUS
    <2>2. g[0] = in /\ h[0] = el
      BY <1>2, <1>3, <2>1, Zenon DEF Wraps
    <2>3. h[1] = <<all[1], h[1 - 1]>>
      BY <1>3, <2>1, Zenon DEF Wraps
    <2> QED  BY <1>1, <2>1, <2>2, <2>3
  <1>5. ASSUME NEW i \in I  PROVE i + 1 \in I
    <2> SUFFICES ASSUME NEW k \in Nat, k = i + 1, k <= n, NEW m \in Nat, m = k + 1
                 PROVE  g[k] = h[m]
      OBVIOUS
    <2>1. /\ k # 0 /\ k - 1 = i /\ m # 0 /\ m - 1 = k /\ k \in 0 .. n /\ m \in 0 .. j /\ g[i] = h[k] /\ all[m] = ops[k]
      BY <1>1
    <2>2. g[k] = <<ops[k], g[k - 1]>>
      BY <1>2, <2>1, Zenon DEF Wraps
    <2>3. h[m] = <<all[m], h[m - 1]>>
      BY <1>3, <2>1, Zenon DEF Wraps
    <2> QED  BY <2>1, <2>2, <2>3, Zenon
  <1> HIDE DEF I, in
  <1>6. I = Nat
    <2>1. I \in SUBSET Nat
      BY DEF I
    <2> QED  BY <1>4, <1>5, <2>1, AllNaturals
  <1>7. n \in I
    BY <1>6
  <1>8. g[n] = h[j]
    BY <1>7 DEF I
  <1> QED  BY <1>2, <1>3, <1>8, Zenon DEF in

\* v are the operators ops: behind an element, they make the element in them.
AreOperators(v, ops) ==
  IsSeq(ops) /\ \A w, x : IsElem(w, x) => IsElem(Cat(w, v), Wrapped(x, ops))

LEMMA NoOperators == AreOperators(<<>>, <<>>)
  <1>1. IsSeq(<<>>)
    BY DEF IsSeq
  <1>2. ASSUME NEW w, NEW x, IsElem(w, x)  PROVE IsElem(Cat(w, <<>>), Wrapped(x, <<>>))
    <2>1. w \in Words
      BY <1>2, PhraseIsWord
    <2>2. Cat(w, <<>>) = w /\ Wrapped(x, <<>>) = x
      BY <2>1, CatLaws, WrappedNone
    <2> QED  BY <1>2, <2>2
  <1> QED  BY <1>1, <1>2 DEF AreOperators

LEMMA MoreOperators ==
  ASSUME NEW op \in Written({"QM", "STAR", "PLUS"}), NEW v \in Words, NEW ops, AreOperators(v, ops)
  PROVE  AreOperators(Cat(<<op>>, v), <<Operator(Kind(op))>> \o ops)
  <1> DEFINE o == Operator(Kind(op))
             all == <<o>> \o ops
             u == Cat(<<op>>, v)
  <1>1. IsSeq(all)
    <2> HIDE DEF o
    <2>1. ops \in Seq(Range(ops) \cup {o}) /\ <<o>> \in Seq(Range(ops) \cup {o})
      BY DEF AreOperators, IsSeq
    <2>2. all \in Seq(Range(ops) \cup {o})
      BY <2>1
    <2> HIDE DEF all
    <2> QED  BY <2>2, SeqOfRange DEF IsSeq
  <1>2. ASSUME NEW w, NEW x, IsElem(w, x)  PROVE IsElem(Cat(w, u), Wrapped(x, all))
    <2>1. w \in Words /\ <<op>> \in Words
      BY <1>2, PhraseIsWord, WrittenIsWord
    <2>2. Cat(w, u) = Cat(Cat(w, <<op>>), v)
      BY <2>1, CatLaws
    <2>3. IsElem(Cat(w, <<op>>), <<o, x>>)
      BY <1>2, ElemRules
    <2>4. Wrapped(x, all) = Wrapped(<<o, x>>, ops)
      <3> HIDE DEF o
      <3> QED  BY WrappedFirst DEF AreOperators
    <2> HIDE DEF o, all, u
    <2>5. IsElem(Cat(Cat(w, <<op>>), v), Wrapped(<<o, x>>, ops))
      BY <2>3, Zenon DEF AreOperators
    <2> QED  BY <2>2, <2>4, <2>5
  <1> HIDE DEF all, u
  <1>3. AreOperators(u, all)
    BY <1>1, <1>2, Zenon DEF AreOperators
  <1> QED  BY <1>3 DEF u, all

-----------------------------------------------------------------------------
(* The steps again, and this time what they leave, to the letter.           *)

\* The stack as the hook of its top rule leaves it.
Readied == IF Top.state = "close" THEN AfterBc ELSE stack

\* Taking an alternative that does not throw.
Moves(alt, stk) ==
  /\ status = "reading" /\ src' = src /\ IsSeq(stack')
  /\ Agrees(alt, Top) /\ InSight(alt) /\ Throws(alt, Seen(alt)) = "no" /\ pos' = Tokens(alt)
  /\ \/ alt.p # "none" /\ Pushed(stk, Closed(alt, stk), alt.p) /\ status' = "reading"
     \/ alt.p = "none" /\ alt.r # "none" /\ Topped(stk, New(alt.r)) /\ status' = "reading"
     \/ /\ alt.p = "none" /\ alt.r = "none" /\ Top.state = "open"
        /\ Topped(stk, Closed(alt, stk)) /\ status' = "reading"
     \/ /\ alt.p = "none" /\ alt.r = "none" /\ Top.state # "open"
        /\ Len(stk) > 1 /\ Left(stk, Closed(alt, stk)) /\ status' = "reading"
     \/ /\ alt.p = "none" /\ alt.r = "none" /\ Top.state # "open"
        /\ Len(stk) = 1 /\ stack' = <<>> /\ status' = "parsed" /\ out' = stk[1].node[1]

LEMMA ThrowsIs ==
  ASSUME NEW alt, NEW tkn
  PROVE  Throws(alt, tkn) = "no" \/ Throws(alt, tkn) \notin {"reading", "parsed"}
  <1>1. "reading" \notin Refusals /\ "parsed" \notin Refusals
    BY DEF Refusals
  <1> QED  BY <1>1 DEF Throws

LEMMA MovesOnOne ==
  ASSUME Frames, NEW rule \in RuleNames, NEW state \in {"open", "close"}, Step(rule, state), Len(Alternatives) \in Nat,
         \A i \in 1 .. Len(Alternatives) : Legal(Alternatives[i]), status' \in {"reading", "parsed"}
  PROVE  /\ Top.rule = rule /\ Top.state = state
         /\ \E i \in 1 .. Len(Alternatives) : Moves(Alternatives[i], Readied) /\ Alternatives[i].a \notin Refusals
  <1> DEFINE alt == Alternatives[Choice]
             stk == Readied
  <1>1. /\ status = "reading" /\ src' = src /\ Top.rule = rule /\ Top.state = state /\ ~NeedsToken
        /\ Choice = 0 => status' = "syntax"
        /\ Choice # 0 => Take(alt, stk)
    BY DEF Step, Readied
  <1>2. IsSeq(stk) /\ stk # <<>> /\ pos \in Nat
    <2>1. Like(stk)
      BY StackIsLike, AfterBcIsLike DEF Readied
    <2>2. Height \in Nat \ {0}
      BY DEF Frames, Height, IsSeq
    <2> QED  BY <2>1, <2>2 DEF Like, Frames
  <1>3. Choice # 0
    BY <1>1
  <1>4. Choice \in 1 .. Len(Alternatives) /\ Agrees(alt, Top)
    BY <1>3, ChoiceIsFirst
  <1>5. InSight(alt) /\ Legal(alt)
    BY <1>1, <1>3, <1>4 DEF NeedsToken
  <1> HIDE DEF alt, stk
  <1>6. Take(alt, stk) /\ Len(alt.s) \in Nat
    BY <1>1, <1>3, <1>5 DEF Legal
  <1>7. /\ Throws(alt, Seen(alt)) = "no" /\ pos' = Tokens(alt) /\ IsSeq(stack')
        /\ \/ alt.p # "none" /\ Pushed(stk, Closed(alt, stk), alt.p) /\ GoesOn
           \/ alt.p = "none" /\ alt.r # "none" /\ Topped(stk, New(alt.r)) /\ GoesOn
           \/ alt.p = "none" /\ alt.r = "none" /\ Top.state = "open" /\ Topped(stk, Closed(alt, stk)) /\ GoesOn
           \/ /\ alt.p = "none" /\ alt.r = "none" /\ Top.state # "open"
              /\ Len(stk) > 1 /\ Left(stk, Closed(alt, stk)) /\ GoesOn
           \/ /\ alt.p = "none" /\ alt.r = "none" /\ Top.state # "open"
              /\ Len(stk) = 1 /\ stack' = <<>> /\ status' = "parsed"
    <2>1. ~Refuses(Throws(alt, Seen(alt))) \/ Throws(alt, Seen(alt)) = "no"
      BY ThrowsIs DEF Refuses
    <2> QED  BY <1>2, <1>6, <2>1, Taking DEF Tokens
  <1>8. stack' = <<>> => out' = stk[1].node[1]
    BY <1>6, <1>7 DEF Take, Seen
  <1>9. alt.a \notin Refusals
    <2>1. "no" \notin Refusals
      BY DEF Refusals
    <2> QED  BY <1>7, <2>1 DEF Throws
  <1>10. Moves(alt, stk)
    BY <1>1, <1>4, <1>5, <1>7, <1>8 DEF Moves, GoesOn
  <1> QED  BY <1>1, <1>4, <1>9, <1>10 DEF alt, stk

\* f is the rule top after the action a on the token tkn.
Done(f, top, a, tkn) ==
  /\ IsFrame(f) /\ f.rule = top.rule /\ f.state = "close" /\ f.child = top.child
  /\ a = "none" => f.u = top.u /\ f.node = top.node
  /\ a = "name" => f.u = <<Text(tkn)>> /\ f.node = top.node
  /\ a \in {"term", "regex", "ref"} => f.u = top.u /\ f.node = << <<a, Text(tkn)>> >>
  /\ a = "code-point" => f.u = top.u /\ f.node = << <<"term", "code-point">> >>
  /\ a = "open-group" => f.u = <<"group">> /\ f.node = top.node
  /\ a = "close-group" => f.u = top.u /\ f.node = << <<"group", top.child[1]>> >>
  /\ a = "got" => f.u = top.child /\ f.node = top.node
  /\ a \in {"opt", "star", "plus"} => f.u = top.u /\ f.node = <<Append(top.node[1], a)>>

LEMMA ClosedFields ==
  ASSUME NEW alt, NEW stk, NEW f, f = stk[Len(stk)], IsFrame(f)
  PROVE  Done(Closed(alt, stk), f, alt.a, Seen(alt))
  <1> PICK tkn : tkn = Seen(alt)
    OBVIOUS
  <1> PICK c : c = Closed(alt, stk)
    OBVIOUS
  <1> SUFFICES Done(c, f, alt.a, tkn)
    OBVIOUS
  <1> DEFINE a == alt.a
             g == Act(alt, f, tkn)
  <1>1. c = WithState(g)
    BY DEF Closed
  <1>2. ASSUME NEW x, g = WithU(f, x)
        PROVE  IsFrame(g) /\ g.rule = f.rule /\ g.child = f.child /\ g.u = x /\ g.node = f.node
    BY <1>2, UFields
  <1>3. ASSUME NEW x, g = WithNode(f, x)
        PROVE  IsFrame(g) /\ g.rule = f.rule /\ g.child = f.child /\ g.u = f.u /\ g.node = x
    BY <1>3, NodeFields
  <1>4. ASSUME IsFrame(g), g.rule = f.rule, g.child = f.child
        PROVE  IsFrame(c) /\ c.rule = f.rule /\ c.state = "close" /\ c.child = f.child /\ c.u = g.u /\ c.node = g.node
    BY <1>1, <1>4, StateFields
  <1>5. CASE a = "name"
    <2>1. g = WithU(f, <<Text(tkn)>>)
      BY <1>5 DEF Act, WithU
    <2> QED  BY <1>2, <1>4, <1>5, <2>1 DEF Done
  <1>6. CASE a \in {"term", "regex", "ref"}
    <2>1. g = WithNode(f, << <<a, Text(tkn)>> >>)
      BY <1>6 DEF Act, WithNode
    <2> QED  BY <1>3, <1>4, <1>6, <2>1 DEF Done
  <1>7. CASE a = "code-point"
    <2>1. g = WithNode(f, << <<"term", "code-point">> >>)
      BY <1>7 DEF Act, WithNode
    <2> QED  BY <1>3, <1>4, <1>7, <2>1 DEF Done
  <1>8. CASE a = "open-group"
    <2>1. g = WithU(f, <<"group">>)
      BY <1>8 DEF Act, WithU
    <2> QED  BY <1>2, <1>4, <1>8, <2>1 DEF Done
  <1>9. CASE a = "close-group"
    <2>1. g = WithNode(f, << <<"group", f.child[1]>> >>)
      BY <1>9 DEF Act, WithNode
    <2> QED  BY <1>3, <1>4, <1>9, <2>1 DEF Done
  <1>10. CASE a = "got"
    <2>1. g = WithU(f, f.child)
      BY <1>10 DEF Act, WithU
    <2> QED  BY <1>2, <1>4, <1>10, <2>1 DEF Done
  <1>11. CASE a \in {"opt", "star", "plus"}
    <2>1. g = WithNode(f, <<Append(f.node[1], a)>>)
      BY <1>11 DEF Act, Extend, IsFrame, WithNode
    <2> QED  BY <1>3, <1>4, <1>11, <2>1 DEF Done
  <1>12. CASE a = "none"
    <2>1. g = f
      BY <1>12 DEF Act
    <2> QED  BY <1>4, <1>12, <2>1 DEF Done
  <1>13. CASE a \notin {"name", "term", "regex", "ref", "code-point", "open-group", "close-group", "got", "opt", "star", "plus"}
    <2>1. g = f
      BY <1>13 DEF Act
    <2> QED  BY <1>4, <1>13, <2>1 DEF Done
  <1> QED  BY <1>5, <1>6, <1>7, <1>8, <1>9, <1>10, <1>11, <1>12, <1>13

\* What the hooks leave.
LEMMA HookLeaves ==
  ASSUME Frames, NEW h, h = Height, NEW g, g = h - 1, NEW stk, stk = Readied, NEW f, f = stk[h]
  PROVE  /\ IsSeq(stk) /\ Len(stk) = h /\ h \in Nat \ {0} /\ Top = stack[h]
         /\ \A i \in 1 .. h : LikeFrame(stk[i], stack[i])
         /\ \A i \in 1 .. h - 2 : stk[i] = stack[i]
         /\ LikeFrame(f, Top) /\ IsFrame(Top)
         /\ Top.state = "open" \/ Top.rule \in {"ebnf", "seq", "atom"} => stk = stack
         /\ Top.state = "close" =>
              /\ Top.rule = "prod" /\ Top.child # <<>> =>
                   f = Top /\ stk[g] = Extend(stack[g], [name |-> Top.u[1], alts |-> Top.child[1]])
              /\ Top.rule = "alts" /\ Top.child # <<>> => f = Extend(Top, Top.child[1]) /\ (h > 1 => stk[g] = stack[g])
              /\ Top.rule = "elem" /\ Top.u # <<>> =>
                   f = Top /\ stk[g] = Extend(stack[g], Wrapped(Top.u[1], Top.child[1]))
              /\ Top.rule = "elem" /\ Top.u = <<>> => stk = stack
              /\ Top.rule = "post" /\ Top.child # <<>> =>
                   f = WithNode(Top, << Cat(Top.node[1], Top.child[1]) >>) /\ (h > 1 => stk[g] = stack[g])
              /\ Top.rule = "post" /\ Top.child = <<>> => stk = stack
  <1>1. h \in Nat \ {0} /\ IsSeq(stack) /\ Len(stack) = h /\ Top = stack[h] /\ IsFrame(Top)
    BY DEF Frames, Height, IsSeq, Top, Last
  <1>2. Like(stk)
    BY StackIsLike, AfterBcIsLike DEF Readied
  <1>3. IsSeq(stk) /\ Len(stk) = h /\ \A i \in 1 .. h : LikeFrame(stk[i], stack[i])
    BY <1>2 DEF Like
  <1>4. LikeFrame(f, Top)
    BY <1>1, <1>3
  <1>5. ASSUME NEW k \in 1 .. h, NEW x, stk = [stack EXCEPT ![k] = x]
        PROVE  \A i \in 1 .. h : stk[i] = IF i = k THEN x ELSE stack[i]
    BY <1>1, <1>5, ExceptIsSeq
  <1>6. ASSUME NEW x, stk = ToParent(x), Top.rule \in {"prod", "elem"}
        PROVE  f = Top /\ stk[g] = Extend(stack[g], x) /\ \A i \in 1 .. h - 2 : stk[i] = stack[i]
    <2>1. h > 1 /\ g \in 1 .. h /\ h \in 1 .. h /\ g # h
      BY <1>1, <1>6 DEF Frames
    <2> PICK e : e = Extend(stack[g], x)
      OBVIOUS
    <2> PICK k : k = g
      OBVIOUS
    <2>2. stk = [stack EXCEPT ![k] = e] /\ k \in 1 .. h
      BY <1>6, <2>1 DEF ToParent, Height
    <2>3. \A i \in 1 .. h : stk[i] = IF i = k THEN e ELSE stack[i]
      BY <1>1, <2>2, ExceptIsSeq
    <2> QED  BY <1>1, <2>1, <2>3
  <1>7. ASSUME NEW x, stk = [stack EXCEPT ![h] = x]
        PROVE  f = x /\ (h > 1 => stk[g] = stack[g]) /\ \A i \in 1 .. h - 2 : stk[i] = stack[i]
    <2>1. h \in 1 .. h
      BY <1>1
    <2>2. \A i \in 1 .. h : stk[i] = IF i = h THEN x ELSE stack[i]
      BY <1>5, <1>7, <2>1
    <2> QED  BY <1>1, <2>1, <2>2
  <1>8. CASE Top.state # "close"
    <2>1. stk = stack
      BY <1>8 DEF Readied
    <2> QED  BY <1>1, <1>3, <1>4, <1>8, <2>1
  <1>9. CASE Top.state = "close" /\ Top.rule = "prod"
    <2>1. stk = prodBc
      BY <1>9 DEF Readied, AfterBc
    <2>2. CASE Top.child # <<>>
      <3>1. stk = ToParent([name |-> Top.u[1], alts |-> Top.child[1]])
        BY <2>1, <2>2 DEF prodBc, Returned
      <3> QED  BY <1>1, <1>3, <1>4, <1>6, <1>9, <2>2, <3>1
    <2>3. CASE Top.child = <<>>
      <3>1. stk = stack
        BY <2>1, <2>3 DEF prodBc, Returned
      <3> QED  BY <1>1, <1>3, <1>4, <1>9, <2>3, <3>1
    <2> QED  BY <2>2, <2>3
  <1>10. CASE Top.state = "close" /\ Top.rule = "alts"
    <2>1. stk = altsBc
      BY <1>10 DEF Readied, AfterBc
    <2>2. CASE Top.child # <<>>
      <3>1. stk = [stack EXCEPT ![h] = Extend(Top, Top.child[1])]
        BY <1>1, <2>1, <2>2 DEF altsBc, Returned, Height
      <3>2. f = Extend(Top, Top.child[1]) /\ (h > 1 => stk[g] = stack[g]) /\ \A i \in 1 .. h - 2 : stk[i] = stack[i]
        BY <1>7, <3>1
      <3> QED  BY <1>1, <1>3, <1>4, <1>10, <2>2, <3>2
    <2>3. CASE Top.child = <<>>
      <3>1. stk = stack
        BY <2>1, <2>3 DEF altsBc, Returned
      <3> QED  BY <1>1, <1>3, <1>4, <1>10, <2>3, <3>1
    <2> QED  BY <2>2, <2>3
  <1>11. CASE Top.state = "close" /\ Top.rule = "elem"
    <2>1. stk = elemBc
      BY <1>11 DEF Readied, AfterBc
    <2>2. CASE Top.u # <<>>
      <3> DEFINE x == Wrapped(Top.u[1], Top.child[1])
      <3>1. stk = ToParent(x)
        BY <2>1, <2>2, Zenon DEF elemBc
      <3> HIDE DEF x
      <3>2. f = Top /\ stk[g] = Extend(stack[g], x) /\ \A i \in 1 .. h - 2 : stk[i] = stack[i]
        BY <1>6, <1>11, <3>1
      <3>3. f = Top /\ stk[g] = Extend(stack[g], Wrapped(Top.u[1], Top.child[1]))
        BY <3>2, Zenon DEF x
      <3> QED  BY <1>1, <1>3, <1>4, <1>11, <2>2, <3>2, <3>3
    <2>3. CASE Top.u = <<>>
      <3>1. stk = stack
        BY <2>1, <2>3, Zenon DEF elemBc
      <3> QED  BY <1>1, <1>3, <1>4, <1>11, <2>3, <3>1
    <2> QED  BY <2>2, <2>3
  <1>12. CASE Top.state = "close" /\ Top.rule = "post"
    <2>1. stk = postBc
      BY <1>12 DEF Readied, AfterBc
    <2>2. CASE Top.child # <<>>
      <3>1. stk = [stack EXCEPT ![h] = WithNode(Top, << Cat(Top.node[1], Top.child[1]) >>)]
        BY <1>1, <2>1, <2>2 DEF postBc, Returned, Height, WithNode, Cat
      <3>2. /\ f = WithNode(Top, << Cat(Top.node[1], Top.child[1]) >>)
            /\ (h > 1 => stk[g] = stack[g]) /\ \A i \in 1 .. h - 2 : stk[i] = stack[i]
        BY <1>7, <3>1
      <3> QED  BY <1>1, <1>3, <1>4, <1>12, <2>2, <3>2
    <2>3. CASE Top.child = <<>>
      <3>1. stk = stack
        BY <2>1, <2>3 DEF postBc, Returned
      <3> QED  BY <1>1, <1>3, <1>4, <1>12, <2>3, <3>1
    <2> QED  BY <2>2, <2>3
  <1>13. CASE Top.state = "close" /\ Top.rule \in {"ebnf", "seq", "atom"}
    <2>1. stk = stack
      BY <1>13 DEF Readied, AfterBc
    <2> QED  BY <1>1, <1>3, <1>4, <1>13, <2>1
  <1>14. Top.rule \in RuleNames
    BY <1>1 DEF IsFrame
  <1> QED  BY <1>8, <1>9, <1>10, <1>11, <1>12, <1>13, <1>14 DEF RuleNames

-----------------------------------------------------------------------------
(* What has been read, and what each rule makes of it.                      *)

Heard(n) == Without(SubSeq(src, 1, n), {EndOfSource})

\* The words read by a rule that waits: those before its child was pushed.
Awaits(f, w) ==
  /\ f.rule = "ebnf" => IsSource(w, f.node[1])
  /\ f.rule = "prod" => \E name \in Written({"TX"}), def \in Written({"DEF", "DEFE"}) :
                           w = <<name, def>> /\ f.u = <<Text(name)>>
  /\ f.rule = "alts" => \/ f.node[1] = <<>> /\ w = <<>>
                        \/ \E w0 \in Words, bar \in Written({"ALT"}) : w = Cat(w0, <<bar>>) /\ IsAlts(w0, f.node[1])
  /\ f.rule = "seq"  => \/ f.node[1] = <<>> /\ w = <<>>
                        \/ \E w0 \in Words, sep \in {<<>>} \cup Mark("CA") :
                             w = Cat(w0, sep) /\ IsSequence(w0, f.node[1])
  /\ f.rule = "elem" => IF f.u = <<>> THEN w = <<>> ELSE IsElem(w, f.u[1])
  /\ f.rule = "post" => \E op \in Written({"QM", "STAR", "PLUS"}) : w = <<op>> /\ f.node[1] = <<Operator(Kind(op))>>
  /\ f.rule = "atom" => \E lp \in Written({"LP"}) : w = <<lp>>

\* Those read by the child of f, and its node.
Given(f, w, node) ==
  /\ node # <<>>
  /\ f.rule \in {"prod", "atom"} => IsAlts(w, node[1])
  /\ f.rule = "alts" => IsSequence(w, node[1])
  /\ f.rule = "elem" /\ f.u = <<>> => IsElem(w, node[1])
  /\ f.rule = "elem" /\ f.u # <<>> => AreOperators(w, node[1])
  /\ f.rule = "post" => AreOperators(w, node[1])

\* Those read by a rule that has closed without a child, or with those that its node holds.
Gathered(f, w) ==
  /\ f.rule = "ebnf" => IsSource(w, f.node[1])
  /\ f.rule = "seq" => f.node # <<>> /\ IsSequence(w, f.node[1])
  /\ f.rule = "atom" => f.node # <<>> /\ IsElem(w, f.node[1])
  /\ f.rule = "post" => w = <<>> /\ f.node # <<>> /\ f.node[1] = <<>>

Childless(f) ==
  \/ f.rule \in {"ebnf", "seq"}
  \/ f.rule = "atom" /\ f.u = <<>>
  \/ f.rule = "post" /\ f.child = <<>>

\* Those read by the rule on top.
Holds(f, w) ==
  IF f.state = "open" THEN f = New(f.rule) /\ w = <<>>
  ELSE IF Childless(f) THEN Gathered(f, w)
  ELSE \E w0 \in Words, w1 \in Words : w = Cat(w0, w1) /\ Awaits(f, w0) /\ Given(f, w1, f.child)

\* The words s are those of h rules in turn, the last of them on top.
Awaited(at, f, v) == \E w \in Words : v = Cat(at, w) /\ Awaits(f, w)
Held(at, f, v) == \E w \in Words : v = Cat(at, w) /\ Holds(f, w)
ToldBy(at, rules, h, s) ==
  /\ at \in [1 .. h -> Words]
  /\ \A i \in 1 .. h : \A j \in 1 .. h : j = i + 1 => Awaited(at[i], rules[i], at[j])
  /\ at[1] = <<>> /\ Held(at[h], rules[h], s)
Told(rules, h, s) == \E at : ToldBy(at, rules, h, s)

Same(rules, after, k) == \A i \in 1 .. k - 1 : after[i] = rules[i]
HoldsAwaits(f, g, u) == \A w \in Words : Holds(f, w) => Awaits(g, Cat(w, u))
HoldsHolds(f, g, u) == \A w \in Words : Holds(f, w) => Holds(g, Cat(w, u))
\* f, below, waits for g.
BothAwait(f, g, f2, u) == \A w0, w \in Words : Awaits(f, w0) /\ Holds(g, w) => Awaits(f2, Cat(w0, Cat(w, u)))
BothHold(f, g, f2, u) == \A w0, w \in Words : Awaits(f, w0) /\ Holds(g, w) => Holds(f2, Cat(w0, Cat(w, u)))

LEMMA ToldPushed ==
  ASSUME NEW h \in Nat \ {0}, NEW rules, NEW s, Told(rules, h, s), NEW u \in Words, NEW after, Same(rules, after, h),
         NEW j \in Nat, j = h + 1, HoldsAwaits(rules[h], after[h], u), Holds(after[j], <<>>)
  PROVE  Told(after, j, Cat(s, u))
  <1>1. PICK at : ToldBy(at, rules, h, s)
    BY DEF Told
  <1>2. PICK w \in Words : s = Cat(at[h], w) /\ Holds(rules[h], w)
    BY <1>1 DEF ToldBy, Held
  <1> DEFINE v == Cat(s, u)
             to == [i \in 1 .. j |-> IF i = j THEN v ELSE at[i]]
  <1>3. at[h] \in Words /\ at \in [1 .. h -> Words]
    BY <1>1 DEF ToldBy
  <1>4. v = Cat(at[h], Cat(w, u)) /\ Cat(w, u) \in Words /\ v \in Words /\ v = Cat(v, <<>>) /\ <<>> \in Words
    BY <1>2, <1>3, CatLaws
  <1>5. Awaited(at[h], after[h], v)
    BY <1>2, <1>4 DEF Awaited, HoldsAwaits
  <1>6. Held(v, after[j], v)
    BY <1>4 DEF Held
  <1> HIDE DEF v
  <1>7. to \in [1 .. j -> Words] /\ to[j] = v /\ \A i \in 1 .. h : to[i] = at[i]
    BY <1>3, <1>4
  <1> HIDE DEF to
  <1>8. ASSUME NEW i \in 1 .. j, NEW k \in 1 .. j, k = i + 1  PROVE Awaited(to[i], after[i], to[k])
    <2>1. i \in 1 .. h
      BY <1>8
    <2>2. CASE i = h
      BY <1>5, <1>7, <1>8, <2>1, <2>2
    <2>3. CASE i # h
      <3>1. i \in 1 .. h - 1 /\ k \in 1 .. h
        BY <1>8, <2>1, <2>3
      <3> QED  BY <1>1, <1>7, <1>8, <2>1, <3>1 DEF Same, ToldBy
    <2> QED  BY <2>2, <2>3
  <1>9. to[1] = <<>> /\ Held(to[j], after[j], v)
    BY <1>1, <1>6, <1>7 DEF ToldBy
  <1>10. Told(after, j, v)
    BY <1>7, <1>8, <1>9 DEF Told, ToldBy
  <1> QED  BY <1>10 DEF v

LEMMA ToldStayed ==
  ASSUME NEW h \in Nat \ {0}, NEW rules, NEW s, Told(rules, h, s), NEW u \in Words, NEW after, Same(rules, after, h),
         HoldsHolds(rules[h], after[h], u)
  PROVE  Told(after, h, Cat(s, u))
  <1>1. PICK at : ToldBy(at, rules, h, s)
    BY DEF Told
  <1>2. PICK w \in Words : s = Cat(at[h], w) /\ Holds(rules[h], w)
    BY <1>1 DEF ToldBy, Held
  <1>3. at[h] \in Words /\ at \in [1 .. h -> Words]
    BY <1>1 DEF ToldBy
  <1>4. Cat(s, u) = Cat(at[h], Cat(w, u)) /\ Cat(w, u) \in Words
    BY <1>2, <1>3, CatLaws
  <1>5. Held(at[h], after[h], Cat(s, u))
    BY <1>2, <1>4 DEF Held, HoldsHolds
  <1>6. ASSUME NEW i \in 1 .. h, NEW k \in 1 .. h, k = i + 1  PROVE Awaited(at[i], after[i], at[k])
    <2>1. i \in 1 .. h - 1
      BY <1>6
    <2> QED  BY <1>1, <1>6, <2>1 DEF Same, ToldBy
  <1>7. at[1] = <<>>
    BY <1>1 DEF ToldBy
  <1> QED  BY <1>3, <1>5, <1>6, <1>7 DEF Told, ToldBy

\* The rule on top, and the one below it, and what they have read.
LEMMA ToldBoth ==
  ASSUME NEW g \in Nat \ {0}, NEW h \in Nat, h = g + 1, NEW rules, NEW s, NEW at, ToldBy(at, rules, h, s), NEW u \in Words
  PROVE  \E w0, w \in Words : /\ Awaits(rules[g], w0) /\ Holds(rules[h], w)
                              /\ Cat(s, u) = Cat(at[g], Cat(w0, Cat(w, u)))
                              /\ Cat(w0, Cat(w, u)) \in Words /\ at[g] \in Words
                              /\ Cat(s, u) \in Words
  <1>1. PICK w \in Words : s = Cat(at[h], w) /\ Holds(rules[h], w)
    BY DEF ToldBy, Held
  <1>2. g \in 1 .. h /\ h \in 1 .. h /\ at[g] \in Words /\ at[h] \in Words
    BY DEF ToldBy
  <1>3. PICK w0 \in Words : at[h] = Cat(at[g], w0) /\ Awaits(rules[g], w0)
    BY <1>2 DEF ToldBy, Awaited
  <1> PICK b : b = at[g]
    OBVIOUS
  <1>4. /\ b \in Words /\ Cat(w, u) \in Words /\ Cat(w0, w) \in Words /\ Cat(w0, Cat(w, u)) \in Words
        /\ Cat(w0, Cat(w, u)) = Cat(Cat(w0, w), u)
    BY <1>2, CatLaws
  <1>5. s = Cat(Cat(b, w0), w)
    BY <1>1, <1>3, Zenon
  <1>6. Cat(s, u) = Cat(b, Cat(w0, Cat(w, u)))
    <2>1. Cat(Cat(Cat(b, w0), w), u) = Cat(b, Cat(w0, Cat(w, u)))
      BY <1>4, CatFour
    <2> QED  BY <1>5, <2>1, Zenon
  <1>7. Cat(s, u) \in Words
    <2> PICK x : x = Cat(w0, Cat(w, u))
      OBVIOUS
    <2>1. b \in Words /\ x \in Words
      BY <1>4
    <2>2. Cat(b, x) \in Words
      BY <2>1, CatLaws
    <2> QED  BY <1>6, <2>2
  <1> QED  BY <1>1, <1>2, <1>3, <1>4, <1>6, <1>7, Zenon

LEMMA ToldReturned ==
  ASSUME NEW g \in Nat \ {0}, NEW h \in Nat, h = g + 1, NEW rules, NEW s, Told(rules, h, s), NEW u \in Words,
         NEW after, Same(rules, after, g), BothHold(rules[g], rules[h], after[g], u)
  PROVE  Told(after, g, Cat(s, u))
  <1>1. PICK at : ToldBy(at, rules, h, s)
    BY DEF Told
  <1>2. PICK w0 \in Words, w \in Words : /\ Awaits(rules[g], w0) /\ Holds(rules[h], w)
                              /\ Cat(s, u) = Cat(at[g], Cat(w0, Cat(w, u)))
                              /\ Cat(w0, Cat(w, u)) \in Words
    BY <1>1, ToldBoth
  <1>3. Held(at[g], after[g], Cat(s, u))
    BY <1>2 DEF Held, BothHold
  <1> DEFINE to == [i \in 1 .. g |-> at[i]]
  <1>4. to \in [1 .. g -> Words] /\ \A i \in 1 .. g : to[i] = at[i]
    BY <1>1 DEF ToldBy
  <1> HIDE DEF to
  <1>5. ASSUME NEW i \in 1 .. g, NEW k \in 1 .. g, k = i + 1  PROVE Awaited(to[i], after[i], to[k])
    <2>1. i \in 1 .. g - 1 /\ i \in 1 .. h /\ k \in 1 .. h
      BY <1>5
    <2> QED  BY <1>1, <1>4, <1>5, <2>1 DEF Same, ToldBy
  <1>6. to[1] = <<>> /\ Held(to[g], after[g], Cat(s, u))
    BY <1>1, <1>3, <1>4 DEF ToldBy
  <1> QED  BY <1>4, <1>5, <1>6 DEF Told, ToldBy

LEMMA ToldReplaced ==
  ASSUME NEW g \in Nat \ {0}, NEW h \in Nat, h = g + 1, NEW rules, NEW s, Told(rules, h, s), NEW u \in Words,
         NEW after, Same(rules, after, g), BothAwait(rules[g], rules[h], after[g], u), Holds(after[h], <<>>)
  PROVE  Told(after, h, Cat(s, u))
  <1>1. PICK at : ToldBy(at, rules, h, s)
    BY DEF Told
  <1>2. PICK w0 \in Words, w \in Words : /\ Awaits(rules[g], w0) /\ Holds(rules[h], w)
                              /\ Cat(s, u) = Cat(at[g], Cat(w0, Cat(w, u)))
                              /\ Cat(w0, Cat(w, u)) \in Words /\ Cat(s, u) \in Words
    BY <1>1, ToldBoth
  <1>3. PICK v \in Words : v = Cat(s, u)
    BY <1>2
  <1>4. Awaited(at[g], after[g], v)
    BY <1>2, <1>3 DEF Awaited, BothAwait
  <1>5. Held(v, after[h], v)
    BY <1>3, CatLaws DEF Held
  <1> DEFINE to == [i \in 1 .. h |-> IF i = h THEN v ELSE at[i]]
  <1>6. to \in [1 .. h -> Words] /\ to[h] = v /\ \A i \in 1 .. g : to[i] = at[i]
    BY <1>1, <1>3 DEF ToldBy
  <1> HIDE DEF to
  <1>7. ASSUME NEW i \in 1 .. h, NEW k \in 1 .. h, k = i + 1  PROVE Awaited(to[i], after[i], to[k])
    <2>1. i \in 1 .. g
      BY <1>7
    <2>2. CASE i = g
      BY <1>4, <1>6, <1>7, <2>1, <2>2
    <2>3. CASE i # g
      <3>1. i \in 1 .. g - 1 /\ k \in 1 .. g /\ i \in 1 .. h /\ k \in 1 .. h
        BY <1>7, <2>1, <2>3
      <3> QED  BY <1>1, <1>6, <1>7, <2>1, <3>1 DEF Same, ToldBy
    <2> QED  BY <2>2, <2>3
  <1>8. to[1] = <<>> /\ Held(to[h], after[h], v)
    BY <1>1, <1>5, <1>6 DEF ToldBy
  <1>9. Told(after, h, v)
    BY <1>6, <1>7, <1>8 DEF Told, ToldBy
  <1> QED  BY <1>3, <1>9

-----------------------------------------------------------------------------
(* What a token adds to the words.                                          *)

LEMMA NotTheEnd ==
  ASSUME NEW tkn \in Vocabulary
  PROVE  tkn \notin {EndOfSource} /\ Kind(tkn) # "ZZ"
  <1>1. tkn \in Lexeme
    BY VocabularyAssumption
  <1>2. Kind(tkn) \in FixedKinds \cup {"TX", "ST", "CC", "HX"}
    BY <1>1 DEF Lexeme, Kind
  <1>3. Kind(tkn) # "ZZ"
    BY <1>2 DEF FixedKinds
  <1>4. Kind(EndOfSource) = "ZZ"
    BY DEF Kind, EndOfSource
  <1> QED  BY <1>3, <1>4

\* A token whose kind says it all is one of the notation.
LEMMA FixedIsWritten ==
  ASSUME NEW tkn \in Vocabulary, NEW kinds \in SUBSET FixedKinds, Kind(tkn) \in kinds
  PROVE  tkn \in Written(kinds)
  <1>1. tkn \in Lexeme /\ Kind(tkn) \in FixedKinds
    BY VocabularyAssumption
  <1>2. Text(tkn) = ""
    BY <1>1 DEF Lexeme, Kind, Text, FixedKinds
  <1> QED  BY <1>2 DEF Written

LEMMA HeardTypes ==
  ASSUME Tokenised, NEW n \in 0 .. Len(src)
  PROVE  Heard(n) \in Words /\ Len(Heard(n)) <= n
  <1> DEFINE s == SubSeq(src, 1, n)
             S == Vocabulary \cup {EndOfSource}
  <1>1. s \in Seq(S) /\ Len(s) = n
    BY DEF Tokenised
  <1> HIDE DEF s
  <1>2. Without(s, {EndOfSource}) \in Seq(S \ {EndOfSource}) /\ Len(Without(s, {EndOfSource})) <= Len(s)
    BY <1>1, WithoutIsSeq
  <1>3. S \ {EndOfSource} \subseteq Vocabulary
    OBVIOUS
  <1> HIDE DEF S
  <1>4. Without(s, {EndOfSource}) \in Seq(Vocabulary)
    BY <1>2, <1>3
  <1> QED  BY <1>1, <1>2, <1>4 DEF Heard, s, Words

LEMMA HeardNone == Heard(0) = <<>>
  <1>1. SubSeq(src, 1, 0) = <<>>
    OBVIOUS
  <1> QED  BY <1>1, WithoutNone DEF Heard

LEMMA HeardNext ==
  ASSUME Tokenised, NEW n \in Nat, n < Len(src), NEW j \in Nat, j = n + 1
  PROVE  /\ src[j] = EndOfSource => Heard(j) = Heard(n)
         /\ src[j] \in Vocabulary => Heard(j) = Cat(Heard(n), <<src[j]>>)
  <1> DEFINE S == Vocabulary \cup {EndOfSource}
             s == SubSeq(src, 1, n)
             t == src[j]
  <1>1. src \in Seq(S) /\ Len(src) \in Nat /\ n \in 0 .. Len(src) /\ j \in 1 .. Len(src)
    BY DEF Tokenised
  <1>2. SubSeq(src, 1, j) = Append(s, t) /\ s \in Seq(S)
    BY <1>1
  <1> HIDE DEF s, S, t
  <1>3. Without(Append(s, t), {EndOfSource}) =
          IF t \in {EndOfSource} THEN Without(s, {EndOfSource}) ELSE Append(Without(s, {EndOfSource}), t)
    BY <1>2, WithoutMore
  <1>4. Heard(j) = IF t \in {EndOfSource} THEN Heard(n) ELSE Append(Heard(n), t)
    BY <1>2, <1>3, Zenon DEF Heard, s
  <1>5. ASSUME t \in Vocabulary  PROVE Append(Heard(n), t) = Cat(Heard(n), <<t>>) /\ t \notin {EndOfSource}
    BY <1>1, <1>5, HeardTypes, TokenIsWord, NotTheEnd
  <1> QED  BY <1>4, <1>5 DEF t

LEMMA HeardNow ==
  ASSUME Tokenised
  PROVE  pos \in Nat /\ Len(src) \in Nat /\ Heard(pos) \in Words /\ Heard(pos) = Cat(Heard(pos), <<>>) /\ <<>> \in Words
  BY HeardTypes, CatLaws DEF Tokenised

\* The token in sight, of one of kinds.
LEMMA InSightIs ==
  ASSUME Tokenised, NEW k \in 1 .. 2, NEW kinds, Sees(k, kinds)
  PROVE  /\ pos + k \in 1 .. Len(src) /\ Kind(src[pos + k]) \in kinds
         /\ src[pos + k] \in Vocabulary \/ (src[pos + k] = EndOfSource /\ "ZZ" \in kinds)
  <1>1. pos + k \in 1 .. Len(src) /\ Kind(src[pos + k]) \in kinds
    BY DEF Tokenised, Sees
  <1>2. src[pos + k] \in Vocabulary \cup {EndOfSource}
    BY <1>1 DEF Tokenised
  <1>3. Kind(EndOfSource) = "ZZ"
    BY DEF Kind, EndOfSource
  <1> QED  BY <1>1, <1>2, <1>3

LEMMA HeardFixed ==
  ASSUME Tokenised, NEW kinds \in SUBSET FixedKinds, Sees(1, kinds), NEW p, p = pos + 1
  PROVE  src[p] \in Written(kinds) /\ <<src[p]>> \in Words /\ Heard(p) = Cat(Heard(pos), <<src[p]>>)
  <1>1. "ZZ" \notin kinds
    BY DEF FixedKinds
  <1>2. p \in 1 .. Len(src) /\ Kind(src[p]) \in kinds /\ src[p] \in Vocabulary
    BY <1>1, InSightIs
  <1>3. Heard(p) = Cat(Heard(pos), <<src[p]>>)
    BY <1>2, HeardNext DEF Tokenised
  <1> QED  BY <1>2, <1>3, FixedIsWritten, TokenIsWord

LEMMA HeardAtom ==
  ASSUME Tokenised, NEW kind \in AtomKinds, Sees(1, {kind}), NEW p, p = pos + 1, Text(src[p]) # "!"
  PROVE  src[p] \in Written({kind}) /\ <<src[p]>> \in Words /\ Heard(p) = Cat(Heard(pos), <<src[p]>>)
  <1>1. "ZZ" \notin {kind}
    BY DEF AtomKinds
  <1>2. p \in 1 .. Len(src) /\ Kind(src[p]) \in {kind} /\ src[p] \in Vocabulary
    BY <1>1, InSightIs
  <1>3. Heard(p) = Cat(Heard(pos), <<src[p]>>)
    BY <1>2, HeardNext DEF Tokenised
  <1> QED  BY <1>2, <1>3, TokenIsWord DEF Written

LEMMA HeardHeader ==
  ASSUME Tokenised, Sees(1, {"TX"}), Sees(2, DEFOP), NEW p, p = pos + 1, NEW q, q = pos + 2, Text(src[p]) # "!"
  PROVE  /\ src[p] \in Written({"TX"}) /\ src[q] \in Written({"DEF", "DEFE"})
         /\ <<src[p], src[q]>> \in Words /\ Heard(q) = Cat(Heard(pos), <<src[p], src[q]>>)
  <1>1. src[p] \in Written({"TX"}) /\ <<src[p]>> \in Words /\ Heard(p) = Cat(Heard(pos), <<src[p]>>)
    BY HeardAtom DEF AtomKinds
  <1>2. DEFOP = {"DEF", "DEFE"} /\ DEFOP \in SUBSET FixedKinds /\ "ZZ" \notin DEFOP
    BY DEF DEFOP, FixedKinds
  <1>3. q \in 1 .. Len(src) /\ Kind(src[q]) \in DEFOP /\ src[q] \in Vocabulary
    BY <1>2, InSightIs
  <1>4. src[q] \in Written(DEFOP)
    BY <1>2, <1>3, FixedIsWritten
  <1>5. Heard(q) = Cat(Heard(p), <<src[q]>>)
    BY <1>3, HeardNext DEF Tokenised
  <1> PICK a : a = src[p]
    OBVIOUS
  <1> PICK b : b = src[q]
    OBVIOUS
  <1>6. <<a>> \in Words /\ <<b>> \in Words /\ <<a, b>> = Cat(<<a>>, <<b>>) /\ Cat(<<a>>, <<b>>) \in Words
    <2>1. a \in Vocabulary /\ b \in Vocabulary
      BY <1>1, <1>3 DEF Written
    <2>2. <<a>> \in Words /\ <<b>> \in Words
      BY <2>1, TokenIsWord
    <2> QED  BY <2>1, <2>2, CatLaws DEF Cat
  <1>7. Heard(q) = Cat(Heard(pos), <<a, b>>)
    <2>1. Heard(pos) \in Words
      BY HeardNow
    <2>2. Cat(Cat(Heard(pos), <<a>>), <<b>>) = Cat(Heard(pos), Cat(<<a>>, <<b>>))
      BY <1>6, <2>1, CatLaws
    <2>3. Heard(q) = Cat(Cat(Heard(pos), <<a>>), <<b>>)
      BY <1>1, <1>5
    <2> QED  BY <1>6, <2>2, <2>3
  <1> QED  BY <1>1, <1>2, <1>4, <1>6, <1>7

-----------------------------------------------------------------------------
(* The rules on the stack tell what has been heard.                         *)

Tells == Told(stack, Height, Heard(pos))

LEMMA TellsTop ==
  ASSUME Tells, Height \in Nat \ {0}, Top = stack[Height]
  PROVE  \E w \in Words : Holds(Top, w)
  BY DEF Tells, Told, ToldBy, Held

LEMMA TellsNext ==
  ASSUME src' = src, NEW p, pos' = p, NEW h, Height' = h, Told(stack', h, Heard(p))
  PROVE  Tells'
  <1>1. Heard(pos)' = Heard(p)
    BY DEF Heard
  <1> QED  BY <1>1 DEF Tells

\* f is as g, but for its state and its child.
LEMMA SameWait ==
  ASSUME NEW f, NEW g, g.rule = f.rule, g.u = f.u, g.node = f.node, NEW w
  PROVE  /\ Awaits(f, w) => Awaits(g, w)
         /\ \A node : Given(f, w, node) => Given(g, w, node)
  BY Zenon DEF Awaits, Given

LEMMA FreshHolds ==
  ASSUME NEW rule \in RuleNames
  PROVE  Holds(New(rule), <<>>)
  <1>1. New(rule).rule = rule /\ New(rule).state = "open"
    BY NewFields
  <1> QED  BY <1>1, Zenon DEF Holds

LEMMA OpenHolds ==
  ASSUME NEW f, f.state = "open", NEW w, Holds(f, w)
  PROVE  f = New(f.rule) /\ w = <<>>
  BY Zenon DEF Holds

\* A rule whose child has returned.
LEMMA ChildHolds ==
  ASSUME NEW f, NEW g, g.rule = f.rule, g.u = f.u, g.node = f.node, g.state = "close",
         f.rule \notin {"ebnf", "seq"}, f.rule = "atom" => f.u # <<>>,
         NEW w0 \in Words, Awaits(f, w0), NEW w1 \in Words, Given(f, w1, g.child)
  PROVE  Holds(g, Cat(w0, w1))
  <1>1. Awaits(g, w0) /\ Given(g, w1, g.child)
    BY SameWait
  <1>2. g.child # <<>>
    BY DEF Given
  <1>3. ~Childless(g) /\ g.state # "open"
    BY <1>2 DEF Childless
  <1> QED  BY <1>1, <1>3, Zenon DEF Holds

LEMMA HoldsChild ==
  ASSUME NEW f, f.state = "close", ~Childless(f), NEW w \in Words, Holds(f, w)
  PROVE  /\ f.child # <<>>
         /\ \E w0 \in Words, w1 \in Words : w = Cat(w0, w1) /\ Awaits(f, w0) /\ Given(f, w1, f.child)
  <1>1. \E w0 \in Words, w1 \in Words : w = Cat(w0, w1) /\ Awaits(f, w0) /\ Given(f, w1, f.child)
    BY Zenon DEF Holds
  <1> QED  BY <1>1 DEF Given

LEMMA HoldsAlone ==
  ASSUME NEW f, f.state = "close", Childless(f), NEW w
  PROVE  Holds(f, w) <=> Gathered(f, w)
  <1>1. f.state # "open"
    OBVIOUS
  <1> QED  BY <1>1, Zenon DEF Holds

LEMMA PushTells ==
  ASSUME Tells, Height \in Nat \ {0}, Top = stack[Height], NEW stk, Len(stk) = Height,
         \A i \in 1 .. Height - 1 : stk[i] = stack[i], NEW c, NEW rule \in RuleNames, Pushed(stk, c, rule),
         src' = src, NEW p, pos' = p, NEW u \in Words, Heard(p) = Cat(Heard(pos), u), HoldsAwaits(Top, c, u)
  PROVE  Tells'
  <1> PICK h : h = Height
    OBVIOUS
  <1> PICK j : j = h + 1
    OBVIOUS
  <1>1. h \in Nat \ {0} /\ j \in Nat /\ Told(stack, h, Heard(pos))
    BY DEF Tells
  <1>2. Height' = j /\ stack'[j] = New(rule) /\ stack'[h] = c /\ Same(stack, stack', h)
    BY <1>1 DEF Pushed, Same, Height
  <1>3. HoldsAwaits(stack[h], stack'[h], u) /\ Holds(stack'[j], <<>>)
    BY <1>2, FreshHolds
  <1>4. Told(stack', j, Cat(Heard(pos), u))
    BY <1>1, <1>2, <1>3, ToldPushed
  <1> QED  BY <1>2, <1>4, TellsNext

LEMMA StayTells ==
  ASSUME Tells, Height \in Nat \ {0}, Top = stack[Height], NEW stk, Len(stk) = Height,
         \A i \in 1 .. Height - 1 : stk[i] = stack[i], NEW c, Topped(stk, c),
         src' = src, NEW p, pos' = p, NEW u \in Words, Heard(p) = Cat(Heard(pos), u), HoldsHolds(Top, c, u)
  PROVE  Tells'
  <1> PICK h : h = Height
    OBVIOUS
  <1>1. h \in Nat \ {0} /\ Told(stack, h, Heard(pos))
    BY DEF Tells
  <1>2. Height' = h /\ stack'[h] = c /\ Same(stack, stack', h)
    BY <1>1 DEF Topped, Same, Height
  <1>3. HoldsHolds(stack[h], stack'[h], u)
    BY <1>2
  <1>4. Told(stack', h, Cat(Heard(pos), u))
    BY <1>1, <1>2, <1>3, ToldStayed
  <1> QED  BY <1>2, <1>4, TellsNext

LEMMA ReturnTells ==
  ASSUME Tells, NEW h, h = Height, h \in Nat \ {0, 1}, Top = stack[h], NEW g, g = h - 1, NEW stk, Len(stk) = h,
         \A i \in 1 .. h - 2 : stk[i] = stack[i], NEW c, Left(stk, c),
         src' = src, NEW p, pos' = p, NEW u \in Words, Heard(p) = Cat(Heard(pos), u),
         BothHold(stack[g], Top, WithChild(stk[g], c.node), u)
  PROVE  Tells'
  <1>1. g \in Nat \ {0} /\ h = g + 1 /\ Told(stack, h, Heard(pos))
    BY DEF Tells
  <1>2. Height' = g /\ stack'[g] = WithChild(stk[g], c.node) /\ Same(stack, stack', g)
    BY <1>1 DEF Left, Same, Height
  <1>3. BothHold(stack[g], stack[h], stack'[g], u)
    BY <1>2
  <1>4. Told(stack', g, Cat(Heard(pos), u))
    BY <1>1, <1>2, <1>3, ToldReturned
  <1> QED  BY <1>2, <1>4, TellsNext

LEMMA ReplaceTells ==
  ASSUME Tells, NEW h, h = Height, h \in Nat \ {0, 1}, Top = stack[h], NEW g, g = h - 1, NEW stk, Len(stk) = h,
         \A i \in 1 .. h - 2 : stk[i] = stack[i], NEW rule \in RuleNames, Topped(stk, New(rule)),
         src' = src, NEW p, pos' = p, NEW u \in Words, Heard(p) = Cat(Heard(pos), u),
         BothAwait(stack[g], Top, stk[g], u)
  PROVE  Tells'
  <1>1. g \in Nat \ {0} /\ h = g + 1 /\ Told(stack, h, Heard(pos)) /\ g \in 1 .. h - 1
    BY DEF Tells
  <1>2. Height' = h /\ stack'[h] = New(rule) /\ stack'[g] = stk[g] /\ Same(stack, stack', g)
    BY <1>1 DEF Topped, Same, Height
  <1>3. BothAwait(stack[g], stack[h], stack'[g], u) /\ Holds(stack'[h], <<>>)
    BY <1>2, FreshHolds
  <1>4. Told(stack', h, Cat(Heard(pos), u))
    BY <1>1, <1>2, <1>3, ToldReplaced
  <1> QED  BY <1>2, <1>4, TellsNext

-----------------------------------------------------------------------------
(* What taking an alternative leaves, in one place.                         *)

\* Where the alternative leaves it.
Moved(stk, f, state, p, r) ==
  /\ p # "none" => Pushed(stk, f, p)
  /\ p = "none" /\ r # "none" => Topped(stk, New(r))
  /\ p = "none" /\ r = "none" /\ state = "open" => Topped(stk, f)
  /\ p = "none" /\ r = "none" /\ state = "close" /\ status' = "reading" => Len(stk) > 1 /\ Left(stk, f)

LEMMA Taken ==
  ASSUME Inv, NEW rule \in RuleNames, NEW state \in {"open", "close"}, Step(rule, state),
         NEW stk, stk = Readied, NEW s, NEW b, NEW c, NEW a, NEW p, NEW r,
         NEW alt, alt = Alternative(s, b, c, a, p, r), Moves(alt, stk), NEW f, f = Closed(alt, stk)
  PROVE  /\ src' = src /\ pos' = Tokens(alt) /\ Len(stk) = Height /\ Height \in Nat \ {0} /\ Top = stack[Height]
         /\ Agrees(alt, Top) /\ InSight(alt) /\ Throws(alt, Seen(alt)) = "no"
         /\ Moved(stk, f, state, p, r) /\ LikeFrame(stk[Height], Top)
         /\ Done(f, stk[Height], a, Seen(alt))
  <1>1. /\ Frames /\ Top.rule = rule /\ Top.state = state
    BY At
  <1> PICK h : h = Height
    OBVIOUS
  <1> PICK top : top = stk[h]
    OBVIOUS
  <1>2. Len(stk) = h /\ h \in Nat \ {0} /\ Top = stack[h] /\ LikeFrame(top, Top)
    BY <1>1, HookLeaves
  <1>3. alt.a = a /\ alt.p = p /\ alt.r = r
    BY DEF Alternative
  <1>4. /\ src' = src /\ pos' = Tokens(alt) /\ Agrees(alt, Top) /\ InSight(alt) /\ Throws(alt, Seen(alt)) = "no"
    BY DEF Moves
  <1>5. Moved(stk, f, state, p, r)
    BY <1>1, <1>2, <1>3 DEF Moves, Moved
  <1>6. IsFrame(top) /\ top = stk[Len(stk)]
    BY <1>1, <1>2 DEF LikeFrame
  <1>7. Done(f, top, alt.a, Seen(alt))
    BY <1>6, ClosedFields
  <1>8. Done(f, top, a, Seen(alt))
    BY <1>3, <1>7
  <1> QED  BY <1>2, <1>4, <1>5, <1>8

\* The first step of a rule: nothing has been read, and nothing is gathered yet.
LEMMA Fresh ==
  ASSUME NEW w, NEW rule \in RuleNames, Top.rule = rule, Top.state = "open", Holds(Top, w)
  PROVE  /\ w = <<>> /\ Top.u = <<>> /\ Top.child = <<>>
         /\ rule \in {"ebnf", "alts", "seq", "post"} => Top.node = << <<>> >> /\ Top.node[1] = <<>>
  <1>1. Top = New(rule) /\ w = <<>>
    BY OpenHolds
  <1> QED  BY <1>1 DEF New

LEMMA AltsOpenTells ==
  ASSUME Inv, Tells, Step("alts", "open"), status' = "reading"
  PROVE  Tells'
  <1> PICK stk : stk = Readied
    OBVIOUS
  <1>1. Frames /\ Top.rule = "alts" /\ Top.state = "open" /\ Tokenised /\ "alts" \in RuleNames
    BY At DEF RuleNames
  <1>2. Alternatives = altsOpen
    BY <1>1 DEF Alternatives, Open
  <1>3. Moves(altsOpen[1], stk)
    BY <1>1, <1>2, AltsOpenLegal, MovesOnOne
  <1> PICK alt : alt = altsOpen[1]
    OBVIOUS
  <1>4. alt = Alternative(<<>>, 0, "always", "none", "seq", "none")
    BY AltsTable
  <1> PICK f : f = Closed(alt, stk)
    OBVIOUS
  <1>5. stk = stack
    BY <1>1 DEF Readied
  <1>6. /\ src' = src /\ pos' = Tokens(alt) /\ Len(stk) = Height /\ Height \in Nat \ {0} /\ Top = stack[Height]
        /\ Moved(stk, f, "open", "seq", "none") /\ Done(f, Top, "none", Seen(alt))
    BY <1>1, <1>3, <1>4, <1>5, Taken
  <1>10. Pushed(stk, f, "seq") /\ f.rule = "alts" /\ f.node = Top.node
    BY <1>1, <1>6 DEF Moved, Done
  <1>7. pos' = pos /\ Heard(pos) = Cat(Heard(pos), <<>>) /\ <<>> \in Words
    BY <1>1, <1>4, <1>6, HeardNow, TakesNone
  <1>8. ASSUME NEW w \in Words, Holds(Top, w)  PROVE Awaits(f, Cat(w, <<>>))
    <2>1. w = <<>> /\ f.node[1] = <<>>
      BY <1>1, <1>8, <1>10, Fresh
    <2>2. Cat(w, <<>>) = <<>>
      BY <2>1, CatLaws
    <2> QED  BY <1>10, <2>1, <2>2 DEF Awaits
  <1>9. HoldsAwaits(Top, f, <<>>)
    BY <1>8 DEF HoldsAwaits
  <1> QED  BY <1>5, <1>6, <1>7, <1>9, <1>10, "seq" \in RuleNames, PushTells DEF RuleNames

-----------------------------------------------------------------------------
(* Rule by rule: what it holds, and what it leaves to be told.              *)

LEMMA ExtendFields ==
  ASSUME NEW f, IsFrame(f), NEW x, NEW e, e = Extend(f, x)
  PROVE  /\ e.rule = f.rule /\ e.state = f.state /\ e.u = f.u /\ e.child = f.child /\ IsFrame(e)
         /\ e.node # <<>> /\ e.node[1] = Append(f.node[1], x)
  <1> PICK y : y = Append(f.node[1], x)
    OBVIOUS
  <1>1. e = WithNode(f, <<y>>)
    BY DEF Extend, WithNode
  <1>2. /\ e.rule = f.rule /\ e.state = f.state /\ e.u = f.u /\ e.child = f.child /\ IsFrame(e) /\ e.node = <<y>>
    BY <1>1, NodeFields
  <1> QED  BY <1>2

\* g is f with x appended to its array.
Grown(g, f, x) == g.rule = f.rule /\ g.state = f.state /\ g.node # <<>> /\ g.node[1] = Append(f.node[1], x)

LEMMA AfterExtend ==
  ASSUME NEW f, IsFrame(f), NEW x, NEW y, NEW g, g = WithChild(Extend(f, x), y)
  PROVE  Grown(g, f, x)
  <1> PICK e : e = Extend(f, x)
    OBVIOUS
  <1>1. /\ e.rule = f.rule /\ e.state = f.state /\ IsFrame(e)
        /\ e.node # <<>> /\ e.node[1] = Append(f.node[1], x)
    BY ExtendFields
  <1>2. g.rule = e.rule /\ g.state = e.state /\ g.node = e.node
    BY <1>1, ChildFields
  <1> QED  BY <1>1, <1>2 DEF Grown

\* The rule on top, before and after its hook.
LEMMA Beneath ==
  ASSUME Inv, NEW rule \in RuleNames, NEW state \in {"open", "close"}, Step(rule, state), NEW stk, stk = Readied,
         state = "close" => /\ rule # "prod" /\ (rule = "elem" => Top.u = <<>>) /\ (rule = "alts" => Top.child # <<>>)
  PROVE  \A i \in 1 .. Height - 1 : stk[i] = stack[i]
  <1>1. Frames /\ Top.rule = rule /\ Top.state = state
    BY At
  <1> PICK h : h = Height
    OBVIOUS
  <1> PICK g : g = h - 1
    OBVIOUS
  <1>2. h \in Nat \ {0} /\ \A i \in 1 .. h - 2 : stk[i] = stack[i]
    BY <1>1, HookLeaves
  <1>3. h > 1 => stk[g] = stack[g]
    <2>1. CASE stk = stack
      BY <2>1
    <2>2. CASE stk # stack
      <3>1. Top.state = "close" /\ Top.rule \notin {"ebnf", "seq", "atom"}
        BY <1>1, <2>2, HookLeaves
      <3>2. CASE rule = "alts"
        BY <1>1, <3>1, <3>2, HookLeaves
      <3>3. CASE rule = "post"
        BY <1>1, <2>2, <3>1, <3>3, HookLeaves
      <3>4. CASE rule = "elem"
        BY <1>1, <2>2, <3>1, <3>4, HookLeaves
      <3> QED  BY <1>1, <3>1, <3>2, <3>3, <3>4 DEF RuleNames
    <2> QED  BY <2>1, <2>2
  <1>4. ASSUME NEW i \in 1 .. h - 1  PROVE i \in 1 .. h - 2 \/ (i = g /\ h > 1)
    BY <1>2
  <1> QED  BY <1>2, <1>3, <1>4

LEMMA AltsHeld ==
  ASSUME NEW f, f.rule = "alts", f.state = "close", NEW w \in Words, Holds(f, w)
  PROVE  f.child # <<>> /\ IsAlts(w, Append(f.node[1], f.child[1]))
  <1>1. ~Childless(f)
    BY DEF Childless
  <1>2. f.child # <<>>
    BY <1>1, HoldsChild
  <1> PICK x : x = f.child[1]
    OBVIOUS
  <1>3. PICK w0 \in Words, w1 \in Words : w = Cat(w0, w1) /\ Awaits(f, w0) /\ Given(f, w1, f.child)
    BY <1>1, HoldsChild
  <1>4. IsSequence(w1, x)
    BY <1>3 DEF Given
  <1>5. \/ f.node[1] = <<>> /\ w0 = <<>>
        \/ \E v \in Words, bar \in Written({"ALT"}) : w0 = Cat(v, <<bar>>) /\ IsAlts(v, f.node[1])
    BY <1>3 DEF Awaits
  <1>6. CASE f.node[1] = <<>> /\ w0 = <<>>
    <2>1. w = w1 /\ IsAlts(w1, <<x>>)
      BY <1>3, <1>4, <1>6, CatLaws, AltsRules
    <2>2. Append(f.node[1], x) = <<x>>
      BY <1>6
    <2> QED  BY <1>2, <2>1, <2>2
  <1>7. ASSUME NEW v \in Words, NEW bar \in Written({"ALT"}), w0 = Cat(v, <<bar>>), IsAlts(v, f.node[1])
        PROVE  IsAlts(w, Append(f.node[1], x))
    BY <1>3, <1>4, <1>7, AltsRules, Zenon
  <1> QED  BY <1>2, <1>5, <1>6, <1>7

LEMMA AltsCloseTells ==
  ASSUME Inv, Tells, Step("alts", "close"), status' = "reading"
  PROVE  Tells'
  <1> PICK stk : stk = Readied
    OBVIOUS
  <1> PICK h : h = Height
    OBVIOUS
  <1> PICK g : g = h - 1
    OBVIOUS
  <1> PICK top : top = stk[h]
    OBVIOUS
  <1>1. /\ Frames /\ Top.rule = "alts" /\ Top.state = "close" /\ Tokenised /\ "alts" \in RuleNames /\ IsFrame(Top)
        /\ h \in Nat \ {0, 1} /\ Top = stack[h] /\ Follows(stack[g], Top) /\ Waits(stack[g], Top)
    BY At DEF RuleNames, Frames
  <1>2. Alternatives = altsClose
    BY <1>1 DEF Alternatives, Close
  <1>3. Top.child # <<>>
    BY <1>1, TellsTop, AltsHeld
  <1>4. /\ top.node[1] = Append(Top.node[1], Top.child[1]) /\ top.node # <<>>
        /\ \A i \in 1 .. h - 1 : stk[i] = stack[i]
    <2>0. Frames /\ Top.rule = "alts" /\ Top.state = "close" /\ Top.child # <<>>
      BY <1>1, <1>3
    <2>4. top = Extend(Top, Top.child[1])
      BY <2>0, HookLeaves
    <2> PICK x : x = Top.child[1]
      OBVIOUS
    <2>1. top = Extend(Top, x)
      BY <2>4
    <2>2. top.node[1] = Append(Top.node[1], Top.child[1]) /\ top.node # <<>>
      <3>1. IsFrame(Top)
        BY <1>1
      <3>2. top.node[1] = Append(Top.node[1], x) /\ top.node # <<>>
        BY <2>1, <3>1, ExtendFields
      <3> QED  BY <3>2
    <2>3. \A i \in 1 .. h - 1 : stk[i] = stack[i]
      BY <1>1, <1>3, Beneath
    <2> QED  BY <2>2, <2>3
  <1>5. PICK k \in 1 .. 2 : Moves(altsClose[k], stk)
    BY <1>1, <1>2, AltsCloseLegal, MovesOnOne
  <1> PICK alt : alt = altsClose[k]
    OBVIOUS
  <1> PICK f : f = Closed(alt, stk)
    OBVIOUS
  <1>6. CASE k = 1
    <2>1. alt = Alternative(<<{"ALT"}>>, 0, "always", "none", "seq", "none")
      BY <1>6, AltsTable
    <2>2. /\ src' = src /\ pos' = Tokens(alt) /\ Len(stk) = h /\ Agrees(alt, Top) /\ InSight(alt)
          /\ Moved(stk, f, "close", "seq", "none") /\ Done(f, top, "none", Seen(alt)) /\ LikeFrame(top, Top)
      BY <1>1, <1>5, <2>1, Taken
    <2>3. Pushed(stk, f, "seq") /\ f.rule = "alts" /\ f.node = top.node
      BY <1>1, <2>2 DEF Moved, Done, LikeFrame
    <2> PICK p : p = pos + 1
      OBVIOUS
    <2>4. pos' = p /\ Sees(1, {"ALT"})
      BY <1>1, <2>1, <2>2, OneIsTaken
    <2> PICK bar : bar = src[p]
      OBVIOUS
    <2>5. bar \in Written({"ALT"}) /\ <<bar>> \in Words /\ Heard(p) = Cat(Heard(pos), <<bar>>)
      BY <1>1, <2>4, HeardFixed DEF FixedKinds
    <2>6. ASSUME NEW w \in Words, Holds(Top, w)  PROVE Awaits(f, Cat(w, <<bar>>))
      <3>1. IsAlts(w, f.node[1])
        BY <1>1, <1>4, <2>3, <2>6, AltsHeld
      <3> QED  BY <2>3, <2>5, <3>1 DEF Awaits
    <2>7. HoldsAwaits(Top, f, <<bar>>)
      BY <2>6 DEF HoldsAwaits
    <2> QED  BY <1>1, <1>4, <2>2, <2>3, <2>4, <2>5, <2>7, "seq" \in RuleNames, PushTells DEF RuleNames
  <1>7. CASE k = 2
    <2>1. alt = Alternative(<<>>, 1, "always", "none", "none", "none")
      BY <1>7, AltsTable
    <2>2. /\ src' = src /\ pos' = Tokens(alt) /\ Len(stk) = h
          /\ Moved(stk, f, "close", "none", "none") /\ Done(f, top, "none", Seen(alt))
      BY <1>1, <1>5, <2>1, Taken
    <2>3. Left(stk, f) /\ f.node = top.node
      BY <1>1, <2>2 DEF Moved, Done
    <2>4. pos' = pos /\ Heard(pos) = Cat(Heard(pos), <<>>) /\ <<>> \in Words
      BY <1>1, <2>1, <2>2, HeardNow, TakesNone
    <2> PICK below : below = stack[g]
      OBVIOUS
    <2> PICK after : after = WithChild(stk[g], f.node)
      OBVIOUS
    <2>5. /\ stk[g] = below /\ IsFrame(below) /\ below.rule \in {"prod", "atom"} /\ below.state = "close"
          /\ below.rule = "atom" => below.u # <<>>
      <3>1. g \in 1 .. h - 1 /\ g \in 1 .. h
        BY <1>1
      <3>2. below.rule \in {"prod", "atom"}
        BY <1>1, WhatFollows DEF RuleNames
      <3> QED  BY <1>1, <1>4, <3>1, <3>2 DEF Frames, Waits
    <2>6. after.rule = below.rule /\ after.u = below.u /\ after.node = below.node /\ after.state = "close" /\ after.child = f.node
      BY <2>5, ChildFields
    <2>7. ASSUME NEW w0 \in Words, NEW w \in Words, Awaits(below, w0), Holds(Top, w)
          PROVE  Holds(after, Cat(w0, Cat(w, <<>>)))
      <3>1. Cat(w, <<>>) = w
        BY CatLaws
      <3>2. IsAlts(w, f.node[1]) /\ f.node # <<>>
        BY <1>1, <1>4, <2>3, <2>7, AltsHeld
      <3>3. Given(below, w, after.child)
        BY <2>5, <2>6, <3>2 DEF Given
      <3>4. Holds(after, Cat(w0, w))
        BY <2>5, <2>6, <2>7, <3>3, ChildHolds
      <3> QED  BY <3>1, <3>4
    <2>8. BothHold(stack[g], Top, WithChild(stk[g], f.node), <<>>)
      BY <2>7 DEF BothHold
    <2>9. \A i \in 1 .. h - 2 : stk[i] = stack[i]
      BY <1>1, <1>4
    <2> QED  BY <1>1, <2>2, <2>3, <2>4, <2>8, <2>9, ReturnTells
  <1> QED  BY <1>6, <1>7

LEMMA SeqHeld ==
  ASSUME NEW f, f.rule = "seq", f.state = "close", NEW w \in Words, Holds(f, w)
  PROVE  f.node # <<>> /\ IsSequence(w, f.node[1])
  <1>1. Gathered(f, w)
    BY HoldsAlone DEF Childless
  <1> QED  BY <1>1 DEF Gathered

LEMMA SeqOpenGoesOn ==
  ASSUME NEW k \in 1 .. 10, seqOpen[k].a \notin Refusals
  PROVE  k \in {4, 10}
  <1>1. /\ seqOpen[1].a \in Refusals /\ seqOpen[2].a \in Refusals /\ seqOpen[3].a \in Refusals /\ seqOpen[5].a \in Refusals
        /\ seqOpen[6].a \in Refusals /\ seqOpen[7].a \in Refusals /\ seqOpen[8].a \in Refusals /\ seqOpen[9].a \in Refusals
    BY SeqOpenTable, SeqHeads, SeqTail DEF Alternative, Refusals
  <1>2. k \in {1, 2, 3, 4, 5, 6, 7, 8, 9, 10}
    OBVIOUS
  <1> QED  BY <1>1, <1>2

LEMMA SeqCloseGoesOn ==
  ASSUME NEW k \in 1 .. 10, seqClose[k].a \notin Refusals
  PROVE  k \in {1, 2, 3, 4, 10}
  <1>1. /\ seqClose[5].a \in Refusals
        /\ seqClose[6].a \in Refusals /\ seqClose[7].a \in Refusals /\ seqClose[8].a \in Refusals /\ seqClose[9].a \in Refusals
    BY SeqCloseTable, SeqTail DEF Alternative, Refusals
  <1>2. k \in {1, 2, 3, 4, 5, 6, 7, 8, 9, 10}
    OBVIOUS
  <1> QED  BY <1>1, <1>2

LEMMA SeqOpenTells ==
  ASSUME Inv, Tells, Step("seq", "open"), status' = "reading"
  PROVE  Tells' \/ Misplaced'
  <1> PICK stk : stk = Readied
    OBVIOUS
  <1> PICK h : h = Height
    OBVIOUS
  <1>1. /\ Frames /\ Top.rule = "seq" /\ Top.state = "open" /\ Tokenised /\ "seq" \in RuleNames
        /\ Knows("seq", "open", Top.u) /\ h \in Nat \ {0} /\ Top = stack[h] /\ src' = src
    BY At DEF RuleNames
  <1>2. Alternatives = seqOpen
    BY <1>1 DEF Alternatives, Open, seqOpen
  <1>3. stk = stack
    BY <1>1 DEF Readied
  <1>4. PICK k \in 1 .. 10 : Moves(seqOpen[k], stk) /\ seqOpen[k].a \notin Refusals
    BY <1>1, <1>2, SeqOpenLegal, MovesOnOne
  <1>5. k \in {4, 10}
    BY <1>4, SeqOpenGoesOn
  <1> PICK alt : alt = seqOpen[k]
    OBVIOUS
  <1> PICK f : f = Closed(alt, stk)
    OBVIOUS
  <1>6. CASE k = 4
    <2>1. alt = Alternative(<<{"ST", "CC", "HX", "TX", "LP"}>>, 1, "always", "none", "elem", "none")
      BY <1>6, SeqOpenTable, SeqTail
    <2>2. /\ src' = src /\ pos' = Tokens(alt) /\ Len(stk) = h
          /\ Moved(stk, f, "open", "elem", "none") /\ Done(f, Top, "none", Seen(alt))
      BY <1>1, <1>3, <1>4, <2>1, Taken
    <2>3. Pushed(stk, f, "elem") /\ f.rule = "seq" /\ f.node = Top.node
      BY <1>1, <2>2 DEF Moved, Done
    <2>4. pos' = pos /\ Heard(pos) = Cat(Heard(pos), <<>>) /\ <<>> \in Words
      BY <1>1, <2>1, <2>2, HeardNow, GivesOneBack
    <2>5. ASSUME NEW w \in Words, Holds(Top, w)  PROVE Awaits(f, Cat(w, <<>>))
      <3>1. w = <<>> /\ f.node[1] = <<>>
        BY <1>1, <2>3, <2>5, Fresh
      <3>2. Cat(w, <<>>) = <<>>
        BY <3>1, CatLaws
      <3> QED  BY <2>3, <3>1, <3>2 DEF Awaits
    <2>6. HoldsAwaits(Top, f, <<>>)
      BY <2>5 DEF HoldsAwaits
    <2> QED  BY <1>1, <1>3, <2>2, <2>3, <2>4, <2>6, "elem" \in RuleNames, PushTells DEF RuleNames
  <1>7. CASE k = 10
    <2>1. alt = Alternative(<<>>, 1, "always", "none", "none", "none")
      BY <1>7, SeqOpenTable, SeqTail
    <2>2. Len(stk) = h /\ Moved(stk, f, "open", "none", "none")
      BY <1>1, <1>3, <1>4, <2>1, Taken
    <2>3. Len(stack') = h
      BY <2>2 DEF Moved, Topped
    <2>4. /\ \A why : Refuses(why) => why = "reading"
          /\ ~Pushes("none", "elem")
      BY <1>1, <2>3 DEF Refuses, Pushes
    <2>5. SeesOther(1, {"ALT", "RP", "SC", "ZZ", "CA", "ST", "CC", "HX", "TX", "LP", "QM", "SUB", "OB", "CB", "OS", "CS", "STAR", "PLUS"})
          /\ pos' = pos
      BY <1>1, <2>4, SeqOpenStep
    <2>6. Offender \in DEFOP
      BY <1>1, <2>5, InSightNext DEF Kinds, FixedKinds, DEFOP
    <2>7. Misplaced
      BY <1>1, <2>6 DEF Knows, Misplaced
    <2> QED  BY <1>1, <2>5, <2>7, Keeping DEF Misplaced, AtStart
  <1> QED  BY <1>5, <1>6, <1>7

LEMMA SeqCloseTells ==
  ASSUME Inv, Tells, Step("seq", "close"), status' = "reading"
  PROVE  Tells'
  <1> PICK stk : stk = Readied
    OBVIOUS
  <1> PICK h : h = Height
    OBVIOUS
  <1> PICK g : g = h - 1
    OBVIOUS
  <1>1. /\ Frames /\ Top.rule = "seq" /\ Top.state = "close" /\ Tokenised /\ "seq" \in RuleNames /\ IsFrame(Top)
        /\ h \in Nat \ {0, 1} /\ Top = stack[h] /\ Follows(stack[g], Top) /\ Waits(stack[g], Top)
    BY At DEF RuleNames, Frames
  <1>2. Alternatives = seqClose
    BY <1>1 DEF Alternatives, Close, seqClose
  <1>3. stk = stack /\ stk[h] = Top
    BY <1>1, HookLeaves
  <1>4. PICK k \in 1 .. 10 : Moves(seqClose[k], stk) /\ seqClose[k].a \notin Refusals
    BY <1>1, <1>2, SeqCloseLegal, MovesOnOne
  <1>5. k \in {1, 2, 3, 4, 10}
    BY <1>4, SeqCloseGoesOn
  <1> PICK alt : alt = seqClose[k]
    OBVIOUS
  <1> PICK f : f = Closed(alt, stk)
    OBVIOUS
  <1>6. CASE k \in {1, 2, 10}
    <2>1. PICK s, b : alt = Alternative(s, b, "always", "none", "none", "none") /\ Tokens(alt) = pos
      <3>1. CASE k = 1
        BY <1>1, <3>1, SeqCloseTable, SeqHeads, TakesHeader DEF Frames
      <3>2. CASE k = 2
        BY <1>1, <3>2, SeqCloseTable, SeqHeads, GivesOneBack DEF Frames
      <3>3. CASE k = 10
        BY <1>1, <3>3, SeqCloseTable, SeqTail, TakesNone DEF Frames
      <3> QED  BY <1>6, <3>1, <3>2, <3>3
    <2>2. /\ src' = src /\ pos' = Tokens(alt) /\ Len(stk) = h
          /\ Moved(stk, f, "close", "none", "none") /\ Done(f, Top, "none", Seen(alt))
      BY <1>1, <1>3, <1>4, <2>1, Taken
    <2>3. Left(stk, f) /\ f.node = Top.node
      BY <1>1, <2>2 DEF Moved, Done
    <2>4. pos' = pos /\ Heard(pos) = Cat(Heard(pos), <<>>) /\ <<>> \in Words
      BY <1>1, <2>1, <2>2, HeardNow
    <2> PICK below : below = stack[g]
      OBVIOUS
    <2> PICK after : after = WithChild(below, f.node)
      OBVIOUS
    <2>5. IsFrame(below) /\ below.rule = "alts" /\ below.state = "close"
      <3>1. g \in 1 .. h
        BY <1>1
      <3>2. below.rule = "alts"
        BY <1>1, WhatFollows DEF RuleNames
      <3> QED  BY <1>1, <3>1, <3>2 DEF Frames, Waits
    <2>6. after.rule = below.rule /\ after.u = below.u /\ after.node = below.node /\ after.state = "close" /\ after.child = f.node
      BY <2>5, ChildFields
    <2>7. ASSUME NEW w0 \in Words, NEW w \in Words, Awaits(below, w0), Holds(Top, w)
          PROVE  Holds(after, Cat(w0, Cat(w, <<>>)))
      <3>1. Cat(w, <<>>) = w
        BY CatLaws
      <3>2. IsSequence(w, f.node[1]) /\ f.node # <<>>
        BY <1>1, <2>3, <2>7, SeqHeld
      <3>3. Given(below, w, after.child)
        BY <2>5, <2>6, <3>2 DEF Given
      <3>4. Holds(after, Cat(w0, w))
        BY <2>5, <2>6, <2>7, <3>3, ChildHolds
      <3> QED  BY <3>1, <3>4
    <2>8. BothHold(stack[g], Top, WithChild(stk[g], f.node), <<>>)
      BY <1>3, <2>7 DEF BothHold
    <2>9. \A i \in 1 .. h - 2 : stk[i] = stack[i]
      BY <1>3
    <2> QED  BY <1>1, <2>2, <2>3, <2>4, <2>8, <2>9, ReturnTells
  <1>7. CASE k = 3
    <2>1. alt = Alternative(<<{"CA"}>>, 0, "always", "none", "elem", "none")
      BY <1>7, SeqCloseTable, SeqHeads
    <2>2. /\ src' = src /\ pos' = Tokens(alt) /\ Len(stk) = h /\ Agrees(alt, Top) /\ InSight(alt)
          /\ Moved(stk, f, "close", "elem", "none") /\ Done(f, Top, "none", Seen(alt))
      BY <1>1, <1>3, <1>4, <2>1, Taken
    <2>3. Pushed(stk, f, "elem") /\ f.rule = "seq" /\ f.node = Top.node
      BY <1>1, <2>2 DEF Moved, Done
    <2> PICK p : p = pos + 1
      OBVIOUS
    <2>4. pos' = p /\ Sees(1, {"CA"})
      BY <1>1, <2>1, <2>2, OneIsTaken
    <2> PICK comma : comma = src[p]
      OBVIOUS
    <2>5. comma \in Written({"CA"}) /\ <<comma>> \in Words /\ Heard(p) = Cat(Heard(pos), <<comma>>)
      BY <1>1, <2>4, HeardFixed DEF FixedKinds
    <2>6. ASSUME NEW w \in Words, Holds(Top, w)  PROVE Awaits(f, Cat(w, <<comma>>))
      <3>1. IsSequence(w, f.node[1])
        BY <1>1, <2>3, <2>6, SeqHeld
      <3>2. <<comma>> \in {<<>>} \cup Mark("CA")
        BY <2>5, MarkIs
      <3> QED  BY <2>3, <3>1, <3>2 DEF Awaits
    <2>7. HoldsAwaits(Top, f, <<comma>>)
      BY <2>6 DEF HoldsAwaits
    <2> QED  BY <1>1, <1>3, <2>2, <2>3, <2>4, <2>5, <2>7, "elem" \in RuleNames, PushTells DEF RuleNames
  <1>8. CASE k = 4
    <2>1. alt = Alternative(<<{"ST", "CC", "HX", "TX", "LP"}>>, 1, "always", "none", "elem", "none")
      BY <1>8, SeqCloseTable, SeqTail
    <2>2. /\ src' = src /\ pos' = Tokens(alt) /\ Len(stk) = h
          /\ Moved(stk, f, "close", "elem", "none") /\ Done(f, Top, "none", Seen(alt))
      BY <1>1, <1>3, <1>4, <2>1, Taken
    <2>3. Pushed(stk, f, "elem") /\ f.rule = "seq" /\ f.node = Top.node
      BY <1>1, <2>2 DEF Moved, Done
    <2>4. pos' = pos /\ Heard(pos) = Cat(Heard(pos), <<>>) /\ <<>> \in Words
      BY <1>1, <2>1, <2>2, HeardNow, GivesOneBack
    <2>6. ASSUME NEW w \in Words, Holds(Top, w)  PROVE Awaits(f, Cat(w, <<>>))
      <3>1. IsSequence(w, f.node[1])
        BY <1>1, <2>3, <2>6, SeqHeld
      <3>2. <<>> \in {<<>>} \cup Mark("CA")
        OBVIOUS
      <3> QED  BY <2>3, <3>1, <3>2 DEF Awaits
    <2>7. HoldsAwaits(Top, f, <<>>)
      BY <2>6 DEF HoldsAwaits
    <2> QED  BY <1>1, <1>3, <2>2, <2>3, <2>4, <2>7, "elem" \in RuleNames, PushTells DEF RuleNames
  <1> QED  BY <1>5, <1>6, <1>7, <1>8

LEMMA ElemOpenTells ==
  ASSUME Inv, Tells, Step("elem", "open"), status' = "reading"
  PROVE  Tells'
  <1> PICK stk : stk = Readied
    OBVIOUS
  <1>1. Frames /\ Top.rule = "elem" /\ Top.state = "open" /\ Tokenised /\ "elem" \in RuleNames
    BY At DEF RuleNames
  <1>2. Alternatives = elemOpen
    BY <1>1 DEF Alternatives, Open
  <1>3. Moves(elemOpen[1], stk)
    BY <1>1, <1>2, ElemOpenLegal, MovesOnOne
  <1> PICK alt : alt = elemOpen[1]
    OBVIOUS
  <1>4. alt = Alternative(<<>>, 0, "always", "none", "atom", "none")
    BY ElemTable
  <1> PICK f : f = Closed(alt, stk)
    OBVIOUS
  <1>5. stk = stack
    BY <1>1 DEF Readied
  <1>6. /\ src' = src /\ pos' = Tokens(alt) /\ Len(stk) = Height /\ Height \in Nat \ {0} /\ Top = stack[Height]
        /\ Moved(stk, f, "open", "atom", "none") /\ Done(f, Top, "none", Seen(alt))
    BY <1>1, <1>3, <1>4, <1>5, Taken
  <1>7. Pushed(stk, f, "atom") /\ f.rule = "elem" /\ f.u = Top.u
    BY <1>1, <1>6 DEF Moved, Done
  <1>8. pos' = pos /\ Heard(pos) = Cat(Heard(pos), <<>>) /\ <<>> \in Words
    BY <1>1, <1>4, <1>6, HeardNow, TakesNone
  <1>9. ASSUME NEW w \in Words, Holds(Top, w)  PROVE Awaits(f, Cat(w, <<>>))
    <2>1. w = <<>> /\ f.u = <<>>
      BY <1>1, <1>7, <1>9, Fresh
    <2>2. Cat(w, <<>>) = <<>>
      BY <2>1, CatLaws
    <2> QED  BY <1>7, <2>1, <2>2 DEF Awaits
  <1>10. HoldsAwaits(Top, f, <<>>)
    BY <1>9 DEF HoldsAwaits
  <1> QED  BY <1>5, <1>6, <1>7, <1>8, <1>10, "atom" \in RuleNames, PushTells DEF RuleNames

LEMMA ElemHeld ==
  ASSUME NEW f, f.rule = "elem", f.state = "close", NEW w \in Words, Holds(f, w)
  PROVE  /\ f.child # <<>>
         /\ f.u = <<>> => IsElem(w, f.child[1])
         /\ f.u # <<>> => IsElem(w, Wrapped(f.u[1], f.child[1]))
  <1>1. ~Childless(f)
    BY DEF Childless
  <1>2. f.child # <<>>
    BY <1>1, HoldsChild
  <1> PICK x : x = f.child[1]
    OBVIOUS
  <1>3. PICK w0 \in Words, w1 \in Words : w = Cat(w0, w1) /\ Awaits(f, w0) /\ Given(f, w1, f.child)
    BY <1>1, HoldsChild
  <1>4. CASE f.u = <<>>
    <2>1. w0 = <<>> /\ IsElem(w1, x)
      BY <1>3, <1>4 DEF Awaits, Given
    <2> QED  BY <1>2, <1>3, <1>4, <2>1, CatLaws
  <1>5. CASE f.u # <<>>
    <2>1. IsElem(w0, f.u[1]) /\ AreOperators(w1, x)
      BY <1>3, <1>5 DEF Awaits, Given
    <2>2. IsElem(Cat(w0, w1), Wrapped(f.u[1], x))
      BY <2>1, Zenon DEF AreOperators
    <2> QED  BY <1>2, <1>3, <1>5, <2>2
  <1> QED  BY <1>4, <1>5

\* The sequence that an element is read for.
LEMMA SeqAwaited ==
  ASSUME NEW f, f.rule = "seq", NEW w0 \in Words, Awaits(f, w0), NEW w \in Words, NEW x, IsElem(w, x)
  PROVE  IsSequence(Cat(w0, w), Append(f.node[1], x))
  <1>1. \/ f.node[1] = <<>> /\ w0 = <<>>
        \/ \E v \in Words, sep \in {<<>>} \cup Mark("CA") : w0 = Cat(v, sep) /\ IsSequence(v, f.node[1])
    BY DEF Awaits
  <1>2. CASE f.node[1] = <<>> /\ w0 = <<>>
    <2>1. Cat(w0, w) = w /\ IsSequence(w, <<x>>)
      BY <1>2, CatLaws, SequenceRules
    <2>2. Append(f.node[1], x) = <<x>>
      BY <1>2
    <2> QED  BY <2>1, <2>2
  <1>3. ASSUME NEW v \in Words, NEW sep \in {<<>>} \cup Mark("CA"), w0 = Cat(v, sep), IsSequence(v, f.node[1])
        PROVE  IsSequence(Cat(w0, w), Append(f.node[1], x))
    BY <1>3, SequenceRules, Zenon
  <1> QED  BY <1>1, <1>2, <1>3

LEMMA ElemCloseTells ==
  ASSUME Inv, Tells, Step("elem", "close"), status' = "reading"
  PROVE  Tells'
  <1> PICK stk : stk = Readied
    OBVIOUS
  <1> PICK h : h = Height
    OBVIOUS
  <1> PICK g : g = h - 1
    OBVIOUS
  <1> PICK top : top = stk[h]
    OBVIOUS
  <1>1. /\ Frames /\ Top.rule = "elem" /\ Top.state = "close" /\ Tokenised /\ "elem" \in RuleNames /\ IsFrame(Top)
        /\ h \in Nat \ {0, 1} /\ Top = stack[h] /\ Follows(stack[g], Top) /\ Waits(stack[g], Top)
    BY At DEF RuleNames, Frames
  <1>2. Alternatives = elemClose
    BY <1>1 DEF Alternatives, Close
  <1>3. PICK k \in 1 .. 2 : Moves(elemClose[k], stk)
    BY <1>1, <1>2, ElemCloseLegal, MovesOnOne
  <1> PICK alt : alt = elemClose[k]
    OBVIOUS
  <1> PICK f : f = Closed(alt, stk)
    OBVIOUS
  <1>4. \A why : Refuses(why) => why = "reading"
    BY DEF Refuses
  <1>5. CASE k = 1
    <2>1. alt = Alternative(<<>>, 0, "not-got", "got", "post", "none")
      BY <1>5, ElemTable
    <2>2. /\ src' = src /\ pos' = Tokens(alt) /\ Len(stk) = h /\ Agrees(alt, Top)
          /\ Moved(stk, f, "close", "post", "none") /\ Done(f, top, "got", Seen(alt)) /\ LikeFrame(top, Top)
      BY <1>1, <1>3, <2>1, Taken
    <2>3. Pushed(stk, f, "post") /\ f.rule = "elem" /\ f.u = Top.child
      BY <1>1, <2>2 DEF Moved, Done, LikeFrame
    <2>4. Top.u = <<>>
      BY <2>1, <2>2, NotGotAlternative
    <2>5. \A i \in 1 .. h - 1 : stk[i] = stack[i]
      BY <1>1, <2>4, Beneath
    <2>6. pos' = pos /\ Heard(pos) = Cat(Heard(pos), <<>>) /\ <<>> \in Words
      BY <1>1, <2>1, <2>2, HeardNow, TakesNone
    <2>7. ASSUME NEW w \in Words, Holds(Top, w)  PROVE Awaits(f, Cat(w, <<>>))
      <3>1. Top.child # <<>> /\ IsElem(w, Top.child[1])
        BY <1>1, <2>4, <2>7, ElemHeld
      <3>2. Cat(w, <<>>) = w
        BY CatLaws
      <3> QED  BY <2>3, <3>1, <3>2 DEF Awaits
    <2>8. HoldsAwaits(Top, f, <<>>)
      BY <2>7 DEF HoldsAwaits
    <2> QED  BY <1>1, <2>2, <2>3, <2>5, <2>6, <2>8, "post" \in RuleNames, PushTells DEF RuleNames
  <1>6. CASE k = 2
    <2>1. alt = Alternative(<<>>, 1, "always", "none", "none", "none")
      BY <1>6, ElemTable
    <2>2. /\ src' = src /\ pos' = Tokens(alt) /\ Len(stk) = h
          /\ Moved(stk, f, "close", "none", "none") /\ Done(f, top, "none", Seen(alt))
      BY <1>1, <1>3, <2>1, Taken
    <2>3. Left(stk, f) /\ Len(stack') = h - 1
      BY <1>1, <2>2 DEF Moved, Left
    <2>4. Top.u # <<>>
      <3>1. ~Pushes("got", "post")
        BY <1>1, <2>3 DEF Pushes
      <3> QED  BY <1>1, <3>1, ElemCloseStep
    <2> PICK x : x = Wrapped(Top.u[1], Top.child[1])
      OBVIOUS
    <2>5. stk[g] = Extend(stack[g], x) /\ \A i \in 1 .. h - 2 : stk[i] = stack[i]
      BY <1>1, <2>4, HookLeaves
    <2>6. pos' = pos /\ Heard(pos) = Cat(Heard(pos), <<>>) /\ <<>> \in Words
      BY <1>1, <2>1, <2>2, HeardNow, TakesNone
    <2> PICK below : below = stack[g]
      OBVIOUS
    <2> PICK after : after = WithChild(stk[g], f.node)
      OBVIOUS
    <2>7. IsFrame(below) /\ below.rule = "seq" /\ below.state = "close"
      <3>1. g \in 1 .. h
        BY <1>1
      <3>2. below.rule = "seq"
        BY <1>1, WhatFollows DEF RuleNames
      <3> QED  BY <1>1, <3>1, <3>2 DEF Frames, Waits
    <2>8. after.rule = "seq" /\ after.state = "close" /\ after.node # <<>> /\ after.node[1] = Append(below.node[1], x)
      <3>1. after = WithChild(Extend(below, x), f.node)
        BY <2>5
      <3>2. Grown(after, below, x)
        BY <2>7, <3>1, AfterExtend, Zenon
      <3> QED  BY <2>7, <3>2 DEF Grown
    <2>9. ASSUME NEW w0 \in Words, NEW w \in Words, Awaits(below, w0), Holds(Top, w)
          PROVE  Holds(after, Cat(w0, Cat(w, <<>>)))
      <3>1. Cat(w, <<>>) = w
        BY CatLaws
      <3>2. IsElem(w, x)
        BY <1>1, <2>4, <2>9, ElemHeld
      <3>3. IsSequence(Cat(w0, w), after.node[1])
        BY <2>7, <2>8, <2>9, <3>2, SeqAwaited
      <3>4. Gathered(after, Cat(w0, w)) /\ Childless(after)
        BY <2>8, <3>3 DEF Gathered, Childless
      <3> QED  BY <2>8, <3>1, <3>4, HoldsAlone
    <2>10. BothHold(stack[g], Top, WithChild(stk[g], f.node), <<>>)
      BY <2>9 DEF BothHold
    <2> QED  BY <1>1, <2>2, <2>3, <2>5, <2>6, <2>10, ReturnTells
  <1> QED  BY <1>5, <1>6

LEMMA PostOperator ==
  ASSUME NEW k \in 1 .. 3
  PROVE  \E kind \in {"QM", "STAR", "PLUS"} :
           /\ postOpen[k] = Alternative(<<{kind}>>, 0, "always", Operator(kind), "post", "none")
           /\ Operator(kind) \in {"opt", "star", "plus"}
  <1>1. Operator("QM") = "opt" /\ Operator("STAR") = "star" /\ Operator("PLUS") = "plus"
    BY DEF Operator
  <1>2. k \in {1, 2, 3}
    OBVIOUS
  <1>3. CASE k = 1
    BY <1>1, <1>3, PostTable
  <1>4. CASE k = 2
    BY <1>1, <1>4, PostTable
  <1>5. CASE k = 3
    BY <1>1, <1>5, PostTable
  <1> QED  BY <1>2, <1>3, <1>4, <1>5

LEMMA PostOpenTells ==
  ASSUME Inv, Tells, Step("post", "open"), status' = "reading"
  PROVE  Tells'
  <1> PICK stk : stk = Readied
    OBVIOUS
  <1> PICK h : h = Height
    OBVIOUS
  <1>1. /\ Frames /\ Top.rule = "post" /\ Top.state = "open" /\ Tokenised /\ "post" \in RuleNames
        /\ h \in Nat \ {0} /\ Top = stack[h]
    BY At DEF RuleNames
  <1>2. Alternatives = postOpen
    BY <1>1 DEF Alternatives, Open
  <1>3. stk = stack
    BY <1>1 DEF Readied
  <1>4. PICK k \in 1 .. 4 : Moves(postOpen[k], stk)
    BY <1>1, <1>2, PostOpenLegal, MovesOnOne
  <1> PICK alt : alt = postOpen[k]
    OBVIOUS
  <1> PICK f : f = Closed(alt, stk)
    OBVIOUS
  <1>5. CASE k \in 1 .. 3
    <2>1. PICK kind \in {"QM", "STAR", "PLUS"} :
            /\ alt = Alternative(<<{kind}>>, 0, "always", Operator(kind), "post", "none")
            /\ Operator(kind) \in {"opt", "star", "plus"}
      BY <1>5, PostOperator
    <2> PICK o : o = Operator(kind)
      OBVIOUS
    <2>2. /\ src' = src /\ pos' = Tokens(alt) /\ Len(stk) = h /\ Agrees(alt, Top) /\ InSight(alt)
          /\ Moved(stk, f, "open", "post", "none") /\ Done(f, Top, o, Seen(alt))
      BY <1>1, <1>3, <1>4, <2>1, Taken
    <2>3. Pushed(stk, f, "post") /\ f.rule = "post" /\ f.node = <<Append(Top.node[1], o)>>
      BY <1>1, <2>1, <2>2 DEF Moved, Done
    <2> PICK p : p = pos + 1
      OBVIOUS
    <2>4. pos' = p /\ Sees(1, {kind})
      <3>1. alt = Alternative(<<{kind}>>, 0, "always", o, "post", "none")
        BY <2>1
      <3>2. Tokens(alt) = p
        BY <1>1, <3>1, TakesOne DEF Frames
      <3>3. Sees(1, {kind})
        BY <2>2, <3>1, OneTokenAlternative
      <3> QED  BY <2>2, <3>2, <3>3
    <2> PICK op : op = src[p]
      OBVIOUS
    <2>5. op \in Written({kind}) /\ <<op>> \in Words /\ Heard(p) = Cat(Heard(pos), <<op>>)
      BY <1>1, <2>4, HeardFixed DEF FixedKinds
    <2>6. op \in Written({"QM", "STAR", "PLUS"}) /\ Operator(Kind(op)) = o
      <3>1. Kind(op) = kind
        BY <2>5 DEF Written
      <3> QED  BY <2>5, <3>1 DEF Written
    <2>7. ASSUME NEW w \in Words, Holds(Top, w)  PROVE Awaits(f, Cat(w, <<op>>))
      <3>1. w = <<>> /\ Top.node[1] = <<>>
        BY <1>1, <2>7, Fresh
      <3>2. f.node[1] = <<o>>
        BY <2>3, <3>1
      <3>3. Cat(w, <<op>>) = <<op>>
        BY <2>5, <3>1, CatLaws
      <3> QED  BY <2>3, <2>6, <3>2, <3>3 DEF Awaits
    <2>8. HoldsAwaits(Top, f, <<op>>)
      BY <2>7 DEF HoldsAwaits
    <2> QED  BY <1>1, <1>3, <2>2, <2>3, <2>4, <2>5, <2>8, PushTells
  <1>6. CASE k = 4
    <2>1. alt = Alternative(<<>>, 1, "always", "none", "none", "none")
      BY <1>6, PostTable
    <2>2. /\ src' = src /\ pos' = Tokens(alt) /\ Len(stk) = h
          /\ Moved(stk, f, "open", "none", "none") /\ Done(f, Top, "none", Seen(alt))
      BY <1>1, <1>3, <1>4, <2>1, Taken
    <2>3. Topped(stk, f) /\ f.rule = "post" /\ f.state = "close" /\ f.node = Top.node /\ f.child = Top.child
      BY <1>1, <2>2 DEF Moved, Done
    <2>4. pos' = pos /\ Heard(pos) = Cat(Heard(pos), <<>>) /\ <<>> \in Words
      BY <1>1, <2>1, <2>2, HeardNow, TakesNone
    <2>5. ASSUME NEW w \in Words, Holds(Top, w)  PROVE Holds(f, Cat(w, <<>>))
      <3>1. w = <<>> /\ f.node # <<>> /\ f.node[1] = <<>> /\ f.child = <<>>
        BY <1>1, <2>3, <2>5, Fresh
      <3>2. Cat(w, <<>>) = <<>>
        BY <3>1, CatLaws
      <3>3. Gathered(f, <<>>) /\ Childless(f)
        BY <2>3, <3>1 DEF Gathered, Childless
      <3> QED  BY <2>3, <3>2, <3>3, HoldsAlone
    <2>6. HoldsHolds(Top, f, <<>>)
      BY <2>5 DEF HoldsHolds
    <2> QED  BY <1>1, <1>3, <2>2, <2>3, <2>4, <2>6, StayTells
  <1> QED  BY <1>5, <1>6

LEMMA PostHeld ==
  ASSUME NEW f, f.rule = "post", f.state = "close", NEW w \in Words, Holds(f, w)
  PROVE  /\ f.child = <<>> => f.node # <<>> /\ AreOperators(w, f.node[1])
         /\ f.child # <<>> => AreOperators(w, Cat(f.node[1], f.child[1]))
  <1>1. CASE f.child = <<>>
    <2>1. Gathered(f, w)
      BY <1>1, HoldsAlone DEF Childless
    <2>2. f.node # <<>> /\ f.node[1] = <<>> /\ w = <<>>
      BY <2>1 DEF Gathered
    <2> QED  BY <1>1, <2>2, NoOperators
  <1>2. CASE f.child # <<>>
    <2>1. ~Childless(f)
      BY <1>2 DEF Childless
    <2> PICK x : x = f.child[1]
      OBVIOUS
    <2>2. PICK w0 \in Words, w1 \in Words : w = Cat(w0, w1) /\ Awaits(f, w0) /\ Given(f, w1, f.child)
      BY <2>1, HoldsChild
    <2>3. AreOperators(w1, x)
      BY <2>2 DEF Given
    <2>4. PICK op \in Written({"QM", "STAR", "PLUS"}) : w0 = <<op>> /\ f.node[1] = <<Operator(Kind(op))>>
      BY <2>2 DEF Awaits
    <2>5. AreOperators(Cat(<<op>>, w1), <<Operator(Kind(op))>> \o x)
      BY <2>3, MoreOperators
    <2> QED  BY <1>2, <2>2, <2>4, <2>5 DEF Cat
  <1> QED  BY <1>1, <1>2

LEMMA PostCloseTells ==
  ASSUME Inv, Tells, Step("post", "close"), status' = "reading"
  PROVE  Tells'
  <1> PICK stk : stk = Readied
    OBVIOUS
  <1> PICK h : h = Height
    OBVIOUS
  <1> PICK g : g = h - 1
    OBVIOUS
  <1> PICK top : top = stk[h]
    OBVIOUS
  <1>1. /\ Frames /\ Top.rule = "post" /\ Top.state = "close" /\ Tokenised /\ "post" \in RuleNames /\ IsFrame(Top)
        /\ h \in Nat \ {0, 1} /\ Top = stack[h] /\ Follows(stack[g], Top) /\ Waits(stack[g], Top)
    BY At DEF RuleNames, Frames
  <1>2. Alternatives = postClose
    BY <1>1 DEF Alternatives, Close
  <1>3. Moves(postClose[1], stk)
    BY <1>1, <1>2, PostCloseLegal, MovesOnOne
  <1> PICK alt : alt = postClose[1]
    OBVIOUS
  <1> PICK f : f = Closed(alt, stk)
    OBVIOUS
  <1>4. alt = Alternative(<<>>, 1, "always", "none", "none", "none")
    BY PostTable
  <1>5. /\ src' = src /\ pos' = Tokens(alt) /\ Len(stk) = h
        /\ Moved(stk, f, "close", "none", "none") /\ Done(f, top, "none", Seen(alt))
    BY <1>1, <1>3, <1>4, Taken
  <1>6. Left(stk, f) /\ f.node = top.node
    BY <1>1, <1>5 DEF Moved, Done
  <1>7. pos' = pos /\ Heard(pos) = Cat(Heard(pos), <<>>) /\ <<>> \in Words
    BY <1>1, <1>4, <1>5, HeardNow, TakesNone
  <1>8. \A i \in 1 .. h - 1 : stk[i] = stack[i]
    BY <1>1, Beneath
  <1>9. ASSUME NEW w \in Words, Holds(Top, w)  PROVE f.node # <<>> /\ AreOperators(w, f.node[1])
    <2>1. CASE Top.child = <<>>
      <3>1. top = Top
        BY <1>1, <2>1, HookLeaves
      <3> QED  BY <1>1, <1>6, <1>9, <2>1, <3>1, PostHeld
    <2>2. CASE Top.child # <<>>
      <3> PICK x : x = Cat(Top.node[1], Top.child[1])
        OBVIOUS
      <3>1. top = WithNode(Top, <<x>>)
        BY <1>1, <2>2, HookLeaves
      <3>2. top.node = <<x>>
        BY <1>1, <3>1, NodeFields
      <3> QED  BY <1>1, <1>6, <1>9, <2>2, <3>2, PostHeld
    <2> QED  BY <2>1, <2>2
  <1> PICK below : below = stack[g]
    OBVIOUS
  <1> PICK after : after = WithChild(stk[g], f.node)
    OBVIOUS
  <1>10. /\ stk[g] = below /\ IsFrame(below) /\ below.rule \in {"elem", "post"} /\ below.state = "close"
         /\ below.rule = "elem" => below.u # <<>>
    <2>1. g \in 1 .. h - 1 /\ g \in 1 .. h
      BY <1>1
    <2>2. below.rule \in {"elem", "post"}
      BY <1>1, WhatFollows DEF RuleNames
    <2> QED  BY <1>1, <1>8, <2>1, <2>2 DEF Frames, Waits
  <1>11. /\ after.rule = below.rule /\ after.u = below.u /\ after.node = below.node /\ after.state = "close"
         /\ after.child = f.node
    BY <1>10, ChildFields
  <1>12. ASSUME NEW w0 \in Words, NEW w \in Words, Awaits(below, w0), Holds(Top, w)
        PROVE  Holds(after, Cat(w0, Cat(w, <<>>)))
    <2>1. Cat(w, <<>>) = w
      BY CatLaws
    <2>2. f.node # <<>> /\ AreOperators(w, f.node[1])
      BY <1>9, <1>12
    <2>3. Given(below, w, after.child)
      BY <1>10, <1>11, <2>2 DEF Given
    <2>4. Holds(after, Cat(w0, w))
      BY <1>10, <1>11, <1>12, <2>3, ChildHolds
    <2> QED  BY <2>1, <2>4
  <1>13. BothHold(stack[g], Top, WithChild(stk[g], f.node), <<>>)
    BY <1>12 DEF BothHold
  <1>14. \A i \in 1 .. h - 2 : stk[i] = stack[i]
    BY <1>1, <1>8
  <1> QED  BY <1>1, <1>5, <1>6, <1>7, <1>13, <1>14, ReturnTells

LEMMA HeardEnd ==
  ASSUME Tokenised, Sees(1, {"ZZ"}), NEW p, p = pos + 1
  PROVE  p \in 1 .. Len(src) /\ src[p] = EndOfSource /\ Heard(p) = Heard(pos)
  <1>1. p \in 1 .. Len(src) /\ Kind(src[p]) = "ZZ"
    BY InSightIs
  <1>2. src[p] \in Vocabulary \cup {EndOfSource}
    BY <1>1 DEF Tokenised
  <1>3. src[p] = EndOfSource
    BY <1>1, <1>2, NotTheEnd
  <1>4. pos \in Nat /\ pos < Len(src) /\ p \in Nat
    BY <1>1 DEF Tokenised
  <1>5. Heard(p) = Heard(pos)
    BY <1>3, <1>4, HeardNext
  <1> QED  BY <1>1, <1>3, <1>5

LEMMA EbnfOpenTells ==
  ASSUME Inv, Tells, Step("ebnf", "open"), status' = "reading"
  PROVE  Tells'
  <1> PICK stk : stk = Readied
    OBVIOUS
  <1> PICK h : h = Height
    OBVIOUS
  <1>1. /\ Frames /\ Top.rule = "ebnf" /\ Top.state = "open" /\ Tokenised /\ "ebnf" \in RuleNames
        /\ h \in Nat \ {0} /\ Top = stack[h]
    BY At DEF RuleNames
  <1>2. Alternatives = ebnfOpen
    BY <1>1 DEF Alternatives, Open
  <1>3. stk = stack
    BY <1>1 DEF Readied
  <1>4. PICK k \in 1 .. 2 : Moves(ebnfOpen[k], stk)
    BY <1>1, <1>2, EbnfOpenLegal, MovesOnOne
  <1> PICK alt : alt = ebnfOpen[k]
    OBVIOUS
  <1> PICK f : f = Closed(alt, stk)
    OBVIOUS
  <1>5. CASE k = 1
    <2>1. alt = Alternative(<<{"ZZ"}>>, 0, "always", "none", "none", "none")
      BY <1>5, EbnfTable
    <2>2. /\ src' = src /\ pos' = Tokens(alt) /\ Len(stk) = h /\ Agrees(alt, Top) /\ InSight(alt)
          /\ Moved(stk, f, "open", "none", "none") /\ Done(f, Top, "none", Seen(alt))
      BY <1>1, <1>3, <1>4, <2>1, Taken
    <2>3. Topped(stk, f) /\ f.rule = "ebnf" /\ f.state = "close" /\ f.node = Top.node
      BY <1>1, <2>2 DEF Moved, Done
    <2> PICK p : p = pos + 1
      OBVIOUS
    <2>4. pos' = p /\ Sees(1, {"ZZ"})
      BY <1>1, <2>1, <2>2, OneIsTaken
    <2>5. Heard(p) = Cat(Heard(pos), <<>>) /\ <<>> \in Words
      BY <1>1, <2>4, HeardEnd, HeardNow
    <2>6. ASSUME NEW w \in Words, Holds(Top, w)  PROVE Holds(f, Cat(w, <<>>))
      <3>1. w = <<>> /\ f.node[1] = <<>>
        BY <1>1, <2>3, <2>6, Fresh
      <3>2. Cat(w, <<>>) = <<>>
        BY <3>1, CatLaws
      <3>3. Gathered(f, <<>>) /\ Childless(f)
        BY <2>3, <3>1, SourceRules DEF Gathered, Childless
      <3> QED  BY <2>3, <3>2, <3>3, HoldsAlone
    <2>7. HoldsHolds(Top, f, <<>>)
      BY <2>6 DEF HoldsHolds
    <2> QED  BY <1>1, <1>3, <2>2, <2>3, <2>4, <2>5, <2>7, StayTells
  <1>6. CASE k = 2
    <2>1. alt = Alternative(<<>>, 0, "always", "none", "prod", "none")
      BY <1>6, EbnfTable
    <2>2. /\ src' = src /\ pos' = Tokens(alt) /\ Len(stk) = h
          /\ Moved(stk, f, "open", "prod", "none") /\ Done(f, Top, "none", Seen(alt))
      BY <1>1, <1>3, <1>4, <2>1, Taken
    <2>3. Pushed(stk, f, "prod") /\ f.rule = "ebnf" /\ f.node = Top.node
      BY <1>1, <2>2 DEF Moved, Done
    <2>4. pos' = pos /\ Heard(pos) = Cat(Heard(pos), <<>>) /\ <<>> \in Words
      BY <1>1, <2>1, <2>2, HeardNow, TakesNone
    <2>5. ASSUME NEW w \in Words, Holds(Top, w)  PROVE Awaits(f, Cat(w, <<>>))
      <3>1. w = <<>> /\ f.node[1] = <<>>
        BY <1>1, <2>3, <2>5, Fresh
      <3>2. Cat(w, <<>>) = <<>>
        BY <3>1, CatLaws
      <3> QED  BY <2>3, <3>1, <3>2, SourceRules DEF Awaits
    <2>6. HoldsAwaits(Top, f, <<>>)
      BY <2>5 DEF HoldsAwaits
    <2> QED  BY <1>1, <1>3, <2>2, <2>3, <2>4, <2>6, "prod" \in RuleNames, PushTells DEF RuleNames
  <1> QED  BY <1>5, <1>6

LEMMA Decoded ==
  ASSUME NEW tkn, NEW a \in {"name", "term", "regex", "code-point", "ref"}, NEW s, NEW b, NEW c, NEW p, NEW r,
         NEW alt, alt = Alternative(s, b, c, a, p, r), Throws(alt, tkn) = "no"
  PROVE  Text(tkn) # "!"
  <1>1. alt.a = a /\ a \notin Refusals
    BY DEF Alternative, Refusals
  <1> QED  BY <1>1 DEF Throws

\* The four atoms of one token, and the actions that read them.
LeafReaders == {<<"ST", "term">>, <<"CC", "regex">>, <<"HX", "code-point">>, <<"TX", "ref">>}

LEMMA LeafAlternative ==
  ASSUME NEW k \in 1 .. 4
  PROVE  \E kind \in AtomKinds, a \in {"term", "regex", "code-point", "ref"} :
           /\ <<kind, a>> \in LeafReaders
           /\ atomOpen[k] = Alternative(<<{kind}>>, 0, "always", a, "none", "none")
  <1>1. k \in {1, 2, 3, 4}
    OBVIOUS
  <1>2. CASE k = 1
    BY <1>2, AtomTable DEF LeafReaders, AtomKinds
  <1>3. CASE k = 2
    BY <1>3, AtomTable DEF LeafReaders, AtomKinds
  <1>4. CASE k = 3
    BY <1>4, AtomTable DEF LeafReaders, AtomKinds
  <1>5. CASE k = 4
    BY <1>5, AtomTable DEF LeafReaders, AtomKinds
  <1> QED  BY <1>1, <1>2, <1>3, <1>4, <1>5

LEMMA LeafIs ==
  ASSUME NEW kind, NEW a, <<kind, a>> \in LeafReaders, NEW tkn, Kind(tkn) = kind, NEW f, NEW top, Done(f, top, a, tkn)
  PROVE  f.rule = top.rule /\ f.state = "close" /\ f.u = top.u /\ f.node = <<Leaf(tkn)>>
  <1>1. f.rule = top.rule /\ f.state = "close"
    BY DEF Done
  <1>2. CASE kind = "ST" /\ a = "term"
    BY <1>1, <1>2 DEF Done, Leaf
  <1>3. CASE kind = "CC" /\ a = "regex"
    BY <1>1, <1>3 DEF Done, Leaf
  <1>4. CASE kind = "HX" /\ a = "code-point"
    BY <1>1, <1>4 DEF Done, Leaf
  <1>5. CASE kind = "TX" /\ a = "ref"
    BY <1>1, <1>5 DEF Done, Leaf
  <1> QED  BY <1>2, <1>3, <1>4, <1>5 DEF LeafReaders

LEMMA AtomOpenGoesOn ==
  ASSUME NEW k \in 1 .. 9, atomOpen[k].a \notin Refusals
  PROVE  k \in 1 .. 5
  <1>1. /\ atomOpen[6].a \in Refusals /\ atomOpen[7].a \in Refusals /\ atomOpen[8].a \in Refusals
        /\ atomOpen[9].a \in Refusals
    BY AtomTable DEF Alternative, Refusals
  <1>2. k \in {1, 2, 3, 4, 5, 6, 7, 8, 9}
    OBVIOUS
  <1> QED  BY <1>1, <1>2

LEMMA AtomOpenTells ==
  ASSUME Inv, Tells, Step("atom", "open"), status' = "reading"
  PROVE  Tells'
  <1> PICK stk : stk = Readied
    OBVIOUS
  <1> PICK h : h = Height
    OBVIOUS
  <1>1. /\ Frames /\ Top.rule = "atom" /\ Top.state = "open" /\ Tokenised /\ "atom" \in RuleNames
        /\ h \in Nat \ {0} /\ Top = stack[h]
    BY At DEF RuleNames
  <1>2. Alternatives = atomOpen
    BY <1>1 DEF Alternatives, Open
  <1>3. stk = stack
    BY <1>1 DEF Readied
  <1>4. PICK k \in 1 .. 9 : Moves(atomOpen[k], stk) /\ atomOpen[k].a \notin Refusals
    BY <1>1, <1>2, AtomOpenLegal, MovesOnOne
  <1>5. k \in 1 .. 4 \/ k = 5
    BY <1>4, AtomOpenGoesOn
  <1> PICK alt : alt = atomOpen[k]
    OBVIOUS
  <1> PICK f : f = Closed(alt, stk)
    OBVIOUS
  <1> PICK p : p = pos + 1
    OBVIOUS
  <1> PICK tkn : tkn = src[p]
    OBVIOUS
  <1>6. CASE k \in 1 .. 4
    <2>1. PICK kind \in AtomKinds, a \in {"term", "regex", "code-point", "ref"} :
            /\ <<kind, a>> \in LeafReaders
            /\ alt = Alternative(<<{kind}>>, 0, "always", a, "none", "none")
      BY <1>6, LeafAlternative
    <2>2. /\ src' = src /\ pos' = Tokens(alt) /\ Len(stk) = h /\ Agrees(alt, Top) /\ InSight(alt)
          /\ Throws(alt, Seen(alt)) = "no"
          /\ Moved(stk, f, "open", "none", "none") /\ Done(f, Top, a, Seen(alt))
      BY <1>1, <1>3, <1>4, <2>1, Taken
    <2>3. Topped(stk, f)
      BY <2>2 DEF Moved
    <2>4. pos' = p /\ Sees(1, {kind})
      <3>1. alt = Alternative(<<{kind}>>, 0, "always", a, "none", "none")
        BY <2>1
      <3>2. Tokens(alt) = p
        BY <1>1, <3>1, TakesOne DEF Frames
      <3>3. Sees(1, {kind})
        BY <2>2, <3>1, OneTokenAlternative
      <3> QED  BY <2>2, <3>2, <3>3
    <2>5. Seen(alt) = tkn
      BY <2>1 DEF Alternative, Seen
    <2>6. Text(tkn) # "!"
      BY <2>1, <2>2, <2>5, Decoded
    <2>7. tkn \in Written({kind}) /\ <<tkn>> \in Words /\ Heard(p) = Cat(Heard(pos), <<tkn>>)
      BY <1>1, <2>4, <2>6, HeardAtom
    <2>8. Kind(tkn) = kind /\ tkn \in Written(AtomKinds)
      BY <2>7 DEF Written
    <2>9. f.rule = "atom" /\ f.state = "close" /\ f.u = Top.u /\ f.node = <<Leaf(tkn)>>
      <3>1. Done(f, Top, a, tkn) /\ <<kind, a>> \in LeafReaders
        BY <2>1, <2>2, <2>5
      <3>2. f.rule = Top.rule /\ f.state = "close" /\ f.u = Top.u /\ f.node = <<Leaf(tkn)>>
        BY <2>8, <3>1, LeafIs
      <3> QED  BY <1>1, <3>2
    <2>10. ASSUME NEW w \in Words, Holds(Top, w)  PROVE Holds(f, Cat(w, <<tkn>>))
      <3>1. w = <<>> /\ f.u = <<>>
        BY <1>1, <2>9, <2>10, Fresh
      <3>2. Cat(w, <<tkn>>) = <<tkn>>
        BY <2>7, <3>1, CatLaws
      <3>3. IsElem(<<tkn>>, Leaf(tkn))
        BY <2>8, ElemRules
      <3>4. Gathered(f, <<tkn>>) /\ Childless(f)
        BY <2>9, <3>1, <3>3 DEF Gathered, Childless
      <3> QED  BY <2>9, <3>2, <3>4, HoldsAlone
    <2>11. HoldsHolds(Top, f, <<tkn>>)
      BY <2>10 DEF HoldsHolds
    <2> QED  BY <1>1, <1>3, <2>2, <2>3, <2>4, <2>7, <2>11, StayTells
  <1>7. CASE k = 5
    <2>1. alt = Alternative(<<{"LP"}>>, 0, "always", "open-group", "alts", "none")
      BY <1>7, AtomTable
    <2>2. /\ src' = src /\ pos' = Tokens(alt) /\ Len(stk) = h /\ Agrees(alt, Top) /\ InSight(alt)
          /\ Moved(stk, f, "open", "alts", "none") /\ Done(f, Top, "open-group", Seen(alt))
      BY <1>1, <1>3, <1>4, <2>1, Taken
    <2>3. Pushed(stk, f, "alts") /\ f.rule = "atom"
      BY <1>1, <2>2 DEF Moved, Done
    <2>4. pos' = p /\ Sees(1, {"LP"})
      BY <1>1, <2>1, <2>2, OneIsTaken
    <2>5. tkn \in Written({"LP"}) /\ <<tkn>> \in Words /\ Heard(p) = Cat(Heard(pos), <<tkn>>)
      BY <1>1, <2>4, HeardFixed DEF FixedKinds
    <2>6. ASSUME NEW w \in Words, Holds(Top, w)  PROVE Awaits(f, Cat(w, <<tkn>>))
      <3>1. w = <<>>
        BY <1>1, <2>6, Fresh
      <3>2. Cat(w, <<tkn>>) = <<tkn>>
        BY <2>5, <3>1, CatLaws
      <3> QED  BY <2>3, <2>5, <3>2 DEF Awaits
    <2>7. HoldsAwaits(Top, f, <<tkn>>)
      BY <2>6 DEF HoldsAwaits
    <2> QED  BY <1>1, <1>3, <2>2, <2>3, <2>4, <2>5, <2>7, "alts" \in RuleNames, PushTells DEF RuleNames
  <1> QED  BY <1>5, <1>6, <1>7

LEMMA AtomHeld ==
  ASSUME NEW f, f.rule = "atom", f.state = "close", NEW w \in Words, Holds(f, w)
  PROVE  /\ f.u = <<>> => f.node # <<>> /\ IsElem(w, f.node[1])
         /\ f.u # <<>> => \E lp \in Written({"LP"}), v \in Words : w = Cat(<<lp>>, v) /\ IsAlts(v, f.child[1])
  <1>1. CASE f.u = <<>>
    <2>1. Gathered(f, w)
      BY <1>1, HoldsAlone DEF Childless
    <2> QED  BY <1>1, <2>1 DEF Gathered
  <1>2. CASE f.u # <<>>
    <2>1. ~Childless(f)
      BY <1>2 DEF Childless
    <2>2. PICK w0 \in Words, w1 \in Words : w = Cat(w0, w1) /\ Awaits(f, w0) /\ Given(f, w1, f.child)
      BY <2>1, HoldsChild
    <2>3. IsAlts(w1, f.child[1]) /\ \E lp \in Written({"LP"}) : w0 = <<lp>>
      BY <2>2 DEF Given, Awaits
    <2> QED  BY <1>2, <2>2, <2>3
  <1> QED  BY <1>1, <1>2

LEMMA AtomCloseTells ==
  ASSUME Inv, Tells, Step("atom", "close"), status' = "reading"
  PROVE  Tells'
  <1> PICK stk : stk = Readied
    OBVIOUS
  <1> PICK h : h = Height
    OBVIOUS
  <1> PICK g : g = h - 1
    OBVIOUS
  <1>1. /\ Frames /\ Top.rule = "atom" /\ Top.state = "close" /\ Tokenised /\ "atom" \in RuleNames /\ IsFrame(Top)
        /\ h \in Nat \ {0, 1} /\ Top = stack[h] /\ Follows(stack[g], Top) /\ Waits(stack[g], Top)
    BY At DEF RuleNames, Frames
  <1>2. Alternatives = atomClose
    BY <1>1 DEF Alternatives, Close
  <1>3. stk = stack /\ stk[h] = Top
    BY <1>1, HookLeaves
  <1>4. PICK k \in 1 .. 3 : Moves(atomClose[k], stk) /\ atomClose[k].a \notin Refusals
    BY <1>1, <1>2, AtomCloseLegal, MovesOnOne
  <1>5. k \in {1, 3}
    <2>1. atomClose[2].a \in Refusals
      BY AtomTable DEF Alternative, Refusals
    <2> QED  BY <1>4, <2>1
  <1> PICK alt : alt = atomClose[k]
    OBVIOUS
  <1> PICK f : f = Closed(alt, stk)
    OBVIOUS
  <1>6. ASSUME NEW u \in Words, NEW p, pos' = p, Heard(p) = Cat(Heard(pos), u), src' = src, Len(stk) = h, Left(stk, f),
               \A w \in Words : Holds(Top, w) => f.node # <<>> /\ Cat(w, u) \in Words /\ IsElem(Cat(w, u), f.node[1])
        PROVE  Tells'
    <2> PICK below : below = stack[g]
      OBVIOUS
    <2> PICK after : after = WithChild(below, f.node)
      OBVIOUS
    <2>1. IsFrame(below) /\ below.rule = "elem" /\ below.state = "close" /\ below.u = <<>>
      <3>1. g \in 1 .. h
        BY <1>1
      <3>2. below.rule = "elem"
        BY <1>1, WhatFollows DEF RuleNames
      <3> QED  BY <1>1, <3>1, <3>2 DEF Frames, Waits
    <2>2. after.rule = below.rule /\ after.u = below.u /\ after.node = below.node /\ after.state = "close" /\ after.child = f.node
      BY <2>1, ChildFields
    <2>3. ASSUME NEW w0 \in Words, NEW w \in Words, Awaits(below, w0), Holds(Top, w)
          PROVE  Holds(after, Cat(w0, Cat(w, u)))
      <3> PICK v : v = Cat(w, u)
        OBVIOUS
      <3>1. v \in Words /\ f.node # <<>> /\ IsElem(v, f.node[1])
        BY <1>6, <2>3
      <3>2. Given(below, v, after.child)
        BY <2>1, <2>2, <3>1 DEF Given
      <3>3. Holds(after, Cat(w0, v))
        BY <2>1, <2>2, <2>3, <3>1, <3>2, ChildHolds
      <3> QED  BY <3>3
    <2>4. BothHold(stack[g], Top, WithChild(stk[g], f.node), u)
      BY <1>3, <2>3 DEF BothHold
    <2>5. \A i \in 1 .. h - 2 : stk[i] = stack[i]
      BY <1>3
    <2> QED  BY <1>1, <1>6, <2>4, <2>5, ReturnTells
  <1>7. CASE k = 1
    <2>1. alt = Alternative(<<{"RP"}>>, 0, "group", "close-group", "none", "none")
      BY <1>7, AtomTable
    <2>2. /\ src' = src /\ pos' = Tokens(alt) /\ Len(stk) = h /\ Agrees(alt, Top) /\ InSight(alt)
          /\ Moved(stk, f, "close", "none", "none") /\ Done(f, Top, "close-group", Seen(alt))
      BY <1>1, <1>3, <1>4, <2>1, Taken
    <2>3. Left(stk, f) /\ f.node = << <<"group", Top.child[1]>> >>
      BY <1>1, <2>2 DEF Moved, Done
    <2> PICK p : p = pos + 1
      OBVIOUS
    <2>4. pos' = p /\ Sees(1, {"RP"}) /\ Top.u # <<>>
      <3>1. Tokens(alt) = p
        BY <1>1, <2>1, TakesOne DEF Frames
      <3>2. Sees(1, {"RP"}) /\ Top.u # <<>>
        BY <2>1, <2>2, GroupAlternative
      <3> QED  BY <2>2, <3>1, <3>2
    <2> PICK rp : rp = src[p]
      OBVIOUS
    <2>5. rp \in Written({"RP"}) /\ <<rp>> \in Words /\ Heard(p) = Cat(Heard(pos), <<rp>>)
      BY <1>1, <2>4, HeardFixed DEF FixedKinds
    <2>6. ASSUME NEW w \in Words, Holds(Top, w)
          PROVE  f.node # <<>> /\ Cat(w, <<rp>>) \in Words /\ IsElem(Cat(w, <<rp>>), f.node[1])
      <3>1. PICK lp \in Written({"LP"}), v \in Words : w = Cat(<<lp>>, v) /\ IsAlts(v, Top.child[1])
        BY <1>1, <2>4, <2>6, AtomHeld
      <3> PICK x : x = Top.child[1]
        OBVIOUS
      <3>2. IsElem(Cat(Cat(<<lp>>, v), <<rp>>), <<"group", x>>)
        BY <2>5, <3>1, ElemRules
      <3>3. f.node # <<>> /\ f.node[1] = <<"group", x>>
        BY <2>3
      <3>4. Cat(w, <<rp>>) \in Words
        BY <2>5, CatLaws
      <3> QED  BY <3>1, <3>2, <3>3, <3>4
    <2> QED  BY <1>6, <2>2, <2>3, <2>4, <2>5, <2>6
  <1>8. CASE k = 3
    <2>1. alt = Alternative(<<>>, 1, "always", "none", "none", "none")
      BY <1>8, AtomTable
    <2>2. /\ src' = src /\ pos' = Tokens(alt) /\ Len(stk) = h
          /\ Moved(stk, f, "close", "none", "none") /\ Done(f, Top, "none", Seen(alt))
      BY <1>1, <1>3, <1>4, <2>1, Taken
    <2>3. Left(stk, f) /\ f.node = Top.node
      BY <1>1, <2>2 DEF Moved, Done
    <2>4. pos' = pos /\ pos # pos + 1 /\ Heard(pos) = Cat(Heard(pos), <<>>) /\ <<>> \in Words
      BY <1>1, <2>1, <2>2, HeardNow, TakesNone
    <2>5. Top.u = <<>>
      <3>1. ~Refuses("unclosed-group")
        BY DEF Refuses
      <3> QED  BY <1>1, <2>4, <3>1, AtomCloseStep
    <2>6. ASSUME NEW w \in Words, Holds(Top, w)
          PROVE  f.node # <<>> /\ Cat(w, <<>>) \in Words /\ IsElem(Cat(w, <<>>), f.node[1])
      <3>1. f.node # <<>> /\ IsElem(w, f.node[1])
        BY <1>1, <2>3, <2>5, <2>6, AtomHeld
      <3>2. Cat(w, <<>>) = w
        BY CatLaws
      <3> QED  BY <3>1, <3>2
    <2> QED  BY <1>6, <2>2, <2>3, <2>4, <2>6
  <1> QED  BY <1>5, <1>7, <1>8

LEMMA ProdOpenTells ==
  ASSUME Inv, Tells, Step("prod", "open"), status' = "reading"
  PROVE  Tells'
  <1> PICK stk : stk = Readied
    OBVIOUS
  <1>1. /\ Frames /\ Top.rule = "prod" /\ Top.state = "open" /\ Tokenised /\ "prod" \in RuleNames /\ pos \in Nat
        /\ Len(src) \in Nat
    BY At DEF RuleNames, Frames
  <1>2. Alternatives = prodOpen
    BY <1>1 DEF Alternatives, Open
  <1>3. Moves(prodOpen[1], stk)
    BY <1>1, <1>2, ProdOpenLegal, MovesOnOne
  <1> PICK alt : alt = prodOpen[1]
    OBVIOUS
  <1>4. alt = Alternative(Header, 0, "always", "name", "alts", "none")
    BY ProdTable
  <1> PICK f : f = Closed(alt, stk)
    OBVIOUS
  <1> PICK p : p = pos + 1
    OBVIOUS
  <1> PICK q : q = pos + 2
    OBVIOUS
  <1> PICK name : name = src[p]
    OBVIOUS
  <1> PICK def : def = src[q]
    OBVIOUS
  <1>5. stk = stack
    BY <1>1 DEF Readied
  <1>6. /\ src' = src /\ pos' = Tokens(alt) /\ Len(stk) = Height /\ Height \in Nat \ {0} /\ Top = stack[Height]
        /\ Agrees(alt, Top) /\ InSight(alt) /\ Throws(alt, Seen(alt)) = "no"
        /\ Moved(stk, f, "open", "alts", "none") /\ Done(f, Top, "name", Seen(alt))
    BY <1>1, <1>3, <1>4, <1>5, Taken
  <1>7. Seen(alt) = name
    <2>1. alt.s = Header
      BY <1>4 DEF Alternative
    <2> QED  BY <2>1 DEF Seen, Header
  <1>8. pos' = q
    BY <1>1, <1>4, <1>6, TakesHeader
  <1>9. Sees(1, {"TX"}) /\ Sees(2, DEFOP)
    BY <1>1, <1>4, <1>6, HeaderAlternative
  <1>10. Text(name) # "!"
    BY <1>4, <1>6, <1>7, Decoded
  <1>11. /\ name \in Written({"TX"}) /\ def \in Written({"DEF", "DEFE"})
         /\ <<name, def>> \in Words /\ Heard(q) = Cat(Heard(pos), <<name, def>>)
    BY <1>1, <1>9, <1>10, HeardHeader
  <1>12. Pushed(stk, f, "alts") /\ f.rule = "prod" /\ f.u = <<Text(name)>>
    BY <1>1, <1>6, <1>7 DEF Moved, Done
  <1>13. ASSUME NEW w \in Words, Holds(Top, w)  PROVE Awaits(f, Cat(w, <<name, def>>))
    <2>1. w = <<>>
      BY <1>1, <1>13, Fresh
    <2>2. Cat(w, <<name, def>>) = <<name, def>>
      BY <1>11, <2>1, CatLaws
    <2> QED  BY <1>11, <1>12, <2>2 DEF Awaits
  <1>14. HoldsAwaits(Top, f, <<name, def>>)
    BY <1>13 DEF HoldsAwaits
  <1> QED  BY <1>5, <1>6, <1>8, <1>11, <1>12, <1>14, "alts" \in RuleNames, PushTells DEF RuleNames

LEMMA ProdHeld ==
  ASSUME NEW f, f.rule = "prod", f.state = "close", NEW w \in Words, Holds(f, w)
  PROVE  /\ f.child # <<>>
         /\ \E name \in Written({"TX"}), def \in Written({"DEF", "DEFE"}), v \in Words :
              w = Cat(<<name, def>>, v) /\ f.u[1] = Text(name) /\ IsAlts(v, f.child[1])
  <1>1. ~Childless(f)
    BY DEF Childless
  <1>2. f.child # <<>>
    BY <1>1, HoldsChild
  <1>3. PICK w0 \in Words, w1 \in Words : w = Cat(w0, w1) /\ Awaits(f, w0) /\ Given(f, w1, f.child)
    BY <1>1, HoldsChild
  <1>4. PICK name \in Written({"TX"}), def \in Written({"DEF", "DEFE"}) : w0 = <<name, def>> /\ f.u = <<Text(name)>>
    BY <1>3 DEF Awaits
  <1>5. IsAlts(w1, f.child[1]) /\ f.u[1] = Text(name)
    BY <1>3, <1>4 DEF Given
  <1> QED  BY <1>2, <1>3, <1>4, <1>5

\* The production that a rule comes to.
ProdOf(f) == [name |-> f.u[1], alts |-> f.child[1]]

\* A production, with or without its semicolon, behind those read before it.
LEMMA ProdFollows ==
  ASSUME NEW below, below.rule = "ebnf", NEW f, f.rule = "prod", f.state = "close", NEW w0 \in Words, Awaits(below, w0),
         NEW w \in Words, Holds(f, w), NEW u \in {<<>>} \cup Mark("SC"), NEW e, e.rule = "ebnf",
         e.node[1] = Append(below.node[1], ProdOf(f))
  PROVE  Awaits(e, Cat(w0, Cat(w, u))) /\ Gathered(e, Cat(w0, Cat(w, u)))
  <1>1. IsSource(w0, below.node[1])
    BY DEF Awaits
  <1>2. PICK name \in Written({"TX"}), def \in Written({"DEF", "DEFE"}), v \in Words :
          w = Cat(<<name, def>>, v) /\ f.u[1] = Text(name) /\ IsAlts(v, f.child[1])
    BY ProdHeld
  <1> PICK x : x = below.node[1]
    OBVIOUS
  <1> PICK y : y = f.child[1]
    OBVIOUS
  <1>3. IsSource(Cat(w0, Cat(Cat(<<name, def>>, v), u)), Append(x, [name |-> Text(name), alts |-> y]))
    BY <1>1, <1>2, SourceRules, Zenon
  <1>4. IsSource(Cat(w0, Cat(w, u)), e.node[1])
    <2>1. ProdOf(f) = [name |-> Text(name), alts |-> y]
      BY <1>2, Zenon DEF ProdOf
    <2> QED  BY <1>2, <1>3, <2>1, Zenon
  <1> QED  BY <1>4 DEF Awaits, Gathered

LEMMA ProdGrown ==
  ASSUME NEW below, IsFrame(below) /\ below.rule = "ebnf" /\ below.state = "close", NEW x, NEW e, e = Extend(below, x)
  PROVE  /\ e.rule = "ebnf" /\ e.state = "close" /\ IsFrame(e) /\ e.node # <<>>
         /\ e.node[1] = Append(below.node[1], x)
  BY ExtendFields

LEMMA ProdCloseTells ==
  ASSUME Inv, Tells, Step("prod", "close"), status' = "reading"
  PROVE  Tells'
  <1> PICK stk : stk = Readied
    OBVIOUS
  <1> PICK h : h = Height
    OBVIOUS
  <1> PICK g : g = h - 1
    OBVIOUS
  <1> PICK top : top = stk[h]
    OBVIOUS
  <1>1. /\ Frames /\ Top.rule = "prod" /\ Top.state = "close" /\ Tokenised /\ "prod" \in RuleNames /\ IsFrame(Top)
        /\ h \in Nat \ {0, 1} /\ Top = stack[h] /\ Follows(stack[g], Top) /\ Waits(stack[g], Top)
        /\ pos \in Nat /\ Len(src) \in Nat
    BY At DEF RuleNames, Frames
  <1>2. Alternatives = prodClose
    BY <1>1 DEF Alternatives, Close
  <1>3. Top.child # <<>>
    BY <1>1, TellsTop, ProdHeld
  <1> PICK x : x = ProdOf(Top)
    OBVIOUS
  <1> PICK below : below = stack[g]
    OBVIOUS
  <1> PICK e : e = Extend(below, x)
    OBVIOUS
  <1>4. stk[g] = e /\ top = Top /\ \A i \in 1 .. h - 2 : stk[i] = stack[i]
    <2>1. top = Top /\ stk[g] = Extend(stack[g], ProdOf(Top))
      BY <1>1, <1>3, HookLeaves DEF ProdOf
    <2>2. \A i \in 1 .. h - 2 : stk[i] = stack[i]
      BY <1>1, HookLeaves
    <2>3. Extend(stack[g], ProdOf(Top)) = e
      BY Zenon
    <2> QED  BY <2>1, <2>2, <2>3, Zenon
  <1>5. IsFrame(below) /\ below.rule = "ebnf" /\ below.state = "close"
    <2>1. g \in 1 .. h
      BY <1>1
    <2>2. below.rule = "ebnf"
      BY <1>1, WhatFollows DEF RuleNames
    <2> QED  BY <1>1, <2>1, <2>2 DEF Frames, Waits
  <1>6. /\ e.rule = "ebnf" /\ e.state = "close" /\ IsFrame(e) /\ e.node # <<>>
        /\ e.node[1] = Append(below.node[1], x)
    BY <1>5, ProdGrown
  <1>7. ASSUME NEW u \in {<<>>} \cup Mark("SC")  PROVE BothAwait(stack[g], Top, stk[g], u)
    <2>1. ASSUME NEW w0 \in Words, NEW w \in Words, Awaits(below, w0), Holds(Top, w)
          PROVE  Awaits(e, Cat(w0, Cat(w, u)))
      <3>1. e.node[1] = Append(below.node[1], ProdOf(Top))
        BY <1>6
      <3> QED  BY <1>1, <1>5, <1>6, <1>7, <2>1, <3>1, ProdFollows
    <2> QED  BY <1>4, <2>1 DEF BothAwait
  <1>8. ASSUME NEW u \in {<<>>} \cup Mark("SC"), NEW f  PROVE BothHold(stack[g], Top, WithChild(stk[g], f.node), u)
    <2> PICK after : after = WithChild(e, f.node)
      OBVIOUS
    <2>1. after.rule = "ebnf" /\ after.state = "close" /\ after.node = e.node
      BY <1>6, ChildFields
    <2>2. ASSUME NEW w0 \in Words, NEW w \in Words, Awaits(below, w0), Holds(Top, w)
          PROVE  Holds(after, Cat(w0, Cat(w, u)))
      <3>1. after.node[1] = Append(below.node[1], x)
        BY <1>6, <2>1
      <3>2. Gathered(after, Cat(w0, Cat(w, u)))
        <4>1. after.node[1] = Append(below.node[1], ProdOf(Top))
          BY <3>1, Zenon
        <4>2. Top.rule = "prod" /\ Top.state = "close" /\ below.rule = "ebnf" /\ after.rule = "ebnf"
          BY <1>1, <1>5, <2>1
        <4> QED  BY <1>8, <2>2, <4>1, <4>2, ProdFollows, Zenon
      <3> QED  BY <2>1, <3>2, HoldsAlone DEF Childless
    <2> QED  BY <1>4, <2>2 DEF BothHold
  <1>9. PICK k \in 1 .. 4 : Moves(prodClose[k], stk)
    BY <1>1, <1>2, ProdCloseLegal, MovesOnOne
  <1> PICK alt : alt = prodClose[k]
    OBVIOUS
  <1> PICK f : f = Closed(alt, stk)
    OBVIOUS
  <1> PICK p : p = pos + 1
    OBVIOUS
  <1> PICK sc : sc = src[p]
    OBVIOUS
  <1>10. ASSUME Sees(1, {"SC"})
         PROVE  <<sc>> \in Words /\ Heard(p) = Cat(Heard(pos), <<sc>>) /\ <<sc>> \in {<<>>} \cup Mark("SC")
    <2>1. sc \in Written({"SC"}) /\ <<sc>> \in Words /\ Heard(p) = Cat(Heard(pos), <<sc>>)
      BY <1>1, <1>10, HeardFixed DEF FixedKinds
    <2> QED  BY <2>1 DEF Mark
  <1>11. Heard(pos) = Cat(Heard(pos), <<>>) /\ <<>> \in Words
    BY <1>1, HeardNow
  <1>12. CASE k = 1
    <2>1. alt = Alternative(<<{"SC"}>> \o Header, 2, "always", "none", "none", "prod")
      BY <1>12, ProdTable
    <2>2. /\ src' = src /\ pos' = Tokens(alt) /\ Len(stk) = h /\ Agrees(alt, Top) /\ InSight(alt)
          /\ Moved(stk, f, "close", "none", "prod")
      BY <1>1, <1>9, <2>1, Taken
    <2>3. Topped(stk, New("prod"))
      BY <2>2 DEF Moved
    <2>4. Tokens(alt) = p
      BY <1>1, <2>1, TakesSeparator
    <2>5. Sees(1, {"SC"})
      BY <1>1, <2>1, <2>2, SeparatorAlternative
    <2>6. BothAwait(stack[g], Top, stk[g], <<sc>>)
      BY <1>7, <1>10, <2>5
    <2> QED  BY <1>1, <1>4, <1>10, <2>2, <2>3, <2>4, <2>5, <2>6, ReplaceTells
  <1>13. CASE k = 2
    <2>1. alt = Alternative(<<{"SC"}>>, 0, "always", "none", "none", "none")
      BY <1>13, ProdTable
    <2>2. /\ src' = src /\ pos' = Tokens(alt) /\ Len(stk) = h /\ Agrees(alt, Top) /\ InSight(alt)
          /\ Moved(stk, f, "close", "none", "none")
      BY <1>1, <1>9, <2>1, Taken
    <2>3. Left(stk, f)
      BY <2>2 DEF Moved
    <2>4. Tokens(alt) = p
      BY <1>1, <2>1, TakesOne
    <2>5. Sees(1, {"SC"})
      BY <2>1, <2>2, OneTokenAlternative
    <2>6. BothHold(stack[g], Top, WithChild(stk[g], f.node), <<sc>>)
      BY <1>8, <1>10, <2>5
    <2> QED  BY <1>1, <1>4, <1>10, <2>2, <2>3, <2>4, <2>5, <2>6, ReturnTells
  <1>14. CASE k = 3
    <2>1. alt = Alternative(Header, 2, "always", "none", "none", "prod")
      BY <1>14, ProdTable
    <2>2. src' = src /\ pos' = Tokens(alt) /\ Len(stk) = h /\ Moved(stk, f, "close", "none", "prod")
      BY <1>1, <1>9, <2>1, Taken
    <2>3. Topped(stk, New("prod"))
      BY <2>2 DEF Moved
    <2>4. Tokens(alt) = pos
      BY <1>1, <2>1, TakesHeader
    <2>5. BothAwait(stack[g], Top, stk[g], <<>>)
      BY <1>7
    <2> QED  BY <1>1, <1>4, <1>11, <2>2, <2>3, <2>4, <2>5, ReplaceTells
  <1>15. CASE k = 4
    <2>1. alt = Alternative(<<>>, 1, "always", "none", "none", "none")
      BY <1>15, ProdTable
    <2>2. src' = src /\ pos' = Tokens(alt) /\ Len(stk) = h /\ Moved(stk, f, "close", "none", "none")
      BY <1>1, <1>9, <2>1, Taken
    <2>3. Left(stk, f)
      BY <2>2 DEF Moved
    <2>4. Tokens(alt) = pos
      BY <1>1, <2>1, TakesNone
    <2>5. BothHold(stack[g], Top, WithChild(stk[g], f.node), <<>>)
      BY <1>8
    <2> QED  BY <1>1, <1>4, <1>11, <2>2, <2>3, <2>4, <2>5, ReturnTells
  <1>16. k \in {1, 2, 3, 4}
    OBVIOUS
  <1> QED  BY <1>12, <1>13, <1>14, <1>15, <1>16

-----------------------------------------------------------------------------
(* The whole reading.                                                       *)

LEMMA HowItGoes ==
  ASSUME Inv, NEW rule \in RuleNames, NEW state \in {"open", "close"}, Step(rule, state), status' \in {"reading", "parsed"}
  PROVE  /\ \A why : why \notin {"reading", "parsed"} => ~Refuses(why)
         /\ ~Misread
         /\ \A a, r : Pushes(a, r) \/ Replaces(r) \/ Stays(a) => status' = "reading"
         /\ rule # "ebnf" => \A a : Returns(a) => status' = "reading"
  <1>1. status = "reading" /\ (rule # "ebnf" => Height > 1)
    BY At
  <1>2. \A why : why \notin {"reading", "parsed"} => ~Refuses(why)
    BY DEF Refuses
  <1>3. ~Misread
    BY <1>2 DEF Misread
  <1>4. \A a, r : Pushes(a, r) \/ Replaces(r) \/ Stays(a) => status' = "reading"
    BY <1>1 DEF Pushes, Replaces, Stays, GoesOn
  <1>5. ASSUME rule # "ebnf"  PROVE \A a : Returns(a) => status' = "reading"
    BY <1>1, <1>5 DEF Returns, GoesOn
  <1> QED  BY <1>2, <1>3, <1>4, <1>5

\* A definition operator where an expression is due is never got past.
LEMMA MisplacedStays ==
  ASSUME Inv, Misplaced, NEW rule \in RuleNames, NEW state \in {"open", "close"}, Step(rule, state),
         status' \in {"reading", "parsed"}
  PROVE  Misplaced' /\ status' = "reading"
  <1>1. /\ Frames /\ Tokenised /\ src' = src /\ status = "reading" /\ (rule # "ebnf" => Height > 1)
    BY At
  <1>2. ASSUME NEW kinds, kinds \cap DEFOP = {}  PROVE ~Sees(1, kinds)
    BY <1>1, <1>2, InSightNext DEF Misplaced
  <1>3. /\ ~Sees(1, {"ZZ"}) /\ ~Sees(1, {"TX"}) /\ ~Sees(1, {"SC"}) /\ ~Sees(1, {"ALT"}) /\ ~Sees(1, {"CA"})
        /\ ~Sees(1, {"ALT", "RP", "SC", "ZZ"}) /\ ~Sees(1, {"ST", "CC", "HX", "TX", "LP"}) /\ ~Sees(1, {"LP"})
        /\ ~Sees(1, {"ST", "CC", "HX", "TX"}) /\ ~Sees(1, {"RP"}) /\ ~Sees(1, {"QM", "STAR", "PLUS"})
    BY <1>2 DEF DEFOP
  <1>4. /\ \A why : why \notin {"reading", "parsed"} => ~Refuses(why)
        /\ ~Misread
        /\ \A a, r : Pushes(a, r) \/ Replaces(r) \/ Stays(a) => status' = "reading"
        /\ rule # "ebnf" => \A a : Returns(a) => status' = "reading"
    BY HowItGoes
  <1>5. pos' = pos /\ status' = "reading"
    <2>1. CASE rule = "ebnf" /\ state = "open"
      BY <1>1, <1>3, <1>4, <2>1, EbnfOpenStep
    <2>2. CASE rule = "ebnf" /\ state = "close"
      BY <1>1, <1>3, <1>4, <2>2, EbnfCloseStep
    <2>3. CASE rule = "prod" /\ state = "open"
      BY <1>1, <1>3, <1>4, <2>3, ProdOpenStep
    <2>4. CASE rule = "prod" /\ state = "close"
      BY <1>1, <1>3, <1>4, <2>4, ProdCloseStep
    <2>5. CASE rule = "alts" /\ state = "open"
      BY <1>1, <1>4, <2>5, AltsOpenStep
    <2>6. CASE rule = "alts" /\ state = "close"
      BY <1>1, <1>3, <1>4, <2>6, AltsCloseStep
    <2>7. CASE rule = "seq" /\ state = "open"
      BY <1>1, <1>3, <1>4, <2>7, SeqOpenStep
    <2>8. CASE rule = "seq" /\ state = "close"
      BY <1>1, <1>3, <1>4, <2>8, SeqCloseStep
    <2>9. CASE rule = "elem" /\ state = "open"
      BY <1>1, <1>4, <2>9, ElemOpenStep
    <2>10. CASE rule = "elem" /\ state = "close"
      BY <1>1, <1>4, <2>10, ElemCloseStep
    <2>11. CASE rule = "post" /\ state = "open"
      BY <1>1, <1>3, <1>4, <2>11, PostOpenStep
    <2>12. CASE rule = "post" /\ state = "close"
      BY <1>1, <1>4, <2>12, PostCloseStep
    <2>13. CASE rule = "atom" /\ state = "open"
      BY <1>1, <1>3, <1>4, <2>13, AtomOpenStep
    <2>14. CASE rule = "atom" /\ state = "close"
      BY <1>1, <1>3, <1>4, <2>14, AtomCloseStep
    <2> QED  BY <2>1, <2>2, <2>3, <2>4, <2>5, <2>6, <2>7, <2>8, <2>9, <2>10, <2>11, <2>12, <2>13, <2>14 DEF RuleNames
  <1> QED  BY <1>1, <1>5, Keeping DEF Misplaced, AtStart

\* Only the first rule ends the reading.
LEMMA OnlyEbnfParses ==
  ASSUME Inv, NEW rule \in RuleNames, NEW state \in {"open", "close"}, Step(rule, state), status' = "parsed"
  PROVE  rule = "ebnf" /\ state = "close"
  <1>1. Frames
    BY At
  <1>2. /\ \A why : why \notin {"reading", "parsed"} => ~Refuses(why)
        /\ ~Misread
        /\ \A a, r : ~Pushes(a, r) /\ ~Replaces(r) /\ ~Stays(a)
        /\ rule # "ebnf" => \A a : ~Returns(a)
    <2>1. status' \in {"reading", "parsed"} /\ status' # "reading"
      OBVIOUS
    <2> QED  BY <2>1, HowItGoes
  <1>3. ~(rule = "ebnf" /\ state = "open")
    BY <1>1, <1>2, EbnfOpenStep
  <1>4. ~(rule = "prod" /\ state = "open")
    BY <1>1, <1>2, ProdOpenStep
  <1>5. ~(rule = "prod" /\ state = "close")
    BY <1>1, <1>2, ProdCloseStep
  <1>6. ~(rule = "alts" /\ state = "open")
    BY <1>1, <1>2, AltsOpenStep
  <1>7. ~(rule = "alts" /\ state = "close")
    BY <1>1, <1>2, AltsCloseStep
  <1>8. ~(rule = "seq" /\ state = "open")
    BY <1>1, <1>2, SeqOpenStep
  <1>9. ~(rule = "seq" /\ state = "close")
    BY <1>1, <1>2, SeqCloseStep
  <1>10. ~(rule = "elem" /\ state = "open")
    BY <1>1, <1>2, ElemOpenStep
  <1>11. ~(rule = "elem" /\ state = "close")
    BY <1>1, <1>2, ElemCloseStep
  <1>12. ~(rule = "post" /\ state = "open")
    BY <1>1, <1>2, PostOpenStep
  <1>13. ~(rule = "post" /\ state = "close")
    BY <1>1, <1>2, PostCloseStep
  <1>14. ~(rule = "atom" /\ state = "open")
    BY <1>1, <1>2, AtomOpenStep
  <1>15. ~(rule = "atom" /\ state = "close")
    BY <1>1, <1>2, AtomCloseStep
  <1> QED  BY <1>3, <1>4, <1>5, <1>6, <1>7, <1>8, <1>9, <1>10, <1>11, <1>12, <1>13, <1>14, <1>15 DEF RuleNames

LEMMA EbnfCloseTells ==
  ASSUME Inv, Tells, Step("ebnf", "close"), status' \in {"reading", "parsed"}
  PROVE  status' = "parsed" /\ src' = src /\ Sees(1, {"ZZ"}) /\ Tokenised /\ IsSource(Heard(pos), out')
  <1> PICK stk : stk = Readied
    OBVIOUS
  <1>1. /\ Frames /\ Top.rule = "ebnf" /\ Top.state = "close" /\ Tokenised /\ "ebnf" \in RuleNames
        /\ Height = 1 /\ Top = stack[1] /\ src' = src
    BY At DEF RuleNames
  <1>2. Alternatives = ebnfClose
    BY <1>1 DEF Alternatives, Close
  <1>3. Moves(ebnfClose[1], stk)
    BY <1>1, <1>2, EbnfCloseLegal, MovesOnOne
  <1>4. stk = stack /\ Len(stk) = 1
    <2>1. Readied = stack
      BY <1>1 DEF Readied, AfterBc
    <2> QED  BY <1>1, <2>1 DEF Height
  <1>5. status' = "parsed" /\ out' = Top.node[1]
    <2>1. ebnfClose[1].p = "none" /\ ebnfClose[1].r = "none"
      BY EbnfTable DEF Alternative
    <2> QED  BY <1>1, <1>3, <1>4, <2>1 DEF Moves
  <1>6. Sees(1, {"ZZ"})
    BY <1>1, <1>5, EbnfCloseStep DEF Refuses
  <1>7. IsSource(Heard(pos), Top.node[1])
    <2>1. PICK at : ToldBy(at, stack, 1, Heard(pos))
      BY <1>1 DEF Tells, Told
    <2>2. PICK w \in Words : Heard(pos) = Cat(<<>>, w) /\ Holds(Top, w)
      BY <1>1, <2>1 DEF ToldBy, Held
    <2>3. Gathered(Top, w)
      BY <1>1, <2>2, HoldsAlone DEF Childless
    <2> QED  BY <1>1, <2>2, <2>3, CatLaws DEF Gathered
  <1> QED  BY <1>1, <1>5, <1>6, <1>7

\* The end, once read, is read for ever.
EndsOnce == \A i \in 1 .. Len(src) : src[i] = EndOfSource => \A j \in i .. Len(src) : src[j] = EndOfSource

LEMMA BodyIsHeard ==
  ASSUME Tokenised
  PROVE  Body = Heard(Len(src)) /\ Body \in Words /\ Len(Body) <= Len(src)
  <1>1. SubSeq(src, 1, Len(src)) = src /\ Len(src) \in 0 .. Len(src)
    BY DEF Tokenised
  <1>2. Body = Heard(Len(src))
    BY <1>1, Zenon DEF Body, Heard
  <1> QED  BY <1>1, <1>2, HeardTypes

LEMMA HeardAll ==
  ASSUME Tokenised, EndsOnce, Sees(1, {"ZZ"})
  PROVE  Body = Heard(pos)
  <1>1. pos \in Nat /\ Len(src) \in Nat /\ pos + 1 \in 1 .. Len(src) /\ src[pos + 1] = EndOfSource
    <2>1. /\ pos + 1 \in 1 .. Len(src) /\ Kind(src[pos + 1]) = "ZZ"
          /\ src[pos + 1] \in Vocabulary \/ src[pos + 1] = EndOfSource
      BY InSightIs
    <2>2. src[pos + 1] \notin Vocabulary
      BY <2>1, NotTheEnd
    <2> QED  BY <2>1, <2>2 DEF Tokenised
  <1>2. \A j \in pos + 1 .. Len(src) : src[j] = EndOfSource
    BY <1>1 DEF EndsOnce
  <1> DEFINE I == {n \in Nat : n <= Len(src) /\ pos <= n => Heard(n) = Heard(pos)}
  <1>3. 0 \in I
    <2>1. pos <= 0 => pos = 0
      BY <1>1
    <2> QED  BY <2>1
  <1>4. ASSUME NEW n \in I  PROVE n + 1 \in I
    <2> SUFFICES ASSUME NEW j \in Nat, j = n + 1, j <= Len(src), pos <= j  PROVE Heard(j) = Heard(pos)
      OBVIOUS
    <2>1. CASE j = pos
      BY <2>1
    <2>2. CASE j # pos
      <3>1. n \in Nat /\ n < Len(src) /\ pos <= n /\ j \in pos + 1 .. Len(src)
        BY <1>1, <2>2
      <3>2. Heard(n) = Heard(pos)
        BY <3>1
      <3>3. src[j] = EndOfSource
        BY <1>2, <3>1
      <3>4. Heard(j) = Heard(n)
        BY <3>1, <3>3, HeardNext
      <3> QED  BY <3>2, <3>4
    <2> QED  BY <2>1, <2>2
  <1> HIDE DEF I
  <1>5. I = Nat
    <2>1. I \in SUBSET Nat
      BY DEF I
    <2> QED  BY <1>3, <1>4, <2>1, AllNaturals
  <1>6. Heard(Len(src)) = Heard(pos)
    <2>1. Len(src) \in I /\ pos <= Len(src)
      BY <1>1, <1>5
    <2> QED  BY <2>1 DEF I
  <1> QED  BY <1>6, BodyIsHeard

\* What the rules on the stack tell of the tokens read, as long as they have not met a
\* definition operator that they cannot get past; and what is told in the end.
Sound ==
  /\ status = "reading" => Misplaced \/ Tells
  /\ EndsOnce /\ Len(Body) <= MaxTokens
  /\ ReadsTheNotation

LEMMA SoundAtFirst ==
  ASSUME Init
  PROVE  Sound
  <1>1. src = <<>> /\ pos = 0 /\ stack = <<New("ebnf")>> /\ status = "reading"
    BY DEF Init
  <1>2. Height = 1 /\ stack[1] = New("ebnf") /\ <<>> \in Words
    BY <1>1, CatLaws DEF Height
  <1>3. Holds(stack[1], <<>>)
    BY <1>2, "ebnf" \in RuleNames, FreshHolds DEF RuleNames
  <1>4. Told(stack, 1, <<>>)
    <2> DEFINE at == [i \in 1 .. 1 |-> <<>>]
    <2>1. at \in [1 .. 1 -> Words] /\ at[1] = <<>>
      BY <1>2
    <2> HIDE DEF at
    <2>2. Held(at[1], stack[1], <<>>)
      BY <1>2, <1>3, <2>1, CatLaws DEF Held
    <2>3. \A i \in 1 .. 1 : \A j \in 1 .. 1 : j # i + 1
      OBVIOUS
    <2> QED  BY <2>1, <2>2, <2>3 DEF Told, ToldBy
  <1>5. Tells
    BY <1>1, <1>2, <1>4, HeardNone DEF Tells
  <1>6. Body = <<>> /\ Len(Body) = 0
    BY <1>1, WithoutNone DEF Body
  <1>7. EndsOnce
    BY <1>1 DEF EndsOnce
  <1>8. ReadsTheNotation
    BY <1>1 DEF ReadsTheNotation
  <1> QED  BY <1>5, <1>6, <1>7, <1>8, MaxTokensAssumption DEF Sound

LEMMA SoundLexes ==
  ASSUME Inv, Sound, Lex
  PROVE  Sound'
  <1>1. /\ status = "reading" /\ pos' = pos /\ stack' = stack /\ status' = status /\ Tokenised
    BY DEF Lex, Inv, TypeOK, Tokenised
  <1>2. PICK tkn \in Vocabulary \cup {EndOfSource} :
          /\ src' = Append(src, tkn)
          /\ tkn # EndOfSource => Len(src) < MaxTokens /\ ~Ended
    BY DEF Lex
  <1>3. /\ Tokenised' /\ Before' = Before /\ Consumed' = Consumed
        /\ Offender # "none" => Offender' = Offender
    BY <1>1, <1>2, Lexing
  <1>4. Misplaced => Misplaced'
    <2>1. Misplaced => Offender # "none"
      BY DEF Misplaced, DEFOP
    <2> QED  BY <1>3, <2>1 DEF Misplaced, AtStart
  <1>5. Tells => Tells'
    <2>1. Heard(pos)' = Heard(pos) /\ Height' = Height
      <3>1. Without(Consumed, {EndOfSource})' = Without(Consumed, {EndOfSource})
        BY <1>3
      <3> QED  BY <1>1, <3>1 DEF Heard, Consumed, Height
    <2> QED  BY <1>1, <2>1 DEF Tells
  <1>6. /\ Len(src) \in Nat /\ Len(src') = Len(src) + 1 /\ src'[Len(src) + 1] = tkn
        /\ \A i \in 1 .. Len(src) : src'[i] = src[i]
    BY <1>1, <1>2 DEF Tokenised
  <1>7. EndsOnce'
    <2> SUFFICES ASSUME NEW i \in 1 .. Len(src'), src'[i] = EndOfSource, NEW j \in i .. Len(src')
                 PROVE  src'[j] = EndOfSource
      BY DEF EndsOnce
    <2> PICK n : n = Len(src)
      OBVIOUS
    <2>1. CASE j = n + 1 /\ i # j
      <3>1. i \in 1 .. n /\ n \in i .. n /\ src[i] = EndOfSource
        BY <1>6, <2>1
      <3>2. src[n] = EndOfSource
        BY <3>1 DEF Sound, EndsOnce
      <3>3. Ended
        BY <1>1, <1>6, <3>1, <3>2 DEF Ended, Last, Tokenised
      <3> QED  BY <1>2, <1>6, <2>1, <3>3
    <2>2. CASE j = n + 1 /\ i = j
      BY <2>2
    <2>3. CASE j # n + 1
      <3>1. i \in 1 .. n /\ j \in i .. n /\ j \in 1 .. n
        BY <1>6, <2>3
      <3>2. src[i] = EndOfSource
        BY <1>6, <3>1
      <3>3. src[j] = EndOfSource
        BY <3>1, <3>2 DEF Sound, EndsOnce
      <3> QED  BY <1>6, <3>1, <3>3
    <2> QED  BY <2>1, <2>2, <2>3
  <1>8. Len(Body') <= MaxTokens
    <2>1. Body' = IF tkn \in {EndOfSource} THEN Body ELSE Append(Body, tkn)
      BY <1>1, <1>2, WithoutMore DEF Body, Tokenised
    <2>2. Body \in Words /\ Len(Body) <= Len(src) /\ Len(Body) <= MaxTokens
      BY <1>1, BodyIsHeard DEF Sound
    <2>3. CASE tkn = EndOfSource
      BY <2>1, <2>2, <2>3
    <2>4. CASE tkn # EndOfSource
      <3>1. Len(Body') = Len(Body) + 1 /\ Len(Body) \in Nat
        BY <2>1, <2>2, <2>4 DEF Words
      <3> QED  BY <1>2, <1>6, <2>2, <2>4, <3>1, MaxTokensAssumption
    <2> QED  BY <2>3, <2>4
  <1>9. ReadsTheNotation'
    BY <1>1 DEF ReadsTheNotation
  <1> QED  BY <1>1, <1>4, <1>5, <1>7, <1>8, <1>9 DEF Sound

\* One step of a rule, whichever it is.
LEMMA Telling ==
  ASSUME Inv, Tells, NEW rule \in RuleNames, NEW state \in {"open", "close"}, Step(rule, state), status' = "reading"
  PROVE  Tells' \/ Misplaced'
  <1>1. CASE rule = "ebnf"
    BY <1>1, EbnfOpenTells, EbnfCloseTells
  <1>2. CASE rule = "prod"
    BY <1>2, ProdOpenTells, ProdCloseTells
  <1>3. CASE rule = "alts"
    BY <1>3, AltsOpenTells, AltsCloseTells
  <1>4. CASE rule = "seq"
    BY <1>4, SeqOpenTells, SeqCloseTells
  <1>5. CASE rule = "elem"
    BY <1>5, ElemOpenTells, ElemCloseTells
  <1>6. CASE rule = "post"
    BY <1>6, PostOpenTells, PostCloseTells
  <1>7. CASE rule = "atom"
    BY <1>7, AtomOpenTells, AtomCloseTells
  <1> QED  BY <1>1, <1>2, <1>3, <1>4, <1>5, <1>6, <1>7 DEF RuleNames

LEMMA SoundSteps ==
  ASSUME Inv, Sound, NEW rule \in RuleNames, NEW state \in {"open", "close"}, Step(rule, state)
  PROVE  Sound'
  <1>1. src' = src /\ status = "reading" /\ (Misplaced \/ Tells) /\ Tokenised
    BY At DEF Sound
  <1>2. (EndsOnce /\ Len(Body) <= MaxTokens)'
    BY <1>1 DEF Sound, EndsOnce, Body
  <1>3. CASE status' = "reading"
    <2>1. Misplaced' \/ Tells'
      BY <1>1, <1>3, MisplacedStays, Telling
    <2>2. ReadsTheNotation'
      BY <1>3 DEF ReadsTheNotation
    <2> QED  BY <1>2, <2>1, <2>2 DEF Sound
  <1>4. CASE status' = "parsed"
    <2>1. Tells
      BY <1>1, <1>4, MisplacedStays
    <2>2. rule = "ebnf" /\ state = "close"
      BY <1>4, OnlyEbnfParses
    <2>3. Sees(1, {"ZZ"}) /\ IsSource(Heard(pos), out')
      BY <1>4, <2>1, <2>2, EbnfCloseTells
    <2>4. Body = Heard(pos)
      BY <1>1, <2>3, HeardAll DEF Sound
    <2>5. <<Body, out'>> \in Sources(MaxTokens)
      BY <2>3, <2>4, SourceIsDocumented, MaxTokensAssumption DEF Sound
    <2>6. ReadsTheNotation'
      BY <1>1, <2>5 DEF ReadsTheNotation, DocumentedSources, Body
    <2> QED  BY <1>2, <1>4, <2>6 DEF Sound
  <1>5. CASE status' \notin {"reading", "parsed"}
    BY <1>2, <1>5 DEF Sound, ReadsTheNotation
  <1> QED  BY <1>3, <1>4, <1>5

LEMMA UnchangedSound ==
  ASSUME Sound, UNCHANGED vars
  PROVE  Sound'
  <1>1. src' = src /\ pos' = pos /\ stack' = stack /\ status' = status /\ out' = out
    BY DEF vars
  <1>2. Before' = Before /\ Offender' = Offender /\ Body' = Body /\ Height' = Height
    BY <1>1 DEF Before, Offender, Body, Height
  <1>3. Tells => Tells'
    BY <1>1, <1>2 DEF Tells, Heard
  <1>4. EndsOnce'
    BY <1>1 DEF Sound, EndsOnce
  <1>5. ReadsTheNotation'
    BY <1>1, <1>2 DEF Sound, ReadsTheNotation
  <1>6. Misplaced => Misplaced'
    BY <1>2 DEF Misplaced, AtStart
  <1> QED  BY <1>1, <1>2, <1>3, <1>4, <1>5, <1>6 DEF Sound

LEMMA SoundKeeps ==
  ASSUME Inv, Sound, [Next]_vars
  PROVE  Sound'
  <1>1. CASE Lex
    BY <1>1, SoundLexes
  <1>2. ASSUME NEW rule \in RuleNames, NEW state \in {"open", "close"}, Step(rule, state)
        PROVE  Sound'
    BY <1>2, SoundSteps
  <1>3. CASE UNCHANGED vars
    BY <1>3, UnchangedSound
  <1> QED  BY <1>1, <1>2, <1>3 DEF Next

\* A source that the table accepts is one of the documented notation, and the tree it
\* returns is the one that source denotes (EbnfReader!ReadsTheNotation): for every
\* vocabulary, and for sources of every length.  The hooks of seven rules, on arrays
\* they share, never lose, double or misplace a part of it.
THEOREM TheTableReadsTheNotation == Spec => []ReadsTheNotation
  <1>1. Init => Sound
    BY SoundAtFirst
  <1>2. Inv /\ Sound /\ [Next]_vars => Sound'
    BY SoundKeeps
  <1>3. Sound => ReadsTheNotation
    BY DEF Sound
  <1> QED  BY <1>1, <1>2, <1>3, StackIsSound, PTL DEF Spec

-----------------------------------------------------------------------------
(* The Rust port.  Its limits bound the engine's stack, whatever is read,   *)
(* for every value of the limits.  The table is the same, so what the       *)
(* lemmas above show of its steps holds of this port's too; added here is   *)
(* how deep each rule may lie, and how nest pays for the operators.         *)

-----------------------------------------------------------------------------
(* The invariant.                                                           *)

RegistersOK ==
  /\ nest \in 0 .. MaxNestDepth /\ level \in Nat
  /\ DOMAIN outerMax = DOMAIN stack /\ \A i \in DOMAIN stack : outerMax[i] \in Nat

\* A group opens at MaxGroupDepth at the latest, and an element lies four rules
\* further in at most; its operators are counted by nest.
Fits(i, f) ==
  /\ IsGroup(f) => i <= MaxGroupDepth
  /\ f.rule \in {"ebnf", "prod"} => i <= 2
  /\ f.rule = "alts" => i <= MaxGroupDepth + 1
  /\ f.rule = "seq" => i <= MaxGroupDepth + 2
  /\ f.rule = "elem" => i <= MaxGroupDepth + 3
  /\ f.rule = "atom" => i <= MaxGroupDepth + 4

AllFit == \A i \in 1 .. Height : Fits(i, stack[i])

\* nest is at least the height of the chain of operators, and 1 for an element.
Nested(rule, state, u) ==
  /\ rule = "post" => Height <= MaxGroupDepth + 3 + nest
  /\ rule = "atom" /\ u = <<>> => nest >= 1
  /\ rule = "elem" /\ state = "close" /\ u = <<>> => nest >= 1

RustInv ==
  /\ StackBounded /\ NamesTheMistake
  /\ status = "reading" => Inv /\ RegistersOK /\ AllFit /\ Nested(Top.rule, Top.state, Top.u)

-----------------------------------------------------------------------------
(* Where a step begins, and what it may come to.                            *)

LEMMA RustNow ==
  ASSUME RustInv, status = "reading"
  PROVE  /\ Inv /\ RegistersOK /\ AllFit /\ Nested(Top.rule, Top.state, Top.u)
         /\ Shape /\ Frames /\ Height \in Nat \ {0} /\ Top = stack[Height] /\ Ready(Top)
         /\ Top.rule \in RuleNames /\ Top.state \in {"open", "close"} /\ DOMAIN stack = 1 .. Height
         /\ Top.rule # "ebnf" => /\ Height > 1 /\ Follows(stack[Height - 1], Top) /\ Waits(stack[Height - 1], Top)
  <1>1. Inv /\ RegistersOK /\ AllFit /\ Nested(Top.rule, Top.state, Top.u)
    BY DEF RustInv
  <1>2. Shape /\ Frames /\ Height \in Nat \ {0} /\ Top = stack[Height] /\ Ready(Top)
    BY <1>1, Now
  <1>3. Top.rule \in RuleNames
    <2>1. Height \in 1 .. Height
      BY <1>2
    <2> QED  BY <1>2, <2>1 DEF Shape, IsFrame
  <1>4. Top.state \in {"open", "close"} /\ DOMAIN stack = 1 .. Height
    BY <1>2 DEF Ready, Shape, IsSeq, Height
  <1> QED  BY <1>1, <1>2, <1>3, <1>4, Now

\* A step keeps the invariant of the table.
LEMMA TableKept ==
  ASSUME RustInv, status = "reading", TakeStep
  PROVE  Inv'
  <1>1. Inv /\ Top.rule \in RuleNames /\ Top.state \in {"open", "close"}
    BY RustNow
  <1>2. Next
    BY <1>1 DEF TakeStep, Next
  <1> QED  BY <1>1, <1>2, Keeps

\* A parse that ends leaves the stack as it was, or empty.
LEMMA Stopping ==
  ASSUME RustInv, status = "reading", TakeStep, status' # "reading"
  PROVE  RustInv'
  <1>1. stack' = stack \/ stack' = <<>>
    BY DEF TakeStep, Step, Take
  <1>2. Len(stack') <= MaxGroupDepth + MaxNestDepth + 3
    BY <1>1, LimitsAssumption DEF RustInv, StackBounded
  <1>3. NamesTheMistake'
    BY TableKept DEF Inv
  <1> QED  BY <1>2, <1>3 DEF RustInv, StackBounded

LEMMA RefusingDepth ==
  ASSUME RustInv, NEW why \in {"element-nesting", "rule-depth"}, RefuseDepth(why)
  PROVE  RustInv'
  <1>1. stack' = stack /\ status' # "reading"
    BY DEF RefuseDepth
  <1>2. NamesTheMistake'
    BY DEF RefuseDepth, NamesTheMistake
  <1> QED  BY <1>1, <1>2 DEF RustInv, StackBounded

LEMMA Room ==
  ASSUME NEW g \in Nat, NEW m \in Nat, NEW h \in Nat, NEW n \in Nat, h <= g + 3 + n, n <= m
  PROVE  h <= g + m + 3
  OBVIOUS

\* The stack a rule, its registers and its depth allow is bounded.
LEMMA Bounded ==
  ASSUME Shape', RegistersOK', AllFit', Nested(Top.rule, Top.state, Top.u)', Top' = stack'[Height']
  PROVE  StackBounded'
  <1>1. Height' \in Nat \ {0} /\ Top'.rule \in RuleNames /\ Fits(Height', Top')
    <2>1. Height' \in Nat \ {0}
      BY DEF Shape, IsSeq, Height
    <2>2. Height' \in 1 .. Height'
      BY <2>1
    <2> QED  BY <2>1, <2>2 DEF AllFit, Shape, IsFrame
  <1>2. nest' \in 0 .. MaxNestDepth
    BY DEF RegistersOK
  <1>3. Top'.rule = "post" => Height' <= MaxGroupDepth + 3 + nest'
    BY DEF Nested
  <1>4. Height' <= MaxGroupDepth + MaxNestDepth + 3
    <2>1. CASE Top'.rule = "post"
      <3>1. Height' <= MaxGroupDepth + 3 + nest'
        BY <1>3, <2>1
      <3>2. MaxGroupDepth \in Nat /\ MaxNestDepth \in Nat /\ nest' \in Nat /\ nest' <= MaxNestDepth
        BY <1>2, LimitsAssumption
      <3>3. Height' \in Nat
        BY <1>1
      <3> QED  BY <3>1, <3>2, <3>3, Room
    <2>2. CASE Top'.rule # "post"
      <3>1. Height' <= 2 \/ Height' <= MaxGroupDepth + 4
        BY <1>1, <2>2, LimitsAssumption DEF Fits, RuleNames
      <3> QED  BY <1>1, <3>1, LimitsAssumption
    <2> QED  BY <2>1, <2>2
  <1> QED  BY <1>4 DEF StackBounded, Height

\* A step that goes on, its parts checked one by one.
LEMMA RustGoing ==
  ASSUME RustInv, status = "reading", TakeStep,
         Shape' => AllFit', Shape' => RegistersOK', Shape' => Nested(Top.rule, Top.state, Top.u)'
  PROVE  RustInv'
  <1>1. CASE status' # "reading"
    BY <1>1, Stopping
  <1>2. CASE status' = "reading"
    <2>1. Inv'
      BY TableKept
    <2>2. Shape'
      BY <1>2, <2>1 DEF Inv
    <2>3. Top' = stack'[Height']
      BY <2>2 DEF Shape, Top, Last, Height
    <2>4. StackBounded'
      <3>1. RegistersOK' /\ AllFit' /\ Nested(Top.rule, Top.state, Top.u)'
        BY <2>2
      <3> QED  BY <2>2, <2>3, <3>1, Bounded
    <2> QED  BY <2>1, <2>2, <2>4 DEF RustInv, Inv
  <1> QED  BY <1>1, <1>2

-----------------------------------------------------------------------------
(* How deep the rules lie after a step.                                     *)

LEMMA FitsLike ==
  ASSUME NEW i, NEW f, NEW g, g.rule = f.rule, IsGroup(g) => IsGroup(f), Fits(i, f)
  PROVE  Fits(i, g)
  BY DEF Fits

LEMMA FitsBelow ==
  ASSUME AllFit, NEW m \in Nat, m <= Height, Height \in Nat, Below(m)
  PROVE  \A i \in 1 .. m : Fits(i, stack'[i])
  <1> TAKE i \in 1 .. m
  <1>1. i \in 1 .. Height
    OBVIOUS
  <1>2. Fits(i, stack[i])
    BY <1>1 DEF AllFit
  <1>3. stack'[i].rule = stack[i].rule /\ (IsGroup(stack'[i]) => IsGroup(stack[i]))
    BY DEF Below, LikeFrame, IsGroup
  <1> QED  BY <1>2, <1>3, FitsLike

LEMMA FitsPush ==
  ASSUME AllFit, Height \in Nat \ {0}, Top = stack[Height], NEW a, NEW rule \in RuleNames, Pushes(a, rule),
         Fits(Height + 1, New(rule)), Top.rule = "atom" => Height <= MaxGroupDepth
  PROVE  AllFit'
  <1>1. Height' = Height + 1 /\ stack'[Height + 1] = New(rule)
    BY DEF Pushes, Height
  <1>2. \A i \in 1 .. Height - 1 : Fits(i, stack'[i])
    BY FitsBelow DEF Pushes
  <1>3. Fits(Height, stack'[Height])
    <2>1. stack'[Height].rule = stack[Height].rule
      BY DEF Pushes, ActedBy
    <2>2. Height \in 1 .. Height
      OBVIOUS
    <2>3. Fits(Height, stack[Height])
      BY <2>2 DEF AllFit
    <2> QED  BY <2>1, <2>3 DEF Fits, IsGroup
  <1>4. \A i \in 1 .. Height + 1 : i \in 1 .. Height - 1 \/ i = Height \/ i = Height + 1
    OBVIOUS
  <1> QED  BY <1>1, <1>2, <1>3, <1>4 DEF AllFit

LEMMA FitsStay ==
  ASSUME AllFit, Height \in Nat \ {0}, Top = stack[Height], NEW a, a \notin {"name", "open-group", "got"}, Stays(a)
  PROVE  AllFit'
  <1>1. Height' = Height
    BY DEF Stays, Height
  <1>2. \A i \in 1 .. Height - 1 : Fits(i, stack'[i])
    BY FitsBelow DEF Stays
  <1>3. Fits(Height, stack'[Height])
    <2>1. stack'[Height].rule = stack[Height].rule /\ stack'[Height].u = stack[Height].u
      BY DEF Stays, ActedBy
    <2>2. Height \in 1 .. Height
      OBVIOUS
    <2>3. Fits(Height, stack[Height])
      BY <2>2 DEF AllFit
    <2> QED  BY <2>1, <2>3, FitsLike DEF IsGroup
  <1>4. \A i \in 1 .. Height : i \in 1 .. Height - 1 \/ i = Height
    OBVIOUS
  <1> QED  BY <1>1, <1>2, <1>3, <1>4 DEF AllFit

LEMMA FitsReplace ==
  ASSUME AllFit, Height \in Nat \ {0}, Top = stack[Height], Top.rule \in RuleNames, Replaces(Top.rule)
  PROVE  AllFit'
  <1>1. Height' = Height
    BY DEF Replaces, Height
  <1>2. \A i \in 1 .. Height - 1 : Fits(i, stack'[i])
    BY FitsBelow DEF Replaces
  <1>3. Fits(Height, stack'[Height])
    <2>1. stack'[Height].rule = stack[Height].rule /\ ~IsGroup(stack'[Height])
      BY NewFields DEF Replaces
    <2>2. Height \in 1 .. Height
      OBVIOUS
    <2>3. Fits(Height, stack[Height])
      BY <2>2 DEF AllFit
    <2> QED  BY <2>1, <2>3, FitsLike
  <1>4. \A i \in 1 .. Height : i \in 1 .. Height - 1 \/ i = Height
    OBVIOUS
  <1> QED  BY <1>1, <1>2, <1>3, <1>4 DEF AllFit

LEMMA FitsReturn ==
  ASSUME AllFit, Height \in Nat, Height > 1, NEW a, Returns(a)
  PROVE  AllFit'
  <1>1. Height' = Height - 1
    <2>1. Len(stack') = Height - 1
      BY DEF Returns
    <2> QED  BY <2>1 DEF Height
  <1>2. \A i \in 1 .. Height - 2 : Fits(i, stack'[i])
    BY FitsBelow DEF Returns
  <1>3. Fits(Height - 1, stack'[Height - 1])
    <2>1. stack'[Height - 1].rule = stack[Height - 1].rule /\ stack'[Height - 1].u = stack[Height - 1].u
      BY DEF Returns, GivenBack
    <2>2. Height - 1 \in 1 .. Height
      OBVIOUS
    <2>3. Fits(Height - 1, stack[Height - 1])
      BY <2>2 DEF AllFit
    <2> QED  BY <2>1, <2>3, FitsLike DEF IsGroup
  <1>4. \A i \in 1 .. Height - 1 : i \in 1 .. Height - 2 \/ i = Height - 1
    OBVIOUS
  <1> QED  BY <1>1, <1>2, <1>3, <1>4 DEF AllFit

\* What a rule that comes to the top asks of nest.
LEMMA RustPush ==
  ASSUME RustInv, status = "reading", TakeStep, RegistersOK',
         NEW a, NEW rule \in RuleNames, Pushes(a, rule), Top.rule = "atom" => Height <= MaxGroupDepth,
         Fits(Height + 1, New(rule)),
         rule = "post" => Height + 1 <= MaxGroupDepth + 3 + nest',
         rule = "atom" => nest' >= 1
  PROVE  RustInv'
  <1>1. AllFit /\ Height \in Nat \ {0} /\ Top = stack[Height]
    BY RustNow
  <1>2. AllFit'
    BY <1>1, FitsPush
  <1>3. Height' = Height + 1 /\ stack'[Height + 1] = New(rule)
    BY DEF Pushes, Height
  <1>4. New(rule).rule = rule /\ New(rule).state = "open"
    BY NewFields
  <1>5. Shape' => Top' = New(rule)
    BY <1>3 DEF Shape, Top, Last, Height
  <1>6. Shape' => Nested(Top.rule, Top.state, Top.u)'
    BY <1>3, <1>4, <1>5 DEF Nested
  <1> QED  BY <1>2, <1>6, RustGoing

LEMMA RustStay ==
  ASSUME RustInv, status = "reading", TakeStep, RegistersOK',
         NEW a, a \notin {"name", "open-group", "got"}, Stays(a),
         Top.rule = "post" => Height <= MaxGroupDepth + 3 + nest',
         Top.rule \in {"atom", "elem"} => nest' >= 1
  PROVE  RustInv'
  <1>1. AllFit /\ Height \in Nat \ {0} /\ Top = stack[Height]
    BY RustNow
  <1>2. AllFit'
    BY <1>1, FitsStay
  <1>3. Height' = Height /\ stack'[Height].rule = Top.rule
    BY DEF Stays, Height, ActedBy
  <1>4. Shape' => Top' = stack'[Height]
    BY <1>3 DEF Shape, Top, Last, Height
  <1>5. Shape' => Nested(Top.rule, Top.state, Top.u)'
    BY <1>3, <1>4 DEF Nested
  <1> QED  BY <1>2, <1>5, RustGoing

LEMMA RustReplace ==
  ASSUME RustInv, status = "reading", TakeStep, RegistersOK', Top.rule = "prod", Replaces("prod")
  PROVE  RustInv'
  <1>1. AllFit /\ Height \in Nat \ {0} /\ Top = stack[Height] /\ Top.rule \in RuleNames
    BY RustNow
  <1>2. AllFit'
    BY <1>1, FitsReplace
  <1>3. Height' = Height /\ stack'[Height] = New("prod")
    BY DEF Replaces, Height
  <1>4. New("prod").rule = "prod"
    BY <1>1, NewFields
  <1>5. Shape' => Top' = New("prod")
    BY <1>3 DEF Shape, Top, Last, Height
  <1>6. Shape' => Nested(Top.rule, Top.state, Top.u)'
    BY <1>4, <1>5 DEF Nested
  <1> QED  BY <1>2, <1>6, RustGoing

LEMMA RustReturn ==
  ASSUME RustInv, status = "reading", TakeStep, RegistersOK', Top.rule # "ebnf",
         NEW a, Returns(a),
         stack[Height - 1].rule = "post" => Height - 1 <= MaxGroupDepth + 3 + nest',
         stack[Height - 1].rule = "elem" /\ stack[Height - 1].u = <<>> => nest' >= 1
  PROVE  RustInv'
  <1>1. AllFit /\ Height \in Nat \ {0} /\ Top = stack[Height] /\ Height > 1 /\ Waits(stack[Height - 1], Top)
    BY RustNow
  <1>2. AllFit'
    BY <1>1, FitsReturn
  <1>3. /\ Len(stack') = Height - 1
        /\ \E g : GivenBack(stack'[Height - 1], stack[Height - 1], g.node)
    BY <1>1 DEF Returns
  <1>4. Height' = Height - 1
    BY <1>3 DEF Height
  <1>5. stack'[Height - 1].rule = stack[Height - 1].rule /\ stack'[Height - 1].u = stack[Height - 1].u
    BY <1>3 DEF GivenBack
  <1>6. Shape' => Top' = stack'[Height - 1]
    BY <1>4 DEF Shape, Top, Last, Height
  <1>7. stack[Height - 1].rule = "atom" => stack[Height - 1].u # <<>>
    BY <1>1 DEF Waits
  <1>8. Shape' => Nested(Top.rule, Top.state, Top.u)'
    BY <1>4, <1>5, <1>6, <1>7 DEF Nested
  <1> QED  BY <1>2, <1>8, RustGoing

-----------------------------------------------------------------------------
(* The registers.                                                           *)

LEMMA SettingOne ==
  ASSUME NEW f, NEW S, DOMAIN f = S, \A i \in S : f[i] \in Nat, NEW k, NEW x \in Nat
  PROVE  DOMAIN [f EXCEPT ![k] = x] = S /\ \A i \in S : [f EXCEPT ![k] = x][i] \in Nat
  OBVIOUS

LEMMA KeptIsTyped ==
  ASSUME RegistersOK
  PROVE  DOMAIN Kept = DOMAIN stack' /\ \A i \in DOMAIN stack' : Kept[i] \in Nat
  BY DEF RegistersOK, Kept

LEMMA RegistersKept ==
  ASSUME RegistersOK, nest' \in 0 .. MaxNestDepth, level' \in Nat,
         outerMax' = Kept \/ outerMax' = [Kept EXCEPT ![Height] = level]
  PROVE  RegistersOK'
  <1>1. DOMAIN Kept = DOMAIN stack' /\ \A i \in DOMAIN stack' : Kept[i] \in Nat
    BY KeptIsTyped
  <1>2. level \in Nat
    BY DEF RegistersOK
  <1>3. /\ DOMAIN [Kept EXCEPT ![Height] = level] = DOMAIN stack'
        /\ \A i \in DOMAIN stack' : [Kept EXCEPT ![Height] = level][i] \in Nat
    BY <1>1, <1>2, SettingOne
  <1>4. DOMAIN outerMax' = DOMAIN stack' /\ \A i \in DOMAIN stack' : outerMax'[i] \in Nat
    BY <1>1, <1>3
  <1> QED  BY <1>4 DEF RegistersOK

-----------------------------------------------------------------------------
(* Every action keeps the invariant.                                        *)

LEMMA Wrapping ==
  ASSUME RustInv, wrap_one_deeper
  PROVE  RustInv'
  <1>1. /\ status = "reading" /\ Top.rule = "post"
        /\ Choice # 0 => Alternatives[Choice].a \in {"opt", "star", "plus"}
    BY DEF wrap_one_deeper, About
  <1>2. CASE RefuseDepth("element-nesting")
    BY <1>2, RefusingDepth
  <1>3. CASE nest + 1 <= MaxNestDepth /\ TakeStep /\ nest' = nest + 1 /\ UNCHANGED level /\ outerMax' = Kept
    <2>1. /\ Frames /\ RegistersOK /\ Height \in Nat /\ Top.state \in {"open", "close"} /\ nest \in Nat
          /\ Height <= MaxGroupDepth + 3 + nest /\ level \in Nat
      BY <1>1, RustNow DEF Nested, RegistersOK
    <2>2. nest' \in 0 .. MaxNestDepth /\ level' \in Nat
      BY <1>3, <2>1, LimitsAssumption
    <2>3. RegistersOK'
      BY <1>3, <2>1, <2>2, RegistersKept
    <2>4. Height + 1 <= MaxGroupDepth + 3 + nest'
      BY <1>3, <2>1, LimitsAssumption
    <2>5. Fits(Height + 1, New("post")) /\ "post" \in RuleNames
      BY NewFields DEF Fits, RuleNames
    <2>6. ~Acts("none")
      BY <1>1 DEF Acts
    <2>7. CASE Step("post", "open")
      <3>1. \E a : Pushes(a, "post")
        BY <2>1, <2>6, <2>7, PostOpenStep
      <3> QED  BY <1>1, <1>3, <2>3, <2>4, <2>5, <3>1, RustPush
    <2>8. CASE Step("post", "close")
      BY <2>1, <2>6, <2>8, PostCloseStep
    <2> QED  BY <1>1, <1>3, <2>1, <2>7, <2>8 DEF TakeStep
  <1> QED  BY <1>2, <1>3 DEF wrap_one_deeper

\* An atom's other outcomes, with nest at least 1 when they come to pass.
LEMMA AtomOther ==
  ASSUME RustInv, status = "reading", Top.rule = "atom", TakeStep, RegistersOK',
         Acts("open-group") => Height <= MaxGroupDepth,
         Top.u = <<>> \/ Acts("close-group") => nest' >= 1
  PROVE  RustInv'
  <1>1. /\ Frames /\ Height \in Nat \ {0} /\ Height > 1 /\ Top.state \in {"open", "close"} /\ Top.rule \in RuleNames
        /\ Top.state = "open" => Top.u = <<>>
        /\ Follows(stack[Height - 1], Top)
    BY RustNow DEF Ready
  <1>2. stack[Height - 1].rule = "elem"
    BY <1>1, WhatFollows
  <1>3. CASE Step("atom", "open")
    <2>1. Top.u = <<>> /\ nest' >= 1
      <3>1. Top.state = "open"
        BY <1>3 DEF Step
      <3> QED  BY <1>1, <3>1
    <2>2. ASSUME NEW why, Refuses(why), why # "reading"
          PROVE  RustInv'
      BY <2>2, Stopping DEF Refuses
    <2>3. CASE Misread
      BY <2>2, <2>3 DEF Misread
    <2>4. ASSUME NEW a \in {"term", "regex", "code-point", "ref"}, Stays(a)
          PROVE  RustInv'
      BY <2>1, <2>4, RustStay
    <2>5. CASE Pushes("open-group", "alts") /\ Acts("open-group")
      <3>1. Fits(Height + 1, New("alts")) /\ "alts" \in RuleNames
        <4>1. "alts" \in RuleNames
          BY DEF RuleNames
        <4>2. New("alts").rule = "alts" /\ ~IsGroup(New("alts"))
          BY <4>1, NewFields
        <4>3. Height + 1 <= MaxGroupDepth + 1
          BY <1>1, <2>5, LimitsAssumption
        <4> QED  BY <4>1, <4>2, <4>3 DEF Fits
      <3> QED  BY <2>5, <3>1, RustPush
    <2> QED  BY <1>1, <1>3, <2>2, <2>3, <2>4, <2>5, AtomOpenStep
  <1>4. CASE Step("atom", "close")
    <2>1. CASE Returns("close-group") /\ Acts("close-group")
      BY <1>2, <2>1, RustReturn
    <2>2. CASE Refuses("unclosed-group")
      BY <2>2, Stopping DEF Refuses
    <2>3. CASE Top.u = <<>> /\ Returns("none")
      BY <1>2, <2>3, RustReturn
    <2> QED  BY <1>1, <1>4, <2>1, <2>2, <2>3, AtomCloseStep
  <1> QED  BY <1>1, <1>3, <1>4 DEF TakeStep

LEMMA Opening ==
  ASSUME RustInv, atom_lp
  PROVE  RustInv'
  <1>1. /\ status = "reading" /\ Top.rule = "atom"
        /\ Choice # 0 => Alternatives[Choice].a \in {"open-group"}
    BY DEF atom_lp, About
  <1>2. CASE RefuseDepth("rule-depth")
    BY <1>2, RefusingDepth
  <1>3. CASE /\ Len(stack) <= MaxGroupDepth /\ TakeStep /\ UNCHANGED nest
             /\ level' = 0
             /\ outerMax' = [Kept EXCEPT ![Len(stack)] = level]
    <2>1. RegistersOK /\ nest \in 0 .. MaxNestDepth /\ (Top.u = <<>> => nest >= 1)
      BY <1>1, RustNow DEF Nested, RegistersOK
    <2>2. RegistersOK'
      BY <1>3, <2>1, RegistersKept DEF Height
    <2>3. ~Acts("close-group")
      BY <1>1 DEF Acts
    <2>4. Height <= MaxGroupDepth
      BY <1>3 DEF Height
    <2> QED  BY <1>1, <1>3, <2>1, <2>2, <2>3, <2>4, AtomOther
  <1> QED  BY <1>2, <1>3 DEF atom_lp

LEMMA Closing ==
  ASSUME RustInv, atom_group_close
  PROVE  RustInv'
  <1>1. /\ status = "reading" /\ Top.rule = "atom"
        /\ Choice # 0 => Alternatives[Choice].a \in {"close-group"}
    BY DEF atom_group_close, About
  <1>2. CASE RefuseDepth("element-nesting")
    BY <1>2, RefusingDepth
  <1>3. CASE /\ level + 1 <= MaxNestDepth
             /\ TakeStep
             /\ nest' = level + 1
             /\ level' = outerMax[Len(stack)]
             /\ outerMax' = Kept
    <2>1. RegistersOK /\ level \in Nat /\ Height \in DOMAIN stack
      BY <1>1, RustNow DEF RegistersOK
    <2>2. outerMax[Height] \in Nat
      BY <2>1 DEF RegistersOK
    <2>3. nest' \in 0 .. MaxNestDepth /\ nest' >= 1 /\ level' \in Nat
      BY <1>3, <2>1, <2>2, LimitsAssumption DEF Height
    <2>4. RegistersOK'
      BY <1>3, <2>1, <2>3, RegistersKept
    <2>5. ~Acts("open-group")
      BY <1>1 DEF Acts
    <2> QED  BY <1>1, <1>3, <2>3, <2>4, <2>5, AtomOther
  <1> QED  BY <1>2, <1>3 DEF atom_group_close

LEMMA Beginning ==
  ASSUME RustInv, atom_bo
  PROVE  RustInv'
  <1>1. /\ status = "reading" /\ Top.rule = "elem" /\ Top.state = "open"
        /\ TakeStep /\ nest' = 1 /\ UNCHANGED level /\ outerMax' = Kept
    BY DEF atom_bo
  <1>2. Frames /\ RegistersOK /\ level \in Nat /\ AllFit /\ Top = stack[Height] /\ Height \in Nat \ {0}
    BY <1>1, RustNow DEF RegistersOK
  <1>3. RegistersOK'
    BY <1>1, <1>2, LimitsAssumption, RegistersKept
  <1>4. Pushes("none", "atom")
    BY <1>1, <1>2, ElemOpenStep DEF TakeStep
  <1>5. Fits(Height + 1, New("atom")) /\ "atom" \in RuleNames
    <2>1. Height \in 1 .. Height
      BY <1>2
    <2>2. Height <= MaxGroupDepth + 3
      BY <1>1, <1>2, <2>1 DEF AllFit, Fits
    <2>3. Height + 1 <= MaxGroupDepth + 4
      BY <1>2, <2>2, LimitsAssumption
    <2>4. "atom" \in RuleNames
      BY DEF RuleNames
    <2>5. New("atom").rule = "atom" /\ ~IsGroup(New("atom"))
      BY <2>4, NewFields
    <2> QED  BY <2>3, <2>4, <2>5 DEF Fits
  <1> QED  BY <1>1, <1>3, <1>4, <1>5, RustPush

LEMMA Completing ==
  ASSUME RustInv, item_bc
  PROVE  RustInv'
  <1>1. /\ status = "reading" /\ Top.rule = "elem" /\ Top.state = "close" /\ Top.u # <<>>
        /\ TakeStep /\ UNCHANGED nest
        /\ level' = IF level < nest THEN nest ELSE level
        /\ outerMax' = Kept
    BY DEF item_bc
  <1>2. Frames /\ RegistersOK /\ level \in Nat /\ nest \in 0 .. MaxNestDepth /\ Top.rule \in RuleNames
        /\ Follows(stack[Height - 1], Top)
    BY <1>1, RustNow DEF RegistersOK
  <1>3. nest' \in 0 .. MaxNestDepth /\ level' \in Nat
    BY <1>1, <1>2
  <1>4. RegistersOK'
    BY <1>1, <1>2, <1>3, RegistersKept
  <1>5. Returns("none")
    BY <1>1, <1>2, ElemCloseStep DEF TakeStep
  <1>6. stack[Height - 1].rule = "seq"
    BY <1>1, <1>2, WhatFollows
  <1> QED  BY <1>1, <1>4, <1>5, <1>6, RustReturn

\* The steps at which no register changes.
LEMMA OtherSteps ==
  ASSUME RustInv, RustStep
  PROVE  RustInv'
  <1>1. /\ status = "reading" /\ TakeStep /\ nest' = nest /\ level' = level /\ outerMax' = Kept
        /\ Top.rule = "post" => ~About("post", {"opt", "star", "plus"})
        /\ Top.rule = "atom" => ~About("atom", {"open-group", "close-group"})
        /\ Top.rule = "elem" => Top.state = "close" /\ Top.u = <<>>
    BY DEF RustStep
  <1>2. /\ Frames /\ RegistersOK /\ AllFit /\ Top = stack[Height] /\ Height \in Nat \ {0}
        /\ Top.rule \in RuleNames /\ Top.state \in {"open", "close"} /\ Nested(Top.rule, Top.state, Top.u)
        /\ Top.rule # "ebnf" => Height > 1 /\ Follows(stack[Height - 1], Top) /\ Waits(stack[Height - 1], Top)
    BY <1>1, RustNow
  <1>3. RegistersOK' /\ nest \in 0 .. MaxNestDepth
    BY <1>1, <1>2, RegistersKept DEF RegistersOK
  <1>4. /\ MaxGroupDepth \in Nat /\ MaxGroupDepth >= 2
        /\ \A rule \in RuleNames : New(rule).rule = rule /\ ~IsGroup(New(rule))
    BY NewFields, LimitsAssumption
  <1>5. /\ Fits(Height, Top)
        /\ "prod" \in RuleNames /\ "alts" \in RuleNames /\ "seq" \in RuleNames /\ "elem" \in RuleNames
        /\ "post" \in RuleNames
    <2>1. Height \in 1 .. Height
      BY <1>2
    <2> QED  BY <1>2, <2>1 DEF AllFit, RuleNames
  <1>6. ASSUME NEW why, Refuses(why), why # "reading"
        PROVE  RustInv'
    BY <1>1, <1>6, Stopping DEF Refuses
  <1>7. CASE Top.rule = "ebnf"
    <2>1. Height = 1
      BY <1>1, <1>7, RustNow, Now
    <2>2. Fits(Height + 1, New("prod"))
      BY <1>4, <1>5, <2>1 DEF Fits
    <2>3. ASSUME NEW a, a \notin {"name", "open-group", "got"}, Stays(a)
          PROVE  RustInv'
      BY <1>1, <1>3, <1>7, <2>3, RustStay
    <2>4. ASSUME NEW a, Pushes(a, "prod")
          PROVE  RustInv'
      BY <1>1, <1>3, <1>5, <1>7, <2>2, <2>4, RustPush
    <2>5. ASSUME Returns("none")
          PROVE  RustInv'
      BY <1>1, <2>1, <2>5, Stopping DEF Returns
    <2>6. CASE Step("ebnf", "open")
      BY <1>2, <2>3, <2>4, <2>6, EbnfOpenStep
    <2>7. CASE Step("ebnf", "close")
      BY <1>2, <1>6, <2>5, <2>7, EbnfCloseStep
    <2> QED  BY <1>1, <1>2, <1>7, <2>6, <2>7 DEF TakeStep
  <1>8. CASE Top.rule = "prod"
    <2>1. Height <= 2
      BY <1>5, <1>8 DEF Fits
    <2>2. Fits(Height + 1, New("alts"))
      BY <1>2, <1>4, <1>5, <2>1 DEF Fits
    <2>3. stack[Height - 1].rule = "ebnf"
      BY <1>2, <1>8, WhatFollows
    <2>4. CASE Step("prod", "open")
      <3>1. CASE Misread
        BY <1>6, <3>1 DEF Misread
      <3>2. CASE Pushes("name", "alts")
        BY <1>1, <1>3, <1>5, <1>8, <2>2, <3>2, RustPush
      <3> QED  BY <1>2, <1>6, <2>4, <3>1, <3>2, ProdOpenStep
    <2>5. CASE Step("prod", "close")
      <3>1. CASE Replaces("prod")
        BY <1>1, <1>3, <1>8, <3>1, RustReplace
      <3>2. CASE Returns("none")
        BY <1>1, <1>3, <1>8, <2>3, <3>2, RustReturn
      <3> QED  BY <1>2, <2>5, <3>1, <3>2, ProdCloseStep
    <2> QED  BY <1>1, <1>2, <1>8, <2>4, <2>5 DEF TakeStep
  <1>9. CASE Top.rule = "alts"
    <2>1. Fits(Height + 1, New("seq"))
      <3>1. Height <= MaxGroupDepth + 1
        BY <1>5, <1>9 DEF Fits
      <3>2. Height + 1 <= MaxGroupDepth + 2
        BY <1>2, <1>4, <3>1
      <3> QED  BY <1>4, <1>5, <3>2 DEF Fits
    <2>2. stack[Height - 1].rule \in {"prod", "atom"}
      BY <1>2, <1>9, WhatFollows
    <2>3. CASE Pushes("none", "seq")
      BY <1>1, <1>3, <1>5, <1>9, <2>1, <2>3, RustPush
    <2>4. CASE Returns("none")
      BY <1>1, <1>3, <1>9, <2>2, <2>4, RustReturn
    <2>5. CASE Step("alts", "open")
      BY <1>2, <2>3, <2>5, AltsOpenStep
    <2>6. CASE Step("alts", "close")
      BY <1>2, <2>3, <2>4, <2>6, AltsCloseStep
    <2> QED  BY <1>1, <1>2, <1>9, <2>5, <2>6 DEF TakeStep
  <1>10. CASE Top.rule = "seq"
    <2>1. Fits(Height + 1, New("elem"))
      <3>1. Height <= MaxGroupDepth + 2
        BY <1>5, <1>10 DEF Fits
      <3>2. Height + 1 <= MaxGroupDepth + 3
        BY <1>2, <1>4, <3>1
      <3> QED  BY <1>4, <1>5, <3>2 DEF Fits
    <2>2. stack[Height - 1].rule = "alts"
      BY <1>2, <1>10, WhatFollows
    <2>3. CASE Pushes("none", "elem")
      BY <1>1, <1>3, <1>5, <1>10, <2>1, <2>3, RustPush
    <2>4. CASE Returns("none")
      BY <1>1, <1>3, <1>10, <2>2, <2>4, RustReturn
    <2>5. CASE Stays("none")
      BY <1>1, <1>3, <1>10, <2>5, RustStay
    <2>6. CASE Step("seq", "open")
      BY <1>2, <1>6, <2>3, <2>5, <2>6, SeqOpenStep
    <2>7. CASE Step("seq", "close")
      BY <1>2, <1>6, <2>3, <2>4, <2>7, SeqCloseStep
    <2> QED  BY <1>1, <1>2, <1>10, <2>6, <2>7 DEF TakeStep
  <1>11. CASE Top.rule = "elem"
    <2>1. Step("elem", "close") /\ Top.u = <<>>
      BY <1>1, <1>11 DEF TakeStep
    <2>2. Pushes("got", "post")
      BY <1>2, <2>1, ElemCloseStep
    <2>3. nest >= 1 /\ Height <= MaxGroupDepth + 3
      BY <1>1, <1>2, <1>5, <1>11 DEF Nested, Fits
    <2>4. Fits(Height + 1, New("post")) /\ Height + 1 <= MaxGroupDepth + 3 + nest'
      <3>1. Height + 1 <= MaxGroupDepth + 3 + nest'
        BY <1>1, <1>2, <1>3, <1>4, <2>3
      <3> QED  BY <1>4, <1>5, <3>1 DEF Fits
    <2> QED  BY <1>1, <1>3, <1>5, <1>11, <2>2, <2>4, RustPush
  <1>12. CASE Top.rule = "post"
    <2>1. Height <= MaxGroupDepth + 3 + nest' /\ Height - 1 <= MaxGroupDepth + 3 + nest'
      <3>1. Height <= MaxGroupDepth + 3 + nest'
        BY <1>1, <1>2, <1>12 DEF Nested
      <3> QED  BY <1>1, <1>2, <1>3, <1>4, <3>1
    <2>2. stack[Height - 1].rule = "elem" => stack[Height - 1].u # <<>>
      BY <1>2, <1>12 DEF Waits
    <2>3. CASE Step("post", "open")
      <3>1. \A a \in {"opt", "star", "plus"} : ~(Begun("post", "open") /\ Acts(a))
        BY <1>1, <1>12 DEF About, Begun, Acts
      <3>2. Stays("none")
        BY <1>2, <2>3, <3>1, PostOpenStep
      <3> QED  BY <1>1, <1>3, <1>12, <2>1, <3>2, RustStay
    <2>4. CASE Step("post", "close")
      <3>1. Returns("none")
        BY <1>2, <2>4, PostCloseStep
      <3> QED  BY <1>1, <1>3, <1>12, <2>1, <2>2, <3>1, RustReturn
    <2> QED  BY <1>1, <1>2, <1>12, <2>3, <2>4 DEF TakeStep
  <1>13. CASE Top.rule = "atom"
    <2>1. ~NeedsToken
      BY <1>1 DEF TakeStep, Step
    <2>2. ~Acts("open-group") /\ ~Acts("close-group")
      BY <1>1, <1>13, <2>1 DEF About, Acts
    <2>3. Top.u = <<>> => nest' >= 1
      BY <1>1, <1>2, <1>13 DEF Nested
    <2> QED  BY <1>1, <1>3, <1>13, <2>2, <2>3, AtomOther
  <1> QED  BY <1>2, <1>7, <1>8, <1>9, <1>10, <1>11, <1>12, <1>13 DEF RuleNames

LEMMA RustLexes ==
  ASSUME RustInv, RustLex
  PROVE  RustInv'
  <1>1. /\ status = "reading" /\ stack' = stack /\ status' = status /\ Lex
        /\ nest' = nest /\ level' = level /\ outerMax' = outerMax
    BY DEF RustLex, Lex, registers
  <1>2. Inv /\ RegistersOK /\ AllFit /\ Nested(Top.rule, Top.state, Top.u) /\ StackBounded
    BY <1>1 DEF RustInv
  <1>3. Inv'
    BY <1>1, <1>2, Lexes
  <1>4. RegistersOK' /\ AllFit' /\ Nested(Top.rule, Top.state, Top.u)' /\ StackBounded'
    BY <1>1, <1>2 DEF RegistersOK, AllFit, Nested, StackBounded, Top, Last, Height
  <1> QED  BY <1>3, <1>4 DEF RustInv, Inv

LEMMA RustStarts ==
  ASSUME RustInit
  PROVE  RustInv
  <1>1. Init /\ nest = 0 /\ level = 0 /\ outerMax = <<0>>
    BY DEF RustInit
  <1>2. Inv
    BY <1>1, Starts
  <1>3. stack = <<New("ebnf")>> /\ Len(stack) = 1 /\ Height = 1 /\ stack[1] = New("ebnf") /\ DOMAIN stack = {1}
    BY <1>1 DEF Init, Height
  <1>4. New("ebnf").rule = "ebnf" /\ New("ebnf").state = "open" /\ ~IsGroup(New("ebnf"))
    BY NewFields DEF RuleNames
  <1>5. Top = New("ebnf")
    BY <1>3 DEF Top, Last
  <1>6. RegistersOK
    BY <1>1, <1>3, LimitsAssumption DEF RegistersOK
  <1>7. AllFit
    BY <1>3, <1>4 DEF AllFit, Fits
  <1>8. Nested(Top.rule, Top.state, Top.u)
    BY <1>4, <1>5 DEF Nested
  <1>9. StackBounded
    BY <1>3, LimitsAssumption DEF StackBounded
  <1> QED  BY <1>2, <1>6, <1>7, <1>8, <1>9 DEF RustInv, Inv

LEMMA RustKeeps ==
  ASSUME RustInv, [RustNext]_<<vars, registers>>
  PROVE  RustInv'
  <1>1. CASE UNCHANGED <<vars, registers>>
    <2>1. /\ src' = src /\ pos' = pos /\ stack' = stack /\ status' = status /\ out' = out
          /\ nest' = nest /\ level' = level /\ outerMax' = outerMax
      BY <1>1 DEF vars, registers
    <2>2. Inv => Inv'
      <3>1. UNCHANGED vars
        BY <2>1 DEF vars
      <3> QED  BY <3>1, Keeps
    <2>3. /\ RegistersOK => RegistersOK'
          /\ AllFit => AllFit'
          /\ Nested(Top.rule, Top.state, Top.u) => Nested(Top.rule, Top.state, Top.u)'
          /\ StackBounded => StackBounded'
      BY <2>1 DEF RegistersOK, AllFit, Nested, StackBounded, Top, Last, Height
    <2>4. Before' = Before /\ Offender' = Offender /\ Consumed' = Consumed
      BY <2>1 DEF Before, Offender, Consumed
    <2>5. NamesTheMistake => NamesTheMistake'
      BY <2>1, <2>4 DEF NamesTheMistake, AtStart, Count
    <2> QED  BY <2>1, <2>2, <2>3, <2>5 DEF RustInv
  <1> QED  BY <1>1, Wrapping, Opening, Closing, Beginning, Completing, OtherSteps, RustLexes DEF RustNext

-----------------------------------------------------------------------------
(* What this port reads.                                                    *)

\* A step of this port is one of the table, or gives up.
LEMMA RustActs ==
  ASSUME RustInv, RustNext
  PROVE  status = "reading" /\ (Next \/ \E why \in {"element-nesting", "rule-depth"} : RefuseDepth(why))
  <1>1. status = "reading"
    BY DEF RustNext, RustLex, Lex, About, wrap_one_deeper, atom_lp, atom_group_close, atom_bo, item_bc, RustStep
  <1>2. TakeStep => Next
    <2>1. Top.rule \in RuleNames /\ Top.state \in {"open", "close"}
      BY <1>1, RustNow
    <2> QED  BY <2>1 DEF TakeStep, Next
  <1>3. RustLex => Next
    BY DEF RustLex, Next
  <1> HIDE DEF TakeStep
  <1> QED  BY <1>1, <1>2, <1>3 DEF RustNext, wrap_one_deeper, atom_lp, atom_group_close, atom_bo, item_bc, RustStep

LEMMA RustSoundKeeps ==
  ASSUME RustInv, Sound, [RustNext]_<<vars, registers>>
  PROVE  Sound'
  <1>1. CASE RustNext /\ Next
    <2>1. Inv
      BY <1>1, RustActs, RustNow
    <2> QED  BY <1>1, <2>1, SoundKeeps
  <1>2. ASSUME NEW why \in {"element-nesting", "rule-depth"}, RefuseDepth(why)  PROVE Sound'
    <2>1. src' = src /\ status' \notin {"reading", "parsed"}
      BY <1>2 DEF RefuseDepth
    <2> QED  BY <2>1 DEF Sound, EndsOnce, Body, ReadsTheNotation
  <1>3. CASE UNCHANGED <<vars, registers>>
    <2>1. UNCHANGED vars
      BY <1>3
    <2> QED  BY <2>1, UnchangedSound
  <1> QED  BY <1>1, <1>2, <1>3, RustActs

-----------------------------------------------------------------------------
(* The theorems.                                                            *)

\* Whatever is read, every rule lies no deeper than the last group that may open
\* allows, and no chain of operators is longer than nest.
THEOREM RustStackIsSound == RustSpec => []RustInv
  <1>1. RustInit => RustInv
    BY RustStarts
  <1>2. RustInv /\ [RustNext]_<<vars, registers>> => RustInv'
    BY RustKeeps
  <1> QED  BY <1>1, <1>2, PTL DEF RustSpec

\* The engine's stack is bounded whatever is read (RustRules!StackBounded), for every
\* value of the two limits and for sources of every length.
THEOREM TheStackIsBounded == RustSpec => []StackBounded
  <1>1. RustInv => StackBounded
    BY DEF RustInv
  <1> QED  BY <1>1, RustStackIsSound, PTL

\* This port reads with the same table, so what it refuses for another reason than its
\* depth it names as truly as the TypeScript one (EbnfReader!NamesTheMistake).
THEOREM TheRustPortNamesMistakes == RustSpec => []NamesTheMistake
  <1>1. RustInv => NamesTheMistake
    BY DEF RustInv
  <1> QED  BY <1>1, RustStackIsSound, PTL

\* This port reads what the TypeScript one reads, into the same tree, whatever its limits
\* (EbnfReader!ReadsTheNotation): no register and no limit has a part in the tree.
THEOREM TheRustPortReadsTheNotation == RustSpec => []ReadsTheNotation
  <1>1. RustInit => Sound
    BY SoundAtFirst DEF RustInit
  <1>2. RustInv /\ Sound /\ [RustNext]_<<vars, registers>> => Sound'
    BY RustSoundKeeps
  <1>3. Sound => ReadsTheNotation
    BY DEF Sound
  <1> QED  BY <1>1, <1>2, <1>3, RustStackIsSound, PTL DEF RustSpec

=============================================================================
