---------------------------- MODULE NotationProofs ----------------------------
(***************************************************************************)
(* The notation is closed under its own rules: what Notation builds from   *)
(* the shortest phrases up, length by length, holds every phrase that the  *)
(* grammar at its head allows, whatever its length.                        *)
(*                                                                         *)
(* The definitions are recursive, so each is first shown to have the value *)
(* that its text says.  Induction is over sets: if some number were an     *)
(* exception, there would be a least one.                                  *)
(***************************************************************************)
EXTENDS Notation, WellFoundedInduction, SequenceTheorems, TLAPS

-----------------------------------------------------------------------------
(* Least numbers.                                                           *)

\* The least element of a set of naturals is one.
LEMMA HasLeast ==
  ASSUME NEW I \in SUBSET Nat, I # {}
  PROVE  \E x \in I : \A i \in I : x <= i
  <1> DEFINE Less == {ss \in Nat \X Nat : ss[1] < ss[2]}
  <1>1. IsWellFoundedOn(Less, Nat)
    BY NatLessThanWellFounded, Zenon DEF OpToRel
  <1>2. PICK x \in I : \A y \in I : <<y, x>> \notin Less
    <2> HIDE DEF Less
    <2> QED  BY <1>1, WFMin
  <1>3. \A y \in I : x <= y
    <2> SUFFICES ASSUME NEW y \in I, ~(x <= y) PROVE FALSE
      OBVIOUS
    <2>1. <<y, x>> \in Nat \X Nat /\ <<y, x>>[1] < <<y, x>>[2]
      OBVIOUS
    <2> QED  BY <2>1, <1>2
  <1> QED  BY <1>3

\* A set of naturals that holds 0, and the next of each that it holds, is all of them.
LEMMA AllNaturals ==
  ASSUME NEW I \in SUBSET Nat, 0 \in I, \A n \in I : n + 1 \in I
  PROVE  I = Nat
  <1> SUFFICES ASSUME Nat \ I # {} PROVE FALSE
    OBVIOUS
  <1>1. PICK x \in Nat \ I : \A i \in Nat \ I : x <= i
    BY HasLeast
  <1>2. x - 1 \in Nat /\ x - 1 \notin Nat \ I
    BY <1>1
  <1>3. x - 1 + 1 \in I
    BY <1>2
  <1> QED  BY <1>1, <1>3

-----------------------------------------------------------------------------
(* Sequences.  A sequence of what it holds: no more is said of its items.   *)

IsSeq(s) == s \in Seq(Range(s))

LEMMA AppendIsSeq ==
  ASSUME NEW s, IsSeq(s), NEW x
  PROVE  /\ IsSeq(Append(s, x)) /\ Len(Append(s, x)) = Len(s) + 1 /\ Append(s, x)[Len(s) + 1] = x
         /\ \A i \in 1 .. Len(s) : Append(s, x)[i] = s[i]
  <1> DEFINE T == Range(s) \cup {x}
  <1>1. s \in Seq(T) /\ x \in T
    BY DEF IsSeq
  <1>2. Append(s, x) \in Seq(T) /\ Len(Append(s, x)) = Len(s) + 1
    BY <1>1
  <1>3. Append(s, x)[Len(s) + 1] = x /\ \A i \in 1 .. Len(s) : Append(s, x)[i] = s[i]
    BY <1>1
  <1>4. IsSeq(Append(s, x))
    BY <1>2, SeqDef DEF IsSeq, Range
  <1> QED  BY <1>2, <1>3, <1>4

-----------------------------------------------------------------------------
(* Recursive definitions mean what they say.                                *)

None == [elem |-> <<>>, seq |-> <<>>, alts |-> <<>>, prod |-> <<>>, source |-> <<>>]
Another(v, n) == CHOOSE r \in {Longer(p, n) : p \in {v}} : TRUE

LEMMA AfterIsLonger ==
  ASSUME NEW v, NEW n
  PROVE  Another(v, n) = Longer(v, n)
  <1>1. {Longer(p, n) : p \in {v}} = {Longer(v, n)}
    BY Zenon
  <1> QED  BY <1>1, Zenon DEF Another

\* g is Phrases as far as m.
Counts(g, m) == g = [k \in 0 .. m |-> IF k = 0 THEN None ELSE Another(g[k - 1], k)]

LEMMA FollowsOne ==
  ASSUME NEW m \in Nat
  PROVE  \E g : Counts(g, m)
  <1> DEFINE I == {n \in Nat : \E g : Counts(g, n)}
  <1>1. 0 \in I
    <2> DEFINE g == [k \in 0 .. 0 |-> None]
    <2>0. \A k \in 0 .. 0 : k = 0
      OBVIOUS
    <2>1. g = [k \in 0 .. 0 |-> IF k = 0 THEN None ELSE Another(g[k - 1], k)]
      BY <2>0, Zenon
    <2> QED  BY <2>1, Zenon DEF Counts
  <1>2. ASSUME NEW n \in I
        PROVE  n + 1 \in I
    <2>1. PICK g : Counts(g, n)
      OBVIOUS
    <2> DEFINE h == [k \in 0 .. n + 1 |-> IF k = n + 1 THEN Another(g[n], n + 1) ELSE g[k]]
    <2>2. ASSUME NEW k \in 0 .. n + 1
          PROVE  h[k] = IF k = 0 THEN None ELSE Another(h[k - 1], k)
      <3>1. CASE k = n + 1
        <4>1. k - 1 \in 0 .. n + 1 /\ k - 1 # n + 1 /\ k # 0 /\ k - 1 = n
          BY <3>1
        <4>2. h[k] = Another(g[n], n + 1)
          BY <3>1, Zenon
        <4>3. h[k - 1] = g[k - 1]
          BY <4>1, Zenon
        <4> QED  BY <4>1, <4>2, <4>3, <3>1, Zenon
      <3>2. CASE k # n + 1
        <4>1. k \in 0 .. n /\ (k # 0 => k - 1 \in 0 .. n + 1 /\ k - 1 # n + 1)
          BY <3>2
        <4>2. h[k] = g[k]
          BY <3>2, Zenon
        <4>3. g[k] = IF k = 0 THEN None ELSE Another(g[k - 1], k)
          BY <2>1, <4>1, Zenon DEF Counts
        <4>4. k # 0 => h[k - 1] = g[k - 1]
          BY <4>1, Zenon
        <4> QED  BY <4>2, <4>3, <4>4, Zenon
      <3> QED  BY <3>1, <3>2, Zenon
    <2>3. h = [k \in 0 .. n + 1 |-> IF k = 0 THEN None ELSE Another(h[k - 1], k)]
      <3> HIDE DEF h
      <3> SUFFICES h = [k \in 0 .. n + 1 |-> h[k]]
        BY <2>2, Zenon
      <3> QED  BY Zenon DEF h
    <2>4. Counts(h, n + 1) /\ n + 1 \in Nat
      <3> HIDE DEF h
      <3> QED  BY <2>3 DEF Counts
    <2> QED  BY <2>4, Zenon
  <1> HIDE DEF I
  <1>3. I = Nat
    <2>1. I \in SUBSET Nat
      BY DEF I
    <2> QED  BY <1>1, <1>2, <2>1, AllNaturals
  <1> QED  BY <1>3 DEF I

LEMMA FollowsSame ==
  ASSUME NEW g, NEW h, NEW m \in Nat, NEW n \in Nat, Counts(g, m), Counts(h, n),
         NEW k \in Nat, k <= m, k <= n
  PROVE  g[k] = h[k]
  <1> DEFINE I == {i \in Nat : i <= m /\ i <= n => g[i] = h[i]}
  <1>0. ASSUME NEW i \in Nat, i <= m, i <= n
        PROVE  /\ g[i] = IF i = 0 THEN None ELSE Another(g[i - 1], i)
               /\ h[i] = IF i = 0 THEN None ELSE Another(h[i - 1], i)
    <2>1. i \in 0 .. m /\ i \in 0 .. n
      BY <1>0
    <2> QED  BY <2>1, Zenon DEF Counts
  <1>1. 0 \in I
    BY <1>0
  <1>2. ASSUME NEW i \in I
        PROVE  i + 1 \in I
    <2> SUFFICES ASSUME NEW j \in Nat, j = i + 1, j <= m, j <= n
                 PROVE  g[j] = h[j]
      OBVIOUS
    <2>1. j # 0 /\ j - 1 = i /\ g[i] = h[i]
      OBVIOUS
    <2>2. /\ g[j] = IF j = 0 THEN None ELSE Another(g[j - 1], j)
          /\ h[j] = IF j = 0 THEN None ELSE Another(h[j - 1], j)
      BY <1>0, Zenon
    <2> QED  BY <2>1, <2>2, Zenon
  <1> HIDE DEF I
  <1>3. I = Nat
    <2>1. I \in SUBSET Nat
      BY DEF I
    <2> QED  BY <1>1, <1>2, <2>1, AllNaturals
  <1> QED  BY <1>3 DEF I

LEMMA PhrasesIs ==
  Phrases = [n \in Nat |-> IF n = 0 THEN None ELSE Another(Phrases[n - 1], n)]
  <1> DEFINE G(n) == CHOOSE g : Counts(g, n)
             F == [n \in Nat |-> G(n)[n]]
  <1>1. ASSUME NEW n \in Nat
        PROVE  F[n] = IF n = 0 THEN None ELSE Another(F[n - 1], n)
    <2>1. Counts(G(n), n)
      BY FollowsOne, Zenon
    <2>2. F[n] = G(n)[n]
      BY Zenon
    <2>3. n \in 0 .. n
      OBVIOUS
    <2>4. F[n] = IF n = 0 THEN None ELSE Another(G(n)[n - 1], n)
      BY <2>1, <2>2, <2>3, Zenon DEF Counts
    <2>5. CASE n # 0
      <3>1. n - 1 \in Nat /\ n - 1 <= n - 1 /\ n - 1 <= n
        BY <2>5
      <3>2. Counts(G(n - 1), n - 1)
        BY <3>1, FollowsOne, Zenon
      <3>3. F[n - 1] = G(n - 1)[n - 1]
        BY <3>1, Zenon
      <3> HIDE DEF G, F
      <3>4. G(n)[n - 1] = G(n - 1)[n - 1]
        BY <2>1, <3>1, <3>2, FollowsSame, Zenon
      <3> QED  BY <2>4, <3>3, <3>4, Zenon
    <2> QED  BY <2>4, <2>5, Zenon
  <1>2. F = [n \in Nat |-> IF n = 0 THEN None ELSE Another(F[n - 1], n)]
    <2> HIDE DEF F, G
    <2> SUFFICES F = [n \in Nat |-> F[n]]
      BY <1>1, Zenon
    <2> QED  BY Zenon DEF F
  <1> HIDE DEF F
  <1>3. \E f : f = [n \in Nat |-> IF n = 0 THEN None ELSE Another(f[n - 1], n)]
    BY <1>2
  <1> QED  BY <1>3, Zenon DEF Phrases, None, Another

\* g is what Without keeps of the first 0, 1, ..., m tokens of s.
Sifts(g, m, s, silent) == g = [k \in 0 .. m |-> IF k = 0 THEN <<>> ELSE (IF s[k] \in silent THEN g[k - 1] ELSE Append(g[k - 1], s[k]))]

LEMMA KeepingOne ==
  ASSUME NEW s, NEW silent, NEW m \in Nat
  PROVE  \E g : Sifts(g, m, s, silent)
  <1> DEFINE I == {n \in Nat : \E g : Sifts(g, n, s, silent)}
  <1>1. 0 \in I
    <2> DEFINE g == [k \in 0 .. 0 |-> <<>>]
    <2>0. \A k \in 0 .. 0 : k = 0
      OBVIOUS
    <2>1. g = [k \in 0 .. 0 |-> IF k = 0 THEN <<>> ELSE (IF s[k] \in silent THEN g[k - 1] ELSE Append(g[k - 1], s[k]))]
      BY <2>0, Zenon
    <2> QED  BY <2>1, Zenon DEF Sifts
  <1>2. ASSUME NEW n \in I
        PROVE  n + 1 \in I
    <2>1. PICK g : Sifts(g, n, s, silent)
      OBVIOUS
    <2> DEFINE Nth(v, k) == (IF s[k] \in silent THEN v ELSE Append(v, s[k]))
               h == [k \in 0 .. n + 1 |-> IF k = n + 1 THEN Nth(g[n], n + 1) ELSE g[k]]
    <2>2. ASSUME NEW k \in 0 .. n + 1
          PROVE  h[k] = IF k = 0 THEN <<>> ELSE Nth(h[k - 1], k)
      <3>1. CASE k = n + 1
        <4>1. k - 1 \in 0 .. n + 1 /\ k - 1 # n + 1 /\ k # 0 /\ k - 1 = n
          BY <3>1
        <4> HIDE DEF Nth
        <4>2. h[k] = Nth(g[n], n + 1)
          BY <3>1, Zenon
        <4>3. h[k - 1] = g[k - 1]
          BY <4>1, Zenon
        <4> QED  BY <4>1, <4>2, <4>3, <3>1, Zenon
      <3>2. CASE k # n + 1
        <4>1. k \in 0 .. n /\ (k # 0 => k - 1 \in 0 .. n + 1 /\ k - 1 # n + 1)
          BY <3>2
        <4>2. h[k] = g[k]
          BY <3>2, Zenon
        <4>3. g[k] = IF k = 0 THEN <<>> ELSE Nth(g[k - 1], k)
          BY <2>1, <4>1, Zenon DEF Sifts
        <4>4. k # 0 => h[k - 1] = g[k - 1]
          <5> HIDE DEF Nth
          <5> QED  BY <4>1, Zenon
        <4> HIDE DEF Nth
        <4> QED  BY <4>2, <4>3, <4>4, Zenon
      <3> QED  BY <3>1, <3>2, Zenon
    <2>3. h = [k \in 0 .. n + 1 |-> IF k = 0 THEN <<>> ELSE Nth(h[k - 1], k)]
      <3> HIDE DEF h, Nth
      <3> SUFFICES h = [k \in 0 .. n + 1 |-> h[k]]
        BY <2>2, Zenon
      <3> QED  BY Zenon DEF h
    <2>4. Sifts(h, n + 1, s, silent) /\ n + 1 \in Nat
      <3> HIDE DEF h
      <3>1. Sifts(h, n + 1, s, silent)
        BY <2>3, Zenon DEF Sifts
      <3> QED  BY <3>1
    <2> QED  BY <2>4, Zenon
  <1> HIDE DEF I
  <1>3. I = Nat
    <2>1. I \in SUBSET Nat
      BY DEF I
    <2> QED  BY <1>1, <1>2, <2>1, AllNaturals
  <1> QED  BY <1>3 DEF I


LEMMA WithoutIs ==
  ASSUME NEW s, Len(s) \in Nat, NEW silent
  PROVE  \E g : Sifts(g, Len(s), s, silent) /\ Without(s, silent) = g[Len(s)]
  <1> DEFINE g == CHOOSE g : Sifts(g, Len(s), s, silent)
  <1>1. Sifts(g, Len(s), s, silent)
    BY KeepingOne, Zenon
  <1>2. Without(s, silent) = g[Len(s)]
    BY Zenon DEF Without, Sifts
  <1> QED  BY <1>1, <1>2, Zenon

LEMMA WithoutNone ==
  ASSUME NEW silent
  PROVE  Without(<<>>, silent) = <<>>
  <1>1. Len(<<>>) = 0 /\ 0 \in 0 .. 0
    OBVIOUS
  <1>2. PICK g : Sifts(g, Len(<<>>), <<>>, silent) /\ Without(<<>>, silent) = g[Len(<<>>)]
    BY <1>1, WithoutIs
  <1> QED  BY <1>1, <1>2, Zenon DEF Sifts

\* One token more is kept or is left out.
LEMMA WithoutMore ==
  ASSUME NEW S, NEW s \in Seq(S), NEW t, NEW silent
  PROVE  Without(Append(s, t), silent) =
           IF t \in silent THEN Without(s, silent) ELSE Append(Without(s, silent), t)
  <1> DEFINE r == Append(s, t)
  <1> SUFFICES ASSUME NEW n \in Nat, n = Len(s), NEW j \in Nat, j = n + 1
               PROVE  Without(r, silent) =
                        IF t \in silent THEN Without(s, silent) ELSE Append(Without(s, silent), t)
    OBVIOUS
  <1>1. /\ Len(r) = j /\ r[j] = t /\ j # 0 /\ j - 1 = n /\ n <= n /\ n <= j /\ j \in 0 .. j
        /\ \A i \in 1 .. n : s[i] = r[i]
    OBVIOUS
  <1> HIDE DEF r
  <1>2. PICK g : Sifts(g, n, s, silent) /\ Without(s, silent) = g[n]
    BY <1>1, WithoutIs
  <1>3. PICK h : Sifts(h, j, r, silent) /\ Without(r, silent) = h[j]
    BY <1>1, WithoutIs
  <1>4. g[n] = h[n]
    <2> DEFINE I == {i \in Nat : i <= n => g[i] = h[i]}
               Nth(v, i) == (IF s[i] \in silent THEN v ELSE Append(v, s[i]))
    <2>0. ASSUME NEW i \in Nat, i <= n
          PROVE  /\ g[i] = IF i = 0 THEN <<>> ELSE Nth(g[i - 1], i)
                 /\ h[i] = IF i = 0 THEN <<>> ELSE Nth(h[i - 1], i)
      <3>1. i \in 0 .. n /\ i \in 0 .. j /\ (i # 0 => i \in 1 .. n)
        BY <2>0
      <3>2. i # 0 => s[i] = r[i]
        BY <3>1, <1>1
      <3> QED  BY <3>1, <3>2, <1>2, <1>3, Zenon DEF Sifts
    <2> HIDE DEF Nth
    <2>1. 0 \in I
      BY <2>0
    <2>2. ASSUME NEW i \in I
          PROVE  i + 1 \in I
      <3> SUFFICES ASSUME NEW k \in Nat, k = i + 1, k <= n
                   PROVE  g[k] = h[k]
        OBVIOUS
      <3>1. k # 0 /\ k - 1 = i /\ g[i] = h[i]
        OBVIOUS
      <3>2. /\ g[k] = IF k = 0 THEN <<>> ELSE Nth(g[k - 1], k)
            /\ h[k] = IF k = 0 THEN <<>> ELSE Nth(h[k - 1], k)
        BY <2>0, Zenon
      <3> QED  BY <3>1, <3>2, Zenon
    <2> HIDE DEF I
    <2>3. I = Nat
      <3>1. I \in SUBSET Nat
        BY DEF I
      <3> QED  BY <2>1, <2>2, <3>1, AllNaturals
    <2> QED  BY <2>3 DEF I
  <1>5. h[j] = IF r[j] \in silent THEN h[j - 1] ELSE Append(h[j - 1], r[j])
    BY <1>1, <1>3, Zenon DEF Sifts
  <1> QED  BY <1>1, <1>2, <1>3, <1>4, <1>5, Zenon

\* What is kept are tokens that are not left out, no more than there were.
LEMMA WithoutIsSeq ==
  ASSUME NEW S, NEW s \in Seq(S), NEW silent
  PROVE  Without(s, silent) \in Seq(S \ silent) /\ Len(Without(s, silent)) <= Len(s)
  <1>1. PICK g : Sifts(g, Len(s), s, silent) /\ Without(s, silent) = g[Len(s)]
    BY WithoutIs
  <1> DEFINE Kept(v, n) == v \in Seq(S \ silent) /\ Len(v) <= n
             I == {n \in Nat : n <= Len(s) => Kept(g[n], n)}
  <1>2. 0 \in I
    <2>1. 0 \in 0 .. Len(s)
      OBVIOUS
    <2>2. g[0] = <<>>
      BY <1>1, <2>1, Zenon DEF Sifts
    <2>3. Kept(<<>>, 0)
      OBVIOUS
    <2>4. Kept(g[0], 0)
      BY <2>2, <2>3, Zenon
    <2> HIDE DEF Kept
    <2> QED  BY <2>4
  <1>3. ASSUME NEW n \in I
        PROVE  n + 1 \in I
    <2> SUFFICES ASSUME NEW j \in Nat, j = n + 1, j <= Len(s)
                 PROVE  Kept(g[j], j)
      OBVIOUS
    <2>1. j \in 0 .. Len(s) /\ j # 0 /\ j - 1 = n /\ Kept(g[n], n) /\ n \in Nat /\ s[j] \in S
      OBVIOUS
    <2>2. g[j] = IF s[j] \in silent THEN g[n] ELSE Append(g[n], s[j])
      BY <1>1, <2>1, Zenon DEF Sifts
    <2> QED  BY <2>1, <2>2
  <1> HIDE DEF I, Kept
  <1>4. I = Nat
    <2>1. I \in SUBSET Nat
      BY DEF I
    <2> QED  BY <1>2, <1>3, <2>1, AllNaturals
  <1>5. Len(s) \in I /\ Len(s) <= Len(s)
    BY <1>4
  <1>6. Kept(g[Len(s)], Len(s))
    BY <1>5 DEF I
  <1> QED  BY <1>1, <1>6, Zenon DEF Kept

LEMMA PhrasesNext ==
  /\ Phrases[0] = None
  /\ \A n \in Nat : Phrases[n + 1] = Longer(Phrases[n], n + 1)
  <1> DEFINE F == Phrases
  <1>1. F = [n \in Nat |-> IF n = 0 THEN None ELSE Another(F[n - 1], n)]
    BY PhrasesIs, Zenon
  <1> HIDE DEF F
  <1>2. 0 \in Nat /\ F[0] = None
    <2>1. 0 \in Nat
      OBVIOUS
    <2> QED  BY <1>1, <2>1, Zenon
  <1>3. ASSUME NEW n \in Nat
        PROVE  F[n + 1] = Longer(F[n], n + 1)
    <2> SUFFICES ASSUME NEW j \in Nat, j = n + 1 PROVE F[j] = Longer(F[n], j)
      OBVIOUS
    <2>1. j # 0 /\ j - 1 = n
      OBVIOUS
    <2>2. F[j] = Another(F[n], j)
      BY <1>1, <2>1, Zenon
    <2> QED  BY <2>2, AfterIsLonger, Zenon
  <1> QED  BY <1>2, <1>3, Zenon DEF F

-----------------------------------------------------------------------------
(* Phrases by their length.                                                 *)

\* What p holds of every length up to n.
Filled(p, n) ==
  /\ IsSeq(p.elem) /\ Len(p.elem) = n
  /\ IsSeq(p.seq) /\ Len(p.seq) = n
  /\ IsSeq(p.alts) /\ Len(p.alts) = n
  /\ IsSeq(p.prod) /\ Len(p.prod) = n
  /\ IsSeq(p.source) /\ Len(p.source) = n

LEMMA LongerFields ==
  ASSUME NEW p, NEW n
  PROVE  LET r == Longer(p, n)
         IN /\ r.elem = Append(p.elem, Elems(p, n))
            /\ r.seq = Append(p.seq, Seqs(p, n, Elems(p, n)))
            /\ r.alts = Append(p.alts, Alternations(p, n, Seqs(p, n, Elems(p, n))))
            /\ r.prod = Append(p.prod, Productions(r.alts, n))
            /\ r.source = Append(p.source, InOrder(p, n, Productions(r.alts, n)))
  BY DEF Longer

LEMMA LongerFilled ==
  ASSUME NEW p, NEW n \in Nat, Filled(p, n)
  PROVE  LET r == Longer(p, n + 1)
         IN /\ Filled(r, n + 1)
            /\ \A k \in 1 .. n : /\ r.elem[k] = p.elem[k] /\ r.seq[k] = p.seq[k]
                                 /\ r.alts[k] = p.alts[k] /\ r.prod[k] = p.prod[k]
                                 /\ r.source[k] = p.source[k]
            /\ r.elem[n + 1] = Elems(p, n + 1)
            /\ r.seq[n + 1] = Seqs(p, n + 1, r.elem[n + 1])
            /\ r.alts[n + 1] = Alternations(p, n + 1, r.seq[n + 1])
            /\ r.prod[n + 1] = Productions(r.alts, n + 1)
            /\ r.source[n + 1] = InOrder(p, n + 1, r.prod[n + 1])
  <1> DEFINE r == Longer(p, n + 1)
             elems == Elems(p, n + 1)
             seqs == Seqs(p, n + 1, elems)
             alts == Alternations(p, n + 1, seqs)
             prods == Productions(r.alts, n + 1)
             sources == InOrder(p, n + 1, prods)
  <1>1. /\ r.elem = Append(p.elem, elems) /\ r.seq = Append(p.seq, seqs)
        /\ r.alts = Append(p.alts, alts) /\ r.prod = Append(p.prod, prods)
        /\ r.source = Append(p.source, sources)
    BY LongerFields, Zenon
  <1> HIDE DEF r, elems, seqs, alts, prods, sources
  <1>2. ASSUME NEW s, IsSeq(s), Len(s) = n, NEW x
        PROVE  /\ IsSeq(Append(s, x)) /\ Len(Append(s, x)) = n + 1 /\ Append(s, x)[n + 1] = x
               /\ \A k \in 1 .. n : Append(s, x)[k] = s[k]
    BY <1>2, AppendIsSeq
  <1>3. /\ IsSeq(r.elem) /\ Len(r.elem) = n + 1 /\ r.elem[n + 1] = elems
        /\ \A k \in 1 .. n : r.elem[k] = p.elem[k]
    BY <1>1, <1>2 DEF Filled
  <1>4. /\ IsSeq(r.seq) /\ Len(r.seq) = n + 1 /\ r.seq[n + 1] = seqs
        /\ \A k \in 1 .. n : r.seq[k] = p.seq[k]
    BY <1>1, <1>2 DEF Filled
  <1>5. /\ IsSeq(r.alts) /\ Len(r.alts) = n + 1 /\ r.alts[n + 1] = alts
        /\ \A k \in 1 .. n : r.alts[k] = p.alts[k]
    BY <1>1, <1>2 DEF Filled
  <1>6. /\ IsSeq(r.prod) /\ Len(r.prod) = n + 1 /\ r.prod[n + 1] = prods
        /\ \A k \in 1 .. n : r.prod[k] = p.prod[k]
    BY <1>1, <1>2 DEF Filled
  <1>7. /\ IsSeq(r.source) /\ Len(r.source) = n + 1 /\ r.source[n + 1] = sources
        /\ \A k \in 1 .. n : r.source[k] = p.source[k]
    BY <1>1, <1>2 DEF Filled
  <1>8. Filled(r, n + 1)
    BY <1>3, <1>4, <1>5, <1>6, <1>7 DEF Filled
  <1>9. /\ r.elem[n + 1] = Elems(p, n + 1)
        /\ r.seq[n + 1] = Seqs(p, n + 1, r.elem[n + 1])
        /\ r.alts[n + 1] = Alternations(p, n + 1, r.seq[n + 1])
        /\ r.prod[n + 1] = Productions(r.alts, n + 1)
        /\ r.source[n + 1] = InOrder(p, n + 1, r.prod[n + 1])
    BY <1>3, <1>4, <1>5, <1>6, <1>7, Zenon DEF elems, seqs, alts, prods, sources
  <1>10. Filled(r, n + 1) /\ \A k \in 1 .. n : /\ r.elem[k] = p.elem[k] /\ r.seq[k] = p.seq[k]
                                 /\ r.alts[k] = p.alts[k] /\ r.prod[k] = p.prod[k]
                                 /\ r.source[k] = p.source[k]
    BY <1>3, <1>4, <1>5, <1>6, <1>7, <1>8, Zenon
  <1> QED  BY <1>9, <1>10, Zenon DEF r

LEMMA PhrasesFilled ==
  ASSUME NEW n \in Nat
  PROVE  Filled(Phrases[n], n)
  <1> DEFINE I == {i \in Nat : Filled(Phrases[i], i)}
  <1>1. 0 \in I
    <2>1. Filled(None, 0)
      BY DEF Filled, None, IsSeq, Range
    <2>2. 0 \in Nat
      OBVIOUS
    <2> QED  BY <2>1, <2>2, PhrasesNext, Zenon
  <1>2. ASSUME NEW i \in I
        PROVE  i + 1 \in I
    <2>1. Filled(Longer(Phrases[i], i + 1), i + 1)
      BY LongerFilled
    <2>2. i \in Nat /\ i + 1 \in Nat
      OBVIOUS
    <2> QED  BY <2>1, <2>2, PhrasesNext, Zenon
  <1> HIDE DEF I
  <1>3. I = Nat
    <2>1. I \in SUBSET Nat
      BY DEF I
    <2> QED  BY <1>1, <1>2, <2>1, AllNaturals
  <1> QED  BY <1>3 DEF I

\* The phrases of n tokens, the productions and sources of n + 2.
ElemsAt(n) == Phrases[n].elem[n]
SequencesAt(n) == Phrases[n].seq[n]
AltsAt(n) == Phrases[n].alts[n]
ProdsAt(n) == Phrases[n].prod[n]
SourcesAt(n) == Phrases[n].source[n]

\* What has been built is kept.
LEMMA PhrasesKept ==
  ASSUME NEW n \in Nat, NEW k \in 1 .. n
  PROVE  /\ Phrases[n].elem[k] = ElemsAt(k) /\ Phrases[n].seq[k] = SequencesAt(k)
         /\ Phrases[n].alts[k] = AltsAt(k) /\ Phrases[n].prod[k] = ProdsAt(k)
         /\ Phrases[n].source[k] = SourcesAt(k)
  <1> DEFINE Same(i) == /\ Phrases[i].elem[k] = ElemsAt(k) /\ Phrases[i].seq[k] = SequencesAt(k)
                        /\ Phrases[i].alts[k] = AltsAt(k) /\ Phrases[i].prod[k] = ProdsAt(k)
                        /\ Phrases[i].source[k] = SourcesAt(k)
             I == {i \in Nat : k <= i => Same(i)}
  <1>0. Same(k)
    BY Zenon DEF ElemsAt, SequencesAt, AltsAt, ProdsAt, SourcesAt
  <1>1. ASSUME NEW i \in Nat, k <= i, Same(i)
        PROVE  Same(i + 1)
    <2> DEFINE p == Phrases[i]
               r == Longer(p, i + 1)
    <2>1. k \in 1 .. i
      BY <1>1
    <2>2. /\ r.elem[k] = p.elem[k] /\ r.seq[k] = p.seq[k]
          /\ r.alts[k] = p.alts[k] /\ r.prod[k] = p.prod[k]
          /\ r.source[k] = p.source[k]
      BY <2>1, PhrasesFilled, LongerFilled, Zenon
    <2>3. Phrases[i + 1] = r
      BY PhrasesNext, Zenon
    <2> QED  BY <1>1, <2>2, <2>3, Zenon
  <1> HIDE DEF Same
  <1>2. 0 \in I
    OBVIOUS
  <1>3. ASSUME NEW i \in I
        PROVE  i + 1 \in I
    BY <1>0, <1>1
  <1> HIDE DEF I
  <1>4. I = Nat
    <2>1. I \in SUBSET Nat
      BY DEF I
    <2> QED  BY <1>2, <1>3, <2>1, AllNaturals
  <1>5. Same(n)
    BY <1>4 DEF I
  <1> QED  BY <1>5, Zenon DEF Same

LEMMA PhrasesAre ==
  ASSUME NEW n \in Nat \ {0}
  PROVE  LET p == Phrases[n - 1]
         IN /\ ElemsAt(n) = Elems(p, n)
            /\ SequencesAt(n) = Seqs(p, n, ElemsAt(n))
            /\ AltsAt(n) = Alternations(p, n, SequencesAt(n))
            /\ ProdsAt(n) = Productions(Phrases[n].alts, n)
            /\ SourcesAt(n) = InOrder(p, n, ProdsAt(n))
  <1> SUFFICES ASSUME NEW m \in Nat, m + 1 = n, m = n - 1
               PROVE  LET p == Phrases[m]
                      IN /\ ElemsAt(n) = Elems(p, n)
                         /\ SequencesAt(n) = Seqs(p, n, ElemsAt(n))
                         /\ AltsAt(n) = Alternations(p, n, SequencesAt(n))
                         /\ ProdsAt(n) = Productions(Phrases[n].alts, n)
                         /\ SourcesAt(n) = InOrder(p, n, ProdsAt(n))
    OBVIOUS
  <1>1. Phrases[n] = Longer(Phrases[m], n)
    BY PhrasesNext
  <1>2. Filled(Phrases[m], m)
    BY PhrasesFilled
  <1> DEFINE r == Longer(Phrases[m], n)
  <1>3. /\ r.elem[n] = Elems(Phrases[m], n)
        /\ r.seq[n] = Seqs(Phrases[m], n, r.elem[n])
        /\ r.alts[n] = Alternations(Phrases[m], n, r.seq[n])
        /\ r.prod[n] = Productions(r.alts, n)
        /\ r.source[n] = InOrder(Phrases[m], n, r.prod[n])
    BY <1>2, LongerFilled
  <1> QED  BY <1>1, <1>3, Zenon DEF ElemsAt, SequencesAt, AltsAt, ProdsAt, SourcesAt

-----------------------------------------------------------------------------
(* The grammar's rules.                                                     *)

\* w is written in the notation, and x is its tree.
IsPhrase(w, x, of) == w \in Seq(Vocabulary) /\ w # <<>> /\ <<w, x>> \in of
IsElem(w, x) == IsPhrase(w, x, ElemsAt(Len(w)))
IsSequence(w, x) == IsPhrase(w, x, SequencesAt(Len(w)))
IsAlts(w, x) == IsPhrase(w, x, AltsAt(Len(w)))
IsProd(w, x) == Len(w) > 2 /\ IsPhrase(w, x, ProdsAt(Len(w) - 2))
IsSource(w, x) ==
  \/ w = <<>> /\ x = <<>>
  \/ Len(w) > 2 /\ IsPhrase(w, x, SourcesAt(Len(w) - 2))

LEMMA InChains ==
  ASSUME NEW f, NEW g, NEW n \in Int, NEW seps, NEW k \in 1 .. n,
         NEW u, NEW x, <<u, x>> \in f[k], NEW sep \in seps, Len(sep) \in Nat, k + Len(sep) < n,
         NEW v, NEW y, <<v, y>> \in g[n - k - Len(sep)]
  PROVE  <<u \o sep \o v, Append(x, y)>> \in Chains(f, g, n, seps)
  <1> DEFINE a == <<u, x>>
             b == <<v, y>>
             m == n - k - Len(sep)
  <1>1. Followed(a, sep, b) = <<u \o sep \o v, Append(x, y)>>
    BY DEF Followed
  <1>2. ~(k + Len(sep) >= n)
    OBVIOUS
  <1>3. Chain(f, g, n, k, sep) = {Followed(c, sep, d) : c \in f[k], d \in g[m]}
    BY <1>2, SMT DEF Chain
  <1>4. a \in f[k] /\ b \in g[m]
    OBVIOUS
  <1> HIDE DEF a, b, m
  <1>5. Followed(a, sep, b) \in Chain(f, g, n, k, sep)
    BY <1>3, <1>4
  <1>6. Chain(f, g, n, k, sep) \in {Chain(f, g, n, j, s) : j \in 1 .. n, s \in seps}
    OBVIOUS
  <1>7. Followed(a, sep, b) \in Chains(f, g, n, seps)
    BY <1>5, <1>6 DEF Chains
  <1> QED  BY <1>1, <1>7, Zenon

LEMMA MarkIs ==
  ASSUME NEW kind, NEW tkn \in Written({kind})
  PROVE  <<tkn>> \in Mark(kind) /\ tkn \in Vocabulary
  BY Zenon DEF Mark, Written

LEMMA MarkIsSeq ==
  ASSUME NEW kind
  PROVE  <<>> \in Seq(Vocabulary) /\ \A sep \in Mark(kind) : sep \in Seq(Vocabulary) /\ Len(sep) = 1
  <1> SUFFICES ASSUME NEW sep \in Mark(kind) PROVE sep \in Seq(Vocabulary) /\ Len(sep) = 1
    OBVIOUS
  <1>1. PICK tkn \in Written({kind}) : sep = <<tkn>>
    BY Zenon DEF Mark
  <1>2. tkn \in Vocabulary
    BY Zenon DEF Written
  <1> QED  BY <1>1, <1>2

\* A token on its own is an element.
LEMMA AtomIsElem ==
  ASSUME NEW tkn \in Written(AtomKinds)
  PROVE  IsElem(<<tkn>>, Leaf(tkn))
  <1>1. tkn \in Vocabulary
    BY DEF Written
  <1>2. <<tkn>> \in Seq(Vocabulary) /\ Len(<<tkn>>) = 1 /\ <<tkn>> # <<>> /\ 1 \in Nat \ {0}
    BY <1>1
  <1>3. <<<<tkn>>, Leaf(tkn)>> \in Atoms
    BY Zenon DEF Atoms, Atom
  <1>4. ElemsAt(1) = Elems(Phrases[1 - 1], 1)
    BY <1>2, PhrasesAre
  <1>5. <<<<tkn>>, Leaf(tkn)>> \in ElemsAt(1)
    BY <1>3, <1>4, Zenon DEF Elems
  <1> QED  BY <1>2, <1>5, Zenon DEF IsElem, IsPhrase

\* And so are alternatives between parentheses.
LEMMA GroupIsElem ==
  ASSUME NEW w, NEW x, IsAlts(w, x), NEW lp \in Written({"LP"}), NEW rp \in Written({"RP"})
  PROVE  IsElem(<<lp>> \o w \o <<rp>>, <<"group", x>>)
  <1> DEFINE v == <<lp>> \o w \o <<rp>>
             n == Len(v)
             y == <<"group", x>>
  <1>1. lp \in Vocabulary /\ rp \in Vocabulary /\ <<lp>> \in Mark("LP") /\ <<rp>> \in Mark("RP")
    BY MarkIs
  <1>2. w \in Seq(Vocabulary) /\ Len(w) \in Nat \ {0} /\ <<w, x>> \in AltsAt(Len(w))
    BY DEF IsAlts, IsPhrase
  <1>3. v \in Seq(Vocabulary) /\ Len(v) = Len(w) + 2
    BY <1>1, <1>2
  <1>4. n \in Nat \ {0} /\ ~(n < 3) /\ n - 2 = Len(w) /\ v # <<>> /\ n - 2 \in 1 .. n - 1 /\ n - 1 \in Nat
    BY <1>2, <1>3
  <1>5. Phrases[n - 1].alts[n - 2] = AltsAt(Len(w))
    BY <1>4, PhrasesKept
  <1>6. <<w, x>>[1] = w /\ <<w, x>>[2] = x
    OBVIOUS
  <1>7. <<v, y>> \in Parenthesised(AltsAt(Len(w)))
    <2> DEFINE a == <<w, x>>
               l == <<lp>>
               r == <<rp>>
               All == AltsAt(Len(w))
    <2>1. Grouped(l, a, r) = <<v, y>>
      BY <1>6, Zenon DEF Grouped
    <2>2. l \in Mark("LP") /\ r \in Mark("RP") /\ a \in All
      BY <1>1, <1>2, Zenon
    <2> HIDE DEF a, All, l, r
    <2>3. Grouped(l, a, r) \in Parenthesised(All)
      BY <2>2 DEF Parenthesised
    <2> QED  BY <2>1, <2>3, Zenon DEF All
  <1>8. ElemsAt(n) = Elems(Phrases[n - 1], n)
    BY <1>4, PhrasesAre
  <1> HIDE DEF n, v, y
  <1>9. <<v, y>> \in ElemsAt(n)
    BY <1>4, <1>5, <1>7, <1>8, Zenon DEF Elems
  <1>10. IsElem(v, y)
    BY <1>3, <1>4, <1>9, Zenon DEF IsElem, IsPhrase, n
  <1> QED  BY <1>10, Zenon DEF v, y

\* An element may be followed by a postfix operator.
LEMMA PostfixIsElem ==
  ASSUME NEW w, NEW x, IsElem(w, x), NEW op \in Written({"QM", "STAR", "PLUS"})
  PROVE  IsElem(Append(w, op), <<Operator(Kind(op)), x>>)
  <1> DEFINE v == Append(w, op)
             y == <<Operator(Kind(op)), x>>
             n == Len(v)
  <1>1. op \in Vocabulary
    BY DEF Written
  <1>2. w \in Seq(Vocabulary) /\ Len(w) \in Nat \ {0} /\ <<w, x>> \in ElemsAt(Len(w))
    BY DEF IsElem, IsPhrase
  <1>3. v \in Seq(Vocabulary) /\ Len(v) = Len(w) + 1
    BY <1>1, <1>2
  <1>4. n \in Nat \ {0} /\ ~(n < 2) /\ n - 1 = Len(w) /\ v # <<>> /\ n - 1 \in 1 .. n - 1 /\ n - 1 \in Nat
    BY <1>2, <1>3
  <1>5. Phrases[n - 1].elem[n - 1] = ElemsAt(Len(w))
    BY <1>4, PhrasesKept
  <1>6. <<w, x>>[1] = w /\ <<w, x>>[2] = x
    OBVIOUS
  <1>7. <<v, y>> \in Postfixed(ElemsAt(Len(w)))
    <2> DEFINE a == <<w, x>>
               All == ElemsAt(Len(w))
    <2>1. Repeated(a, op) = <<v, y>>
      BY <1>6, Zenon DEF Repeated
    <2>2. a \in All
      BY <1>2, Zenon
    <2> HIDE DEF a, All
    <2>3. Repeated(a, op) \in Postfixed(All)
      BY <2>2 DEF Postfixed
    <2> QED  BY <2>1, <2>3, Zenon DEF All
  <1>8. ElemsAt(n) = Elems(Phrases[n - 1], n)
    BY <1>4, PhrasesAre
  <1> HIDE DEF n, v, y
  <1>9. <<v, y>> \in ElemsAt(n)
    BY <1>4, <1>5, <1>7, <1>8, Zenon DEF Elems
  <1>10. IsElem(v, y)
    BY <1>3, <1>4, <1>9, Zenon DEF IsElem, IsPhrase, n
  <1> QED  BY <1>10, Zenon DEF v, y

\* An element is a sequence.
LEMMA ElemIsSequence ==
  ASSUME NEW w, NEW x, IsElem(w, x)
  PROVE  IsSequence(w, <<x>>)
  <1>1. w \in Seq(Vocabulary) /\ w # <<>> /\ Len(w) \in Nat \ {0} /\ <<w, x>> \in ElemsAt(Len(w))
    BY DEF IsElem, IsPhrase
  <1>2. <<w, x>>[1] = w /\ <<w, x>>[2] = x
    OBVIOUS
  <1>3. <<w, <<x>> >> \in {Alone(a) : a \in ElemsAt(Len(w))}
    BY <1>1, <1>2, Zenon DEF Alone
  <1>4. SequencesAt(Len(w)) = Seqs(Phrases[Len(w) - 1], Len(w), ElemsAt(Len(w)))
    BY <1>1, PhrasesAre
  <1>5. <<w, <<x>> >> \in SequencesAt(Len(w))
    BY <1>3, <1>4, Zenon DEF Seqs
  <1> QED  BY <1>1, <1>5, Zenon DEF IsSequence, IsPhrase

\* Two phrases and what is between them, by their lengths.
LEMMA MarkedPhrases ==
  ASSUME NEW u, u \in Seq(Vocabulary), u # <<>>, NEW v, v \in Seq(Vocabulary), v # <<>>,
         NEW sep, sep \in Seq(Vocabulary)
  PROVE  LET w == u \o sep \o v
             n == Len(w)
         IN /\ w \in Seq(Vocabulary) /\ w # <<>> /\ n \in Nat \ {0} /\ n - 1 \in Nat
            /\ Len(u) \in 1 .. n - 1 /\ Len(u) \in 1 .. n /\ Len(v) \in 1 .. n - 1
            /\ Len(sep) \in Nat /\ Len(u) + Len(sep) < n /\ n - Len(u) - Len(sep) = Len(v)
  <1> DEFINE w == u \o sep \o v
  <1>1. w \in Seq(Vocabulary) /\ Len(w) = Len(u) + Len(sep) + Len(v)
    OBVIOUS
  <1>2. Len(u) \in Nat \ {0} /\ Len(v) \in Nat \ {0} /\ Len(sep) \in Nat
    OBVIOUS
  <1> HIDE DEF w
  <1>3. w # <<>>
    BY <1>1, <1>2
  <1>4. LET n == Len(w)
        IN /\ w \in Seq(Vocabulary) /\ w # <<>> /\ n \in Nat \ {0} /\ n - 1 \in Nat
           /\ Len(u) \in 1 .. n - 1 /\ Len(u) \in 1 .. n /\ Len(v) \in 1 .. n - 1
           /\ Len(sep) \in Nat /\ Len(u) + Len(sep) < n /\ n - Len(u) - Len(sep) = Len(v)
    BY <1>1, <1>2, <1>3
  <1> QED  BY <1>4 DEF w

\* A sequence goes on with an element, after a comma or not.
LEMMA SequenceGrows ==
  ASSUME NEW u, NEW x, IsSequence(u, x), NEW v, NEW y, IsElem(v, y),
         NEW sep, sep = <<>> \/ sep \in Mark("CA")
  PROVE  IsSequence(u \o sep \o v, Append(x, y))
  <1> DEFINE w == u \o sep \o v
             n == Len(w)
             p == Phrases[n - 1]
             seps == {<<>>} \cup Mark("CA")
  <1>1. /\ u \in Seq(Vocabulary) /\ u # <<>> /\ <<u, x>> \in SequencesAt(Len(u))
        /\ v \in Seq(Vocabulary) /\ v # <<>> /\ <<v, y>> \in ElemsAt(Len(v))
    BY DEF IsSequence, IsElem, IsPhrase
  <1>2. sep \in Seq(Vocabulary) /\ sep \in seps
    BY MarkIsSeq, Zenon
  <1>3. /\ w \in Seq(Vocabulary) /\ w # <<>> /\ n \in Nat \ {0} /\ n - 1 \in Nat
        /\ Len(u) \in 1 .. n - 1 /\ Len(u) \in 1 .. n /\ Len(v) \in 1 .. n - 1
        /\ Len(sep) \in Nat /\ Len(u) + Len(sep) < n /\ n - Len(u) - Len(sep) = Len(v)
    BY <1>1, <1>2, MarkedPhrases, ZenonT(30)
  <1> HIDE DEF w, n
  <1>4. <<u, x>> \in p.seq[Len(u)] /\ <<v, y>> \in p.elem[Len(v)]
    BY <1>1, <1>3, PhrasesKept
  <1> HIDE DEF p, seps
  <1>5. <<u \o sep \o v, Append(x, y)>> \in Chains(p.seq, p.elem, n, seps)
    <2> DEFINE f == p.seq
               g == p.elem
    <2>1. n \in Int /\ <<v, y>> \in g[n - Len(u) - Len(sep)]
      BY <1>3, <1>4
    <2> HIDE DEF f, g
    <2> QED  BY <1>2, <1>3, <1>4, <2>1, InChains, Zenon DEF f
  <1>6. SequencesAt(n) = Seqs(p, n, ElemsAt(n))
    BY <1>3, PhrasesAre DEF p
  <1>7. <<w, Append(x, y)>> \in SequencesAt(n)
    BY <1>5, <1>6, Zenon DEF Seqs, w, seps
  <1>8. IsSequence(w, Append(x, y))
    BY <1>3, <1>7, Zenon DEF IsSequence, IsPhrase, n
  <1> QED  BY <1>8, Zenon DEF w

\* A sequence is an alternation.
LEMMA SequenceIsAlts ==
  ASSUME NEW w, NEW x, IsSequence(w, x)
  PROVE  IsAlts(w, <<x>>)
  <1>1. w \in Seq(Vocabulary) /\ w # <<>> /\ Len(w) \in Nat \ {0} /\ <<w, x>> \in SequencesAt(Len(w))
    BY DEF IsSequence, IsPhrase
  <1>2. <<w, x>>[1] = w /\ <<w, x>>[2] = x
    OBVIOUS
  <1>3. <<w, <<x>> >> \in {Alone(a) : a \in SequencesAt(Len(w))}
    BY <1>1, <1>2, Zenon DEF Alone
  <1>4. AltsAt(Len(w)) = Alternations(Phrases[Len(w) - 1], Len(w), SequencesAt(Len(w)))
    BY <1>1, PhrasesAre
  <1>5. <<w, <<x>> >> \in AltsAt(Len(w))
    BY <1>3, <1>4, Zenon DEF Alternations
  <1> QED  BY <1>1, <1>5, Zenon DEF IsAlts, IsPhrase

\* An alternation goes on with a bar and a sequence.
LEMMA AltsGrow ==
  ASSUME NEW u, NEW x, IsAlts(u, x), NEW v, NEW y, IsSequence(v, y), NEW bar \in Written({"ALT"})
  PROVE  IsAlts(u \o <<bar>> \o v, Append(x, y))
  <1> DEFINE sep == <<bar>>
             w == u \o sep \o v
             n == Len(w)
             p == Phrases[n - 1]
             seps == Mark("ALT")
  <1>1. /\ u \in Seq(Vocabulary) /\ u # <<>> /\ <<u, x>> \in AltsAt(Len(u))
        /\ v \in Seq(Vocabulary) /\ v # <<>> /\ <<v, y>> \in SequencesAt(Len(v))
    BY DEF IsAlts, IsSequence, IsPhrase
  <1>2. sep \in Seq(Vocabulary) /\ sep \in seps
    BY MarkIs, MarkIsSeq, Zenon
  <1> HIDE DEF sep
  <1>3. /\ w \in Seq(Vocabulary) /\ w # <<>> /\ n \in Nat \ {0} /\ n - 1 \in Nat
        /\ Len(u) \in 1 .. n - 1 /\ Len(u) \in 1 .. n /\ Len(v) \in 1 .. n - 1
        /\ Len(sep) \in Nat /\ Len(u) + Len(sep) < n /\ n - Len(u) - Len(sep) = Len(v)
    BY <1>1, <1>2, MarkedPhrases, ZenonT(30)
  <1> HIDE DEF w, n
  <1>4. <<u, x>> \in p.alts[Len(u)] /\ <<v, y>> \in p.seq[Len(v)]
    BY <1>1, <1>3, PhrasesKept
  <1> HIDE DEF p, seps
  <1>5. <<u \o sep \o v, Append(x, y)>> \in Chains(p.alts, p.seq, n, seps)
    <2> DEFINE f == p.alts
               g == p.seq
    <2>1. n \in Int /\ <<v, y>> \in g[n - Len(u) - Len(sep)]
      BY <1>3, <1>4
    <2> HIDE DEF f, g
    <2> QED  BY <1>2, <1>3, <1>4, <2>1, InChains, Zenon DEF f
  <1>6. AltsAt(n) = Alternations(p, n, SequencesAt(n))
    BY <1>3, PhrasesAre DEF p
  <1>7. <<w, Append(x, y)>> \in AltsAt(n)
    BY <1>5, <1>6, Zenon DEF Alternations, w, seps
  <1>8. IsAlts(w, Append(x, y))
    BY <1>3, <1>7, Zenon DEF IsAlts, IsPhrase, n
  <1> QED  BY <1>8, Zenon DEF w, sep

\* A name, its operator and an alternation are a production, with a ";" or without.
LEMMA AltsIsProd ==
  ASSUME NEW w, NEW x, IsAlts(w, x), NEW name \in Written({"TX"}), NEW def \in Written({"DEF", "DEFE"}),
         NEW end, end = <<>> \/ end \in Mark("SC")
  PROVE  IsProd(<<name, def>> \o w \o end, [name |-> Text(name), alts |-> x])
  <1> DEFINE v == <<name, def>> \o w \o end
             y == [name |-> Text(name), alts |-> x]
             n == Len(v) - 2
  <1>1. w \in Seq(Vocabulary) /\ Len(w) \in Nat \ {0} /\ <<w, x>> \in AltsAt(Len(w))
    BY DEF IsAlts, IsPhrase
  <1>2. name \in Vocabulary /\ def \in Vocabulary
    BY DEF Written
  <1>3. end \in Seq(Vocabulary) /\ Len(end) \in Nat
    <2>1. end \in Seq(Vocabulary)
      BY MarkIsSeq, Zenon
    <2> QED  BY <2>1
  <1>4. v \in Seq(Vocabulary) /\ Len(v) = 2 + Len(w) + Len(end)
    BY <1>1, <1>2, <1>3
  <1>5. /\ Len(v) > 2 /\ v # <<>> /\ n \in Nat \ {0} /\ n - Len(end) = Len(w)
        /\ n - Len(end) \in 1 .. n /\ n \in Nat /\ Len(end) < n
    BY <1>1, <1>3, <1>4
  <1>6. Phrases[n].alts[n - Len(end)] = AltsAt(Len(w))
    BY <1>5, PhrasesKept
  <1>7. <<w, x>>[1] = w /\ <<w, x>>[2] = x
    OBVIOUS
  <1>8. end \in Terminators(n)
    BY <1>5 DEF Terminators
  <1> HIDE DEF n
  <1>9. <<v, y>> \in Productions(Phrases[n].alts, n)
    <2> DEFINE a == <<w, x>>
               All == Phrases[n].alts[n - Len(end)]
               Some(e) == {Production(m, d, z, e) : m \in Written({"TX"}), d \in Written({"DEF", "DEFE"}),
                                                    z \in Phrases[n].alts[n - Len(e)]}
    <2>1. Production(name, def, a, end) = <<v, y>>
      BY <1>7, Zenon DEF Production
    <2>2. a \in All
      BY <1>1, <1>6, Zenon
    <2> HIDE DEF a
    <2>3. Production(name, def, a, end) \in Some(end)
      <3> HIDE DEF All
      <3>1. Some(end) = {Production(m, d, z, end) : m \in Written({"TX"}), d \in Written({"DEF", "DEFE"}), z \in All}
        BY DEF All
      <3> HIDE DEF Some
      <3> QED  BY <2>2, <3>1
    <2>4. Some(end) \in {Some(e) : e \in Terminators(n)}
      <3> HIDE DEF Some
      <3> QED  BY <1>8
    <2>5. Productions(Phrases[n].alts, n) = UNION {Some(e) : e \in Terminators(n)}
      BY DEF Productions
    <2> HIDE DEF Some
    <2>6. Production(name, def, a, end) \in Productions(Phrases[n].alts, n)
      BY <2>3, <2>4, <2>5, Zenon
    <2> QED  BY <2>1, <2>6, Zenon
  <1>10. ProdsAt(n) = Productions(Phrases[n].alts, n)
    BY <1>5, PhrasesAre
  <1> HIDE DEF v, y
  <1>11. IsProd(v, y)
    BY <1>4, <1>5, <1>9, <1>10, Zenon DEF IsProd, IsPhrase, n
  <1> QED  BY <1>11, Zenon DEF v, y

\* Nothing is a source, and a source goes on with a production.
LEMMA SourceGrows ==
  ASSUME NEW u, NEW x, IsSource(u, x), NEW v, NEW y, IsProd(v, y)
  PROVE  IsSource(u \o v, Append(x, y))
  <1>1. v \in Seq(Vocabulary) /\ v # <<>> /\ <<v, y>> \in ProdsAt(Len(v) - 2) /\ Len(v) \in Nat /\ Len(v) > 2
    BY DEF IsProd, IsPhrase
  <1>2. Len(v) - 2 \in Nat \ {0}
    <2>1. Len(v) \in Nat /\ Len(v) > 2
      BY <1>1
    <2>2. \A n \in Nat : n > 2 => n - 2 \in Nat \ {0}
      OBVIOUS
    <2> QED  BY <2>1, <2>2, Zenon
  <1>3. CASE u = <<>> /\ x = <<>>
    <2>1. u \o v = v /\ Append(x, y) = <<y>>
      BY <1>1, <1>3, ConcatEmptySeq
    <2>2. <<v, y>>[1] = v /\ <<v, y>>[2] = y
      OBVIOUS
    <2>3. <<v, <<y>> >> \in {Alone(a) : a \in ProdsAt(Len(v) - 2)}
      BY <1>1, <2>2, Zenon DEF Alone
    <2>4. SourcesAt(Len(v) - 2) = InOrder(Phrases[Len(v) - 2 - 1], Len(v) - 2, ProdsAt(Len(v) - 2))
      BY <1>2, PhrasesAre
    <2>5. <<v, <<y>> >> \in SourcesAt(Len(v) - 2)
      BY <2>3, <2>4, Zenon DEF InOrder
    <2>6. IsSource(v, <<y>>)
      BY <1>1, <2>5, Zenon DEF IsSource, IsPhrase
    <2> QED  BY <2>1, <2>6, Zenon
  <1>4. CASE Len(u) > 2 /\ IsPhrase(u, x, SourcesAt(Len(u) - 2))
    <2> DEFINE w == u \o v
               n == Len(w) - 2
               p == Phrases[n - 1]
               k == Len(u) - 2
               m == Len(v) - 2
    <2>1. u \in Seq(Vocabulary) /\ u # <<>> /\ <<u, x>> \in SourcesAt(k) /\ Len(u) \in Nat
      BY <1>4 DEF IsPhrase
    <2>2. w \in Seq(Vocabulary) /\ Len(w) = Len(u) + Len(v) /\ w # <<>> /\ u \o <<>> \o v = w
      BY <1>1, <2>1
    <2>3. /\ n \in Nat \ {0} /\ n - 1 \in Nat /\ k \in 1 .. n - 1 /\ m \in 1 .. n - 1 /\ Len(w) > 2
          /\ Len(<<>>) = 0 /\ n - 2 - k - Len(<<>>) = m /\ k \in 1 .. n - 2 /\ n - 2 \in Int
          /\ Len(<<>>) \in Nat /\ k + Len(<<>>) < n - 2
      BY <1>1, <1>4, <2>1, <2>2
    <2> HIDE DEF n, k, m
    <2>4. <<u, x>> \in p.source[k] /\ <<v, y>> \in p.prod[m]
      BY <1>1, <2>1, <2>3, PhrasesKept DEF m
    <2> HIDE DEF p, w
    <2>5. <<u \o <<>> \o v, Append(x, y)>> \in Chains(p.source, p.prod, n - 2, {<<>>})
      <3> DEFINE f == p.source
                 g == p.prod
                 e == <<>>
      <3>1. <<v, y>> \in g[n - 2 - k - Len(e)] /\ e \in {e}
        BY <2>3, <2>4
      <3>2. Len(e) \in Nat /\ k + Len(e) < n - 2
        BY <2>3
      <3> HIDE DEF f, g, e
      <3>3. <<u \o e \o v, Append(x, y)>> \in Chains(f, g, n - 2, {e})
        BY <2>3, <2>4, <3>1, <3>2, InChains, Zenon DEF f
      <3> QED  BY <3>3, Zenon DEF f, g, e
    <2>6. SourcesAt(n) = InOrder(p, n, ProdsAt(n))
      BY <2>3, PhrasesAre DEF p
    <2>7. <<w, Append(x, y)>> \in SourcesAt(n)
      BY <2>2, <2>5, <2>6, Zenon DEF InOrder
    <2>8. IsSource(w, Append(x, y))
      BY <2>2, <2>3, <2>7, Zenon DEF IsSource, IsPhrase, n
    <2> QED  BY <2>8, Zenon DEF w
  <1> QED  BY <1>3, <1>4, Zenon DEF IsSource

\* What the rules make is in the set of sources of its length, or of any longer.
LEMMA SourceIsDocumented ==
  ASSUME NEW w, NEW x, IsSource(w, x), NEW max \in Nat, Len(w) <= max
  PROVE  <<w, x>> \in Sources(max)
  <1>1. CASE w = <<>> /\ x = <<>>
    BY <1>1 DEF Sources
  <1>2. CASE Len(w) > 2 /\ IsPhrase(w, x, SourcesAt(Len(w) - 2))
    <2> DEFINE k == Len(w) - 2
               n == max - 2
    <2>1. Len(w) \in Nat /\ <<w, x>> \in SourcesAt(k)
      BY <1>2 DEF IsPhrase
    <2>2. ~(max < 3) /\ n \in Nat /\ k \in 1 .. n
      BY <1>2, <2>1
    <2> HIDE DEF k
    <2>3. <<w, x>> \in Phrases[n].source[k]
      BY <2>1, <2>2, PhrasesKept
    <2>4. k \in DOMAIN Phrases[n].source
      <3>1. Filled(Phrases[n], n)
        BY <2>2, PhrasesFilled, Zenon
      <3> HIDE DEF n
      <3> QED  BY <2>2, <3>1 DEF Filled, IsSeq
    <2>5. <<w, x>> \in UNION Range(Phrases[n].source)
      <3> DEFINE s == Phrases[n].source
      <3>1. s[k] \in Range(s)
        <4> HIDE DEF s
        <4>1. k \in DOMAIN s
          BY <2>4, Zenon DEF s
        <4> QED  BY <4>1, Zenon DEF Range
      <3> QED  BY <2>3, <3>1, Zenon
    <2> QED  BY <2>2, <2>5, Zenon DEF Sources
  <1> QED  BY <1>1, <1>2, Zenon DEF IsSource

-----------------------------------------------------------------------------
(* The same rules for the readers, which tell a word from a word only by    *)
(* how it is put together: strings of tokens, and one after another, in     *)
(* definitions that the proofs about readers leave closed.                  *)

Words == Seq(Vocabulary)
Cat(v, w) == v \o w

LEMMA CatLaws ==
  /\ \A a, b \in Words : Cat(a, b) \in Words
  /\ \A a, b, c \in Words : Cat(Cat(a, b), c) = Cat(a, Cat(b, c))
  /\ \A a \in Words : Cat(a, <<>>) = a /\ Cat(<<>>, a) = a
  /\ <<>> \in Words
  BY DEF Words, Cat

LEMMA CatFour ==
  ASSUME NEW a \in Words, NEW b \in Words, NEW c \in Words, NEW d \in Words
  PROVE  Cat(Cat(Cat(a, b), c), d) = Cat(a, Cat(b, Cat(c, d)))
  <1>1. Cat(a, b) \in Words /\ Cat(c, d) \in Words
    BY CatLaws
  <1>2. Cat(Cat(Cat(a, b), c), d) = Cat(Cat(a, b), Cat(c, d))
    BY <1>1, CatLaws
  <1>3. Cat(Cat(a, b), Cat(c, d)) = Cat(a, Cat(b, Cat(c, d)))
    BY <1>1, CatLaws
  <1> QED  BY <1>2, <1>3

LEMMA TokenIsWord ==
  ASSUME NEW tkn \in Vocabulary
  PROVE  <<tkn>> \in Words /\ \A w \in Words : Append(w, tkn) = Cat(w, <<tkn>>)
  BY DEF Words, Cat

LEMMA WrittenIsWord ==
  ASSUME NEW kinds
  PROVE  \A tkn \in Written(kinds) : tkn \in Vocabulary /\ Kind(tkn) \in kinds /\ <<tkn>> \in Words
  BY TokenIsWord DEF Written

LEMMA PhraseIsWord ==
  ASSUME NEW w, NEW x, IsElem(w, x) \/ IsSequence(w, x) \/ IsAlts(w, x) \/ IsSource(w, x)
  PROVE  w \in Words
  BY CatLaws, Zenon DEF IsElem, IsSequence, IsAlts, IsSource, IsPhrase, Words

LEMMA ElemRules ==
  /\ \A tkn \in Written(AtomKinds) : IsElem(<<tkn>>, Leaf(tkn))
  /\ \A lp \in Written({"LP"}), rp \in Written({"RP"}) : \A w, x :
       IsAlts(w, x) => IsElem(Cat(Cat(<<lp>>, w), <<rp>>), <<"group", x>>)
  /\ \A op \in Written({"QM", "STAR", "PLUS"}) : \A w, x :
       IsElem(w, x) => IsElem(Cat(w, <<op>>), <<Operator(Kind(op)), x>>)
  <1>1. \A tkn \in Written(AtomKinds) : IsElem(<<tkn>>, Leaf(tkn))
    BY AtomIsElem, Zenon
  <1>2. ASSUME NEW lp \in Written({"LP"}), NEW rp \in Written({"RP"}), NEW w, NEW x, IsAlts(w, x)
        PROVE  IsElem(Cat(Cat(<<lp>>, w), <<rp>>), <<"group", x>>)
    <2>1. IsElem(<<lp>> \o w \o <<rp>>, <<"group", x>>)
      BY <1>2, GroupIsElem, Zenon
    <2> QED  BY <2>1, Zenon DEF Cat
  <1>3. ASSUME NEW op \in Written({"QM", "STAR", "PLUS"}), NEW w, NEW x, IsElem(w, x)
        PROVE  IsElem(Cat(w, <<op>>), <<Operator(Kind(op)), x>>)
    <2>1. op \in Vocabulary /\ w \in Words
      BY <1>3, PhraseIsWord, WrittenIsWord, Zenon
    <2>2. Append(w, op) = Cat(w, <<op>>)
      BY <2>1, TokenIsWord, Zenon
    <2>3. IsElem(Append(w, op), <<Operator(Kind(op)), x>>)
      BY <1>3, PostfixIsElem, Zenon
    <2> QED  BY <2>2, <2>3, Zenon
  <1> QED  BY <1>1, <1>2, <1>3, Zenon

LEMMA SequenceRules ==
  /\ \A w, x : IsElem(w, x) => IsSequence(w, <<x>>)
  /\ \A sep \in {<<>>} \cup Mark("CA") : \A u, x, v, y :
       IsSequence(u, x) /\ IsElem(v, y) => IsSequence(Cat(Cat(u, sep), v), Append(x, y))
  <1>1. ASSUME NEW sep \in {<<>>} \cup Mark("CA"), NEW u, NEW x, NEW v, NEW y, IsSequence(u, x), IsElem(v, y)
        PROVE  IsSequence(Cat(Cat(u, sep), v), Append(x, y))
    <2>1. IsSequence(u \o sep \o v, Append(x, y))
      BY <1>1, SequenceGrows, Zenon
    <2> QED  BY <2>1, Zenon DEF Cat
  <1> QED  BY <1>1, ElemIsSequence, Zenon

LEMMA AltsRules ==
  /\ \A w, x : IsSequence(w, x) => IsAlts(w, <<x>>)
  /\ \A bar \in Written({"ALT"}) : \A u, x, v, y :
       IsAlts(u, x) /\ IsSequence(v, y) => IsAlts(Cat(Cat(u, <<bar>>), v), Append(x, y))
  <1>1. ASSUME NEW bar \in Written({"ALT"}), NEW u, NEW x, NEW v, NEW y, IsAlts(u, x), IsSequence(v, y)
        PROVE  IsAlts(Cat(Cat(u, <<bar>>), v), Append(x, y))
    <2>1. IsAlts(u \o <<bar>> \o v, Append(x, y))
      BY <1>1, AltsGrow, Zenon
    <2> QED  BY <2>1, Zenon DEF Cat
  <1> QED  BY <1>1, SequenceIsAlts, Zenon

LEMMA SourceRules ==
  /\ IsSource(<<>>, <<>>)
  /\ \A name \in Written({"TX"}), def \in Written({"DEF", "DEFE"}), end \in {<<>>} \cup Mark("SC") : \A u, x, w, y :
       IsSource(u, x) /\ IsAlts(w, y) =>
         IsSource(Cat(u, Cat(Cat(<<name, def>>, w), end)), Append(x, [name |-> Text(name), alts |-> y]))
  <1>1. ASSUME NEW name \in Written({"TX"}), NEW def \in Written({"DEF", "DEFE"}), NEW end \in {<<>>} \cup Mark("SC"),
               NEW u, NEW x, NEW w, NEW y, IsSource(u, x), IsAlts(w, y)
        PROVE  IsSource(Cat(u, Cat(Cat(<<name, def>>, w), end)), Append(x, [name |-> Text(name), alts |-> y]))
    <2>1. IsProd(<<name, def>> \o w \o end, [name |-> Text(name), alts |-> y])
      BY <1>1, AltsIsProd, Zenon
    <2>2. IsProd(Cat(Cat(<<name, def>>, w), end), [name |-> Text(name), alts |-> y])
      BY <2>1, Zenon DEF Cat
    <2> QED  BY <1>1, <2>2, SourceGrows, Zenon DEF Cat
  <1>2. IsSource(<<>>, <<>>)
    BY Zenon DEF IsSource
  <1> QED  BY <1>1, <1>2, Zenon

==============================================================================
