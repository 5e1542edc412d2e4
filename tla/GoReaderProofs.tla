---------------------------- MODULE GoReaderProofs ----------------------------
(***************************************************************************)
(* The recursive descent of GoReader keeps its calls in order, names what  *)
(* it refuses, moves on, and reads the documented notation and nothing     *)
(* else, whatever the source and however long.  Every function decides for *)
(* itself where it skips space, so the invariant says what each knows of   *)
(* the lexemes around the scanner, spaces included; for the last of these, *)
(* also what each call has read of the source, its spaces dropped, and     *)
(* what it has made of that.                                               *)
(***************************************************************************)
EXTENDS GoReader, NotationProofs, FiniteSetTheorems

-----------------------------------------------------------------------------
(* The invariant.                                                           *)

Functions == {"ebnf", "alts", "seq", "elem", "atom"}
Height == Len(stack)

IsCall(f) ==
  /\ f = [fn |-> f.fn, val |-> f.val, got |-> f.got, local |-> f.local]
  /\ f.fn \in Functions /\ IsSeq(f.val)
  /\ f.got = <<>> \/ f.got = <<f.got[1]>>

\* Who calls whom; what a call is like while it waits, and while it runs.
Callers == [ebnf |-> {}, alts |-> {"ebnf", "atom"}, seq |-> {"alts"}, elem |-> {"seq"}, atom |-> {"elem"}]
Waits(f, fn) ==
  /\ f.fn \in Callers[fn] /\ f.got = <<>>
  /\ f.fn = "atom" => f.local = "group"
  /\ f.fn = "seq" => f.local # "comma"
Ready(f) == f.fn = "atom" => (f.local = "group" <=> f.got # <<>>)

Shape ==
  /\ IsSeq(stack) /\ stack # <<>> /\ \A i \in 1 .. Height : IsCall(stack[i])
  /\ stack[1].fn = "ebnf"
  /\ \A i \in 1 .. Height - 1 : Waits(stack[i], stack[i + 1].fn)
  /\ Ready(stack[Height])

TypeOK ==
  /\ src \in Seq(Vocabulary \cup {SP, EndOfSource})
  /\ pos \in 0 .. Len(src)
  /\ \A i \in 1 .. Len(src) : src[i] = EndOfSource => i = Len(src) /\ pos < i

\* What ends a sequence, at p: a mark, or the head of a production.
Marks == {"ZZ", "ALT", "RP", "SC"}
Heads(p) ==
  LET op == IF src[p + 2] = SP THEN p + 3 ELSE p + 2
  IN Kind(src[p + 1]) \in NameKinds /\ op <= Len(src) /\ Kind(src[op]) \in {"DEF", "DEFE"}
EndsAt(p) == p < Len(src) /\ (Kind(src[p + 1]) \in Marks \/ Heads(p))
NextIs(p, kinds) == p < Len(src) /\ Kind(src[p + 1]) \in kinds

\* An expression is due right here; a comma has been read; an element is due, or what
\* comes cannot be taken for its operator.
Opened == pos > 0 /\ Kind(src[pos]) \in {"DEF", "DEFE", "ALT", "LP"}
AfterComma == pos > 0 /\ Kind(src[pos]) = "CA"
NoPostfix == pos < Len(src) /\ Kind(src[pos + 1]) \notin Postfix
Due == AtStart \/ Before = "CA" \/ (pos > 0 /\ src[pos] = SP) \/ NoPostfix

\* What a running call knows of the lexemes around it.
Knows(fn, val, got, local) ==
  /\ fn = "ebnf" /\ got = <<>> => \/ pos = 0 \/ Kind(src[pos]) = "SC"
                                  \/ EndsAt(skipSpace) /\ ~NextIs(skipSpace, {"ALT", "SC"})
  /\ fn = "ebnf" /\ got # <<>> => EndsAt(skipSpace) /\ ~NextIs(skipSpace, {"ALT"})
  /\ fn = "alts" /\ got = <<>> => Opened
  /\ fn = "alts" /\ got # <<>> => EndsAt(skipSpace)
  /\ fn = "seq" => Opened \/ AfterComma \/ NoPostfix
  /\ fn = "seq" /\ val = <<>> /\ got = <<>> => Opened
  /\ fn = "seq" /\ local = "comma" => AfterComma
  /\ fn = "elem" /\ got = <<>> => Due
  /\ fn = "atom" /\ local # "group" => Due
  /\ fn = "atom" /\ local = "group" => EndsAt(skipSpace) /\ ~NextIs(skipSpace, {"ALT"})

\* The groups that are open are the parentheses not closed.
IsGroup(f) == f.fn = "atom" /\ f.local = "group"
OpenGroups == {i \in 1 .. Height : IsGroup(stack[i])}
Balanced == Passed("LP") = Passed("RP") + Cardinality(OpenGroups)

Inv ==
  /\ TypeOK /\ NamesTheMistake
  /\ status = "reading" => Shape /\ Knows(Top.fn, Top.val, Top.got, Top.local) /\ Balanced

-----------------------------------------------------------------------------
(* What is in sight.                                                        *)

LEMMA Suffix ==
  ASSUME NEW S, NEW s \in Seq(S), NEW p \in 0 .. Len(s)
  PROVE  /\ Len(SubSeq(s, p + 1, Len(s))) = Len(s) - p
         /\ \A i \in 1 .. Len(s) - p : SubSeq(s, p + 1, Len(s))[i] = s[p + i]
         /\ SubSeq(s, p + 1, Len(s)) # <<>> <=> p < Len(s)
  <1> DEFINE t == SubSeq(s, p + 1, Len(s))
  <1>1. Len(s) \in Nat /\ p \in Nat /\ p <= Len(s) /\ Len(s) - p \in Nat
    OBVIOUS
  <1>2. t \in Seq(S) /\ Len(t) = Len(s) - p /\ \A i \in 1 .. Len(s) - p : t[i] = s[p + i]
    BY <1>1
  <1>3. t # <<>> <=> Len(t) # 0
    BY <1>2
  <1> QED  BY <1>1, <1>2, <1>3

LEMMA Skipping ==
  ASSUME NEW S, NEW s \in Seq(S), NEW p \in 0 .. Len(s), NEW a, a = SubSeq(s, p + 1, Len(s))
  PROVE  (IF a # <<>> /\ a[1] = SP THEN p + 1 ELSE p) = IF p < Len(s) /\ s[p + 1] = SP THEN p + 1 ELSE p
  <1>1. (a # <<>> <=> p < Len(s)) /\ (p < Len(s) => a[1] = s[p + 1])
    BY Suffix
  <1> QED  BY <1>1

LEMMA Sight ==
  ASSUME TypeOK
  PROVE  /\ Len(src) \in Nat /\ pos \in Nat /\ pos <= Len(src)
         /\ Len(Ahead) = Len(src) - pos /\ \A i \in 1 .. Len(src) - pos : Ahead[i] = src[pos + i]
         /\ Ahead # <<>> <=> pos < Len(src)
         /\ skipSpace = IF pos < Len(src) /\ src[pos + 1] = SP THEN pos + 1 ELSE pos
         /\ skipSpace \in pos .. Len(src) /\ skipSpace \in Nat
         /\ Len(Rest) = Len(src) - skipSpace /\ \A i \in 1 .. Len(src) - skipSpace : Rest[i] = src[skipSpace + i]
         /\ Rest # <<>> <=> skipSpace < Len(src)
  <1>1. /\ Len(src) \in Nat /\ pos \in Nat /\ pos <= Len(src) /\ pos \in 0 .. Len(src)
        /\ src \in Seq(Vocabulary \cup {SP, EndOfSource})
    BY DEF TypeOK
  <1>2. /\ Len(Ahead) = Len(src) - pos /\ \A i \in 1 .. Len(src) - pos : Ahead[i] = src[pos + i]
        /\ Ahead # <<>> <=> pos < Len(src)
    BY <1>1, Suffix DEF Ahead
  <1>3. skipSpace = IF pos < Len(src) /\ src[pos + 1] = SP THEN pos + 1 ELSE pos
    BY <1>1, <1>2 DEF skipSpace
  <1>4. skipSpace \in pos .. Len(src) /\ skipSpace \in Nat /\ skipSpace \in 0 .. Len(src)
    BY <1>1, <1>3
  <1>5. /\ Len(Rest) = Len(src) - skipSpace /\ \A i \in 1 .. Len(src) - skipSpace : Rest[i] = src[skipSpace + i]
        /\ Rest # <<>> <=> skipSpace < Len(src)
    BY <1>1, <1>4, Suffix DEF Rest
  <1> QED  BY <1>1, <1>2, <1>3, <1>4, <1>5

\* The lexemes and their kinds.
Kinds == FixedKinds \cup {"TX", "ST", "CC", "HX", "ZZ", "SP"}

LEMMA KindOf ==
  ASSUME NEW tkn \in Vocabulary \cup {SP, EndOfSource}
  PROVE  /\ Kind(tkn) \in Kinds
         /\ Kind(tkn) = "ZZ" <=> tkn = EndOfSource
         /\ Kind(tkn) = "SP" <=> tkn = SP
  <1>1. CASE tkn = SP
    BY <1>1 DEF Kind, Kinds, SP, EndOfSource
  <1>2. CASE tkn = EndOfSource
    BY <1>2 DEF Kind, Kinds, SP, EndOfSource
  <1>3. CASE tkn \in Lexeme
    <2>1. Kind(tkn) \in FixedKinds \cup {"TX", "ST", "CC", "HX"}
      BY <1>3 DEF Lexeme, Kind
    <2>2. Kind(tkn) # "ZZ" /\ Kind(tkn) # "SP"
      BY <2>1 DEF FixedKinds
    <2>3. Kind(SP) = "SP" /\ Kind(EndOfSource) = "ZZ"
      BY DEF Kind, SP, EndOfSource
    <2> QED  BY <2>1, <2>2, <2>3 DEF Kinds
  <1> QED  BY <1>1, <1>2, <1>3, VocabularyAssumption

\* The lexeme ahead of the space, if there is one.
LEMMA NextLexeme ==
  ASSUME TypeOK, Rest # <<>>
  PROVE  /\ skipSpace < Len(src) /\ Rest[1] = src[skipSpace + 1] /\ Offender = Kind(Rest[1])
         /\ Rest[1] \in Vocabulary \cup {SP, EndOfSource}
  <1>1. skipSpace < Len(src) /\ 1 \in 1 .. Len(src) - skipSpace /\ skipSpace + 1 \in 1 .. Len(src)
    BY Sight
  <1>2. Rest[1] = src[skipSpace + 1]
    BY <1>1, Sight
  <1> QED  BY <1>1, <1>2 DEF Offender, TypeOK

\* Where a sequence ends, the scanner does not move over space any more.
LEMMA NoSpaceAtEnd ==
  ASSUME TypeOK, EndsAt(skipSpace)
  PROVE  skipSpace < Len(src) /\ src[skipSpace + 1] # SP
  <1>1. Kind(src[skipSpace + 1]) # "SP"
    BY DEF EndsAt, Heads, Marks, NameKinds
  <1>2. Kind(SP) = "SP"
    BY DEF Kind, SP
  <1> QED  BY <1>1, <1>2 DEF EndsAt

LEMMA SkipNext ==
  ASSUME TypeOK'
  PROVE  skipSpace' = IF pos' < Len(src') /\ src'[pos' + 1] = SP THEN pos' + 1 ELSE pos'
  <1>1. src' \in Seq(Vocabulary \cup {SP, EndOfSource}) /\ pos' \in 0 .. Len(src')
    BY DEF TypeOK
  <1>2. Ahead' = SubSeq(src', pos' + 1, Len(src'))
    BY DEF Ahead
  <1>3. skipSpace' = IF Ahead' # <<>> /\ Ahead'[1] = SP THEN pos' + 1 ELSE pos'
    BY DEF skipSpace
  <1> HIDE DEF SP
  <1> QED  BY <1>1, <1>2, <1>3, Skipping

LEMMA StaysAtEnd ==
  ASSUME TypeOK, TypeOK', src' = src, pos' = skipSpace, EndsAt(skipSpace)
  PROVE  skipSpace' = skipSpace /\ EndsAt(skipSpace)' /\ \A kinds : NextIs(skipSpace, kinds)' <=> NextIs(skipSpace, kinds)
  <1>1. skipSpace' = skipSpace
    BY SkipNext, NoSpaceAtEnd
  <1> QED  BY <1>1 DEF EndsAt, Heads, NextIs

LEMMA Distinct == EndOfSource # SP /\ Kind(EndOfSource) = "ZZ" /\ Kind(SP) = "SP"
  BY DEF EndOfSource, SP, Kind

\* The end of the source is always in sight, so what runs sees enough.
LEMMA Sees ==
  ASSUME TypeOK, status = "reading", ~NeedsLexeme
  PROVE  /\ pos < Len(src)
         /\ Top.fn # "elem" => skipSpace < Len(src)
         /\ Top.fn \in {"ebnf", "seq"} /\ Kind(Rest[1]) \in NameKinds => Behind(Rest) <= Len(Rest)
  <1>1. CASE InSight
    <2>1. CASE Top.fn = "elem"
      <3>1. Ahead # <<>>
        BY <1>1, <2>1, Zenon DEF InSight
      <3> QED  BY <2>1, <3>1, Sight
    <2>2. CASE Top.fn = "ebnf"
      <3>1. Rest # <<>> /\ (Kind(Rest[1]) \in NameKinds => Len(Rest) >= Behind(Rest))
        BY <1>1, <2>2, Zenon DEF InSight
      <3>2. Len(Rest) \in Int /\ Behind(Rest) \in Int
        BY Sight DEF Behind
      <3> QED  BY <2>2, <3>1, <3>2, Sight
    <2>3. CASE Top.fn = "seq"
      <3>1. Rest # <<>> /\ (Kind(Rest[1]) \in NameKinds => Len(Rest) >= Behind(Rest))
        BY <1>1, <2>3, Zenon DEF InSight
      <3>2. Len(Rest) \in Int /\ Behind(Rest) \in Int
        BY Sight DEF Behind
      <3> QED  BY <2>3, <3>1, <3>2, Sight
    <2>4. CASE Top.fn \notin {"elem", "ebnf", "seq"}
      <3>1. Rest # <<>>
        BY <1>1, <2>4, Zenon DEF InSight
      <3> QED  BY <2>4, <3>1, Sight
    <2> QED  BY <2>1, <2>2, <2>3, <2>4
  <1>2. CASE Ended
    <2>1. Len(src) \in Nat /\ Len(src) # 0 /\ src[Len(src)] = EndOfSource
      BY <1>2 DEF Ended, TypeOK, Last
    <2>2. pos < Len(src)
      BY <2>1 DEF TypeOK
    <2>3. skipSpace < Len(src)
      BY <2>1, <2>2, Sight, Distinct
    <2>4. /\ Rest[1] = src[skipSpace + 1] /\ Len(Rest) = Len(src) - skipSpace /\ skipSpace \in Nat
          /\ skipSpace + 2 <= Len(src) => Rest[2] = src[skipSpace + 2]
      BY <2>1, <2>3, Sight
    <2>5. ASSUME Kind(Rest[1]) \in NameKinds  PROVE Behind(Rest) <= Len(Rest)
      <3>1. skipSpace + 1 # Len(src)
        BY <2>1, <2>4, <2>5, Distinct DEF NameKinds
      <3>2. skipSpace + 2 <= Len(src) /\ Rest[2] = src[skipSpace + 2]
        BY <2>1, <2>3, <2>4, <3>1
      <3>3. Rest[2] = SP => skipSpace + 2 # Len(src)
        BY <2>1, <3>2, Distinct
      <3> QED  BY <2>1, <2>3, <2>4, <3>1, <3>2, <3>3 DEF Behind
    <2> QED  BY <2>2, <2>3, <2>5
  <1> QED  BY <1>1, <1>2 DEF NeedsLexeme

\* What atSeqEnd says of what is ahead.
LEMMA AtEnd ==
  ASSUME TypeOK, skipSpace < Len(src), Kind(Rest[1]) \in NameKinds => Behind(Rest) <= Len(Rest)
  PROVE  /\ atSeqEnd(Rest) => EndsAt(skipSpace)
         /\ ~atSeqEnd(Rest) => Kind(Rest[1]) \notin Marks
  <1>1. /\ Rest[1] = src[skipSpace + 1] /\ Len(Rest) = Len(src) - skipSpace /\ skipSpace \in Nat /\ Len(src) \in Nat
        /\ \A i \in 1 .. Len(src) - skipSpace : Rest[i] = src[skipSpace + i]
    BY Sight
  <1>2. ASSUME Kind(Rest[1]) \in NameKinds, Kind(Rest[Behind(Rest)]) \in {"DEF", "DEFE"}  PROVE Heads(skipSpace)
    <2>1. Rest[2] = src[skipSpace + 2] /\ Behind(Rest) \in {2, 3} /\ Len(Rest) > 1
      BY <1>1, <1>2 DEF Behind
    <2>2. Behind(Rest) = IF src[skipSpace + 2] = SP THEN 3 ELSE 2
      BY <1>1, <2>1 DEF Behind
    <2>3. Rest[Behind(Rest)] = src[skipSpace + Behind(Rest)]
      BY <1>1, <1>2, <2>1
    <2> HIDE DEF SP
    <2> QED  BY <1>1, <1>2, <2>2, <2>3 DEF Heads
  <1>3. ASSUME atSeqEnd(Rest) PROVE EndsAt(skipSpace)
    BY <1>1, <1>2, <1>3 DEF atSeqEnd, EndsAt, Marks
  <1>4. ASSUME ~atSeqEnd(Rest) PROVE Kind(Rest[1]) \notin Marks
    BY <1>4 DEF atSeqEnd, Marks
  <1> QED  BY <1>3, <1>4

-----------------------------------------------------------------------------
(* The shape of the stack.                                                  *)

LEMMA FrontIsSeq ==
  ASSUME NEW s, IsSeq(s), s # <<>>
  PROVE  /\ Front(s) \in Seq(Range(s)) /\ Len(Front(s)) = Len(s) - 1 /\ Len(s) \in Nat \ {0}
         /\ \A i \in 1 .. Len(s) - 1 : Front(s)[i] = s[i]
  <1>1. Len(s) \in Nat \ {0}
    BY DEF IsSeq
  <1>2. Front(s) = [i \in 1 .. Len(s) - 1 |-> s[i]]
    BY <1>1 DEF IsSeq, Front
  <1> QED  BY <1>1, <1>2 DEF IsSeq

\* The stack without its top and with one call or two put in its place.
LEMMA Retopped ==
  ASSUME NEW s, IsSeq(s), s # <<>>, NEW x
  PROVE  /\ IsSeq(Append(Front(s), x)) /\ Len(Append(Front(s), x)) = Len(s)
         /\ Append(Front(s), x)[Len(s)] = x
         /\ \A i \in 1 .. Len(s) - 1 : Append(Front(s), x)[i] = s[i]
  <1> DEFINE T == Range(s) \cup {x}
             f == Front(s)
             one == Append(f, x)
  <1>1. /\ f \in Seq(T) /\ Len(f) = Len(s) - 1 /\ Len(s) \in Nat \ {0}
        /\ \A i \in 1 .. Len(s) - 1 : f[i] = s[i]
    BY FrontIsSeq
  <1>2. x \in T
    OBVIOUS
  <1> HIDE DEF T, f
  <1>3. /\ one \in Seq(T) /\ Len(one) = Len(s) /\ one[Len(s)] = x
        /\ \A i \in 1 .. Len(s) - 1 : one[i] = s[i]
    BY <1>1, <1>2
  <1> HIDE DEF one
  <1>4. IsSeq(one)
    BY <1>3, SeqOfRange DEF IsSeq
  <1>5. one = Append(Front(s), x)
    BY DEF one, f
  <1> QED  BY <1>3, <1>4, <1>5

LEMMA Extended ==
  ASSUME NEW s, IsSeq(s), s # <<>>, NEW x, NEW y
  PROVE  /\ IsSeq(Front(s) \o <<x, y>>) /\ Len(Front(s) \o <<x, y>>) = Len(s) + 1
         /\ (Front(s) \o <<x, y>>)[Len(s)] = x /\ (Front(s) \o <<x, y>>)[Len(s) + 1] = y
         /\ \A i \in 1 .. Len(s) - 1 : (Front(s) \o <<x, y>>)[i] = s[i]
  <1> DEFINE T == Range(s) \cup {x, y}
             f == Front(s)
             two == f \o <<x, y>>
  <1>1. /\ f \in Seq(T) /\ Len(f) = Len(s) - 1 /\ Len(s) \in Nat \ {0}
        /\ \A i \in 1 .. Len(s) - 1 : f[i] = s[i]
    BY FrontIsSeq
  <1>2. <<x, y>> \in Seq(T) /\ Len(<<x, y>>) = 2
    OBVIOUS
  <1> HIDE DEF T, f
  <1>3. /\ two \in Seq(T) /\ Len(two) = Len(s) + 1 /\ two[Len(s)] = x /\ two[Len(s) + 1] = y
        /\ \A i \in 1 .. Len(s) - 1 : two[i] = s[i]
    BY <1>1, <1>2
  <1> HIDE DEF two
  <1>4. IsSeq(two)
    BY <1>3, SeqOfRange DEF IsSeq
  <1>5. two = Front(s) \o <<x, y>>
    BY DEF two, f
  <1> QED  BY <1>3, <1>4, <1>5

LEMMA ShapeTop ==
  ASSUME Shape
  PROVE  /\ Height \in Nat \ {0} /\ Top = stack[Height] /\ IsCall(Top) /\ Ready(Top)
         /\ Top.fn = "ebnf" <=> Height = 1
         /\ Top.fn # "ebnf" => /\ Height > 1 /\ Height - 1 \in 1 .. Height
                               /\ IsCall(stack[Height - 1]) /\ Waits(stack[Height - 1], Top.fn)
  <1>1. Height \in Nat \ {0} /\ Top = stack[Height]
    BY DEF Shape, IsSeq, Height, Top, Last
  <1>2. IsCall(Top) /\ Ready(Top)
    BY <1>1 DEF Shape
  <1>3. CASE Height = 1
    BY <1>1, <1>2, <1>3 DEF Shape
  <1>4. CASE Height # 1
    <2>1. Height - 1 \in 1 .. Height - 1 /\ Height - 1 \in 1 .. Height /\ (Height - 1) + 1 = Height
      BY <1>1, <1>4
    <2>2. IsCall(stack[Height - 1]) /\ Waits(stack[Height - 1], Top.fn)
      BY <1>1, <2>1 DEF Shape
    <2>3. Top.fn # "ebnf"
      BY <2>2 DEF Waits, Callers
    <2> QED  BY <1>1, <1>2, <1>4, <2>1, <2>2, <2>3
  <1> QED  BY <1>3, <1>4

LEMMA NewCall ==
  ASSUME NEW fn \in Functions
  PROVE  /\ IsCall(Call(fn)) /\ Call(fn).fn = fn /\ Call(fn).val = <<>> /\ Call(fn).got = <<>>
         /\ Call(fn).local = "" /\ Ready(Call(fn)) /\ ~IsGroup(Call(fn))
  <1>1. <<>> \in Seq(Range(<<>>))
    OBVIOUS
  <1> QED  BY <1>1 DEF IsCall, IsSeq, Call, Ready, IsGroup

LEMMA Entering ==
  ASSUME Shape, NEW p, NEW self, NEW fn \in Functions, Enter(p, self, fn), IsCall(self), self.fn = Top.fn,
         Waits(self, fn)
  PROVE  /\ Shape' /\ Top' = Call(fn) /\ Height' = Height + 1 /\ stack'[Height] = self
         /\ stack'[Height + 1] = Call(fn) /\ \A i \in 1 .. Height - 1 : stack'[i] = stack[i]
  <1>1. /\ IsSeq(stack') /\ Height' = Height + 1 /\ stack'[Height] = self
        /\ stack'[Height + 1] = Call(fn) /\ \A i \in 1 .. Height - 1 : stack'[i] = stack[i]
    BY Extended DEF Enter, Shape, Height
  <1>2. Height \in Nat \ {0} /\ Top = stack[Height]
    BY ShapeTop
  <1>3. stack' # <<>> /\ Top' = Call(fn)
    <2>1. Len(stack') = Height + 1 /\ stack' \in Seq(Range(stack'))
      BY <1>1 DEF Height, IsSeq
    <2> QED  BY <1>1, <1>2, <2>1 DEF Top, Last
  <1>4. ASSUME NEW i \in 1 .. Height' PROVE IsCall(stack'[i])
    <2>1. CASE i \in {Height, Height + 1}
      BY <1>1, <2>1, NewCall
    <2>2. CASE i \notin {Height, Height + 1}
      <3>1. i \in 1 .. Height - 1 /\ i \in 1 .. Height
        BY <1>1, <1>2, <2>2
      <3> QED  BY <1>1, <3>1 DEF Shape
    <2> QED  BY <2>1, <2>2
  <1>5. stack'[1].fn = "ebnf"
    <2>1. CASE Height = 1  BY <1>1, <1>2, <2>1 DEF Shape
    <2>2. CASE Height # 1  BY <1>1, <1>2, <2>2 DEF Shape
    <2> QED  BY <2>1, <2>2
  <1>6. ASSUME NEW i \in 1 .. Height' - 1 PROVE Waits(stack'[i], stack'[i + 1].fn)
    <2>1. CASE i = Height
      BY <1>1, <2>1, NewCall
    <2>2. CASE i # Height
      <3>1. i \in 1 .. Height - 1 /\ stack'[i] = stack[i]
        BY <1>1, <1>2, <1>6, <2>2
      <3>2. stack'[i + 1].fn = stack[i + 1].fn
        BY <1>1, <1>2, <3>1
      <3> QED  BY <3>1, <3>2 DEF Shape
    <2> QED  BY <2>1, <2>2
  <1>7. Ready(stack'[Height'])
    BY <1>1, NewCall
  <1> QED  BY <1>1, <1>3, <1>4, <1>5, <1>6, <1>7 DEF Shape

\* The stack with another top: its top call goes on.
LEMMA Topped ==
  ASSUME Shape, IsSeq(stack'), NEW n \in 1 .. Height, Height' = n, NEW self, stack'[n] = self,
         \A i \in 1 .. n - 1 : stack'[i] = stack[i], IsCall(self), self.fn = stack[n].fn, Ready(self)
  PROVE  Shape' /\ Top' = self
  <1>1. Height \in Nat \ {0}
    BY ShapeTop
  <1>2. stack' # <<>> /\ Top' = self
    <2>1. Len(stack') = n /\ stack' \in Seq(Range(stack'))
      BY DEF Height, IsSeq
    <2> QED  BY <1>1, <2>1 DEF Top, Last
  <1>3. \A i \in 1 .. Height' : IsCall(stack'[i])
    BY <1>1 DEF Shape
  <1>4. stack'[1].fn = "ebnf"
    <2>1. CASE n = 1  BY <1>1, <2>1 DEF Shape
    <2>2. CASE n # 1  BY <1>1, <2>2 DEF Shape
    <2> QED  BY <2>1, <2>2
  <1>5. ASSUME NEW i \in 1 .. Height' - 1 PROVE Waits(stack'[i], stack'[i + 1].fn)
    <2>1. i \in 1 .. Height - 1 /\ stack'[i] = stack[i]
      BY <1>1, <1>5
    <2>2. stack'[i + 1].fn = stack[i + 1].fn
      BY <1>1, <1>5
    <2> QED  BY <2>1, <2>2 DEF Shape
  <1> QED  BY <1>2, <1>3, <1>4, <1>5 DEF Shape

LEMMA Staying ==
  ASSUME Shape, NEW p, NEW self, Stay(p, self), IsCall(self), self.fn = Top.fn, Ready(self)
  PROVE  /\ Shape' /\ Top' = self /\ Height' = Height /\ stack'[Height] = self
         /\ \A i \in 1 .. Height - 1 : stack'[i] = stack[i]
  <1>1. /\ IsSeq(stack') /\ Height' = Height /\ stack'[Height] = self
        /\ \A i \in 1 .. Height - 1 : stack'[i] = stack[i]
    <2>1. IsSeq(stack) /\ stack # <<>>
      BY DEF Shape
    <2>2. stack' = Append(Front(stack), self)
      BY DEF Stay
    <2>3. /\ IsSeq(Append(Front(stack), self)) /\ Len(Append(Front(stack), self)) = Len(stack)
          /\ Append(Front(stack), self)[Len(stack)] = self
          /\ \A i \in 1 .. Len(stack) - 1 : Append(Front(stack), self)[i] = stack[i]
      BY <2>1, Retopped
    <2> QED  BY <2>2, <2>3 DEF Height
  <1>2. Height \in 1 .. Height /\ Top = stack[Height]
    BY ShapeTop
  <1> QED  BY <1>1, <1>2, Topped

\* A caller with what it was returned.
Given(f, x) == [f EXCEPT !.got = <<x>>]

LEMMA GivenFields ==
  ASSUME NEW f, IsCall(f), NEW x
  PROVE  /\ IsCall(Given(f, x)) /\ Given(f, x).fn = f.fn /\ Given(f, x).val = f.val /\ Given(f, x).local = f.local
         /\ Given(f, x).got = <<x>> /\ Given(f, x).got # <<>>
  <1>1. Given(f, x) = [fn |-> f.fn, val |-> f.val, got |-> <<x>>, local |-> f.local]
    BY DEF IsCall, Given
  <1>2. <<x>> # <<>> /\ <<x>>[1] = x
    OBVIOUS
  <1> QED  BY <1>1, <1>2 DEF IsCall

LEMMA Returning ==
  ASSUME Shape, NEW p, NEW x, Return(p, x), Top.fn # "ebnf"
  PROVE  /\ Shape' /\ Height' = Height - 1 /\ Height > 1 /\ Top' = Given(stack[Height - 1], x)
         /\ stack'[Height - 1] = Given(stack[Height - 1], x)
         /\ \A i \in 1 .. Height - 2 : stack'[i] = stack[i]
  <1> DEFINE k == Height - 1
             f == Front(stack)
             g == Given(stack[k], x)
  <1>1. /\ Height \in Nat \ {0} /\ Height > 1 /\ k \in 1 .. Height /\ k \in 1 .. k
        /\ IsCall(stack[k]) /\ Waits(stack[k], Top.fn)
    BY ShapeTop
  <1>2. f \in Seq(Range(stack)) /\ Len(f) = k /\ \A i \in 1 .. k : f[i] = stack[i]
    BY FrontIsSeq DEF Shape, Height
  <1>3. stack' = [f EXCEPT ![k] = g]
    BY <1>1, <1>2 DEF Return, Given, Height
  <1> HIDE DEF f, g
  <1>4. /\ stack' \in Seq(Range(stack) \cup {g}) /\ Len(stack') = k /\ stack'[k] = g
        /\ \A i \in 1 .. k - 1 : stack'[i] = stack[i]
    <2>1. f \in Seq(Range(stack) \cup {g}) /\ g \in Range(stack) \cup {g}
      BY <1>2
    <2>2. /\ stack' \in Seq(Range(stack) \cup {g}) /\ Len(stack') = k
          /\ \A i \in 1 .. k : stack'[i] = IF i = k THEN g ELSE f[i]
      BY <1>1, <1>2, <1>3, <2>1, ExceptSeq
    <2> QED  BY <1>1, <1>2, <2>2
  <1>5. IsSeq(stack') /\ Height' = k
    BY <1>4, SeqOfRange DEF IsSeq, Height
  <1>6. IsCall(g) /\ g.fn = stack[k].fn /\ Ready(g)
    BY <1>1, GivenFields DEF g, Ready, Waits
  <1>7. Shape' /\ Top' = g
    BY <1>1, <1>4, <1>5, <1>6, Topped
  <1>8. g = Given(stack[Height - 1], x)
    BY DEF g
  <1> QED  BY <1>1, <1>4, <1>5, <1>7, <1>8

-----------------------------------------------------------------------------
(* Counting parentheses and groups.                                         *)

LEMMA Groups ==
  ASSUME Shape
  PROVE  IsFiniteSet(OpenGroups) /\ Cardinality(OpenGroups) \in Nat
  <1>1. Height \in Nat
    BY ShapeTop
  <1>2. OpenGroups \subseteq 1 .. Height /\ IsFiniteSet(1 .. Height)
    BY <1>1, FS_Interval DEF OpenGroups
  <1>3. IsFiniteSet(OpenGroups)
    BY <1>2, FS_Subset
  <1> QED  BY <1>3, FS_CardinalityType

\* A call is made by one that was no group; it may become one by it.
LEMMA EnteringGroups ==
  ASSUME Shape, ~IsGroup(Top), NEW self, NEW fn \in Functions, Height' = Height + 1, stack'[Height] = self,
         stack'[Height + 1] = Call(fn), \A i \in 1 .. Height - 1 : stack'[i] = stack[i]
  PROVE  Cardinality(OpenGroups') = Cardinality(OpenGroups) + (IF IsGroup(self) THEN 1 ELSE 0)
  <1> DEFINE I == OpenGroups
             J == OpenGroups'
  <1>1. Height \in Nat \ {0} /\ Top = stack[Height] /\ IsFiniteSet(I) /\ Cardinality(I) \in Nat
    BY ShapeTop, Groups
  <1>2. \A i : i \in I <=> i \in 1 .. Height /\ IsGroup(stack[i])
    BY DEF OpenGroups
  <1>3. \A i : i \in J <=> i \in 1 .. Height + 1 /\ IsGroup(stack'[i])
    BY DEF OpenGroups, IsGroup
  <1>4. Height \notin I
    BY <1>1, <1>2
  <1>5. ~IsGroup(stack'[Height + 1])
    BY NewCall
  <1> HIDE DEF I, J
  <1>6. \A i : i \in J <=> i \in I \/ (i = Height /\ IsGroup(self))
    <2> TAKE i
    <2>1. CASE i \in 1 .. Height - 1  BY <1>1, <1>2, <1>3, <2>1
    <2>2. CASE i = Height  BY <1>1, <1>3, <1>4, <2>2
    <2>3. CASE i = Height + 1  BY <1>1, <1>2, <1>3, <1>5, <2>3
    <2>4. CASE i \notin 1 .. Height + 1  BY <1>1, <1>2, <1>3, <2>4
    <2> QED  BY <1>1, <2>1, <2>2, <2>3, <2>4
  <1>7. CASE IsGroup(self)
    <2>1. J = I \cup {Height}  BY <1>6, <1>7
    <2>2. Cardinality(I \cup {Height}) = Cardinality(I) + 1  BY <1>1, <1>4, FS_AddElement
    <2> QED  BY <1>7, <2>1, <2>2 DEF I, J
  <1>8. CASE ~IsGroup(self)
    <2>1. J = I  BY <1>6, <1>8
    <2> QED  BY <1>1, <1>8, <2>1 DEF I, J
  <1> QED  BY <1>7, <1>8

LEMMA StayingGroups ==
  ASSUME Shape, Top.fn # "atom", NEW self, self.fn = Top.fn, Height' = Height, stack'[Height] = self,
         \A i \in 1 .. Height - 1 : stack'[i] = stack[i]
  PROVE  OpenGroups' = OpenGroups
  <1>1. Height \in Nat \ {0} /\ Top = stack[Height]
    BY ShapeTop
  <1>2. \A i \in 1 .. Height : IsGroup(stack'[i]) <=> IsGroup(stack[i])
    <2> TAKE i \in 1 .. Height
    <2>1. CASE i = Height  BY <1>1, <2>1 DEF IsGroup
    <2>2. CASE i # Height  BY <1>1, <2>2 DEF IsGroup
    <2> QED  BY <2>1, <2>2
  <1>3. OpenGroups' = {i \in 1 .. Height' : IsGroup(stack'[i])}
    BY DEF OpenGroups, IsGroup
  <1> QED  BY <1>2, <1>3 DEF OpenGroups

\* A call that returns takes its group with it.
LEMMA ReturningGroups ==
  ASSUME Shape, Height > 1, NEW x, Height' = Height - 1, stack'[Height - 1] = Given(stack[Height - 1], x),
         \A i \in 1 .. Height - 2 : stack'[i] = stack[i]
  PROVE  Cardinality(OpenGroups') = Cardinality(OpenGroups) - (IF IsGroup(Top) THEN 1 ELSE 0)
  <1> DEFINE I == OpenGroups
             J == OpenGroups'
  <1>1. Height \in Nat \ {0} /\ Top = stack[Height] /\ IsFiniteSet(I) /\ Cardinality(I) \in Nat
    BY ShapeTop, Groups
  <1>2. \A i : i \in I <=> i \in 1 .. Height /\ IsGroup(stack[i])
    BY DEF OpenGroups
  <1>3. \A i : i \in J <=> i \in 1 .. Height - 1 /\ IsGroup(stack'[i])
    BY DEF OpenGroups, IsGroup
  <1>4. IsGroup(stack'[Height - 1]) <=> IsGroup(stack[Height - 1])
    <2>1. IsCall(stack[Height - 1])
      BY <1>1 DEF Shape
    <2> QED  BY <2>1, GivenFields DEF IsGroup
  <1> HIDE DEF I, J
  <1>5. \A i : i \in J <=> i \in I /\ i # Height
    <2> TAKE i
    <2>1. CASE i \in 1 .. Height - 2  BY <1>1, <1>2, <1>3, <2>1
    <2>2. CASE i = Height - 1  BY <1>1, <1>2, <1>3, <1>4, <2>2
    <2>3. CASE i = Height  BY <1>1, <1>3, <2>3
    <2>4. CASE i \notin 1 .. Height  BY <1>1, <1>2, <1>3, <2>4
    <2> QED  BY <1>1, <2>1, <2>2, <2>3, <2>4
  <1>6. CASE IsGroup(Top)
    <2>1. J = I \ {Height} /\ Height \in I  BY <1>1, <1>2, <1>5, <1>6
    <2>2. Cardinality(I \ {Height}) = Cardinality(I) - 1  BY <1>1, <2>1, FS_RemoveElement
    <2> QED  BY <1>6, <2>1, <2>2 DEF I, J
  <1>7. CASE ~IsGroup(Top)
    <2>1. J = I  BY <1>1, <1>2, <1>5, <1>7
    <2> QED  BY <1>1, <1>7, <2>1 DEF I, J
  <1> QED  BY <1>6, <1>7

\* The lexemes of a kind behind the scanner, before and after it moves to q.
Upto(kind, m) == {i \in 1 .. m : Kind(src[i]) = kind}

LEMMA UptoFinite ==
  ASSUME NEW m \in Nat, NEW kind
  PROVE  IsFiniteSet(Upto(kind, m)) /\ Cardinality(Upto(kind, m)) \in Nat
  <1>1. Upto(kind, m) \subseteq 1 .. m /\ IsFiniteSet(1 .. m)
    BY FS_Interval DEF Upto
  <1>2. IsFiniteSet(Upto(kind, m))
    BY <1>1, FS_Subset
  <1> QED  BY <1>2, FS_CardinalityType

LEMMA PassedIs ==
  ASSUME TypeOK, NEW kind
  PROVE  Passed(kind) = Cardinality(Upto(kind, pos)) /\ Passed(kind) \in Nat
  <1>1. pos \in Nat
    BY DEF TypeOK
  <1> QED  BY <1>1, UptoFinite DEF Passed, Upto

LEMMA PassedNone ==
  ASSUME TypeOK, src' = src, NEW q \in pos .. Len(src), pos' = q, NEW kind,
         \A i \in pos + 1 .. q : Kind(src[i]) # kind
  PROVE  Passed(kind)' = Passed(kind)
  <1>1. pos \in Nat /\ q \in Nat
    BY DEF TypeOK
  <1>2. Upto(kind, q) = Upto(kind, pos)
    <2>1. \A i : i \in Upto(kind, q) <=> i \in 1 .. q /\ Kind(src[i]) = kind
      BY DEF Upto
    <2>2. \A i : i \in Upto(kind, pos) <=> i \in 1 .. pos /\ Kind(src[i]) = kind
      BY DEF Upto
    <2>3. \A i : i \in 1 .. q <=> i \in 1 .. pos \/ i \in pos + 1 .. q
      BY <1>1
    <2>4. \A i : i \in Upto(kind, q) <=> i \in Upto(kind, pos)
      BY <2>1, <2>2, <2>3
    <2> QED  BY <2>4
  <1>3. Passed(kind)' = Cardinality(Upto(kind, q))
    BY DEF Passed, Upto
  <1> QED  BY <1>2, <1>3, PassedIs

LEMMA PassedOne ==
  ASSUME TypeOK, src' = src, NEW q \in pos + 1 .. Len(src), pos' = q, NEW kind, Kind(src[q]) = kind,
         \A i \in pos + 1 .. q - 1 : Kind(src[i]) # kind
  PROVE  Passed(kind)' = Passed(kind) + 1
  <1>1. pos \in Nat /\ q \in Nat
    BY DEF TypeOK
  <1>2. Upto(kind, q) = Upto(kind, pos) \cup {q} /\ q \notin Upto(kind, pos)
    <2>1. \A i : i \in Upto(kind, q) <=> i \in 1 .. q /\ Kind(src[i]) = kind
      BY DEF Upto
    <2>2. \A i : i \in Upto(kind, pos) <=> i \in 1 .. pos /\ Kind(src[i]) = kind
      BY DEF Upto
    <2>3. \A i : i \in 1 .. q <=> i \in 1 .. pos \/ i \in pos + 1 .. q - 1 \/ i = q
      BY <1>1
    <2>4. \A i : i \in Upto(kind, q) <=> i \in Upto(kind, pos) \/ i = q
      BY <2>1, <2>2, <2>3
    <2>5. q \notin 1 .. pos
      BY <1>1
    <2> QED  BY <2>2, <2>4, <2>5
  <1>3. Passed(kind)' = Cardinality(Upto(kind, q))
    BY DEF Passed, Upto
  <1>4. Cardinality(Upto(kind, pos) \cup {q}) = Cardinality(Upto(kind, pos)) + 1
    BY <1>1, <1>2, UptoFinite, FS_AddElement
  <1> QED  BY <1>2, <1>3, <1>4, PassedIs

\* The scanner moves to q, over nothing that ends the source.
LEMMA Moving ==
  ASSUME TypeOK, src' = src, NEW q \in pos .. Len(src), pos' = q,
         \A i \in pos + 1 .. q : src[i] # EndOfSource
  PROVE  TypeOK'
  <1>1. ASSUME NEW i \in 1 .. Len(src), src[i] = EndOfSource  PROVE i = Len(src) /\ q < i
    <2>1. i = Len(src) /\ pos < i /\ pos \in Nat /\ Len(src) \in Nat /\ q \in Nat
      BY <1>1 DEF TypeOK
    <2>2. q # i
      BY <1>1, <2>1
    <2> QED  BY <2>1, <2>2
  <1>2. src \in Seq(Vocabulary \cup {SP, EndOfSource}) /\ q \in 0 .. Len(src)
    BY DEF TypeOK
  <1> QED  BY <1>1, <1>2 DEF TypeOK

\* Over space, and over space and a lexeme that is no parenthesis.
LEMMA MovingOverSpace ==
  ASSUME TypeOK, src' = src, pos' = skipSpace
  PROVE  TypeOK' /\ Passed("LP")' = Passed("LP") /\ Passed("RP")' = Passed("RP")
  <1>1. skipSpace \in pos .. Len(src) /\ \A i \in pos + 1 .. skipSpace : src[i] = SP
    BY Sight
  <1>2. \A i \in pos + 1 .. skipSpace : src[i] # EndOfSource /\ Kind(src[i]) # "LP" /\ Kind(src[i]) # "RP"
    BY <1>1, Distinct
  <1> QED  BY <1>1, <1>2, Moving, PassedNone

LEMMA MovingOver ==
  ASSUME TypeOK, src' = src, pos' = skipSpace + 1, skipSpace < Len(src),
         Kind(src[skipSpace + 1]) \notin {"ZZ", "LP", "RP"}
  PROVE  TypeOK' /\ Passed("LP")' = Passed("LP") /\ Passed("RP")' = Passed("RP")
  <1>1. skipSpace + 1 \in pos .. Len(src)
    BY Sight
  <1>3. ASSUME NEW i \in pos + 1 .. skipSpace PROVE src[i] = SP
    BY <1>3, Sight
  <1>2. ASSUME NEW i \in pos + 1 .. skipSpace + 1
        PROVE  src[i] # EndOfSource /\ Kind(src[i]) # "LP" /\ Kind(src[i]) # "RP"
    <2>1. i \in pos + 1 .. skipSpace \/ i = skipSpace + 1
      BY Sight
    <2> QED  BY <1>3, <2>1, Distinct
  <1> QED  BY <1>1, <1>2, Moving, PassedNone

LEMMA MovingOverParenthesis ==
  ASSUME TypeOK, src' = src, pos' = skipSpace + 1, skipSpace < Len(src),
         NEW kind, NEW other, {kind, other} = {"LP", "RP"}, kind # other, Kind(src[skipSpace + 1]) = kind
  PROVE  TypeOK' /\ Passed(kind)' = Passed(kind) + 1 /\ Passed(other)' = Passed(other)
  <1>1. /\ skipSpace + 1 \in pos + 1 .. Len(src) /\ skipSpace + 1 \in pos .. Len(src)
        /\ \A i \in pos + 1 .. (skipSpace + 1) - 1 : src[i] = SP
    BY Sight
  <1>2. kind # "ZZ" /\ kind # "SP" /\ other # "SP"
    OBVIOUS
  <1>3. ASSUME NEW i \in pos + 1 .. skipSpace + 1
        PROVE  src[i] # EndOfSource /\ Kind(src[i]) # other
    <2>1. i \in pos + 1 .. (skipSpace + 1) - 1 \/ i = skipSpace + 1
      BY Sight
    <2> QED  BY <1>1, <1>2, <2>1, Distinct
  <1>4. \A i \in pos + 1 .. (skipSpace + 1) - 1 : Kind(src[i]) # kind
    BY <1>1, <1>2, Distinct
  <1> QED  BY <1>1, <1>3, <1>4, Moving, PassedNone, PassedOne

-----------------------------------------------------------------------------
(* A source one lexeme longer.                                              *)

LEMMA OneLonger ==
  ASSUME TypeOK, NEW tkn, src' = Append(src, tkn), pos' = pos
  PROVE  /\ Len(src') = Len(src) + 1 /\ src'[Len(src) + 1] = tkn
         /\ \A i \in 1 .. Len(src) : src'[i] = src[i]
  BY DEF TypeOK

LEMMA ReadTypes ==
  ASSUME TypeOK, ~Ended, NEW tkn \in Vocabulary \cup {SP, EndOfSource}, src' = Append(src, tkn), pos' = pos
  PROVE  TypeOK'
  <1>1. /\ Len(src') = Len(src) + 1 /\ src'[Len(src) + 1] = tkn /\ Len(src) \in Nat /\ pos \in 0 .. Len(src)
        /\ \A i \in 1 .. Len(src) : src'[i] = src[i]
    BY OneLonger, Sight DEF TypeOK
  <1>2. src' \in Seq(Vocabulary \cup {SP, EndOfSource}) /\ pos \in 0 .. Len(src')
    BY <1>1 DEF TypeOK
  <1>3. ASSUME NEW i \in 1 .. Len(src), src[i] = EndOfSource  PROVE FALSE
    <2>1. i = Len(src) /\ src # <<>>
      BY <1>3 DEF TypeOK
    <2> QED  BY <1>3, <2>1 DEF Ended, Last
  <1>4. ASSUME NEW i \in 1 .. Len(src'), src'[i] = EndOfSource  PROVE i = Len(src') /\ pos < i
    <2>1. i \in 1 .. Len(src) \/ i = Len(src) + 1
      BY <1>1
    <2> QED  BY <1>1, <1>3, <1>4, <2>1
  <1> QED  BY <1>2, <1>4 DEF TypeOK

LEMMA ReadSight ==
  ASSUME TypeOK, TypeOK', NEW tkn, src' = Append(src, tkn), pos' = pos
  PROVE  /\ Opened' <=> Opened
         /\ AfterComma' <=> AfterComma
         /\ pos > 0 => src'[pos] = src[pos]
         /\ Before' = Before
         /\ NoPostfix => NoPostfix'
         /\ EndsAt(skipSpace) => /\ EndsAt(skipSpace)'
                                 /\ \A kinds : NextIs(skipSpace, kinds)' <=> NextIs(skipSpace, kinds)
  <1>1. /\ Len(src') = Len(src) + 1 /\ Len(src) \in Nat /\ pos \in Nat /\ pos <= Len(src)
        /\ \A i \in 1 .. Len(src) : src'[i] = src[i]
    BY OneLonger, Sight
  <1>2. pos > 0 => src'[pos] = src[pos]
    BY <1>1
  <1>3. (Opened' <=> Opened) /\ (AfterComma' <=> AfterComma)
    BY <1>2 DEF Opened, AfterComma
  <1>4. Before' = Before
    <2>1. pos > 1 => src'[pos - 1] = src[pos - 1]
      BY <1>1
    <2> DEFINE end == IF pos > 0 /\ src[pos] = SP THEN pos - 1 ELSE pos
    <2>2. end \in Nat /\ (end # 0 => src'[end] = src[end]) /\ Before = IF end = 0 THEN "ZZ" ELSE Kind(src[end])
      BY <1>1, <1>2, <2>1 DEF Before
    <2>3. Before' = IF end = 0 THEN "ZZ" ELSE Kind(src'[end])
      BY <1>2 DEF Before
    <2> HIDE DEF end
    <2> QED  BY <2>2, <2>3
  <1>5. NoPostfix => NoPostfix'
    BY <1>1 DEF NoPostfix
  <1>6. ASSUME EndsAt(skipSpace)
        PROVE  EndsAt(skipSpace)' /\ \A kinds : NextIs(skipSpace, kinds)' <=> NextIs(skipSpace, kinds)
    <2>1. skipSpace < Len(src) /\ skipSpace \in Nat /\ skipSpace = IF src[pos + 1] = SP THEN pos + 1 ELSE pos
      BY <1>6, Sight DEF EndsAt
    <2>2. skipSpace' = skipSpace
      BY <1>1, <2>1, SkipNext
    <2>3. src'[skipSpace + 1] = src[skipSpace + 1] /\ skipSpace < Len(src')
      BY <1>1, <2>1
    <2>4. ASSUME Heads(skipSpace)
          PROVE  LET op == IF src'[skipSpace + 2] = SP THEN skipSpace + 3 ELSE skipSpace + 2
                 IN Kind(src'[skipSpace + 1]) \in NameKinds /\ op <= Len(src') /\ Kind(src'[op]) \in {"DEF", "DEFE"}
      <3> DEFINE op == IF src[skipSpace + 2] = SP THEN skipSpace + 3 ELSE skipSpace + 2
      <3>1. Kind(src[skipSpace + 1]) \in NameKinds /\ op <= Len(src) /\ Kind(src[op]) \in {"DEF", "DEFE"} /\ op \in Nat
        BY <2>1, <2>4 DEF Heads
      <3>2. skipSpace + 2 \in 1 .. Len(src) /\ src'[skipSpace + 2] = src[skipSpace + 2]
        BY <1>1, <2>1, <3>1
      <3>3. op \in 1 .. Len(src) /\ src'[op] = src[op] /\ op <= Len(src')
        BY <1>1, <2>1, <3>1
      <3> HIDE DEF SP
      <3> QED  BY <2>3, <3>1, <3>2, <3>3
    <2> HIDE DEF SP
    <2> QED  BY <1>6, <2>2, <2>3, <2>4 DEF EndsAt, Heads, NextIs
  <1> QED  BY <1>2, <1>3, <1>4, <1>5, <1>6

LEMMA ReadKnows ==
  ASSUME TypeOK, TypeOK', NEW tkn, src' = Append(src, tkn), pos' = pos, stack' = stack,
         Knows(Top.fn, Top.val, Top.got, Top.local)
  PROVE  Knows(Top.fn, Top.val, Top.got, Top.local)'
  <1>1. Top' = Top
    BY DEF Top
  <1>2. Due => Due'
    <2>1. pos > 0 /\ src[pos] = SP => src'[pos] = SP
      BY ReadSight
    <2>2. (AtStart' <=> AtStart) /\ Before' = Before /\ (NoPostfix => NoPostfix')
      BY ReadSight DEF AtStart
    <2> HIDE DEF SP
    <2> QED  BY <2>1, <2>2 DEF Due
  <1>3. pos = 0 \/ Kind(src[pos]) = "SC" => pos = 0 \/ Kind(src'[pos]) = "SC"
    BY ReadSight, Sight
  <1> DEFINE fn == Top.fn
             val == Top.val
             got == Top.got
             local == Top.local
  <1>4. fn' = fn /\ val' = val /\ got' = got /\ local' = local
    BY <1>1
  <1> HIDE DEF fn, val, got, local
  <1>5. Knows(fn, val, got, local)
    BY DEF fn, val, got, local
  <1>6. Knows(fn, val, got, local)'
    BY <1>2, <1>3, <1>4, <1>5, ReadSight DEF Knows
  <1> QED  BY <1>6 DEF fn, val, got, local

LEMMA ReadPassed ==
  ASSUME TypeOK, NEW tkn, src' = Append(src, tkn), pos' = pos, NEW kind
  PROVE  Passed(kind)' = Passed(kind)
  <1>1. /\ Len(src) \in Nat /\ pos \in Nat /\ pos <= Len(src) /\ \A i \in 1 .. Len(src) : src'[i] = src[i]
    BY OneLonger, Sight
  <1>2. \A i \in 1 .. pos : src'[i] = src[i]
    BY <1>1
  <1>3. {i \in 1 .. pos : Kind(src'[i]) = kind} = {i \in 1 .. pos : Kind(src[i]) = kind}
    BY <1>2
  <1> QED  BY <1>3 DEF Passed

-----------------------------------------------------------------------------
(* Naming the mistake.                                                      *)

LEMMA NothingToName ==
  ASSUME status' \in {"reading", "parsed"}
  PROVE  NamesTheMistake'
  BY DEF NamesTheMistake

\* A failure leaves the scanner where it is.
LEMMA FailSight ==
  ASSUME NEW why, Fail(why), TypeOK
  PROVE  /\ TypeOK' /\ status' = why
         /\ Before' = Before /\ Offender' = Offender
         /\ (AtStart' <=> AtStart) /\ (SpaceBehind' <=> SpaceBehind)
         /\ Passed("LP")' = Passed("LP") /\ Passed("RP")' = Passed("RP")
  <1>1. src' = src /\ pos' = pos /\ status' = why
    BY DEF Fail
  <1>2. Ahead' = Ahead
    BY <1>1 DEF Ahead
  <1>3. skipSpace' = skipSpace
    BY <1>1, <1>2 DEF skipSpace
  <1>4. Rest' = Rest
    BY <1>1, <1>3 DEF Rest
  <1>5. Before' = Before
    BY <1>1 DEF Before
  <1>6. AtStart' <=> AtStart
    BY <1>5 DEF AtStart
  <1>7. Offender' = Offender
    BY <1>4 DEF Offender
  <1>8. SpaceBehind' <=> SpaceBehind
    BY <1>1, <1>3 DEF SpaceBehind
  <1>9. Passed("LP")' = Passed("LP") /\ Passed("RP")' = Passed("RP")
    BY <1>1 DEF Passed
  <1> QED  BY <1>1, <1>5, <1>6, <1>7, <1>8, <1>9 DEF TypeOK

\* What comes before the scanner: an opening, a comma, a space, the start.
LEMMA BeforeIs ==
  ASSUME TypeOK
  PROVE  /\ Opened => AtStart
         /\ AfterComma => Before = "CA"
         /\ pos = 0 => Before = "ZZ"
         /\ pos > 0 /\ Kind(src[pos]) = "SC" => Before = "SC"
  <1>1. pos \in Nat
    BY Sight
  <1>2. ASSUME pos > 0, src[pos] # SP  PROVE Before = Kind(src[pos])
    BY <1>1, <1>2 DEF Before
  <1>3. pos = 0 => Before = "ZZ"
    BY DEF Before
  <1> HIDE DEF SP
  <1>4. pos > 0 /\ Kind(src[pos]) # "SP" => Before = Kind(src[pos])
    BY <1>2, Distinct
  <1> QED  BY <1>1, <1>3, <1>4 DEF Opened, AfterComma, AtStart

\* With one call left no group is open.
LEMMA NoGroupLeft ==
  ASSUME TypeOK, Shape, Balanced, Top.fn = "ebnf"
  PROVE  Passed("LP") = Passed("RP")
  <1>1. Height = 1 /\ ~IsGroup(stack[1])
    BY ShapeTop DEF IsGroup
  <1>2. OpenGroups = {}
    BY <1>1 DEF OpenGroups
  <1>3. Cardinality(OpenGroups) = 0
    BY <1>2, FS_EmptySet
  <1> QED  BY <1>3, PassedIs DEF Balanced

LEMMA AGroupLeft ==
  ASSUME TypeOK, Shape, Balanced, IsGroup(Top)
  PROVE  Passed("LP") > Passed("RP")
  <1>1. Height \in OpenGroups
    BY ShapeTop DEF OpenGroups
  <1>2. IsFiniteSet(OpenGroups) /\ Cardinality(OpenGroups) \in Nat
    BY Groups
  <1>3. Cardinality(OpenGroups) # 0
    BY <1>1, <1>2, FS_EmptySet
  <1> QED  BY <1>2, <1>3, PassedIs DEF Balanced

-----------------------------------------------------------------------------
(* What each kind of step leaves to show.                                   *)

LEMMA Appended ==
  ASSUME NEW s, IsSeq(s), NEW x
  PROVE  IsSeq(Append(s, x))
  <1> DEFINE T == Range(s) \cup {x}
             one == Append(s, x)
  <1>1. s \in Seq(T) /\ x \in T
    BY DEF IsSeq
  <1> HIDE DEF T
  <1>2. one \in Seq(T)
    BY <1>1
  <1> HIDE DEF one
  <1>3. one \in Seq(Range(one))
    BY <1>2, SeqOfRange
  <1> QED  BY <1>3 DEF one, IsSeq

\* A call's value with what it was returned.
LEMMA GotJoins ==
  ASSUME NEW f, IsCall(f)
  PROVE  IsSeq(f.val \o f.got) /\ (f.val \o f.got = <<>> <=> f.val = <<>> /\ f.got = <<>>)
  <1> DEFINE v == f.val
  <1>1. IsSeq(v)
    BY DEF IsCall
  <1>2. CASE f.got = <<>>
    <2>1. v \o <<>> = v
      BY <1>1 DEF IsSeq
    <2> QED  BY <1>1, <1>2, <2>1
  <1>3. CASE f.got # <<>>
    <2> DEFINE x == f.got[1]
    <2>1. f.got = <<x>>
      BY <1>3 DEF IsCall
    <2> HIDE DEF x
    <2>2. v \o <<x>> = Append(v, x)
      BY <1>1, AppendIsConcat DEF IsSeq
    <2>3. IsSeq(Append(v, x)) /\ Append(v, x) # <<>>
      BY <1>1, Appended DEF IsSeq
    <2> QED  BY <1>3, <2>1, <2>2, <2>3
  <1> QED  BY <1>2, <1>3

LEMMA Remade ==
  ASSUME NEW f, IsCall(f), NEW v, IsSeq(v), NEW w, w = <<>> \/ w = <<w[1]>>, NEW l,
         NEW g, g = [fn |-> f.fn, val |-> v, got |-> w, local |-> l]
  PROVE  IsCall(g) /\ g.fn = f.fn /\ g.val = v /\ g.got = w /\ g.local = l
  BY DEF IsCall

\* The running call with what its step assigns.
WithLocal(f, x) == [f EXCEPT !.local = x]
WithVal(f, x) == [f EXCEPT !.val = x]
WithGot(f, x) == [f EXCEPT !.got = x]
Gathered(f) == [f EXCEPT !.val = @ \o f.got, !.got = <<>>]

LEMMA LocalFields ==
  ASSUME NEW f, IsCall(f), NEW x
  PROVE  /\ IsCall(WithLocal(f, x)) /\ WithLocal(f, x).fn = f.fn /\ WithLocal(f, x).val = f.val
         /\ WithLocal(f, x).got = f.got /\ WithLocal(f, x).local = x
  <1>1. WithLocal(f, x) = [fn |-> f.fn, val |-> f.val, got |-> f.got, local |-> x]
    BY DEF IsCall, WithLocal
  <1> QED  BY <1>1, Remade DEF IsCall

LEMMA ValFields ==
  ASSUME NEW f, IsCall(f), NEW x, IsSeq(x)
  PROVE  IsCall(WithVal(f, x)) /\ WithVal(f, x) = [fn |-> f.fn, val |-> x, got |-> f.got, local |-> f.local]
  <1>1. WithVal(f, x) = [fn |-> f.fn, val |-> x, got |-> f.got, local |-> f.local]
    BY DEF IsCall, WithVal
  <1> QED  BY <1>1, Remade DEF IsCall

LEMMA GotFields ==
  ASSUME NEW f, IsCall(f), NEW x, x = <<>> \/ x = <<x[1]>>
  PROVE  IsCall(WithGot(f, x)) /\ WithGot(f, x) = [fn |-> f.fn, val |-> f.val, got |-> x, local |-> f.local]
  <1>1. WithGot(f, x) = [fn |-> f.fn, val |-> f.val, got |-> x, local |-> f.local]
    BY DEF IsCall, WithGot
  <1> QED  BY <1>1, Remade DEF IsCall

LEMMA GatheredFields ==
  ASSUME NEW f, IsCall(f)
  PROVE  /\ IsCall(Gathered(f)) /\ Gathered(f).fn = f.fn /\ Gathered(f).val = f.val \o f.got
         /\ Gathered(f).got = <<>> /\ Gathered(f).local = f.local
         /\ Gathered(f).val = <<>> <=> f.val = <<>> /\ f.got = <<>>
  <1>1. Gathered(f) = WithGot(WithVal(f, f.val \o f.got), <<>>)
    BY Zenon DEF Gathered, WithGot, WithVal
  <1> DEFINE v == f.val \o f.got
             h == WithVal(f, v)
             g == WithGot(h, <<>>)
  <1>2. IsSeq(v) /\ (v = <<>> <=> f.val = <<>> /\ f.got = <<>>)
    BY GotJoins
  <1> HIDE DEF v
  <1>3. IsCall(h) /\ h = [fn |-> f.fn, val |-> v, got |-> f.got, local |-> f.local]
    BY <1>2, ValFields
  <1> HIDE DEF h
  <1>4. IsCall(g) /\ g = [fn |-> h.fn, val |-> h.val, got |-> <<>>, local |-> h.local]
    BY <1>3, GotFields
  <1> HIDE DEF g
  <1>5. IsCall(g) /\ g.fn = f.fn /\ g.val = v /\ g.got = <<>> /\ g.local = f.local
    BY <1>3, <1>4
  <1>6. g = Gathered(f)
    BY <1>1, Zenon DEF g, h, v
  <1> QED  BY <1>2, <1>5, <1>6, Zenon DEF v

LEMMA Failed ==
  ASSUME TypeOK, NEW why, why # "reading", Fail(why), NamesTheMistake'
  PROVE  Inv'
  BY FailSight DEF Inv

LEMMA EnteredBalance ==
  ASSUME TypeOK, Shape, Balanced, ~IsGroup(Top), NEW self, NEW fn \in Functions, Height' = Height + 1,
         stack'[Height] = self, stack'[Height + 1] = Call(fn), \A i \in 1 .. Height - 1 : stack'[i] = stack[i],
         Passed("LP")' = Passed("LP") + (IF IsGroup(self) THEN 1 ELSE 0), Passed("RP")' = Passed("RP")
  PROVE  Balanced'
  <1>1. Cardinality(OpenGroups') = Cardinality(OpenGroups) + (IF IsGroup(self) THEN 1 ELSE 0)
    BY EnteringGroups
  <1>2. Cardinality(OpenGroups) \in Nat /\ Passed("LP") \in Nat /\ Passed("RP") \in Nat
    BY Groups, PassedIs
  <1> QED  BY <1>1, <1>2 DEF Balanced

LEMMA Entered ==
  ASSUME status = "reading", Shape, Balanced, ~IsGroup(Top), NEW p, NEW self, NEW fn \in Functions,
         Enter(p, self, fn), IsCall(self), self.fn = Top.fn, Waits(self, fn), TypeOK, TypeOK',
         Passed("LP")' = Passed("LP") + (IF IsGroup(self) THEN 1 ELSE 0), Passed("RP")' = Passed("RP"),
         Knows(fn, <<>>, <<>>, "")'
  PROVE  Inv'
  <1>1. status' = "reading"
    BY DEF Enter
  <1>2. /\ Shape' /\ Top' = Call(fn) /\ Height' = Height + 1 /\ stack'[Height] = self
        /\ stack'[Height + 1] = Call(fn) /\ \A i \in 1 .. Height - 1 : stack'[i] = stack[i]
    BY Entering
  <1>3. Balanced'
    BY <1>2, EnteredBalance
  <1>4. Top'.fn = fn /\ Top'.val = <<>> /\ Top'.got = <<>> /\ Top'.local = ""
    BY <1>2, NewCall
  <1>5. Knows(Top.fn, Top.val, Top.got, Top.local)'
    BY <1>4 DEF Knows
  <1> QED  BY <1>1, <1>2, <1>3, <1>5, NothingToName DEF Inv

LEMMA Stayed ==
  ASSUME status = "reading", Shape, Balanced, Top.fn # "atom", NEW p, NEW self, Stay(p, self),
         IsCall(self), self.fn = Top.fn, TypeOK, TypeOK',
         Passed("LP")' = Passed("LP"), Passed("RP")' = Passed("RP"),
         Knows(self.fn, self.val, self.got, self.local)'
  PROVE  Inv'
  <1>1. status' = "reading"
    BY DEF Stay
  <1>2. Ready(self)
    BY DEF Ready
  <1>3. /\ Shape' /\ Top' = self /\ Height' = Height /\ stack'[Height] = self
        /\ \A i \in 1 .. Height - 1 : stack'[i] = stack[i]
    BY <1>2, Staying
  <1>4. Balanced'
    <2>1. OpenGroups' = OpenGroups
      BY <1>3, StayingGroups
    <2> QED  BY <2>1 DEF Balanced
  <1>5. Knows(Top.fn, Top.val, Top.got, Top.local)'
    BY <1>3 DEF Knows
  <1> QED  BY <1>1, <1>3, <1>4, <1>5, NothingToName DEF Inv

LEMMA Returned ==
  ASSUME status = "reading", Shape, Balanced, Top.fn # "ebnf", NEW p, NEW x, Return(p, x), TypeOK, TypeOK',
         Passed("LP")' = Passed("LP"), Passed("RP")' = Passed("RP") + (IF IsGroup(Top) THEN 1 ELSE 0),
         \A caller : Waits(caller, Top.fn) => Knows(caller.fn, caller.val, <<x>>, caller.local)'
  PROVE  Inv'
  <1>1. status' = "reading"
    BY DEF Return
  <1>2. /\ Shape' /\ Height' = Height - 1 /\ Height > 1 /\ Top' = Given(stack[Height - 1], x)
        /\ stack'[Height - 1] = Given(stack[Height - 1], x)
        /\ \A i \in 1 .. Height - 2 : stack'[i] = stack[i]
    BY Returning
  <1>3. Balanced'
    <2>1. Cardinality(OpenGroups') = Cardinality(OpenGroups) - (IF IsGroup(Top) THEN 1 ELSE 0)
      BY <1>2, ReturningGroups
    <2>2. Cardinality(OpenGroups) \in Nat /\ Passed("LP") \in Nat /\ Passed("RP") \in Nat
      BY Groups, PassedIs
    <2> DEFINE k == IF IsGroup(Top) THEN 1 ELSE 0
    <2>3. k \in Nat
      OBVIOUS
    <2>4. Passed("RP")' = Passed("RP") + k /\ Cardinality(OpenGroups') = Cardinality(OpenGroups) - k
      BY <2>1
    <2> HIDE DEF k
    <2>5. Passed("LP")' = Passed("RP")' + Cardinality(OpenGroups')
      BY <2>2, <2>3, <2>4 DEF Balanced
    <2> QED  BY <2>5 DEF Balanced
  <1> PICK caller : caller = stack[Height - 1]
    OBVIOUS
  <1>4. IsCall(caller) /\ Waits(caller, Top.fn)
    BY <1>2, ShapeTop
  <1>5. /\ Top'.fn = caller.fn /\ Top'.val = caller.val /\ Top'.got = <<x>> /\ Top'.local = caller.local
    BY <1>2, <1>4, GivenFields
  <1>6. Knows(caller.fn, caller.val, <<x>>, caller.local)'
    BY <1>4
  <1>7. Knows(Top.fn, Top.val, Top.got, Top.local)'
    BY <1>5, <1>6 DEF Knows
  <1> QED  BY <1>1, <1>2, <1>3, <1>7, NothingToName DEF Inv

LEMMA KnowsFresh ==
  /\ Opened' => Knows("alts", <<>>, <<>>, "")' /\ Knows("seq", <<>>, <<>>, "")'
  /\ Due' => Knows("elem", <<>>, <<>>, "")' /\ Knows("atom", <<>>, <<>>, "")'
  BY DEF Knows

\* What a running call has in sight.
LEMMA Reads ==
  ASSUME Inv, NEW fn, Running(fn)
  PROVE  /\ status = "reading" /\ Top.fn = fn /\ TypeOK /\ Shape /\ Balanced
         /\ Knows(Top.fn, Top.val, Top.got, Top.local)
         /\ IsCall(Top) /\ Ready(Top) /\ pos < Len(src) /\ pos \in Nat
         /\ fn # "elem" => /\ skipSpace < Len(src) /\ Rest[1] = src[skipSpace + 1] /\ Offender = Kind(Rest[1])
                           /\ Rest[1] \in Vocabulary \cup {SP, EndOfSource}
         /\ fn \in {"ebnf", "seq"} /\ Kind(Rest[1]) \in NameKinds => Behind(Rest) <= Len(Rest)
  <1>1. status = "reading" /\ ~NeedsLexeme /\ Top.fn = fn
    BY DEF Running
  <1>2. TypeOK /\ Shape /\ Balanced /\ Knows(Top.fn, Top.val, Top.got, Top.local)
    BY <1>1 DEF Inv
  <1>3. fn # "elem" => skipSpace < Len(src) /\ Rest # <<>>
    BY <1>1, <1>2, Sees, Sight
  <1>4. fn # "elem" => /\ Rest[1] = src[skipSpace + 1] /\ Offender = Kind(Rest[1])
                       /\ Rest[1] \in Vocabulary \cup {SP, EndOfSource}
    BY <1>2, <1>3, NextLexeme
  <1>5. fn \in {"ebnf", "seq"} /\ Kind(Rest[1]) \in NameKinds => Behind(Rest) <= Len(Rest)
    BY <1>1, <1>2, Sees
  <1>6. pos < Len(src) /\ pos \in Nat
    BY <1>1, <1>2, Sees, Sight
  <1> QED  BY <1>1, <1>2, <1>3, <1>4, <1>5, <1>6, ShapeTop

-----------------------------------------------------------------------------
(* The functions, one by one.                                               *)

\* A name and its operator have been consumed.
LEMMA MovingOverHead ==
  ASSUME TypeOK, skipSpace < Len(src), NEW op, op = Behind(Rest), op <= Len(Rest), Kind(Rest[1]) = "TX",
         Kind(Rest[op]) \in {"DEF", "DEFE"}, src' = src, pos' = skipSpace + op
  PROVE  /\ TypeOK' /\ Passed("LP")' = Passed("LP") /\ Passed("RP")' = Passed("RP") /\ Opened'
         /\ pos' > pos
  <1> PICK p : p = skipSpace
    OBVIOUS
  <1>1. /\ p \in Nat /\ Len(src) \in Nat /\ Len(Rest) = Len(src) - p
        /\ \A i \in 1 .. Len(src) - p : Rest[i] = src[p + i]
        /\ pos \in Nat /\ p \in pos .. Len(src) /\ p < Len(src)
        /\ \A i \in pos + 1 .. p : src[i] = SP
    BY Sight
  <1>2. op \in {2, 3} /\ (op = 3 => Rest[2] = SP)
    BY DEF Behind
  <1>3. p + op \in pos .. Len(src) /\ p + op > pos /\ src[p + op] = Rest[op] /\ src[p + 1] = Rest[1]
    <2>1. op \in Nat /\ op > 0 /\ op <= Len(src) - p
      BY <1>1, <1>2
    <2>2. 1 \in 1 .. Len(src) - p /\ op \in 1 .. Len(src) - p
      BY <1>1, <2>1
    <2>3. src[p + op] = Rest[op] /\ src[p + 1] = Rest[1]
      BY <1>1, <2>2
    <2>4. p + op \in pos .. Len(src) /\ p + op > pos
      BY <1>1, <2>1
    <2> QED  BY <2>3, <2>4
  <1>4. op = 3 => src[p + 2] = SP
    <2>1. op = 3 => 2 \in 1 .. Len(src) - p
      BY <1>1
    <2> QED  BY <1>1, <1>2, <2>1
  <1>5. ASSUME NEW i \in pos + 1 .. p + op
        PROVE  src[i] = SP \/ Kind(src[i]) = "TX" \/ Kind(src[i]) \in {"DEF", "DEFE"}
    <2>1. i \in pos + 1 .. p \/ i = p + 1 \/ i = p + op \/ (i = p + 2 /\ op = 3)
      BY <1>1, <1>2
    <2> HIDE DEF SP
    <2> QED  BY <1>1, <1>3, <1>4, <2>1
  <1>6. \A i \in pos + 1 .. p + op : src[i] # EndOfSource /\ Kind(src[i]) # "LP" /\ Kind(src[i]) # "RP"
    BY <1>5, Distinct
  <1>7. TypeOK' /\ Passed("LP")' = Passed("LP") /\ Passed("RP")' = Passed("RP")
    BY <1>3, <1>6, Moving, PassedNone
  <1>8. p + op > 0 /\ Kind(src[p + op]) \in {"DEF", "DEFE"}
    BY <1>1, <1>2, <1>3
  <1>9. Opened'
    BY <1>8 DEF Opened
  <1> QED  BY <1>3, <1>7, <1>9

LEMMA EbnfStep ==
  ASSUME Inv, ParseEbnf
  PROVE  Inv'
  <1> DEFINE name == Rest[1]
             op == Behind(Rest)
  <1>1. Running("ebnf")
    BY DEF ParseEbnf
  <1>2. /\ status = "reading" /\ Top.fn = "ebnf" /\ TypeOK /\ Shape /\ Balanced
        /\ Knows(Top.fn, Top.val, Top.got, Top.local) /\ IsCall(Top) /\ pos \in Nat
        /\ skipSpace < Len(src) /\ name = src[skipSpace + 1] /\ Offender = Kind(name)
        /\ name \in Vocabulary \cup {SP, EndOfSource}
        /\ Kind(name) \in NameKinds => op <= Len(Rest)
    BY <1>1, Reads
  <1>3. ~IsGroup(Top)
    BY <1>2 DEF IsGroup
  <1>4. CASE Top.got = <<>>
    <2>1. \/ name = EndOfSource /\ status' = "parsed" /\ src' = src /\ pos' = pos
          \/ name # EndOfSource /\ Kind(name) \notin NameKinds /\ Fail("no-rule-name")
          \/ Fail("symbol-name")
          \/ Kind(name) = "TX" /\ Kind(Rest[op]) \notin {"DEF", "DEFE"} /\ Fail("no-definition-operator")
          \/ /\ Kind(name) = "TX" /\ Kind(Rest[op]) \in {"DEF", "DEFE"}
             /\ Enter(skipSpace + op, WithLocal(Top, Text(name)), "alts")
      BY <1>4 DEF ParseEbnf, WithLocal
    <2>2. \/ Before \in {"ZZ", "SC"}
          \/ EndsAt(skipSpace) /\ ~NextIs(skipSpace, {"ALT", "SC"})
      <3>1. pos = 0 \/ Kind(src[pos]) = "SC" \/ (EndsAt(skipSpace) /\ ~NextIs(skipSpace, {"ALT", "SC"}))
        BY <1>2, <1>4 DEF Knows
      <3> QED  BY <1>2, <3>1, BeforeIs
    <2>3. Passed("LP") = Passed("RP")
      BY <1>2, NoGroupLeft
    <2>4. CASE name = EndOfSource /\ status' = "parsed" /\ src' = src /\ pos' = pos
      <3>1. TypeOK'
        BY <1>2, <2>4 DEF TypeOK
      <3> QED  BY <2>4, <3>1, NothingToName DEF Inv
    <2>5. CASE name # EndOfSource /\ Kind(name) \notin NameKinds /\ Fail("no-rule-name")
      <3>1. Before \in {"ZZ", "SC"} \/ Offender = "RP"
        <4>1. Kind(name) # "ZZ"
          BY <1>2, <2>5, KindOf
        <4> QED  BY <1>2, <2>2, <2>5, <4>1 DEF EndsAt, Heads, Marks, NextIs
      <3>2. NamesTheMistake'
        BY <1>2, <2>3, <2>5, <3>1, FailSight DEF NamesTheMistake
      <3> QED  BY <1>2, <2>5, <3>2, Failed
    <2>6. CASE Fail("symbol-name")
      <3>1. NamesTheMistake'
        BY <1>2, <2>6, FailSight DEF NamesTheMistake
      <3> QED  BY <1>2, <2>6, <3>1, Failed
    <2>7. CASE Kind(name) = "TX" /\ Kind(Rest[op]) \notin {"DEF", "DEFE"} /\ Fail("no-definition-operator")
      <3>1. ~EndsAt(skipSpace)
        <4>1. ~Heads(skipSpace)
          <5>1. /\ Len(Rest) = Len(src) - skipSpace /\ skipSpace \in Nat /\ Len(src) \in Nat
                /\ \A i \in 1 .. Len(src) - skipSpace : Rest[i] = src[skipSpace + i]
            BY <1>2, Sight
          <5>2. op <= Len(Rest) /\ op \in {2, 3} /\ (op = 3 <=> Rest[2] = SP /\ Len(Rest) > 1)
            BY <1>2, <2>7 DEF Behind, NameKinds
          <5>3. Rest[2] = src[skipSpace + 2] /\ Rest[op] = src[skipSpace + op]
            BY <5>1, <5>2
          <5> HIDE DEF SP, op
          <5>4. (IF src[skipSpace + 2] = SP THEN skipSpace + 3 ELSE skipSpace + 2) = skipSpace + op
            BY <5>1, <5>2, <5>3
          <5> QED  BY <2>7, <5>3, <5>4 DEF Heads
        <4> QED  BY <1>2, <2>7, <4>1 DEF EndsAt, Marks
      <3>2. NamesTheMistake'
        BY <1>2, <2>2, <2>3, <2>7, <3>1, FailSight DEF NamesTheMistake
      <3> QED  BY <1>2, <2>7, <3>2, Failed
    <2>8. CASE /\ Kind(name) = "TX" /\ Kind(Rest[op]) \in {"DEF", "DEFE"}
               /\ Enter(skipSpace + op, WithLocal(Top, Text(name)), "alts")
      <3> DEFINE self == WithLocal(Top, Text(name))
      <3>1. IsCall(self) /\ self.fn = Top.fn /\ self.got = <<>>
        BY <1>2, <1>4, LocalFields
      <3> HIDE DEF self
      <3>2. Enter(skipSpace + op, self, "alts")
        BY <2>8 DEF self
      <3>3. ~IsGroup(self) /\ Waits(self, "alts") /\ "alts" \in Functions
        BY <1>2, <3>1 DEF IsGroup, Waits, Callers, Functions
      <3>4. src' = src /\ pos' = skipSpace + op
        BY <3>2 DEF Enter
      <3>5. TypeOK' /\ Passed("LP")' = Passed("LP") /\ Passed("RP")' = Passed("RP") /\ Opened'
        BY <1>2, <2>8, <3>4, MovingOverHead DEF NameKinds
      <3>6. Knows("alts", <<>>, <<>>, "")'
        BY <3>5, KnowsFresh
      <3>7. Passed("LP")' = Passed("LP") + (IF IsGroup(self) THEN 1 ELSE 0)
        BY <1>2, <3>3, <3>5, PassedIs
      <3> QED  BY <1>2, <1>3, <3>1, <3>2, <3>3, <3>5, <3>6, <3>7, Entered
    <2> QED  BY <2>1, <2>4, <2>5, <2>6, <2>7, <2>8
  <1>5. CASE Top.got # <<>>
    <2> DEFINE v == Append(Top.val, [name |-> Top.local, alts |-> Top.got[1]])
               p == IF Kind(name) = "SC" THEN skipSpace + 1 ELSE skipSpace
    <2> PICK self : self = WithVal(WithGot(Top, <<>>), v)
      OBVIOUS
    <2>1. Stay(p, self)
      BY <1>5 DEF ParseEbnf, WithVal, WithGot
    <2>2. IsSeq(v)
      BY <1>2, Appended DEF IsCall
    <2> HIDE DEF v
    <2> DEFINE h == WithGot(Top, <<>>)
    <2>3. IsCall(h) /\ h = [fn |-> Top.fn, val |-> Top.val, got |-> <<>>, local |-> Top.local]
      BY <1>2, GotFields
    <2> HIDE DEF h
    <2>4. IsCall(self) /\ self.fn = "ebnf" /\ self.got = <<>> /\ self.val = v /\ self.local = Top.local
      <3>1. IsCall(WithVal(h, v)) /\ WithVal(h, v) = [fn |-> h.fn, val |-> v, got |-> h.got, local |-> h.local]
        BY <2>2, <2>3, ValFields
      <3>2. self = WithVal(h, v)
        BY DEF h
      <3> QED  BY <1>2, <2>3, <3>1, <3>2
    <2>5. EndsAt(skipSpace) /\ ~NextIs(skipSpace, {"ALT"})
      BY <1>2, <1>5 DEF Knows
    <2>6. src' = src /\ pos' = p
      BY <2>1 DEF Stay
    <2>7. CASE Kind(name) = "SC"
      <3>1. TypeOK' /\ Passed("LP")' = Passed("LP") /\ Passed("RP")' = Passed("RP")
        BY <1>2, <2>6, <2>7, MovingOver
      <3>2. Kind(src'[pos']) = "SC"
        BY <1>2, <2>6, <2>7
      <3>3. Knows(self.fn, self.val, self.got, self.local)'
        BY <2>4, <3>2 DEF Knows
      <3> QED  BY <1>2, <2>1, <2>4, <3>1, <3>3, Stayed
    <2>8. CASE Kind(name) # "SC"
      <3>1. TypeOK' /\ Passed("LP")' = Passed("LP") /\ Passed("RP")' = Passed("RP")
        BY <1>2, <2>6, <2>8, MovingOverSpace
      <3>2. EndsAt(skipSpace)' /\ ~NextIs(skipSpace, {"ALT", "SC"})'
        <4>1. EndsAt(skipSpace)' /\ (NextIs(skipSpace, {"ALT", "SC"})' <=> NextIs(skipSpace, {"ALT", "SC"}))
          BY <1>2, <2>5, <2>6, <2>8, <3>1, StaysAtEnd
        <4>2. ~NextIs(skipSpace, {"ALT", "SC"})
          BY <1>2, <2>5, <2>8 DEF NextIs
        <4> QED  BY <4>1, <4>2
      <3>3. Knows(self.fn, self.val, self.got, self.local)'
        BY <2>4, <3>2 DEF Knows
      <3> QED  BY <1>2, <2>1, <2>4, <3>1, <3>3, Stayed
    <2> QED  BY <2>7, <2>8
  <1> QED  BY <1>4, <1>5

LEMMA AltsStep ==
  ASSUME Inv, parseAlts
  PROVE  Inv'
  <1>1. Running("alts")
    BY DEF parseAlts
  <1>2. /\ status = "reading" /\ Top.fn = "alts" /\ TypeOK /\ Shape /\ Balanced
        /\ Knows(Top.fn, Top.val, Top.got, Top.local) /\ IsCall(Top) /\ pos \in Nat /\ pos < Len(src)
        /\ skipSpace < Len(src) /\ Rest[1] = src[skipSpace + 1]
    BY <1>1, Reads
  <1>3. ~IsGroup(Top) /\ "seq" \in Functions /\ Passed("LP") \in Nat /\ Passed("RP") \in Nat
    BY <1>2, PassedIs DEF IsGroup, Functions
  <1>4. CASE Top.got = <<>>
    <2>1. Enter(pos, Top, "seq")
      BY <1>4 DEF parseAlts
    <2>2. Waits(Top, "seq")
      BY <1>2, <1>4 DEF Waits, Callers
    <2>3. src' = src /\ pos' = pos
      BY <2>1 DEF Enter
    <2>4. TypeOK' /\ Passed("LP")' = Passed("LP") /\ Passed("RP")' = Passed("RP") /\ Opened'
      BY <1>2, <1>4, <2>3 DEF TypeOK, Passed, Knows, Opened
    <2>5. Passed("LP")' = Passed("LP") + (IF IsGroup(Top) THEN 1 ELSE 0)
      BY <1>3, <2>4
    <2> QED  BY <1>2, <1>3, <2>1, <2>2, <2>4, <2>5, KnowsFresh, Entered
  <1>5. CASE Top.got # <<>>
    <2> PICK self : self = Gathered(Top)
      OBVIOUS
    <2>1. IsCall(self) /\ self.fn = "alts" /\ self.got = <<>>
      BY <1>2, GatheredFields
    <2>2. EndsAt(skipSpace)
      BY <1>2, <1>5 DEF Knows
    <2>3. CASE Kind(Rest[1]) = "ALT"
      <3>1. Enter(skipSpace + 1, self, "seq")
        BY <1>5, <2>3 DEF parseAlts, Gathered
      <3>2. ~IsGroup(self) /\ Waits(self, "seq")
        BY <2>1 DEF IsGroup, Waits, Callers
      <3>3. src' = src /\ pos' = skipSpace + 1
        BY <3>1 DEF Enter
      <3>4. TypeOK' /\ Passed("LP")' = Passed("LP") /\ Passed("RP")' = Passed("RP")
        BY <1>2, <2>3, <3>3, MovingOver
      <3>5. Opened'
        <4>1. skipSpace + 1 > 0 /\ Kind(src[skipSpace + 1]) = "ALT"
          BY <1>2, <2>3, Sight
        <4> QED  BY <3>3, <4>1 DEF Opened
      <3>6. Passed("LP")' = Passed("LP") + (IF IsGroup(self) THEN 1 ELSE 0)
        BY <1>3, <3>2, <3>4
      <3> QED  BY <1>2, <1>3, <2>1, <3>1, <3>2, <3>4, <3>5, <3>6, KnowsFresh, Entered
    <2>4. CASE Kind(Rest[1]) # "ALT"
      <3>1. Return(skipSpace, self.val)
        BY <1>5, <2>4 DEF parseAlts, Gathered
      <3>2. src' = src /\ pos' = skipSpace
        BY <3>1 DEF Return
      <3>3. TypeOK' /\ Passed("LP")' = Passed("LP") /\ Passed("RP")' = Passed("RP")
        BY <1>2, <3>2, MovingOverSpace
      <3>4. EndsAt(skipSpace)' /\ ~NextIs(skipSpace, {"ALT"})'
        <4>1. EndsAt(skipSpace)' /\ (NextIs(skipSpace, {"ALT"})' <=> NextIs(skipSpace, {"ALT"}))
          BY <1>2, <2>2, <3>2, <3>3, StaysAtEnd
        <4>2. ~NextIs(skipSpace, {"ALT"})
          BY <1>2, <2>4 DEF NextIs
        <4> QED  BY <4>1, <4>2
      <3>5. ASSUME NEW caller, Waits(caller, Top.fn)
            PROVE  Knows(caller.fn, caller.val, <<self.val>>, caller.local)'
        <4>1. caller.fn = "ebnf" \/ (caller.fn = "atom" /\ caller.local = "group")
          BY <1>2, <3>5 DEF Waits, Callers
        <4>2. <<self.val>> # <<>>
          OBVIOUS
        <4> QED  BY <3>4, <4>1, <4>2 DEF Knows
      <3>6. Passed("RP")' = Passed("RP") + (IF IsGroup(Top) THEN 1 ELSE 0)
        BY <1>3, <3>3
      <3> QED  BY <1>2, <3>1, <3>3, <3>5, <3>6, Returned
    <2> QED  BY <2>3, <2>4
  <1> QED  BY <1>4, <1>5

LEMMA SeqStep ==
  ASSUME Inv, parseSeq
  PROVE  Inv'
  <1>1. Running("seq")
    BY DEF parseSeq
  <1>2. /\ status = "reading" /\ Top.fn = "seq" /\ TypeOK /\ Shape /\ Balanced
        /\ Knows(Top.fn, Top.val, Top.got, Top.local) /\ IsCall(Top) /\ pos \in Nat /\ pos < Len(src)
        /\ skipSpace < Len(src) /\ Rest[1] = src[skipSpace + 1] /\ Offender = Kind(Rest[1])
        /\ Kind(Rest[1]) \in NameKinds => Behind(Rest) <= Len(Rest)
    BY <1>1, Reads
  <1>3. ~IsGroup(Top) /\ "elem" \in Functions /\ Passed("LP") \in Nat /\ Passed("RP") \in Nat
    BY <1>2, PassedIs DEF IsGroup, Functions
  <1>0. PICK self : self = WithLocal(Gathered(Top), "")
    OBVIOUS
  <1>4. /\ IsCall(self) /\ self.fn = "seq" /\ self.got = <<>> /\ self.local # "comma"
        /\ self.val = <<>> <=> Top.val = <<>> /\ Top.got = <<>>
    <2>1. PICK g : g = Gathered(Top)
      OBVIOUS
    <2>2. /\ IsCall(g) /\ g.fn = Top.fn /\ g.got = <<>>
          /\ g.val = <<>> <=> Top.val = <<>> /\ Top.got = <<>>
      BY <1>2, <2>1, GatheredFields
    <2>3. self = WithLocal(g, "")
      BY <1>0, <2>1
    <2>4. IsCall(self) /\ self.fn = g.fn /\ self.got = g.got /\ self.val = g.val /\ self.local = ""
      BY <2>2, <2>3, LocalFields
    <2> QED  BY <1>2, <2>2, <2>4
  <1>5. /\ atSeqEnd(Rest) => EndsAt(skipSpace)
        /\ ~atSeqEnd(Rest) => Kind(Rest[1]) \notin Marks
    BY <1>2, AtEnd
  <1>6. self.val = <<>> => AtStart
    BY <1>2, <1>4, BeforeIs DEF Knows
  <1>7. Top.local = "comma" => Before = "CA"
    BY <1>2, BeforeIs DEF Knows
  <1>8. \/ atSeqEnd(Rest) /\ self.val = <<>> /\ Fail("empty-alternative")
        \/ atSeqEnd(Rest) /\ Top.local = "comma" /\ Fail("trailing-comma")
        \/ atSeqEnd(Rest) /\ Return(skipSpace, self.val)
        \/ ~atSeqEnd(Rest) /\ Kind(Rest[1]) = "CA" /\ self.val = <<>> /\ Fail("leading-comma")
        \/ /\ ~atSeqEnd(Rest) /\ Kind(Rest[1]) = "CA" /\ self.val # <<>>
           /\ Stay(skipSpace + 1, WithLocal(self, "comma"))
        \/ ~atSeqEnd(Rest) /\ Enter(skipSpace, self, "elem")
    BY <1>0, Zenon DEF parseSeq, WithLocal, Gathered
  <1>9. atSeqEnd(Rest) => Offender \in NameKinds \cup {"ALT", "RP", "SC", "ZZ"}
    BY <1>2, <1>5 DEF EndsAt, Marks, Heads
  <1>10. CASE atSeqEnd(Rest) /\ self.val = <<>> /\ Fail("empty-alternative")
    <2>1. NamesTheMistake'
      BY <1>2, <1>6, <1>9, <1>10, FailSight DEF NamesTheMistake
    <2> QED  BY <1>2, <1>10, <2>1, Failed
  <1>11. CASE atSeqEnd(Rest) /\ Top.local = "comma" /\ Fail("trailing-comma")
    <2>1. NamesTheMistake'
      BY <1>2, <1>7, <1>9, <1>11, FailSight DEF NamesTheMistake
    <2> QED  BY <1>2, <1>11, <2>1, Failed
  <1>12. CASE ~atSeqEnd(Rest) /\ Kind(Rest[1]) = "CA" /\ self.val = <<>> /\ Fail("leading-comma")
    <2>1. NamesTheMistake'
      BY <1>2, <1>6, <1>12, FailSight DEF NamesTheMistake
    <2> QED  BY <1>2, <1>12, <2>1, Failed
  <1>13. CASE atSeqEnd(Rest) /\ Return(skipSpace, self.val)
    <2>1. src' = src /\ pos' = skipSpace
      BY <1>13 DEF Return
    <2>2. TypeOK' /\ Passed("LP")' = Passed("LP") /\ Passed("RP")' = Passed("RP")
      BY <1>2, <2>1, MovingOverSpace
    <2>3. EndsAt(skipSpace)'
      BY <1>2, <1>5, <1>13, <2>1, <2>2, StaysAtEnd
    <2>4. ASSUME NEW caller, Waits(caller, Top.fn)
          PROVE  Knows(caller.fn, caller.val, <<self.val>>, caller.local)'
      <3>1. caller.fn = "alts" /\ <<self.val>> # <<>>
        BY <1>2, <2>4 DEF Waits, Callers
      <3> QED  BY <2>3, <3>1 DEF Knows
    <2>5. Passed("RP")' = Passed("RP") + (IF IsGroup(Top) THEN 1 ELSE 0)
      BY <1>3, <2>2
    <2> QED  BY <1>2, <1>13, <2>2, <2>4, <2>5, Returned
  <1>14. CASE /\ ~atSeqEnd(Rest) /\ Kind(Rest[1]) = "CA" /\ self.val # <<>>
              /\ Stay(skipSpace + 1, WithLocal(self, "comma"))
    <2>0. PICK it : it = WithLocal(self, "comma")
      OBVIOUS
    <2>1. IsCall(it) /\ it.fn = "seq" /\ it.val # <<>> /\ Stay(skipSpace + 1, it)
      BY <1>4, <1>14, <2>0, LocalFields
    <2>2. src' = src /\ pos' = skipSpace + 1
      BY <2>1 DEF Stay
    <2>3. TypeOK' /\ Passed("LP")' = Passed("LP") /\ Passed("RP")' = Passed("RP")
      BY <1>2, <1>14, <2>2, MovingOver
    <2>4. AfterComma'
      <3>1. skipSpace + 1 > 0 /\ Kind(src[skipSpace + 1]) = "CA"
        BY <1>2, <1>14, Sight
      <3> QED  BY <2>2, <3>1 DEF AfterComma
    <2>5. Knows(it.fn, it.val, it.got, it.local)'
      BY <2>1, <2>4 DEF Knows
    <2> QED  BY <1>2, <2>1, <2>3, <2>5, Stayed
  <1>15. CASE ~atSeqEnd(Rest) /\ Enter(skipSpace, self, "elem")
    <2>1. src' = src /\ pos' = skipSpace
      BY <1>15 DEF Enter
    <2>2. TypeOK' /\ Passed("LP")' = Passed("LP") /\ Passed("RP")' = Passed("RP")
      BY <1>2, <2>1, MovingOverSpace
    <2>3. Due'
      <3>1. Opened \/ AfterComma \/ NoPostfix
        BY <1>2 DEF Knows
      <3>2. CASE skipSpace = pos
        <4>1. Before' = Before /\ (NoPostfix' <=> NoPostfix)
          BY <2>1, <3>2 DEF Before, NoPostfix
        <4>2. AtStart' <=> AtStart
          BY <4>1 DEF AtStart
        <4> QED  BY <1>2, <3>1, <4>1, <4>2, BeforeIs DEF Due
      <3>3. CASE skipSpace # pos
        <4>1. skipSpace > 0 /\ src[skipSpace] = SP
          BY <1>2, <3>3, Sight
        <4> HIDE DEF SP
        <4>2. pos' > 0 /\ src'[pos'] = SP
          BY <2>1, <4>1
        <4> QED  BY <4>2 DEF Due
      <3> QED  BY <3>2, <3>3
    <2>4. ~IsGroup(self) /\ Waits(self, "elem")
      BY <1>4 DEF IsGroup, Waits, Callers
    <2>5. Passed("LP")' = Passed("LP") + (IF IsGroup(self) THEN 1 ELSE 0)
      BY <1>3, <2>2, <2>4
    <2> QED  BY <1>2, <1>3, <1>4, <1>15, <2>2, <2>3, <2>4, <2>5, KnowsFresh, Entered
  <1> QED  BY <1>8, <1>10, <1>11, <1>12, <1>13, <1>14, <1>15

LEMMA ElemStep ==
  ASSUME Inv, parseElem
  PROVE  Inv'
  <1>1. Running("elem")
    BY DEF parseElem
  <1>2. /\ status = "reading" /\ Top.fn = "elem" /\ TypeOK /\ Shape /\ Balanced
        /\ Knows(Top.fn, Top.val, Top.got, Top.local) /\ IsCall(Top) /\ pos \in Nat /\ pos < Len(src)
        /\ Ahead[1] = src[pos + 1]
    BY <1>1, Reads, Sight
  <1>3. ~IsGroup(Top) /\ "atom" \in Functions /\ Passed("LP") \in Nat /\ Passed("RP") \in Nat
    BY <1>2, PassedIs DEF IsGroup, Functions
  <1>4. CASE Top.got = <<>>
    <2>1. Enter(pos, Top, "atom")
      BY <1>4 DEF parseElem
    <2>2. Waits(Top, "atom")
      BY <1>2, <1>4 DEF Waits, Callers
    <2>3. src' = src /\ pos' = pos
      BY <2>1 DEF Enter
    <2>4. TypeOK' /\ Passed("LP")' = Passed("LP") /\ Passed("RP")' = Passed("RP")
      BY <1>2, <2>3 DEF TypeOK, Passed
    <2>5. Due'
      <3>1. Before' = Before /\ (NoPostfix' <=> NoPostfix)
        BY <2>3 DEF Before, NoPostfix
      <3>2. AtStart' <=> AtStart
        BY <3>1 DEF AtStart
      <3>3. Due
        BY <1>2, <1>4 DEF Knows
      <3> QED  BY <2>3, <3>1, <3>2, <3>3 DEF Due
    <2>6. Passed("LP")' = Passed("LP") + (IF IsGroup(Top) THEN 1 ELSE 0)
      BY <1>3, <2>4
    <2> QED  BY <1>2, <1>3, <2>1, <2>2, <2>4, <2>5, <2>6, KnowsFresh, Entered
  <1>5. CASE Top.got # <<>> /\ Kind(src[pos + 1]) \in Postfix
    <2>0. PICK x : x = << <<Operator(Kind(Ahead[1])), Top.got[1]>> >>
      OBVIOUS
    <2>1. PICK self : self = WithGot(Top, x)
      OBVIOUS
    <2>2. Stay(pos + 1, self)
      BY <1>2, <1>5, <2>0, <2>1 DEF parseElem, WithGot
    <2>3. x = <<x[1]>> /\ x # <<>>
      BY <2>0
    <2>4. IsCall(self) /\ self.fn = "elem" /\ self.got # <<>>
      BY <1>2, <2>1, <2>3, GotFields
    <2>5. src' = src /\ pos' = pos + 1
      BY <2>2 DEF Stay
    <2>6. TypeOK' /\ Passed("LP")' = Passed("LP") /\ Passed("RP")' = Passed("RP")
      <3>1. pos + 1 \in pos .. Len(src)
        BY <1>2, Sight
      <3>2. ASSUME NEW i \in pos + 1 .. pos + 1
            PROVE  src[i] # EndOfSource /\ Kind(src[i]) # "LP" /\ Kind(src[i]) # "RP"
        <4>1. i = pos + 1
          BY <1>2
        <4> QED  BY <1>5, <4>1, Distinct DEF Postfix
      <3> QED  BY <1>2, <2>5, <3>1, <3>2, Moving, PassedNone
    <2>7. Knows(self.fn, self.val, self.got, self.local)'
      BY <2>4 DEF Knows
    <2> QED  BY <1>2, <2>2, <2>4, <2>6, <2>7, Stayed
  <1>6. CASE Top.got # <<>> /\ Kind(src[pos + 1]) \notin Postfix
    <2>1. PICK x : x = Top.got[1]
      OBVIOUS
    <2>2. Return(pos, x)
      BY <1>2, <1>6, <2>1 DEF parseElem
    <2>3. src' = src /\ pos' = pos
      BY <2>2 DEF Return
    <2>4. TypeOK' /\ Passed("LP")' = Passed("LP") /\ Passed("RP")' = Passed("RP")
      BY <1>2, <2>3 DEF TypeOK, Passed
    <2>5. NoPostfix'
      BY <1>2, <1>6, <2>3 DEF NoPostfix
    <2>6. ASSUME NEW caller, Waits(caller, Top.fn)
          PROVE  Knows(caller.fn, caller.val, <<x>>, caller.local)'
      <3>1. caller.fn = "seq" /\ caller.local # "comma" /\ <<x>> # <<>>
        BY <1>2, <2>6 DEF Waits, Callers
      <3> QED  BY <2>5, <3>1 DEF Knows
    <2>7. Passed("RP")' = Passed("RP") + (IF IsGroup(Top) THEN 1 ELSE 0)
      BY <1>3, <2>4
    <2> QED  BY <1>2, <2>2, <2>4, <2>6, <2>7, Returned
  <1> QED  BY <1>4, <1>5, <1>6

\* What cannot begin an atom is refused for what it is.
LEMMA Reasons ==
  ASSUME NEW tkn
  PROVE  /\ Unreadable(tkn) \in {"no-expression", "special-sequence", "subtraction", "ISO-repetition",
                                 "dangling-postfix", "unclosed-character-class", "symbol-name",
                                 "empty-literal", "character-class", "code-point", "unexpected-character"}
         /\ Unreadable(tkn) = "special-sequence" => Kind(tkn) = "QM"
         /\ Unreadable(tkn) = "dangling-postfix" => Kind(tkn) \in {"STAR", "PLUS"}
         /\ Unreadable(tkn) = "subtraction" => Kind(tkn) = "SUB"
         /\ Unreadable(tkn) = "ISO-repetition" => Kind(tkn) \in {"OB", "CB"}
  BY Zenon DEF Unreadable

LEMMA AtomStep ==
  ASSUME Inv, parseAtom
  PROVE  Inv'
  <1> DEFINE tkn == Rest[1]
  <1>1. Running("atom")
    BY DEF parseAtom
  <1>2. /\ status = "reading" /\ Top.fn = "atom" /\ TypeOK /\ Shape /\ Balanced
        /\ Knows(Top.fn, Top.val, Top.got, Top.local) /\ IsCall(Top) /\ Ready(Top) /\ pos \in Nat
        /\ pos < Len(src) /\ skipSpace < Len(src) /\ tkn = src[skipSpace + 1] /\ Offender = Kind(tkn)
        /\ tkn \in Vocabulary \cup {SP, EndOfSource}
    BY <1>1, Reads
  <1>3. "alts" \in Functions /\ Passed("LP") \in Nat /\ Passed("RP") \in Nat
    BY <1>2, PassedIs DEF Functions
  <1>4. IsGroup(Top) <=> Top.local = "group"
    BY <1>2 DEF IsGroup
  <1>5. ASSUME NEW caller, Waits(caller, Top.fn), NEW x
        PROVE  Knows(caller.fn, caller.val, <<x>>, caller.local)'
    <2>1. caller.fn = "elem" /\ <<x>> # <<>>
      BY <1>2, <1>5 DEF Waits, Callers
    <2> QED  BY <2>1 DEF Knows
  <1>6. CASE Top.local = "group" /\ Kind(tkn) = "RP"
    <2>1. PICK x : x = <<"group", Top.got[1]>>
      OBVIOUS
    <2>2. Return(skipSpace + 1, x)
      BY <1>6, <2>1 DEF parseAtom
    <2>3. src' = src /\ pos' = skipSpace + 1
      BY <2>2 DEF Return
    <2>4. TypeOK' /\ Passed("RP")' = Passed("RP") + 1 /\ Passed("LP")' = Passed("LP")
      <3>1. {"RP", "LP"} = {"LP", "RP"} /\ "RP" # "LP" /\ Kind(src[skipSpace + 1]) = "RP"
        BY <1>2, <1>6
      <3> QED  BY <1>2, <2>3, <3>1, MovingOverParenthesis
    <2>5. Passed("RP")' = Passed("RP") + (IF IsGroup(Top) THEN 1 ELSE 0)
      BY <1>4, <1>6, <2>4
    <2> QED  BY <1>2, <1>5, <2>2, <2>4, <2>5, Returned
  <1>7. CASE Top.local = "group" /\ Kind(tkn) # "RP"
    <2>1. Fail("unclosed-group")
      BY <1>7 DEF parseAtom
    <2>2. Passed("LP") > Passed("RP")
      BY <1>2, <1>4, <1>7, AGroupLeft
    <2>3. Offender \in NameKinds \cup {"SC", "ZZ"}
      <3>1. EndsAt(skipSpace) /\ ~NextIs(skipSpace, {"ALT"})
        BY <1>2, <1>7 DEF Knows
      <3> QED  BY <1>2, <1>7, <3>1 DEF EndsAt, Heads, Marks, NextIs
    <2>4. NamesTheMistake'
      BY <1>2, <2>1, <2>2, <2>3, FailSight DEF NamesTheMistake
    <2> QED  BY <1>2, <2>1, <2>4, Failed
  <1>8. CASE Top.local # "group"
    <2>1. \/ tkn \in Written(AtomKinds) /\ Return(skipSpace + 1, Leaf(tkn))
          \/ Kind(tkn) = "LP" /\ Enter(skipSpace + 1, WithLocal(Top, "group"), "alts")
          \/ Fail(Unreadable(tkn))
      BY <1>8, Zenon DEF parseAtom, WithLocal
    <2>2. ~IsGroup(Top) /\ Top.got = <<>> /\ Due
      BY <1>2, <1>4, <1>8 DEF Ready, Knows
    <2>3. CASE tkn \in Written(AtomKinds) /\ Return(skipSpace + 1, Leaf(tkn))
      <3>1. PICK x : x = Leaf(tkn)
        OBVIOUS
      <3>2. Return(skipSpace + 1, x)
        BY <2>3, <3>1
      <3>3. src' = src /\ pos' = skipSpace + 1
        BY <3>2 DEF Return
      <3>4. Kind(src[skipSpace + 1]) \notin {"ZZ", "LP", "RP"}
        BY <1>2, <2>3 DEF Written, AtomKinds
      <3>5. TypeOK' /\ Passed("LP")' = Passed("LP") /\ Passed("RP")' = Passed("RP")
        BY <1>2, <3>3, <3>4, MovingOver
      <3>6. Passed("RP")' = Passed("RP") + (IF IsGroup(Top) THEN 1 ELSE 0)
        BY <1>3, <2>2, <3>5
      <3> QED  BY <1>2, <1>5, <3>2, <3>5, <3>6, Returned
    <2>4. CASE Kind(tkn) = "LP" /\ Enter(skipSpace + 1, WithLocal(Top, "group"), "alts")
      <3>1. PICK self : self = WithLocal(Top, "group")
        OBVIOUS
      <3>2. IsCall(self) /\ self.fn = "atom" /\ self.got = <<>> /\ self.local = "group"
        BY <1>2, <2>2, <3>1, LocalFields
      <3>3. Enter(skipSpace + 1, self, "alts") /\ IsGroup(self) /\ Waits(self, "alts")
        BY <2>4, <3>1, <3>2 DEF IsGroup, Waits, Callers
      <3>4. src' = src /\ pos' = skipSpace + 1
        BY <3>3 DEF Enter
      <3>5. TypeOK' /\ Passed("LP")' = Passed("LP") + 1 /\ Passed("RP")' = Passed("RP")
        <4>1. "LP" # "RP" /\ Kind(src[skipSpace + 1]) = "LP"
          BY <1>2, <2>4
        <4> QED  BY <1>2, <3>4, <4>1, MovingOverParenthesis
      <3>6. Opened'
        <4>1. skipSpace + 1 > 0 /\ Kind(src[skipSpace + 1]) = "LP"
          BY <1>2, <2>4, Sight
        <4> QED  BY <3>4, <4>1 DEF Opened
      <3>7. Passed("LP")' = Passed("LP") + (IF IsGroup(self) THEN 1 ELSE 0)
        BY <3>3, <3>5
      <3> QED  BY <1>2, <1>3, <2>2, <3>2, <3>3, <3>5, <3>6, <3>7, KnowsFresh, Entered
    <2>5. CASE Fail(Unreadable(tkn))
      <3>1. PICK why : why = Unreadable(tkn)
        OBVIOUS
      <3>2. /\ why \in {"no-expression", "special-sequence", "subtraction", "ISO-repetition",
                        "dangling-postfix", "unclosed-character-class", "symbol-name",
                        "empty-literal", "character-class", "code-point", "unexpected-character"}
            /\ why = "special-sequence" => Offender = "QM"
            /\ why = "dangling-postfix" => Offender \in {"STAR", "PLUS"}
            /\ why = "subtraction" => Offender = "SUB"
            /\ why = "ISO-repetition" => Offender \in {"OB", "CB"}
        BY <1>2, <3>1, Reasons
      <3>3. Fail(why)
        BY <2>5, <3>1
      <3>4. Offender \in Postfix => AtStart \/ Before = "CA" \/ SpaceBehind
        <4>1. CASE skipSpace = pos
          <5>1. NoPostfix => Offender \notin Postfix
            BY <1>2, <4>1 DEF NoPostfix
          <5>2. pos > 0 /\ src[pos] = SP => SpaceBehind
            BY <4>1 DEF SpaceBehind
          <5> QED  BY <2>2, <5>1, <5>2 DEF Due
        <4>2. CASE skipSpace # pos
          <5>1. skipSpace > 0 /\ src[skipSpace] = SP
            BY <1>2, <4>2, Sight
          <5> QED  BY <5>1 DEF SpaceBehind
        <4> QED  BY <4>1, <4>2
      <3>5. NamesTheMistake'
        BY <1>2, <3>2, <3>3, <3>4, FailSight DEF NamesTheMistake, Postfix
      <3> QED  BY <1>2, <3>2, <3>3, <3>5, Failed
    <2> QED  BY <2>1, <2>3, <2>4, <2>5
  <1> QED  BY <1>6, <1>7, <1>8

LEMMA ReadStep ==
  ASSUME Inv, Read
  PROVE  Inv'
  <1>1. PICK tkn \in {EndOfSource} \cup Vocabulary \cup {SP} : src' = Append(src, tkn)
    BY DEF Read
  <1>2. /\ status = "reading" /\ ~Ended /\ pos' = pos /\ stack' = stack /\ status' = status /\ TypeOK /\ Shape
        /\ Knows(Top.fn, Top.val, Top.got, Top.local) /\ Balanced
    BY DEF Read, NeedsLexeme, Inv
  <1>3. TypeOK'
    BY <1>1, <1>2, ReadTypes
  <1>4. Shape'
    BY <1>2 DEF Shape, Height
  <1>5. Knows(Top.fn, Top.val, Top.got, Top.local)'
    BY <1>1, <1>2, <1>3, ReadKnows
  <1>6. Balanced'
    <2>1. Passed("LP")' = Passed("LP") /\ Passed("RP")' = Passed("RP")
      BY <1>1, <1>2, ReadPassed
    <2>2. OpenGroups' = OpenGroups
      BY <1>2 DEF OpenGroups, Height, IsGroup
    <2> QED  BY <1>2, <2>1, <2>2 DEF Balanced
  <1> QED  BY <1>2, <1>3, <1>4, <1>5, <1>6, NothingToName DEF Inv

LEMMA InitInv ==
  ASSUME Init
  PROVE  Inv
  <1>1. src = <<>> /\ pos = 0 /\ stack = <<Call("ebnf")>> /\ status = "reading" /\ "ebnf" \in Functions
    BY DEF Init, Functions
  <1>2. TypeOK
    BY <1>1 DEF TypeOK
  <1> PICK c : c = Call("ebnf")
    OBVIOUS
  <1>3. IsCall(c) /\ c.fn = "ebnf" /\ c.got = <<>> /\ Ready(c) /\ ~IsGroup(c)
    BY <1>1, NewCall
  <1>4. Height = 1 /\ stack[1] = c /\ IsSeq(stack) /\ Top = c /\ stack # <<>>
    <2>1. stack = <<c>> /\ c \in {c}
      BY <1>1
    <2>2. stack \in Seq({c}) /\ Len(stack) = 1 /\ stack[1] = c
      BY <2>1
    <2>3. stack \in Seq(Range(stack))
      BY <2>2, SeqOfRange
    <2>4. stack # <<>>
      <3>1. <<c>> # <<>>
        OBVIOUS
      <3> QED  BY <2>1, <3>1
    <2>5. Top = c /\ Height = 1 /\ IsSeq(stack)
      BY <2>2, <2>3 DEF Height, IsSeq, Top, Last
    <2> QED  BY <2>2, <2>4, <2>5
  <1>5. Shape
    BY <1>3, <1>4 DEF Shape
  <1>6. Knows(Top.fn, Top.val, Top.got, Top.local)
    BY <1>1, <1>3, <1>4 DEF Knows
  <1>7. Balanced
    <2>1. OpenGroups = {}
      BY <1>3, <1>4 DEF OpenGroups
    <2>2. Passed("LP") = 0 /\ Passed("RP") = 0
      <3>1. 1 .. pos = {}
        BY <1>1
      <3>2. \A kind : {i \in 1 .. pos : Kind(src[i]) = kind} = {}
        BY <3>1
      <3> QED  BY <3>2, FS_EmptySet DEF Passed
    <2> QED  BY <2>1, <2>2, FS_EmptySet DEF Balanced
  <1> QED  BY <1>1, <1>2, <1>5, <1>6, <1>7 DEF Inv, NamesTheMistake

-----------------------------------------------------------------------------
(* The theorems.                                                            *)

LEMMA Unchanged ==
  ASSUME Inv, UNCHANGED vars
  PROVE  Inv'
  <1>1. src' = src /\ pos' = pos /\ stack' = stack /\ status' = status
    BY DEF vars
  <1>2. TypeOK' /\ (status' = "reading" => Shape' /\ Balanced')
    BY <1>1 DEF Inv, TypeOK, Shape, Height, Balanced, Passed, OpenGroups, IsGroup
  <1>3. Top' = Top /\ Ahead' = Ahead
    BY <1>1 DEF Top, Ahead
  <1>4. skipSpace' = skipSpace
    BY <1>1, <1>3 DEF skipSpace
  <1>5. Rest' = Rest /\ Before' = Before /\ (SpaceBehind' <=> SpaceBehind)
    BY <1>1, <1>4 DEF Rest, Before, SpaceBehind
  <1>6. Offender' = Offender /\ (AtStart' <=> AtStart)
    BY <1>5 DEF Offender, AtStart
  <1>7. NamesTheMistake'
    BY <1>1, <1>5, <1>6 DEF Inv, NamesTheMistake, Passed
  <1>8. status' = "reading" => Knows(Top.fn, Top.val, Top.got, Top.local)'
    BY <1>1, <1>3, <1>4, <1>5, <1>6 DEF Inv, Knows, Opened, AfterComma, EndsAt, Heads, NextIs, NoPostfix, Due
  <1> QED  BY <1>2, <1>7, <1>8 DEF Inv

LEMMA NextInv ==
  ASSUME Inv, [Next]_vars
  PROVE  Inv'
  <1>1. CASE Next
    BY <1>1, ReadStep, EbnfStep, AltsStep, SeqStep, ElemStep, AtomStep, Unchanged DEF Next
  <1>2. CASE UNCHANGED vars
    BY <1>2, Unchanged
  <1> QED  BY <1>1, <1>2

\* The calls are always those of the descent, and each knows what is around it: who
\* waits for whom, which groups are open, where an operator may not come.
THEOREM GoStackIsSound == Spec => []Inv
  <1>1. Init => Inv
    BY InitInv
  <1>2. Inv /\ [Next]_vars => Inv'
    BY NextInv
  <1> QED  BY <1>1, <1>2, PTL DEF Spec

\* Whatever the source and however long, the parser's diagnostics are about what stands
\* where it stopped.
THEOREM GoNamesMistakes == Spec => []NamesTheMistake
  <1>1. Inv => NamesTheMistake
    BY DEF Inv
  <1> QED  BY <1>1, GoStackIsSound, PTL

\* The rank of a running call f with h calls active.
RankAt(h, f) ==
  4 * h + (IF f.fn = "seq" THEN 10
           ELSE IF f.got = <<>> THEN [ebnf |-> 0, alts |-> 15, elem |-> 5, atom |-> 0][f.fn]
           ELSE [ebnf |-> 1, alts |-> 0, elem |-> 7, atom |-> 0][f.fn])

LEMMA RankIs == Rank = RankAt(Height, Top) /\ Rank' = RankAt(Height, Top)'
  BY DEF Rank, RankAt, Height

LEMMA Ranks ==
  ASSUME NEW h \in Nat, NEW f, f.fn \in Functions
  PROVE  /\ RankAt(h, f) \in Nat
         /\ f.fn = "seq" => RankAt(h, f) = 4 * h + 10
         /\ f.fn = "atom" => RankAt(h, f) = 4 * h
         /\ f.got = <<>> /\ f.fn = "ebnf" => RankAt(h, f) = 4 * h
         /\ f.got = <<>> /\ f.fn = "alts" => RankAt(h, f) = 4 * h + 15
         /\ f.got = <<>> /\ f.fn = "elem" => RankAt(h, f) = 4 * h + 5
         /\ f.got # <<>> /\ f.fn = "ebnf" => RankAt(h, f) = 4 * h + 1
         /\ f.got # <<>> /\ f.fn = "alts" => RankAt(h, f) = 4 * h
         /\ f.got # <<>> /\ f.fn = "elem" => RankAt(h, f) = 4 * h + 7
  BY DEF RankAt, Functions

LEMMA ShapeNext ==
  ASSUME Shape'
  PROVE  Height' \in Nat \ {0} /\ Top'.fn \in Functions
  <1>1. Height' \in Nat \ {0} /\ Top' = stack'[Height'] /\ Height' \in 1 .. Height'
    BY DEF Shape, IsSeq, Height, Top, Last
  <1> QED  BY <1>1 DEF Shape, IsCall

LEMMA EnterRank ==
  ASSUME Shape, NEW p, NEW self, NEW fn \in Functions, Enter(p, self, fn)
  PROVE  Height' = Height + 1 /\ Top' = Call(fn)
  <1>1. IsSeq(stack') /\ Height' = Height + 1 /\ stack'[Height + 1] = Call(fn)
    BY Extended DEF Enter, Shape, Height
  <1>2. Len(stack') = Height + 1 /\ stack' \in Seq(Range(stack')) /\ Height \in Nat
    BY <1>1, ShapeTop DEF Height, IsSeq
  <1> QED  BY <1>1, <1>2 DEF Top, Last

LEMMA StayRank ==
  ASSUME Shape, NEW p, NEW self, Stay(p, self)
  PROVE  Height' = Height /\ Top' = self
  <1>1. IsSeq(stack') /\ Height' = Height /\ stack'[Height] = self
    BY Retopped DEF Stay, Shape, Height
  <1>2. Len(stack') = Height /\ stack' \in Seq(Range(stack')) /\ Height \in Nat \ {0}
    BY <1>1, ShapeTop DEF Height, IsSeq
  <1> QED  BY <1>1, <1>2 DEF Top, Last

LEMMA ReturnRank ==
  ASSUME Shape, NEW p, NEW x, Return(p, x), Top.fn # "ebnf"
  PROVE  /\ Height' = Height - 1 /\ Height > 1 /\ Top'.fn \in Callers[Top.fn] /\ Top'.got # <<>>
         /\ Callers[Top.fn] \subseteq Functions
  <1>1. Height' = Height - 1 /\ Height > 1 /\ Top' = Given(stack[Height - 1], x)
    BY Returning
  <1>2. IsCall(stack[Height - 1]) /\ Waits(stack[Height - 1], Top.fn) /\ Top.fn \in Functions
    BY ShapeTop DEF IsCall
  <1>3. Callers[Top.fn] \subseteq Functions
    BY <1>2 DEF Callers, Functions
  <1> QED  BY <1>1, <1>2, <1>3, GivenFields DEF Waits

\* A step that goes on reading and consumes nothing.
Idle == status' = "reading" /\ pos' = pos /\ src' = src

\* The running call before such a step.
LEMMA RankBefore ==
  ASSUME Inv, NEW fn, Running(fn)
  PROVE  /\ Height \in Nat \ {0} /\ Top.fn = fn /\ fn \in Functions /\ Shape
         /\ Rank = RankAt(Height, Top) /\ Rank' = RankAt(Height', Top')
         /\ skipSpace \in Nat /\ pos \in Nat /\ skipSpace >= pos
  <1>1. Top.fn = fn /\ Shape /\ TypeOK /\ IsCall(Top)
    BY Reads
  <1>2. Rank = RankAt(Height, Top) /\ Rank' = RankAt(Height', Top')
    BY RankIs DEF RankAt
  <1> QED  BY <1>1, <1>2, ShapeTop, Sight DEF IsCall

LEMMA RankNat ==
  ASSUME Inv, Next, Idle
  PROVE  Rank' \in Nat
  <1>1. Shape' /\ Inv'
    BY NextInv DEF Inv, Idle
  <1>2. Height' \in Nat /\ Top'.fn \in Functions
    BY <1>1, ShapeNext
  <1>3. Rank' = RankAt(Height', Top')
    BY RankIs DEF RankAt
  <1> QED  BY <1>2, <1>3, Ranks

LEMMA EbnfRank ==
  ASSUME Inv, ParseEbnf, Idle
  PROVE  Rank' < Rank
  <1>1. Running("ebnf")
    BY DEF ParseEbnf
  <1>2. /\ Height \in Nat \ {0} /\ Top.fn = "ebnf" /\ "ebnf" \in Functions /\ Shape
        /\ Rank = RankAt(Height, Top) /\ Rank' = RankAt(Height', Top')
        /\ skipSpace \in Nat /\ pos \in Nat /\ skipSpace >= pos /\ status = "reading" /\ IsCall(Top)
    BY <1>1, RankBefore, Reads
  <1>3. Top.got # <<>>
    <2>1. SUFFICES ASSUME Top.got = <<>>  PROVE FALSE
      OBVIOUS
    <2>2. PICK p, self : p = skipSpace + Behind(Rest) /\ Enter(p, self, "alts")
      BY <2>1, Zenon DEF ParseEbnf, Fail, Idle
    <2>3. Behind(Rest) \in {2, 3}
      BY DEF Behind
    <2> QED  BY <1>2, <2>2, <2>3 DEF Enter, Idle
  <1>4. PICK p, v, self : Stay(p, self) /\ self = WithVal(WithGot(Top, <<>>), v) /\ IsSeq(v)
    <2>1. PICK v : v = Append(Top.val, [name |-> Top.local, alts |-> Top.got[1]])
      OBVIOUS
    <2>2. IsSeq(v)
      BY <1>2, <2>1, Appended DEF IsCall
    <2>3. \E p : Stay(p, WithVal(WithGot(Top, <<>>), v))
      BY <1>3, <2>1, Zenon DEF ParseEbnf, WithVal, WithGot
    <2> QED  BY <2>2, <2>3
  <1>5. self.fn = "ebnf" /\ self.got = <<>>
    <2>1. PICK h : h = WithGot(Top, <<>>)
      OBVIOUS
    <2>2. IsCall(h) /\ h.fn = "ebnf" /\ h.got = <<>>
      BY <1>2, <2>1, GotFields
    <2>3. self = WithVal(h, v) /\ IsSeq(v)
      BY <1>4, <2>1
    <2> QED  BY <2>2, <2>3, ValFields
  <1>6. Height' = Height /\ Top' = self
    BY <1>2, <1>4, StayRank
  <1>7. Rank = 4 * Height + 1
    BY <1>2, <1>3, Ranks
  <1>8. RankAt(Height, self) = 4 * Height
    BY <1>2, <1>5, Ranks
  <1> QED  BY <1>2, <1>6, <1>7, <1>8

\* A call made, and a return, without moving.
LEMMA CallRank ==
  ASSUME Inv, NEW caller \in Functions, Running(caller), NEW p, NEW self, NEW fn \in Functions, Enter(p, self, fn)
  PROVE  /\ fn = "seq" => Rank' = 4 * Height + 14
         /\ fn = "elem" => Rank' = 4 * Height + 9
         /\ fn = "atom" => Rank' = 4 * Height + 4
  <1>1. Height \in Nat \ {0} /\ Shape /\ Rank' = RankAt(Height', Top')
    BY RankBefore
  <1>2. Height' = Height + 1 /\ Top' = Call(fn)
    BY <1>1, EnterRank
  <1>3. Rank' = RankAt(Height + 1, Call(fn))
    BY <1>1, <1>2
  <1>4. Call(fn).fn = fn /\ Call(fn).got = <<>>
    BY NewCall
  <1>5. Height + 1 \in Nat
    BY <1>1
  <1> QED  BY <1>1, <1>3, <1>4, <1>5, Ranks

LEMMA BackRank ==
  ASSUME Inv, NEW fn \in Functions \ {"ebnf"}, Running(fn), NEW p, NEW x, Return(p, x)
  PROVE  /\ fn = "alts" => Rank' <= 4 * Height - 3
         /\ fn = "seq" => Rank' = 4 * Height - 4
         /\ fn = "elem" => Rank' = 4 * Height + 6
  <1>1. Height \in Nat \ {0} /\ Shape /\ Rank' = RankAt(Height', Top') /\ Top.fn = fn
    BY RankBefore
  <1>2. /\ Height' = Height - 1 /\ Height > 1 /\ Top'.fn \in Callers[fn] /\ Top'.got # <<>> /\ Top'.fn \in Functions
    BY <1>1, ReturnRank
  <1>3. Height - 1 \in Nat /\ Rank' = RankAt(Height - 1, Top')
    BY <1>1, <1>2
  <1>4. /\ Top'.fn = "ebnf" => Rank' = 4 * (Height - 1) + 1
        /\ Top'.fn = "atom" => Rank' = 4 * (Height - 1)
        /\ Top'.fn = "alts" => Rank' = 4 * (Height - 1)
        /\ Top'.fn = "seq" => Rank' = 4 * (Height - 1) + 10
    BY <1>2, <1>3, Ranks
  <1> QED  BY <1>1, <1>2, <1>4 DEF Callers

LEMMA AltsRank ==
  ASSUME Inv, parseAlts, Idle
  PROVE  Rank' < Rank
  <1>1. Running("alts") /\ "alts" \in Functions /\ "seq" \in Functions
    BY DEF parseAlts, Functions
  <1>2. /\ Height \in Nat \ {0} /\ Top.fn = "alts" /\ Rank = RankAt(Height, Top)
        /\ skipSpace \in Nat /\ pos \in Nat /\ skipSpace >= pos
    BY <1>1, RankBefore
  <1>3. CASE Top.got = <<>>
    <2>1. Enter(pos, Top, "seq")
      BY <1>3 DEF parseAlts
    <2>2. Rank' = 4 * Height + 14
      BY <1>1, <2>1, CallRank
    <2>3. Rank = 4 * Height + 15
      BY <1>1, <1>2, <1>3, Ranks
    <2> QED  BY <1>2, <2>2, <2>3
  <1>4. CASE Top.got # <<>>
    <2>1. PICK x : Return(skipSpace, x)
      <3>1. (\E self : Enter(skipSpace + 1, self, "seq")) \/ (\E x : Return(skipSpace, x))
        BY <1>4, Zenon DEF parseAlts
      <3>2. ASSUME NEW self, Enter(skipSpace + 1, self, "seq")  PROVE FALSE
        BY <1>2, <3>2 DEF Enter, Idle
      <3> QED  BY <3>1, <3>2, Zenon
    <2>2. Rank' <= 4 * Height - 3
      BY <1>1, <2>1, BackRank
    <2>3. Rank = 4 * Height
      BY <1>1, <1>2, <1>4, Ranks
    <2>4. Rank' \in Int
      BY RankNat DEF Next
    <2> QED  BY <1>2, <2>2, <2>3, <2>4
  <1> QED  BY <1>3, <1>4

LEMMA SeqRank ==
  ASSUME Inv, parseSeq, Idle
  PROVE  Rank' < Rank
  <1>1. Running("seq") /\ "seq" \in Functions /\ "elem" \in Functions
    BY DEF parseSeq, Functions
  <1>2. /\ Height \in Nat \ {0} /\ Top.fn = "seq" /\ Rank = RankAt(Height, Top)
        /\ skipSpace \in Nat /\ pos \in Nat /\ skipSpace >= pos
    BY <1>1, RankBefore
  <1>3. Rank = 4 * Height + 10
    BY <1>1, <1>2, Ranks
  <1>4. \/ \E self : Enter(skipSpace, self, "elem")
        \/ \E x : Return(skipSpace, x)
        \/ \E self : Stay(skipSpace + 1, self)
        \/ Fail("empty-alternative") \/ Fail("leading-comma") \/ Fail("trailing-comma")
    BY Zenon DEF parseSeq
  <1>5. ~Fail("empty-alternative") /\ ~Fail("leading-comma") /\ ~Fail("trailing-comma")
    BY DEF Fail, Idle
  <1>6. ASSUME NEW self, Stay(skipSpace + 1, self)  PROVE FALSE
    BY <1>2, <1>6 DEF Stay, Idle
  <1>7. ASSUME NEW self, Enter(skipSpace, self, "elem")  PROVE Rank' < Rank
    <2>1. Rank' = 4 * Height + 9
      BY <1>1, <1>7, CallRank
    <2> QED  BY <1>2, <1>3, <2>1
  <1>8. ASSUME NEW x, Return(skipSpace, x)  PROVE Rank' < Rank
    <2>1. Rank' = 4 * Height - 4
      BY <1>1, <1>8, BackRank
    <2> QED  BY <1>2, <1>3, <2>1
  <1> QED  BY <1>4, <1>5, <1>6, <1>7, <1>8, Zenon

LEMMA ElemRank ==
  ASSUME Inv, parseElem, Idle
  PROVE  Rank' < Rank
  <1>1. Running("elem") /\ "elem" \in Functions /\ "atom" \in Functions
    BY DEF parseElem, Functions
  <1>2. Height \in Nat \ {0} /\ Top.fn = "elem" /\ Rank = RankAt(Height, Top) /\ pos \in Nat
    BY <1>1, RankBefore
  <1>3. CASE Top.got = <<>>
    <2>1. Enter(pos, Top, "atom")
      BY <1>3 DEF parseElem
    <2>2. Rank' = 4 * Height + 4
      BY <1>1, <2>1, CallRank
    <2>3. Rank = 4 * Height + 5
      BY <1>1, <1>2, <1>3, Ranks
    <2> QED  BY <1>2, <2>2, <2>3
  <1>4. CASE Top.got # <<>>
    <2>1. PICK x : Return(pos, x)
      <3>1. (\E self : Stay(pos + 1, self)) \/ (\E x : Return(pos, x))
        BY <1>4, Zenon DEF parseElem
      <3>2. ASSUME NEW self, Stay(pos + 1, self)  PROVE FALSE
        BY <1>2, <3>2 DEF Stay, Idle
      <3> QED  BY <3>1, <3>2, Zenon
    <2>2. Rank' = 4 * Height + 6
      BY <1>1, <2>1, BackRank
    <2>3. Rank = 4 * Height + 7
      BY <1>1, <1>2, <1>4, Ranks
    <2> QED  BY <1>2, <2>2, <2>3
  <1> QED  BY <1>3, <1>4

\* An atom consumes something, or fails.
LEMMA AtomMoves ==
  ASSUME Inv, parseAtom, Idle
  PROVE  FALSE
  <1>1. Running("atom")
    BY DEF parseAtom
  <1>2. skipSpace \in Nat /\ pos \in Nat /\ skipSpace >= pos
    BY <1>1, RankBefore
  <1>3. \/ \E x : Return(skipSpace + 1, x)
        \/ \E self : Enter(skipSpace + 1, self, "alts")
        \/ Fail("unclosed-group") \/ Fail(Unreadable(Rest[1]))
    BY Zenon DEF parseAtom
  <1>4. ASSUME NEW x, Return(skipSpace + 1, x)  PROVE FALSE
    BY <1>2, <1>4 DEF Return, Idle
  <1>5. ASSUME NEW self, Enter(skipSpace + 1, self, "alts")  PROVE FALSE
    BY <1>2, <1>5 DEF Enter, Idle
  <1>6. ~Fail("unclosed-group") /\ ~Fail(Unreadable(Rest[1]))
    <2>1. Unreadable(Rest[1]) # "reading"
      BY Reasons
    <2> QED  BY <2>1 DEF Fail, Idle
  <1> QED  BY <1>3, <1>4, <1>5, <1>6, Zenon

LEMMA ReadMoves ==
  ASSUME Inv, Read, Idle
  PROVE  FALSE
  <1>1. PICK tkn : src' = Append(src, tkn)
    BY DEF Read
  <1>2. Len(src') = Len(src) + 1 /\ Len(src) \in Nat
    BY <1>1 DEF Inv, TypeOK
  <1> QED  BY <1>2 DEF Idle

LEMMA RankFalls ==
  ASSUME Inv, [Next]_vars, status' = "reading" /\ pos' = pos /\ src' = src
  PROVE  vars' = vars \/ Rank' < Rank
  <1>1. Idle
    BY DEF Idle
  <1>2. CASE Next
    <2>1. status' # "reading" \/ status = "reading"
      BY <1>2 DEF Next, Read, ParseEbnf, parseAlts, parseSeq, parseElem, parseAtom, Running, vars
    <2> QED  BY <1>1, <1>2, ReadMoves, EbnfRank, AltsRank, SeqRank, ElemRank, AtomMoves DEF Next, Idle, vars
  <1> QED  BY <1>2

\* The parser never goes round without getting anywhere: between two lexemes it consumes,
\* or asks for, it makes no more calls and returns than its stack has room for.
THEOREM GoMovesOn == Spec => MovesOn
  <1>1. Inv /\ [Next]_vars => [status' = "reading" /\ pos' = pos /\ src' = src => Rank' < Rank]_vars
    BY RankFalls
  <1> QED  BY <1>1, GoStackIsSound, PTL DEF Spec, MovesOn

-----------------------------------------------------------------------------
(* What has been read, and what each call makes of it.                      *)

Silent == {SP, EndOfSource}
Spoken(n) == Without(SubSeq(src, 1, n), Silent)

\* The words a call that waits has read: those before the call it waits for.
Awaiting(fn, val, local, w) ==
  /\ fn = "ebnf" => \E w0 \in Words, name \in Written({"TX"}), def \in Written({"DEF", "DEFE"}) :
                       w = Cat(w0, <<name, def>>) /\ IsSource(w0, val) /\ local = Text(name)
  /\ fn = "alts" => \/ val = <<>> /\ w = <<>>
                    \/ \E w0 \in Words, bar \in Written({"ALT"}) : w = Cat(w0, <<bar>>) /\ IsAlts(w0, val)
  /\ fn = "seq"  => \/ val = <<>> /\ w = <<>>
                    \/ \E w0 \in Words, sep \in {<<>>} \cup Mark("CA") : w = Cat(w0, sep) /\ IsSequence(w0, val)
  /\ fn = "elem" => w = <<>>
  /\ fn = "atom" => \E lp \in Written({"LP"}) : w = <<lp>>

\* Those of a call that runs and has been returned nothing.
Starting(fn, val, local, w) ==
  IF fn = "ebnf" THEN IsSource(w, val)
  ELSE IF fn = "seq" /\ local = "comma"
  THEN \E w0 \in Words, sep \in Mark("CA") : w = Cat(w0, sep) /\ IsSequence(w0, val)
  ELSE val = <<>> /\ w = <<>>

\* What fn is returned by the calls it makes.
Gives(fn, w, x) ==
  /\ fn \in {"ebnf", "atom"} => IsAlts(w, x)
  /\ fn = "alts" => IsSequence(w, x)
  /\ fn \in {"seq", "elem"} => IsElem(w, x)

Awaits(f, w) == Awaiting(f.fn, f.val, f.local, w)
Holds(f, w) ==
  IF f.got = <<>> THEN Starting(f.fn, f.val, f.local, w)
  ELSE \E w0 \in Words, w1 \in Words : w = Cat(w0, w1) /\ Awaits(f, w0) /\ Gives(f.fn, w1, f.got[1])

\* The words s are those of h calls in turn, the last of them running.
Joins(at, f, v) == \E w \in Words : v = Cat(at, w) /\ Awaits(f, w)
Ending(at, f, v) == \E w \in Words : v = Cat(at, w) /\ Holds(f, w)
Told(calls, h, s) ==
  \E at \in [1 .. h -> Words] :
    /\ \A i \in 1 .. h : \A j \in 1 .. h : j = i + 1 => Joins(at[i], calls[i], at[j])
    /\ at[1] = <<>> /\ Ending(at[h], calls[h], s)

-----------------------------------------------------------------------------
(* Calls, turns and returns.                                                *)

\* Below k nothing changes; what the running call f has read, with u, is what g waits
\* with, what g has read, or what g is given.
Below(calls, after, k) == \A i \in 1 .. k - 1 : after[i] = calls[i]
HoldsAwaits(f, g, u) == \A w \in Words : Holds(f, w) => Awaits(g, Cat(w, u))
HoldsHolds(f, g, u) == \A w \in Words : Holds(f, w) => Holds(g, Cat(w, u))
HoldsGives(f, g, u) == \A w \in Words : Holds(f, w) => Gives(g.fn, Cat(w, u), g.got[1])
Resumes(f, g) == g.fn = f.fn /\ g.val = f.val /\ g.local = f.local /\ g.got # <<>>

LEMMA ToldEntered ==
  ASSUME NEW h \in Nat \ {0}, NEW calls, NEW s, Told(calls, h, s), NEW u \in Words, NEW after, Below(calls, after, h),
         NEW j \in Nat, j = h + 1, HoldsAwaits(calls[h], after[h], u), Holds(after[j], <<>>)
  PROVE  Told(after, j, Cat(s, u))
  <1>1. PICK at \in [1 .. h -> Words] :
          /\ \A i \in 1 .. h : \A k \in 1 .. h : k = i + 1 => Joins(at[i], calls[i], at[k])
          /\ at[1] = <<>> /\ Ending(at[h], calls[h], s)
    BY DEF Told
  <1>2. PICK w \in Words : s = Cat(at[h], w) /\ Holds(calls[h], w)
    BY <1>1 DEF Ending
  <1> DEFINE v == Cat(s, u)
             to == [i \in 1 .. j |-> IF i = j THEN v ELSE at[i]]
  <1>3. at[h] \in Words
    BY <1>1
  <1>4. v = Cat(at[h], Cat(w, u)) /\ Cat(w, u) \in Words /\ v \in Words /\ v = Cat(v, <<>>) /\ <<>> \in Words
    BY <1>2, <1>3, CatLaws
  <1>5. Joins(at[h], after[h], v)
    BY <1>2, <1>4 DEF Joins, HoldsAwaits
  <1>6. Ending(v, after[j], v)
    BY <1>4 DEF Ending
  <1> HIDE DEF v
  <1>7. to \in [1 .. j -> Words] /\ to[j] = v /\ \A i \in 1 .. h : to[i] = at[i]
    BY <1>1, <1>4
  <1> HIDE DEF to
  <1>8. ASSUME NEW i \in 1 .. j, NEW k \in 1 .. j, k = i + 1  PROVE Joins(to[i], after[i], to[k])
    <2>1. i \in 1 .. h
      BY <1>8
    <2>2. CASE i = h
      BY <1>5, <1>7, <1>8, <2>1, <2>2
    <2>3. CASE i # h
      <3>1. i \in 1 .. h - 1 /\ k \in 1 .. h
        BY <1>8, <2>1, <2>3
      <3> QED  BY <1>1, <1>7, <1>8, <2>1, <3>1 DEF Below
    <2> QED  BY <2>2, <2>3
  <1>9. to[1] = <<>> /\ Ending(to[j], after[j], v)
    BY <1>1, <1>6, <1>7
  <1>10. Told(after, j, v)
    BY <1>7, <1>8, <1>9 DEF Told
  <1> QED  BY <1>10 DEF v

LEMMA ToldStayed ==
  ASSUME NEW h \in Nat \ {0}, NEW calls, NEW s, Told(calls, h, s), NEW u \in Words, NEW after, Below(calls, after, h),
         HoldsHolds(calls[h], after[h], u)
  PROVE  Told(after, h, Cat(s, u))
  <1>1. PICK at \in [1 .. h -> Words] :
          /\ \A i \in 1 .. h : \A k \in 1 .. h : k = i + 1 => Joins(at[i], calls[i], at[k])
          /\ at[1] = <<>> /\ Ending(at[h], calls[h], s)
    BY DEF Told
  <1>2. PICK w \in Words : s = Cat(at[h], w) /\ Holds(calls[h], w)
    BY <1>1 DEF Ending
  <1>3. at[h] \in Words
    BY <1>1
  <1>4. Cat(s, u) = Cat(at[h], Cat(w, u)) /\ Cat(w, u) \in Words
    BY <1>2, <1>3, CatLaws
  <1>5. Ending(at[h], after[h], Cat(s, u))
    BY <1>2, <1>4 DEF Ending, HoldsHolds
  <1>6. ASSUME NEW i \in 1 .. h, NEW k \in 1 .. h, k = i + 1  PROVE Joins(at[i], after[i], at[k])
    <2>1. i \in 1 .. h - 1
      BY <1>6
    <2> QED  BY <1>1, <1>6, <2>1 DEF Below
  <1> QED  BY <1>1, <1>5, <1>6 DEF Told

LEMMA ToldReturned ==
  ASSUME NEW h \in Nat \ {0}, NEW calls, NEW s, Told(calls, h, s), NEW u \in Words,
         NEW g \in Nat \ {0}, h = g + 1, NEW after, Below(calls, after, g),
         Resumes(calls[g], after[g]), HoldsGives(calls[h], after[g], u)
  PROVE  Told(after, g, Cat(s, u))
  <1>1. PICK at \in [1 .. h -> Words] :
          /\ \A i \in 1 .. h : \A k \in 1 .. h : k = i + 1 => Joins(at[i], calls[i], at[k])
          /\ at[1] = <<>> /\ Ending(at[h], calls[h], s)
    BY DEF Told
  <1>2. PICK w \in Words : s = Cat(at[h], w) /\ Holds(calls[h], w)
    BY <1>1 DEF Ending
  <1>3. g \in 1 .. h /\ h \in 1 .. h /\ at[g] \in Words /\ at[h] \in Words
    BY <1>1
  <1>4. PICK w0 \in Words : at[h] = Cat(at[g], w0) /\ Awaits(calls[g], w0)
    BY <1>1, <1>3 DEF Joins
  <1> DEFINE w1 == Cat(w, u)
  <1>5. Gives(after[g].fn, w1, after[g].got[1]) /\ Awaits(after[g], w0)
    BY <1>2, <1>4 DEF Awaits, HoldsGives, Resumes
  <1>6. w1 \in Words /\ Cat(w0, w1) \in Words /\ Cat(s, u) = Cat(at[g], Cat(w0, w1))
    <2>1. w1 \in Words /\ Cat(w0, w) \in Words /\ Cat(w0, w1) \in Words /\ Cat(w0, w1) = Cat(Cat(w0, w), u)
      BY CatLaws
    <2>2. s = Cat(at[g], Cat(w0, w))
      BY <1>2, <1>3, <1>4, CatLaws
    <2> QED  BY <1>3, <2>1, <2>2, CatLaws
  <1> HIDE DEF w1
  <1>7. Holds(after[g], Cat(w0, w1))
    BY <1>5, <1>6 DEF Holds, Resumes
  <1>8. Ending(at[g], after[g], Cat(s, u))
    BY <1>6, <1>7 DEF Ending
  <1> DEFINE to == [i \in 1 .. g |-> at[i]]
  <1>9. to \in [1 .. g -> Words] /\ \A i \in 1 .. g : to[i] = at[i]
    BY <1>1
  <1> HIDE DEF to
  <1>10. ASSUME NEW i \in 1 .. g, NEW k \in 1 .. g, k = i + 1  PROVE Joins(to[i], after[i], to[k])
    <2>1. i \in 1 .. g - 1 /\ i \in 1 .. h /\ k \in 1 .. h
      BY <1>10
    <2> QED  BY <1>1, <1>9, <1>10, <2>1 DEF Below
  <1>11. to[1] = <<>> /\ Ending(to[g], after[g], Cat(s, u))
    BY <1>1, <1>8, <1>9
  <1> QED  BY <1>9, <1>10, <1>11 DEF Told

-----------------------------------------------------------------------------
(* What the scanner's moves add to the words.                               *)

LEMMA NotSilent ==
  ASSUME NEW tkn \in Vocabulary
  PROVE  tkn \notin Silent
  <1>1. tkn \in Lexeme
    BY VocabularyAssumption
  <1>2. Kind(tkn) \in FixedKinds \cup {"TX", "ST", "CC", "HX"}
    BY <1>1 DEF Lexeme, Kind
  <1>3. Kind(tkn) # "ZZ" /\ Kind(tkn) # "SP"
    BY <1>2 DEF FixedKinds
  <1> QED  BY <1>3, Distinct DEF Silent

\* A token whose kind says it all is one of the notation.
LEMMA FixedIsWritten ==
  ASSUME NEW tkn \in Vocabulary, NEW kinds \in SUBSET FixedKinds, Kind(tkn) \in kinds
  PROVE  tkn \in Written(kinds)
  <1>1. tkn \in Lexeme /\ Kind(tkn) \in FixedKinds
    BY VocabularyAssumption
  <1>2. Text(tkn) = ""
    BY <1>1 DEF Lexeme, Kind, Text, FixedKinds
  <1> QED  BY <1>2 DEF Written

LEMMA SpokenTypes ==
  ASSUME TypeOK, NEW n \in 0 .. Len(src)
  PROVE  Spoken(n) \in Words /\ Len(Spoken(n)) <= n
  <1> DEFINE s == SubSeq(src, 1, n)
             S == Vocabulary \cup Silent
  <1>1. s \in Seq(S) /\ Len(s) = n
    BY DEF TypeOK, Silent
  <1> HIDE DEF s
  <1>2. Without(s, Silent) \in Seq(S \ Silent) /\ Len(Without(s, Silent)) <= Len(s)
    BY <1>1, WithoutIsSeq
  <1>3. S \ Silent \subseteq Vocabulary
    OBVIOUS
  <1> HIDE DEF S
  <1>4. Without(s, Silent) \in Seq(Vocabulary)
    BY <1>2, <1>3
  <1> QED  BY <1>1, <1>2, <1>4 DEF Spoken, s, Words

LEMMA SpokenNone == Spoken(0) = <<>>
  <1>1. SubSeq(src, 1, 0) = <<>>
    OBVIOUS
  <1> QED  BY <1>1, WithoutNone DEF Spoken

LEMMA SpokenNext ==
  ASSUME TypeOK, NEW n \in Nat, n < Len(src), NEW j \in Nat, j = n + 1
  PROVE  /\ src[j] \in Silent => Spoken(j) = Spoken(n)
         /\ src[j] \in Vocabulary => Spoken(j) = Cat(Spoken(n), <<src[j]>>)
  <1> DEFINE S == Vocabulary \cup {SP, EndOfSource}
             s == SubSeq(src, 1, n)
             t == src[j]
  <1>1. src \in Seq(S) /\ Len(src) \in Nat /\ n \in 0 .. Len(src) /\ j \in 1 .. Len(src)
    BY DEF TypeOK
  <1>2. SubSeq(src, 1, j) = Append(s, t) /\ s \in Seq(S)
    BY <1>1
  <1> HIDE DEF s, S, t
  <1>3. Without(Append(s, t), Silent) = IF t \in Silent THEN Without(s, Silent) ELSE Append(Without(s, Silent), t)
    BY <1>2, WithoutMore
  <1>4. Spoken(j) = IF t \in Silent THEN Spoken(n) ELSE Append(Spoken(n), t)
    BY <1>2, <1>3, Zenon DEF Spoken, s
  <1>5. ASSUME t \in Vocabulary  PROVE Append(Spoken(n), t) = Cat(Spoken(n), <<t>>) /\ t \notin Silent
    BY <1>1, <1>5, SpokenTypes, TokenIsWord, NotSilent
  <1> QED  BY <1>4, <1>5 DEF t

\* Over space, and over space and a lexeme.
LEMMA SpokenSkip ==
  ASSUME TypeOK
  PROVE  /\ Spoken(skipSpace) = Spoken(pos)
         /\ skipSpace < Len(src) /\ src[skipSpace + 1] \in Vocabulary =>
              Spoken(skipSpace + 1) = Cat(Spoken(pos), <<src[skipSpace + 1]>>)
  <1>1. /\ skipSpace \in Nat /\ pos \in Nat /\ skipSpace + 1 \in Nat
        /\ skipSpace = IF pos < Len(src) /\ src[pos + 1] = SP THEN pos + 1 ELSE pos
    BY Sight
  <1>2. Spoken(skipSpace) = Spoken(pos)
    <2>1. CASE pos < Len(src) /\ src[pos + 1] = SP
      <3>1. src[pos + 1] \in Silent /\ skipSpace = pos + 1
        BY <1>1, <2>1 DEF Silent
      <3> QED  BY <1>1, <2>1, <3>1, SpokenNext
    <2>2. CASE ~(pos < Len(src) /\ src[pos + 1] = SP)
      BY <1>1, <2>2
    <2> QED  BY <2>1, <2>2
  <1>3. skipSpace < Len(src) /\ src[skipSpace + 1] \in Vocabulary =>
          Spoken(skipSpace + 1) = Cat(Spoken(skipSpace), <<src[skipSpace + 1]>>)
    BY <1>1, SpokenNext
  <1> QED  BY <1>2, <1>3

-----------------------------------------------------------------------------
(* What each function makes of what it has read.                            *)

LEMMA FreshHolds ==
  ASSUME NEW fn \in {"alts", "seq", "elem", "atom"}
  PROVE  Holds(Call(fn), <<>>)
  <1>1. fn \in Functions /\ fn # "ebnf"
    BY DEF Functions
  <1>2. Call(fn).fn = fn /\ Call(fn).val = <<>> /\ Call(fn).got = <<>> /\ Call(fn).local = ""
    BY <1>1, NewCall
  <1> QED  BY <1>1, <1>2 DEF Holds, Starting

\* A production's name and operator; the production.
LEMMA EbnfAwaits ==
  ASSUME NEW f, f.fn = "ebnf", f.got = <<>>, NEW name \in Written({"TX"}), NEW def \in Written({"DEF", "DEFE"}),
         NEW g, g.fn = "ebnf", g.val = f.val, g.local = Text(name)
  PROVE  HoldsAwaits(f, g, <<name, def>>)
  <1> SUFFICES ASSUME NEW w \in Words, Holds(f, w)  PROVE Awaits(g, Cat(w, <<name, def>>))
    BY DEF HoldsAwaits
  <1>1. IsSource(w, f.val)
    BY DEF Holds, Starting
  <1> QED  BY <1>1 DEF Awaits, Awaiting

LEMMA EbnfHolds ==
  ASSUME NEW f, f.fn = "ebnf", f.got # <<>>, NEW end \in {<<>>} \cup Mark("SC"),
         NEW g, g.fn = "ebnf", g.got = <<>>, g.val = Append(f.val, [name |-> f.local, alts |-> f.got[1]])
  PROVE  HoldsHolds(f, g, end)
  <1> SUFFICES ASSUME NEW w \in Words, Holds(f, w)  PROVE Holds(g, Cat(w, end))
    BY DEF HoldsHolds
  <1>1. PICK w0 \in Words, w1 \in Words : w = Cat(w0, w1) /\ Awaits(f, w0) /\ Gives(f.fn, w1, f.got[1])
    BY DEF Holds
  <1>2. IsAlts(w1, f.got[1])
    BY <1>1 DEF Gives
  <1>3. PICK v \in Words, name \in Written({"TX"}), def \in Written({"DEF", "DEFE"}) :
          w0 = Cat(v, <<name, def>>) /\ IsSource(v, f.val) /\ f.local = Text(name)
    BY <1>1 DEF Awaits, Awaiting
  <1>4. IsSource(Cat(v, Cat(Cat(<<name, def>>, w1), end)), Append(f.val, [name |-> Text(name), alts |-> f.got[1]]))
    BY <1>2, <1>3, SourceRules
  <1>5. <<name, def>> \in Words /\ end \in Words
    <2>1. name \in Vocabulary /\ def \in Vocabulary
      BY DEF Written
    <2>2. <<name, def>> \in Words
      BY <2>1 DEF Words
    <2>3. end \in Words
      BY MarkIsSeq, Zenon DEF Words
    <2> QED  BY <2>2, <2>3
  <1>6. Cat(w, end) = Cat(v, Cat(Cat(<<name, def>>, w1), end))
    BY <1>1, <1>3, <1>5, CatLaws
  <1> QED  BY <1>3, <1>4, <1>6 DEF Holds, Starting

\* The first sequence of an alternation, and those behind a bar.
LEMMA AltsAwait ==
  ASSUME NEW f, f.fn = "alts", f.got = <<>>
  PROVE  HoldsAwaits(f, f, <<>>)
  <1> SUFFICES ASSUME NEW w \in Words, Holds(f, w)  PROVE Awaits(f, Cat(w, <<>>))
    BY DEF HoldsAwaits
  <1>1. w = <<>> /\ f.val = <<>>
    BY DEF Holds, Starting
  <1>2. Cat(w, <<>>) = <<>>
    BY <1>1, CatLaws
  <1> QED  BY <1>1, <1>2 DEF Awaits, Awaiting

LEMMA GotAppends ==
  ASSUME NEW f, IsCall(f), f.got # <<>>
  PROVE  f.got = <<f.got[1]>> /\ f.val \o f.got = Append(f.val, f.got[1]) /\ (f.val = <<>> => f.val \o f.got = f.got)
  <1> DEFINE v == f.val
             x == f.got[1]
  <1>1. IsSeq(v) /\ f.got = <<x>>
    BY DEF IsCall
  <1> HIDE DEF v, x
  <1>2. v \o <<x>> = Append(v, x)
    BY <1>1, AppendIsConcat DEF IsSeq
  <1>3. <<>> \o <<x>> = <<x>>
    OBVIOUS
  <1> QED  BY <1>1, <1>2, <1>3, Zenon DEF v, x

LEMMA AltsGathered ==
  ASSUME NEW f, IsCall(f), f.fn = "alts", f.got # <<>>, NEW w \in Words, Holds(f, w)
  PROVE  IsAlts(w, f.val \o f.got)
  <1>1. PICK w0 \in Words, w1 \in Words : w = Cat(w0, w1) /\ Awaits(f, w0) /\ Gives(f.fn, w1, f.got[1])
    BY DEF Holds
  <1>2. IsSequence(w1, f.got[1])
    BY <1>1 DEF Gives
  <1>3. f.got = <<f.got[1]>> /\ f.val \o f.got = Append(f.val, f.got[1]) /\ (f.val = <<>> => f.val \o f.got = f.got)
    BY GotAppends
  <1>4. CASE f.val = <<>> /\ w0 = <<>>
    <2>1. w = w1 /\ f.val \o f.got = f.got
      BY <1>1, <1>3, <1>4, CatLaws
    <2>2. IsAlts(w1, <<f.got[1]>>)
      BY <1>2, AltsRules
    <2> QED  BY <1>3, <2>1, <2>2
  <1>5. ASSUME NEW v \in Words, NEW bar \in Written({"ALT"}), w0 = Cat(v, <<bar>>), IsAlts(v, f.val)
        PROVE  IsAlts(w, f.val \o f.got)
    <2>1. IsAlts(Cat(Cat(v, <<bar>>), w1), Append(f.val, f.got[1]))
      BY <1>2, <1>5, AltsRules
    <2> QED  BY <1>1, <1>3, <1>5, <2>1
  <1> QED  BY <1>1, <1>4, <1>5 DEF Awaits, Awaiting

\* A sequence with the element it was returned.
LEMMA SeqGathered ==
  ASSUME NEW f, IsCall(f), f.fn = "seq", f.got # <<>>, NEW w \in Words, Holds(f, w)
  PROVE  IsSequence(w, f.val \o f.got)
  <1>1. PICK w0 \in Words, w1 \in Words : w = Cat(w0, w1) /\ Awaits(f, w0) /\ Gives(f.fn, w1, f.got[1])
    BY DEF Holds
  <1>2. IsElem(w1, f.got[1])
    BY <1>1 DEF Gives
  <1>3. f.got = <<f.got[1]>> /\ f.val \o f.got = Append(f.val, f.got[1]) /\ (f.val = <<>> => f.val \o f.got = f.got)
    BY GotAppends
  <1>4. CASE f.val = <<>> /\ w0 = <<>>
    <2>1. w = w1 /\ f.val \o f.got = f.got
      BY <1>1, <1>3, <1>4, CatLaws
    <2>2. IsSequence(w1, <<f.got[1]>>)
      BY <1>2, SequenceRules
    <2> QED  BY <1>3, <2>1, <2>2
  <1>5. ASSUME NEW v \in Words, NEW sep \in {<<>>} \cup Mark("CA"), w0 = Cat(v, sep), IsSequence(v, f.val)
        PROVE  IsSequence(w, f.val \o f.got)
    <2>1. IsSequence(Cat(Cat(v, sep), w1), Append(f.val, f.got[1]))
      BY <1>2, <1>5, SequenceRules
    <2> QED  BY <1>1, <1>3, <1>5, <2>1
  <1> QED  BY <1>1, <1>4, <1>5 DEF Awaits, Awaiting

\* What a sequence returns, and what a comma leaves of it.
LEMMA SeqReturns ==
  ASSUME NEW f, IsCall(f), f.fn = "seq", f.local # "comma", f.val \o f.got # <<>>, NEW w \in Words, Holds(f, w)
  PROVE  IsSequence(w, f.val \o f.got)
  <1>1. SUFFICES ASSUME f.got = <<>>  PROVE FALSE
    BY SeqGathered
  <1>2. f.val = <<>>
    BY <1>1 DEF Holds, Starting
  <1>3. f.val \o f.got = <<>>
    BY <1>1, <1>2
  <1> QED  BY <1>3

LEMMA SeqCommas ==
  ASSUME NEW f, IsCall(f), f.fn = "seq", f.local # "comma", NEW sep \in Mark("CA"),
         NEW g, g.fn = "seq", g.got = <<>>, g.local = "comma", g.val = f.val \o f.got, g.val # <<>>
  PROVE  HoldsHolds(f, g, sep)
  <1> SUFFICES ASSUME NEW w \in Words, Holds(f, w)  PROVE Holds(g, Cat(w, sep))
    BY DEF HoldsHolds
  <1>1. IsSequence(w, g.val)
    BY SeqReturns
  <1> QED  BY <1>1 DEF Holds, Starting

LEMMA SeqAwaits ==
  ASSUME NEW f, IsCall(f), f.fn = "seq", NEW g, g.fn = "seq", g.val = f.val \o f.got
  PROVE  HoldsAwaits(f, g, <<>>)
  <1> SUFFICES ASSUME NEW w \in Words, Holds(f, w)  PROVE Awaits(g, Cat(w, <<>>))
    BY DEF HoldsAwaits
  <1>1. Cat(w, <<>>) = w
    BY CatLaws
  <1>2. CASE f.got # <<>>
    <2>1. IsSequence(w, g.val)
      BY <1>2, SeqGathered
    <2> QED  BY <1>1, <2>1 DEF Awaits, Awaiting
  <1>3. CASE f.got = <<>>
    <2>1. g.val = f.val
      <3>1. PICK v : v = f.val /\ IsSeq(v)
        BY DEF IsCall
      <3>2. v \o <<>> = v
        BY <3>1 DEF IsSeq
      <3> QED  BY <1>3, <3>1, <3>2
    <2>2. CASE f.local = "comma"
      <3>1. \E w0 \in Words, sep \in Mark("CA") : w = Cat(w0, sep) /\ IsSequence(w0, f.val)
        BY <1>3, <2>2 DEF Holds, Starting
      <3> QED  BY <1>1, <2>1, <3>1 DEF Awaits, Awaiting
    <2>3. CASE f.local # "comma"
      <3>1. f.val = <<>> /\ w = <<>>
        BY <1>3, <2>3 DEF Holds, Starting
      <3> QED  BY <1>1, <2>1, <3>1 DEF Awaits, Awaiting
    <2> QED  BY <2>2, <2>3
  <1> QED  BY <1>2, <1>3

LEMMA ElemAwaits ==
  ASSUME NEW f, f.fn = "elem", f.got = <<>>
  PROVE  HoldsAwaits(f, f, <<>>)
  <1> SUFFICES ASSUME NEW w \in Words, Holds(f, w)  PROVE Awaits(f, Cat(w, <<>>))
    BY DEF HoldsAwaits
  <1>1. w = <<>>
    BY DEF Holds, Starting
  <1> QED  BY <1>1, CatLaws DEF Awaits, Awaiting

LEMMA ElemGathered ==
  ASSUME NEW f, f.fn = "elem", f.got # <<>>, NEW w \in Words, Holds(f, w)
  PROVE  IsElem(w, f.got[1])
  <1>1. PICK w0 \in Words, w1 \in Words : w = Cat(w0, w1) /\ Awaits(f, w0) /\ Gives(f.fn, w1, f.got[1])
    BY DEF Holds
  <1>2. w0 = <<>> /\ IsElem(w1, f.got[1])
    BY <1>1 DEF Awaits, Awaiting, Gives
  <1>3. w = w1
    BY <1>1, <1>2, CatLaws
  <1> QED  BY <1>2, <1>3

LEMMA ElemHolds ==
  ASSUME NEW f, f.fn = "elem", f.got # <<>>, NEW op \in Written({"QM", "STAR", "PLUS"}),
         NEW g, g.fn = "elem", g.got = << <<Operator(Kind(op)), f.got[1]>> >>
  PROVE  HoldsHolds(f, g, <<op>>)
  <1> SUFFICES ASSUME NEW w \in Words, Holds(f, w)  PROVE Holds(g, Cat(w, <<op>>))
    BY DEF HoldsHolds
  <1>1. IsElem(w, f.got[1])
    BY ElemGathered
  <1> DEFINE x == <<Operator(Kind(op)), f.got[1]>>
             v == Cat(w, <<op>>)
  <1>2. IsElem(v, x)
    BY <1>1, ElemRules
  <1>3. g.got # <<>> /\ g.got[1] = x
    OBVIOUS
  <1> HIDE DEF x
  <1>4. v \in Words /\ <<>> \in Words /\ v = Cat(<<>>, v)
    <2>1. <<op>> \in Words
      BY WrittenIsWord
    <2> QED  BY <2>1, CatLaws
  <1> HIDE DEF v
  <1>5. Awaits(g, <<>>) /\ Gives(g.fn, v, x)
    BY <1>2 DEF Awaits, Awaiting, Gives
  <1>6. Holds(g, v)
    BY <1>3, <1>4, <1>5 DEF Holds
  <1> QED  BY <1>6 DEF v

LEMMA AtomStarts ==
  ASSUME NEW f, f.fn = "atom", f.got = <<>>, NEW w \in Words, Holds(f, w)
  PROVE  w = <<>>
  BY DEF Holds, Starting

LEMMA AtomAwaits ==
  ASSUME NEW f, f.fn = "atom", f.got = <<>>, NEW lp \in Written({"LP"}), NEW g, g.fn = "atom"
  PROVE  HoldsAwaits(f, g, <<lp>>)
  <1> SUFFICES ASSUME NEW w \in Words, Holds(f, w)  PROVE Awaits(g, Cat(w, <<lp>>))
    BY DEF HoldsAwaits
  <1>1. w = <<>> /\ <<lp>> \in Words
    BY AtomStarts, WrittenIsWord
  <1>2. Cat(w, <<lp>>) = <<lp>>
    BY <1>1, CatLaws
  <1> QED  BY <1>2 DEF Awaits, Awaiting

LEMMA AtomReturns ==
  ASSUME NEW f, f.fn = "atom", f.got = <<>>, NEW tkn \in Written(AtomKinds), NEW w \in Words, Holds(f, w)
  PROVE  IsElem(Cat(w, <<tkn>>), Leaf(tkn))
  <1>1. w = <<>> /\ <<tkn>> \in Words
    BY AtomStarts, WrittenIsWord
  <1>2. Cat(w, <<tkn>>) = <<tkn>>
    BY <1>1, CatLaws
  <1> QED  BY <1>2, ElemRules

LEMMA GroupReturns ==
  ASSUME NEW f, f.fn = "atom", f.got # <<>>, NEW rp \in Written({"RP"}), NEW w \in Words, Holds(f, w)
  PROVE  IsElem(Cat(w, <<rp>>), <<"group", f.got[1]>>)
  <1>1. PICK w0 \in Words, w1 \in Words : w = Cat(w0, w1) /\ Awaits(f, w0) /\ Gives(f.fn, w1, f.got[1])
    BY DEF Holds
  <1>2. IsAlts(w1, f.got[1])
    BY <1>1 DEF Gives
  <1>3. PICK lp \in Written({"LP"}) : w0 = <<lp>>
    BY <1>1 DEF Awaits, Awaiting
  <1> QED  BY <1>1, <1>2, <1>3, ElemRules

-----------------------------------------------------------------------------
(* The invariant: the calls tell what has been read; no space passed before *)
(* a postfix operator, nor one just passed where one is looked for; the     *)
(* source no longer than its bound.                                         *)

Tells == Told(stack, Height, Spoken(pos))
JustRead(p) == p > 0 /\ src[p] # SP
Spaced == \A i \in 1 .. pos : \A j \in 1 .. pos : j = i + 1 /\ src[i] = SP => Kind(src[j]) \notin Postfix
Bounded == \A i \in 1 .. Len(src) : src[i] # EndOfSource => i <= MaxTokens

Sound ==
  /\ status = "reading" => Tells /\ (Top.fn = "elem" /\ Top.got # <<>> => JustRead(pos))
  /\ Spaced /\ Bounded /\ ReadsTheNotation
SInv == Inv /\ Sound

\* The scanner moves over nothing that is a postfix operator.
LEMMA SpacedOver ==
  ASSUME TypeOK, Spaced, src' = src, NEW p \in pos .. Len(src), pos' = p,
         \A i \in pos + 1 .. p : Kind(src[i]) \notin Postfix
  PROVE  Spaced'
  <1>1. pos \in Nat /\ p \in Nat
    BY Sight
  <1>2. ASSUME NEW i \in 1 .. p, NEW j \in 1 .. p, j = i + 1, src[i] = SP  PROVE Kind(src[j]) \notin Postfix
    <2>1. (i \in 1 .. pos /\ j \in 1 .. pos) \/ j \in pos + 1 .. p
      BY <1>1, <1>2
    <2> HIDE DEF SP
    <2> QED  BY <1>2, <2>1 DEF Spaced
  <1> QED  BY <1>2 DEF Spaced

LEMMA SpacedSkip ==
  ASSUME TypeOK, Spaced, src' = src
  PROVE  /\ pos' = skipSpace => Spaced'
         /\ pos' = pos => Spaced'
         /\ pos' = skipSpace + 1 /\ skipSpace < Len(src) /\ Kind(src[skipSpace + 1]) \notin Postfix => Spaced'
  <1>1. /\ skipSpace \in pos .. Len(src) /\ skipSpace \in Nat /\ pos \in Nat /\ Len(src) \in Nat
        /\ \A i \in pos + 1 .. skipSpace : src[i] = SP
    BY Sight
  <1>2. \A i \in pos + 1 .. skipSpace : Kind(src[i]) \notin Postfix
    BY <1>1, Distinct DEF Postfix
  <1>3. ASSUME pos' = skipSpace  PROVE Spaced'
    BY <1>1, <1>2, <1>3, SpacedOver
  <1>4. ASSUME pos' = pos  PROVE Spaced'
    BY <1>4 DEF Spaced
  <1>5. ASSUME pos' = skipSpace + 1, skipSpace < Len(src), Kind(src[skipSpace + 1]) \notin Postfix  PROVE Spaced'
    <2>1. \A i \in pos + 1 .. skipSpace + 1 : i \in pos + 1 .. skipSpace \/ i = skipSpace + 1
      BY <1>1
    <2>2. skipSpace + 1 \in pos .. Len(src)
      BY <1>1, <1>5
    <2> QED  BY <1>2, <1>5, <2>1, <2>2, SpacedOver
  <1> QED  BY <1>3, <1>4, <1>5

-----------------------------------------------------------------------------
(* What each kind of step leaves to show.                                   *)

LEMMA SpokenStays ==
  ASSUME src' = src, NEW p, pos' = p
  PROVE  Spoken(pos)' = Spoken(p)
  BY DEF Spoken

LEMMA TellsNext ==
  ASSUME src' = src, NEW p, pos' = p, NEW h, Height' = h, Told(stack', h, Spoken(p))
  PROVE  Tells'
  BY SpokenStays DEF Tells

\* The running call before its step.
LEMMA TellsNow ==
  ASSUME Shape, Tells
  PROVE  /\ Height \in Nat \ {0} /\ stack[Height] = Top /\ IsCall(Top)
         /\ Told(stack, Height, Spoken(pos))
  BY ShapeTop DEF Tells

LEMMA SoundNext ==
  ASSUME Sound, src' = src, status' # "parsed", Spaced',
         status' = "reading" => Tells' /\ (Top'.fn = "elem" /\ Top'.got # <<>> => JustRead(pos)')
  PROVE  Sound'
  <1>1. Bounded'
    BY DEF Sound, Bounded
  <1>2. ReadsTheNotation'
    BY DEF ReadsTheNotation
  <1> QED  BY <1>1, <1>2 DEF Sound

LEMMA SoundFailed ==
  ASSUME TypeOK, Sound, NEW why, why \notin {"reading", "parsed"}, Fail(why)
  PROVE  Sound'
  <1>1. src' = src /\ pos' = pos /\ status' = why
    BY DEF Fail
  <1>2. Spaced'
    BY <1>1 DEF Sound, Spaced
  <1> QED  BY <1>1, <1>2, SoundNext

LEMMA SoundEntered ==
  ASSUME Sound, status = "reading", Shape, NEW p, NEW self, NEW fn \in Functions, fn # "ebnf", Enter(p, self, fn),
         IsCall(self), self.fn = Top.fn, Waits(self, fn),
         NEW u \in Words, Spoken(p) = Cat(Spoken(pos), u), HoldsAwaits(Top, self, u), Spaced'
  PROVE  Sound'
  <1>1. /\ Top' = Call(fn) /\ Height' = Height + 1 /\ stack'[Height] = self
        /\ stack'[Height + 1] = Call(fn) /\ \A i \in 1 .. Height - 1 : stack'[i] = stack[i]
    BY Entering
  <1>2. src' = src /\ pos' = p /\ status' = "reading"
    BY DEF Enter
  <1> PICK h : h = Height
    OBVIOUS
  <1> PICK j : j = Height + 1
    OBVIOUS
  <1>3. h \in Nat \ {0} /\ stack[h] = Top /\ Told(stack, h, Spoken(pos)) /\ j \in Nat /\ j = h + 1
    BY TellsNow DEF Sound
  <1>4. stack'[h] = self /\ stack'[j] = Call(fn) /\ Height' = j
    BY <1>1
  <1>5. Holds(stack'[j], <<>>)
    <2>1. fn \in {"alts", "seq", "elem", "atom"}
      BY DEF Functions
    <2> QED  BY <1>4, <2>1, FreshHolds
  <1>6. Below(stack, stack', h)
    BY <1>1 DEF Below
  <1>7. HoldsAwaits(stack[h], stack'[h], u)
    BY <1>3, <1>4
  <1>8. Told(stack', j, Spoken(p))
    BY <1>3, <1>5, <1>6, <1>7, ToldEntered
  <1>9. Tells'
    BY <1>2, <1>4, <1>8, TellsNext
  <1>10. Top'.got = <<>>
    BY <1>1, NewCall
  <1> QED  BY <1>2, <1>9, <1>10, SoundNext

LEMMA SoundStayed ==
  ASSUME Sound, status = "reading", Shape, NEW p, NEW self, Stay(p, self), IsCall(self), self.fn = Top.fn, Ready(self),
         NEW u \in Words, Spoken(p) = Cat(Spoken(pos), u), HoldsHolds(Top, self, u), Spaced',
         self.fn = "elem" => JustRead(p)
  PROVE  Sound'
  <1>1. Top' = self /\ Height' = Height /\ stack'[Height] = self /\ \A i \in 1 .. Height - 1 : stack'[i] = stack[i]
    BY Staying
  <1>2. src' = src /\ pos' = p /\ status' = "reading"
    BY DEF Stay
  <1> PICK h : h = Height
    OBVIOUS
  <1>3. h \in Nat \ {0} /\ stack[h] = Top /\ Told(stack, h, Spoken(pos))
    BY TellsNow DEF Sound
  <1>4. Below(stack, stack', h) /\ HoldsHolds(stack[h], stack'[h], u)
    BY <1>1, <1>3 DEF Below
  <1>5. Told(stack', h, Spoken(p))
    BY <1>3, <1>4, ToldStayed
  <1>6. Tells'
    BY <1>1, <1>2, <1>5, TellsNext
  <1>7. Top'.fn = "elem" => JustRead(pos)'
    BY <1>1, <1>2 DEF JustRead
  <1> QED  BY <1>2, <1>6, <1>7, SoundNext

\* What the running call returns is what any call that waits for it is to be given.
Giving(f, u, x) ==
  \A caller : IsCall(caller) /\ Waits(caller, f.fn) =>
                \A w \in Words : Holds(f, w) => Gives(caller.fn, Cat(w, u), x)

LEMMA SoundReturned ==
  ASSUME Sound, status = "reading", Shape, Top.fn # "ebnf", NEW p, NEW x, Return(p, x),
         NEW u \in Words, Spoken(p) = Cat(Spoken(pos), u), Giving(Top, u, x), Spaced',
         Top.fn = "atom" => JustRead(p)
  PROVE  Sound'
  <1>1. /\ Height' = Height - 1 /\ Height > 1 /\ Top' = Given(stack[Height - 1], x)
        /\ stack'[Height - 1] = Given(stack[Height - 1], x)
        /\ \A i \in 1 .. Height - 2 : stack'[i] = stack[i]
    BY Returning
  <1>2. src' = src /\ pos' = p /\ status' = "reading"
    BY DEF Return
  <1> PICK h : h = Height
    OBVIOUS
  <1> PICK g : g = Height - 1
    OBVIOUS
  <1>3. h \in Nat \ {0} /\ stack[h] = Top /\ Told(stack, h, Spoken(pos)) /\ g \in Nat \ {0} /\ h = g + 1
    BY <1>1, TellsNow DEF Sound
  <1> PICK caller : caller = stack[g]
    OBVIOUS
  <1>4. IsCall(caller) /\ Waits(caller, Top.fn)
    BY ShapeTop
  <1> PICK after : after = Given(caller, x)
    OBVIOUS
  <1>5. /\ after.fn = caller.fn /\ after.val = caller.val /\ after.local = caller.local /\ after.got = <<x>>
        /\ after.got # <<>> /\ after.got[1] = x
    BY <1>4, GivenFields
  <1>6. Height' = g /\ Top' = after /\ stack'[g] = after /\ \A i \in 1 .. g - 1 : stack'[i] = stack[i]
    BY <1>1, <1>3
  <1>7. Below(stack, stack', g) /\ Resumes(stack[g], stack'[g])
    BY <1>5, <1>6 DEF Below, Resumes
  <1>8. HoldsGives(stack[h], stack'[g], u)
    BY <1>3, <1>4, <1>5, <1>6 DEF HoldsGives, Giving
  <1>9. Told(stack', g, Spoken(p))
    BY <1>3, <1>7, <1>8, ToldReturned
  <1>10. Tells'
    BY <1>2, <1>6, <1>9, TellsNext
  <1>11. Top'.fn = "elem" => JustRead(pos)'
    <2>1. Top'.fn = "elem" => Top.fn = "atom"
      <3>1. Top.fn \in Functions
        BY ShapeTop DEF IsCall
      <3> QED  BY <1>4, <1>5, <1>6, <3>1 DEF Waits, Callers, Functions
    <2> QED  BY <1>2, <2>1 DEF JustRead
  <1> QED  BY <1>2, <1>10, <1>11, SoundNext

-----------------------------------------------------------------------------
(* The steps.                                                               *)

\* Over space, and over space and a token that is no postfix operator.
LEMMA OverSpace ==
  ASSUME TypeOK, Spaced, src' = src, pos' = skipSpace
  PROVE  Spaced' /\ <<>> \in Words /\ Spoken(skipSpace) = Cat(Spoken(pos), <<>>)
  <1>1. Spoken(pos) \in Words
    BY SpokenTypes, Sight
  <1>2. Spaced' /\ Spoken(skipSpace) = Spoken(pos)
    BY SpacedSkip, SpokenSkip
  <1> QED  BY <1>1, <1>2, CatLaws

LEMMA OverNothing ==
  ASSUME TypeOK, Spaced, src' = src, pos' = pos
  PROVE  Spaced' /\ <<>> \in Words /\ Spoken(pos) = Cat(Spoken(pos), <<>>)
  <1>1. Spoken(pos) \in Words
    BY SpokenTypes, Sight
  <1> QED  BY <1>1, CatLaws, SpacedSkip

LEMMA OverToken ==
  ASSUME TypeOK, Spaced, src' = src, pos' = skipSpace + 1, skipSpace < Len(src),
         NEW tkn, tkn = src[skipSpace + 1], Kind(tkn) \notin Postfix \cup {"ZZ", "SP"}
  PROVE  /\ Spaced' /\ tkn \in Vocabulary /\ <<tkn>> \in Words
         /\ Spoken(skipSpace + 1) = Cat(Spoken(pos), <<tkn>>) /\ JustRead(skipSpace + 1)
  <1>1. skipSpace \in Nat /\ Rest # <<>> /\ Rest[1] = tkn /\ skipSpace + 1 \in 1 .. Len(src)
    BY Sight
  <1>2. tkn \in Vocabulary \cup {SP, EndOfSource}
    BY <1>1 DEF TypeOK
  <1>3. tkn \in Vocabulary /\ tkn # SP
    BY <1>2, KindOf, Distinct
  <1>4. <<tkn>> \in Words
    BY <1>3, TokenIsWord
  <1>5. Spoken(skipSpace + 1) = Cat(Spoken(pos), <<tkn>>)
    BY <1>3, SpokenSkip
  <1>6. JustRead(skipSpace + 1)
    BY <1>1, <1>3 DEF JustRead
  <1> QED  BY <1>3, <1>4, <1>5, <1>6, SpacedSkip

LEMMA OverHead ==
  ASSUME TypeOK, skipSpace < Len(src), NEW op, op = Behind(Rest), op <= Len(Rest), NEW name, name = Rest[1],
         NEW def, def = Rest[op], Kind(name) = "TX", Text(name) \in Names, Kind(def) \in {"DEF", "DEFE"},
         Spaced, src' = src, pos' = skipSpace + op
  PROVE  /\ name \in Written({"TX"}) /\ def \in Written({"DEF", "DEFE"}) /\ <<name, def>> \in Words
         /\ Spoken(skipSpace + op) = Cat(Spoken(pos), <<name, def>>) /\ Spaced'
  <1> PICK p : p = skipSpace
    OBVIOUS
  <1>1. /\ p \in Nat /\ Len(src) \in Nat /\ Len(Rest) = Len(src) - p
        /\ \A i \in 1 .. Len(src) - p : Rest[i] = src[p + i]
        /\ pos \in Nat /\ p \in pos .. Len(src) /\ p < Len(src)
        /\ \A i \in pos + 1 .. p : src[i] = SP
    BY Sight
  <1>2. op \in {2, 3} /\ (op = 3 => Rest[2] = SP)
    BY DEF Behind
  <1>3. p + op \in pos .. Len(src) /\ p + op > pos /\ src[p + op] = def /\ src[p + 1] = name
    <2>1. op \in Nat /\ op > 0 /\ op <= Len(src) - p
      BY <1>1, <1>2
    <2>2. 1 \in 1 .. Len(src) - p /\ op \in 1 .. Len(src) - p
      BY <1>1, <2>1
    <2>3. src[p + op] = def /\ src[p + 1] = name
      BY <1>1, <2>2
    <2>4. p + op \in pos .. Len(src) /\ p + op > pos
      BY <1>1, <2>1
    <2> QED  BY <2>3, <2>4
  <1>4. op = 3 => src[p + 2] = SP
    <2>1. op = 3 => 2 \in 1 .. Len(src) - p
      BY <1>1
    <2> QED  BY <1>1, <1>2, <2>1
  <1>5. name \in Vocabulary /\ def \in Vocabulary
    <2>1. name \in Vocabulary \cup {SP, EndOfSource} /\ def \in Vocabulary \cup {SP, EndOfSource}
      <3>1. p + 1 \in 1 .. Len(src) /\ p + op \in 1 .. Len(src)
        BY <1>1, <1>3
      <3> QED  BY <1>3, <3>1 DEF TypeOK
    <2> QED  BY <2>1, Distinct
  <1>6. name \in Written({"TX"})
    BY <1>5, NamesDecoded DEF Written
  <1>7. def \in Written({"DEF", "DEFE"})
    <2>1. {"DEF", "DEFE"} \in SUBSET FixedKinds
      BY DEF FixedKinds
    <2> QED  BY <1>5, <2>1, FixedIsWritten
  <1>8. Spoken(p + 1) = Cat(Spoken(pos), <<name>>)
    BY <1>1, <1>3, <1>5, SpokenSkip
  <1>9. Spoken(p + op) = Cat(Spoken(p + 1), <<def>>)
    <2>1. CASE op = 2
      <3>1. p + 1 \in Nat /\ p + 1 < Len(src) /\ p + op \in Nat /\ p + op = (p + 1) + 1
        BY <1>1, <1>3, <2>1
      <3> QED  BY <1>3, <1>5, <3>1, SpokenNext
    <2>2. CASE op = 3
      <3>1. p + 1 \in Nat /\ p + 1 < Len(src) /\ p + 2 \in Nat /\ p + 2 = (p + 1) + 1 /\ p + 2 < Len(src)
        BY <1>1, <1>3, <2>2
      <3>2. src[p + 2] \in Silent
        BY <1>4, <2>2 DEF Silent
      <3>3. Spoken(p + 2) = Spoken(p + 1)
        BY <3>1, <3>2, SpokenNext
      <3>4. p + op \in Nat /\ p + op = (p + 2) + 1
        BY <1>1, <2>2
      <3> QED  BY <1>3, <1>5, <3>1, <3>3, <3>4, SpokenNext
    <2> QED  BY <1>2, <2>1, <2>2
  <1>10. Spoken(p + op) = Cat(Spoken(pos), <<name, def>>) /\ <<name, def>> \in Words
    <2>1. <<name, def>> = Cat(<<name>>, <<def>>) /\ <<name, def>> \in Words
      BY <1>5 DEF Cat, Words
    <2>2. Spoken(pos) \in Words /\ <<name>> \in Words /\ <<def>> \in Words
      BY <1>5, SpokenTypes, Sight, TokenIsWord
    <2>3. Spoken(p + op) = Cat(Cat(Spoken(pos), <<name>>), <<def>>)
      BY <1>8, <1>9
    <2>4. Cat(Cat(Spoken(pos), <<name>>), <<def>>) = Cat(Spoken(pos), Cat(<<name>>, <<def>>))
      BY <2>2, CatLaws
    <2> QED  BY <2>1, <2>3, <2>4, Zenon
  <1>11. Spaced'
    <2>1. ASSUME NEW i \in pos + 1 .. p + op  PROVE Kind(src[i]) \notin Postfix
      <3>1. i \in pos + 1 .. p \/ i = p + 1 \/ i = p + op \/ (i = p + 2 /\ op = 3)
        BY <1>1, <1>2
      <3>2. src[i] = SP \/ src[i] = name \/ src[i] = def
        <4> HIDE DEF SP
        <4> QED  BY <1>1, <1>3, <1>4, <3>1
      <3> QED  BY <3>2, Distinct DEF Postfix
    <2> QED  BY <1>3, <2>1, SpacedOver
  <1> QED  BY <1>6, <1>7, <1>10, <1>11

LEMMA SoundParsed ==
  ASSUME Inv, Sound, Running("ebnf"), Top.got = <<>>, Rest[1] = EndOfSource,
         status' = "parsed", out' = Top.val, src' = src, pos' = pos
  PROVE  Sound'
  <1>1. /\ status = "reading" /\ Top.fn = "ebnf" /\ TypeOK /\ Shape /\ pos \in Nat
        /\ skipSpace < Len(src) /\ src[skipSpace + 1] = EndOfSource
    BY Reads
  <1>2. /\ skipSpace \in Nat /\ Len(src) \in Nat /\ skipSpace \in pos .. Len(src)
        /\ \A i \in pos + 1 .. skipSpace : src[i] = SP
    BY <1>1, Sight
  <1>3. skipSpace + 1 = Len(src)
    <2>1. skipSpace + 1 \in 1 .. Len(src)
      BY <1>1, <1>2
    <2> QED  BY <1>1, <2>1 DEF TypeOK
  <1> DEFINE w == Spoken(pos)
  <1>4. IsSource(w, Top.val)
    <2>1. Height = 1 /\ stack[1] = Top /\ Told(stack, 1, w)
      BY <1>1, ShapeTop DEF Sound, Tells
    <2> HIDE DEF w
    <2>2. PICK at \in [1 .. 1 -> Words] : at[1] = <<>> /\ Ending(at[1], Top, w)
      BY <2>1 DEF Told
    <2>3. PICK v \in Words : w = Cat(<<>>, v) /\ Holds(Top, v)
      BY <2>2 DEF Ending
    <2>4. w = v
      BY <2>3, CatLaws
    <2> QED  BY <1>1, <2>3, <2>4 DEF Holds, Starting
  <1>5. Body = w
    <2>1. SubSeq(src, 1, Len(src)) = src
      BY <1>1 DEF TypeOK
    <2>2. Body = Spoken(Len(src))
      BY <2>1 DEF Body, Spoken, Silent
    <2>3. EndOfSource \in Silent
      BY DEF Silent
    <2>4. Spoken(Len(src)) = Spoken(skipSpace)
      BY <1>1, <1>2, <1>3, <2>3, SpokenNext
    <2> QED  BY <1>1, <2>2, <2>4, SpokenSkip
  <1>6. Len(w) \in Nat /\ Len(w) <= MaxTokens
    <2>1. pos <= MaxTokens
      <3>1. CASE pos = 0
        BY <3>1, MaxTokensAssumption
      <3>2. CASE pos # 0
        <4>1. pos \in 1 .. Len(src)
          BY <1>1, <1>2, <3>2
        <4>2. src[pos] # EndOfSource
          BY <1>1, <4>1 DEF TypeOK
        <4> QED  BY <4>1, <4>2 DEF Sound, Bounded
      <3> QED  BY <3>1, <3>2
    <2>2. w \in Words /\ Len(w) <= pos
      BY <1>1, <1>2, SpokenTypes
    <2> QED  BY <1>1, <2>1, <2>2, MaxTokensAssumption DEF Words
  <1>7. <<w, Top.val>> \in Sources(MaxTokens)
    BY <1>4, <1>6, MaxTokensAssumption, SourceIsDocumented
  <1>8. ASSUME NEW i \in 1 .. Len(src) - 1, src[i] = SP  PROVE Kind(src[i + 1]) \notin Postfix
    <2>1. \/ i \in 1 .. pos /\ i + 1 \in 1 .. pos
          \/ i + 1 \in pos + 1 .. skipSpace
          \/ i + 1 = skipSpace + 1
      BY <1>1, <1>2, <1>3
    <2> HIDE DEF SP
    <2>2. CASE i \in 1 .. pos /\ i + 1 \in 1 .. pos
      BY <1>8, <2>2 DEF Sound, Spaced
    <2>3. CASE i + 1 \in pos + 1 .. skipSpace
      BY <1>2, <2>3, Distinct DEF Postfix
    <2>4. CASE i + 1 = skipSpace + 1
      BY <1>1, <2>4, Distinct DEF Postfix
    <2> QED  BY <2>1, <2>2, <2>3, <2>4
  <1>9. ReadsTheNotation'
    <2>1. Body' = w
      BY <1>5 DEF Body
    <2>2. ~SpaceBeforePostfix'
      BY <1>8 DEF SpaceBeforePostfix
    <2>3. DocumentedSources' = Sources(MaxTokens)
      BY DEF DocumentedSources
    <2> HIDE DEF w
    <2> QED  BY <1>7, <2>1, <2>2, <2>3 DEF ReadsTheNotation
  <1>10. Spaced' /\ Bounded'
    BY DEF Sound, Spaced, Bounded
  <1> QED  BY <1>9, <1>10 DEF Sound

LEMMA EbnfSound ==
  ASSUME Inv, Sound, ParseEbnf
  PROVE  Sound'
  <1> DEFINE name == Rest[1]
             op == Behind(Rest)
             def == Rest[op]
  <1>1. Running("ebnf")
    BY DEF ParseEbnf
  <1>2. /\ status = "reading" /\ Top.fn = "ebnf" /\ TypeOK /\ Shape /\ IsCall(Top) /\ pos \in Nat
        /\ skipSpace < Len(src) /\ name = src[skipSpace + 1]
        /\ name \in Vocabulary \cup {SP, EndOfSource}
        /\ Kind(name) \in NameKinds => op <= Len(Rest)
    BY <1>1, Reads
  <1>3. Spaced
    BY DEF Sound
  <1>4. CASE Top.got = <<>>
    <2>1. \/ name = EndOfSource /\ status' = "parsed" /\ out' = Top.val /\ src' = src /\ pos' = pos
          \/ Fail("no-rule-name") \/ Fail("symbol-name") \/ Fail("no-definition-operator")
          \/ /\ Kind(name) = "TX" /\ Text(name) \in Names /\ Kind(def) \in {"DEF", "DEFE"}
             /\ Enter(skipSpace + op, WithLocal(Top, Text(name)), "alts")
      BY <1>4 DEF ParseEbnf, WithLocal
    <2>2. CASE name = EndOfSource /\ status' = "parsed" /\ out' = Top.val /\ src' = src /\ pos' = pos
      BY <1>1, <1>4, <2>2, SoundParsed
    <2>3. CASE Fail("no-rule-name") \/ Fail("symbol-name") \/ Fail("no-definition-operator")
      BY <1>2, <2>3, SoundFailed
    <2>4. CASE /\ Kind(name) = "TX" /\ Text(name) \in Names /\ Kind(def) \in {"DEF", "DEFE"}
               /\ Enter(skipSpace + op, WithLocal(Top, Text(name)), "alts")
      <3> PICK self : self = WithLocal(Top, Text(name))
        OBVIOUS
      <3>1. IsCall(self) /\ self.fn = Top.fn /\ self.got = <<>> /\ self.val = Top.val /\ self.local = Text(name)
        BY <1>2, <1>4, LocalFields
      <3>2. Enter(skipSpace + op, self, "alts")
        BY <2>4
      <3>3. Waits(self, "alts") /\ "alts" \in Functions
        BY <1>2, <3>1 DEF Waits, Callers, Functions
      <3>4. src' = src /\ pos' = skipSpace + op
        BY <3>2 DEF Enter
      <3>5. /\ name \in Written({"TX"}) /\ def \in Written({"DEF", "DEFE"}) /\ <<name, def>> \in Words
            /\ Spoken(skipSpace + op) = Cat(Spoken(pos), <<name, def>>) /\ Spaced'
        BY <1>2, <1>3, <2>4, <3>4, OverHead DEF NameKinds
      <3> HIDE DEF name, def, op
      <3>6. HoldsAwaits(Top, self, <<name, def>>)
        BY <1>2, <1>4, <3>1, <3>5, EbnfAwaits
      <3> QED  BY <1>2, <3>1, <3>2, <3>3, <3>5, <3>6, SoundEntered
    <2> QED  BY <2>1, <2>2, <2>3, <2>4
  <1>5. CASE Top.got # <<>>
    <2> DEFINE v == Append(Top.val, [name |-> Top.local, alts |-> Top.got[1]])
               p == IF Kind(name) = "SC" THEN skipSpace + 1 ELSE skipSpace
    <2> PICK self : self = WithVal(WithGot(Top, <<>>), v)
      OBVIOUS
    <2>1. Stay(p, self)
      BY <1>5 DEF ParseEbnf, WithVal, WithGot
    <2>2. IsSeq(v)
      BY <1>2, Appended DEF IsCall
    <2>3. PICK w : w = v
      OBVIOUS
    <2> DEFINE h == WithGot(Top, <<>>)
    <2>4. IsCall(h) /\ h = [fn |-> Top.fn, val |-> Top.val, got |-> <<>>, local |-> Top.local]
      BY <1>2, GotFields
    <2>5. self = WithVal(h, w)
      BY <2>3
    <2>6. IsSeq(w)
      BY <2>2, <2>3
    <2> HIDE DEF h, v
    <2>7. IsCall(self) /\ self.fn = "ebnf" /\ self.got = <<>> /\ self.val = w /\ self.local = Top.local
      <3>1. IsCall(WithVal(h, w)) /\ WithVal(h, w) = [fn |-> h.fn, val |-> w, got |-> h.got, local |-> h.local]
        BY <2>4, <2>6, ValFields
      <3> QED  BY <1>2, <2>4, <2>5, <3>1
    <2>8. self.val = Append(Top.val, [name |-> Top.local, alts |-> Top.got[1]])
      BY <2>3, <2>7 DEF v
    <2>9. src' = src /\ pos' = p
      BY <2>1 DEF Stay
    <2>10. Ready(self)
      BY <2>7 DEF Ready
    <2>11. CASE Kind(name) = "SC"
      <3>1. /\ Spaced' /\ name \in Vocabulary /\ <<name>> \in Words
            /\ Spoken(skipSpace + 1) = Cat(Spoken(pos), <<name>>)
        BY <1>2, <1>3, <2>9, <2>11, OverToken DEF Postfix
      <3>2. name \in Written({"SC"})
        <4>1. {"SC"} \in SUBSET FixedKinds
          BY DEF FixedKinds
        <4> QED  BY <2>11, <3>1, <4>1, FixedIsWritten
      <3> DEFINE end == <<name>>
      <3>3. end \in {<<>>} \cup Mark("SC")
        BY <3>2 DEF Mark
      <3> HIDE DEF name
      <3>4. HoldsHolds(Top, self, end)
        <4> HIDE DEF end
        <4> QED  BY <1>2, <1>5, <2>7, <2>8, <3>3, EbnfHolds
      <3>5. p = skipSpace + 1
        BY <2>11
      <3> QED  BY <1>2, <2>1, <2>7, <2>10, <3>1, <3>4, <3>5, SoundStayed
    <2>12. CASE Kind(name) # "SC"
      <3>1. Spaced' /\ <<>> \in Words /\ Spoken(skipSpace) = Cat(Spoken(pos), <<>>)
        BY <1>2, <1>3, <2>9, <2>12, OverSpace
      <3>2. HoldsHolds(Top, self, <<>>)
        BY <1>2, <1>5, <2>7, <2>8, EbnfHolds
      <3>3. p = skipSpace
        BY <2>12
      <3> QED  BY <1>2, <2>1, <2>7, <2>10, <3>1, <3>2, <3>3, SoundStayed
    <2> QED  BY <2>11, <2>12
  <1> QED  BY <1>4, <1>5

LEMMA AltsSound ==
  ASSUME Inv, Sound, parseAlts
  PROVE  Sound'
  <1>1. Running("alts")
    BY DEF parseAlts
  <1>2. /\ status = "reading" /\ Top.fn = "alts" /\ TypeOK /\ Shape /\ IsCall(Top)
        /\ skipSpace < Len(src) /\ Rest[1] = src[skipSpace + 1] /\ "seq" \in Functions /\ Spaced
    BY <1>1, Reads DEF Functions, Sound
  <1>3. CASE Top.got = <<>>
    <2>1. Enter(pos, Top, "seq")
      BY <1>3 DEF parseAlts
    <2>2. Waits(Top, "seq")
      BY <1>2, <1>3 DEF Waits, Callers
    <2>3. src' = src /\ pos' = pos
      BY <2>1 DEF Enter
    <2>4. Spaced' /\ <<>> \in Words /\ Spoken(pos) = Cat(Spoken(pos), <<>>)
      BY <1>2, <2>3, OverNothing
    <2>5. HoldsAwaits(Top, Top, <<>>)
      BY <1>2, <1>3, AltsAwait
    <2> QED  BY <1>2, <2>1, <2>2, <2>4, <2>5, SoundEntered
  <1>4. CASE Top.got # <<>>
    <2> PICK self : self = Gathered(Top)
      OBVIOUS
    <2>1. IsCall(self) /\ self.fn = "alts" /\ self.got = <<>> /\ self.val = Top.val \o Top.got
      BY <1>2, GatheredFields
    <2>2. \A w \in Words : Holds(Top, w) => IsAlts(w, self.val)
      BY <1>2, <1>4, <2>1, AltsGathered
    <2> PICK bar : bar = Rest[1]
      OBVIOUS
    <2>3. CASE Kind(bar) = "ALT"
      <3>1. Enter(skipSpace + 1, self, "seq")
        BY <1>4, <2>3 DEF parseAlts, Gathered
      <3>2. Waits(self, "seq")
        BY <2>1 DEF Waits, Callers
      <3>3. src' = src /\ pos' = skipSpace + 1
        BY <3>1 DEF Enter
      <3>4. /\ Spaced' /\ bar \in Vocabulary /\ <<bar>> \in Words
            /\ Spoken(skipSpace + 1) = Cat(Spoken(pos), <<bar>>)
        BY <1>2, <2>3, <3>3, OverToken DEF Postfix
      <3>5. bar \in Written({"ALT"})
        <4>1. {"ALT"} \in SUBSET FixedKinds
          BY DEF FixedKinds
        <4> QED  BY <2>3, <3>4, <4>1, FixedIsWritten
      <3>6. HoldsAwaits(Top, self, <<bar>>)
        BY <2>1, <2>2, <3>5 DEF HoldsAwaits, Awaits, Awaiting
      <3> QED  BY <1>2, <2>1, <3>1, <3>2, <3>4, <3>6, SoundEntered
    <2>4. CASE Kind(bar) # "ALT"
      <3> PICK x : x = self.val
        OBVIOUS
      <3>1. Return(skipSpace, x)
        BY <1>4, <2>4 DEF parseAlts, Gathered
      <3>2. src' = src /\ pos' = skipSpace
        BY <3>1 DEF Return
      <3>3. Spaced' /\ <<>> \in Words /\ Spoken(skipSpace) = Cat(Spoken(pos), <<>>)
        BY <1>2, <3>2, OverSpace
      <3>4. Giving(Top, <<>>, x)
        <4> SUFFICES ASSUME NEW caller, Waits(caller, Top.fn), NEW w \in Words, Holds(Top, w)
                     PROVE  Gives(caller.fn, Cat(w, <<>>), x)
          BY DEF Giving
        <4>1. caller.fn \in {"ebnf", "atom"}
          BY <1>2 DEF Waits, Callers
        <4>2. Cat(w, <<>>) = w /\ IsAlts(w, x)
          BY <2>2, CatLaws
        <4> QED  BY <4>1, <4>2 DEF Gives
      <3> QED  BY <1>2, <3>1, <3>3, <3>4, SoundReturned
    <2> QED  BY <2>3, <2>4
  <1> QED  BY <1>3, <1>4

LEMMA SeqSound ==
  ASSUME Inv, Sound, parseSeq
  PROVE  Sound'
  <1>1. Running("seq")
    BY DEF parseSeq
  <1>2. /\ status = "reading" /\ Top.fn = "seq" /\ TypeOK /\ Shape /\ IsCall(Top)
        /\ skipSpace < Len(src) /\ Rest[1] = src[skipSpace + 1] /\ "elem" \in Functions /\ Spaced
    BY <1>1, Reads DEF Functions, Sound
  <1>3. PICK self : self = WithLocal(Gathered(Top), "")
    OBVIOUS
  <1>4. IsCall(self) /\ self.fn = "seq" /\ self.got = <<>> /\ self.local # "comma" /\ self.val = Top.val \o Top.got
    <2>1. PICK g : g = Gathered(Top)
      OBVIOUS
    <2>2. IsCall(g) /\ g.fn = Top.fn /\ g.got = <<>> /\ g.val = Top.val \o Top.got
      BY <1>2, <2>1, GatheredFields
    <2>3. self = WithLocal(g, "")
      BY <1>3, <2>1
    <2>4. IsCall(self) /\ self.fn = g.fn /\ self.got = g.got /\ self.val = g.val /\ self.local = ""
      BY <2>2, <2>3, LocalFields
    <2> QED  BY <1>2, <2>2, <2>4
  <1> PICK tkn : tkn = Rest[1]
    OBVIOUS
  <1>5. \/ Fail("empty-alternative") \/ Fail("trailing-comma") \/ Fail("leading-comma")
        \/ Top.local # "comma" /\ self.val # <<>> /\ Return(skipSpace, self.val)
        \/ /\ Kind(tkn) = "CA" /\ Top.local # "comma" /\ self.val # <<>>
           /\ Stay(skipSpace + 1, WithLocal(self, "comma"))
        \/ Enter(skipSpace, self, "elem")
    BY <1>3, Zenon DEF parseSeq, WithLocal, Gathered
  <1>6. CASE Fail("empty-alternative") \/ Fail("trailing-comma") \/ Fail("leading-comma")
    BY <1>2, <1>6, SoundFailed
  <1>7. CASE Top.local # "comma" /\ self.val # <<>> /\ Return(skipSpace, self.val)
    <2> PICK x : x = self.val
      OBVIOUS
    <2>1. Return(skipSpace, x)
      BY <1>7
    <2>2. src' = src /\ pos' = skipSpace
      BY <2>1 DEF Return
    <2>3. Spaced' /\ <<>> \in Words /\ Spoken(skipSpace) = Cat(Spoken(pos), <<>>)
      BY <1>2, <2>2, OverSpace
    <2>4. Giving(Top, <<>>, x)
      <3> SUFFICES ASSUME NEW caller, Waits(caller, Top.fn), NEW w \in Words, Holds(Top, w)
                   PROVE  Gives(caller.fn, Cat(w, <<>>), x)
        BY DEF Giving
      <3>1. caller.fn = "alts"
        BY <1>2 DEF Waits, Callers
      <3>2. Cat(w, <<>>) = w /\ IsSequence(w, x)
        BY <1>2, <1>4, <1>7, SeqReturns, CatLaws
      <3> QED  BY <3>1, <3>2 DEF Gives
    <2> QED  BY <1>2, <2>1, <2>3, <2>4, SoundReturned
  <1>8. CASE /\ Kind(tkn) = "CA" /\ Top.local # "comma" /\ self.val # <<>>
             /\ Stay(skipSpace + 1, WithLocal(self, "comma"))
    <2> PICK it : it = WithLocal(self, "comma")
      OBVIOUS
    <2>1. IsCall(it) /\ it.fn = "seq" /\ it.got = <<>> /\ it.val = self.val /\ it.local = "comma"
      BY <1>4, LocalFields
    <2>2. Stay(skipSpace + 1, it) /\ Ready(it)
      BY <1>8, <2>1 DEF Ready
    <2>3. src' = src /\ pos' = skipSpace + 1
      BY <2>2 DEF Stay
    <2>4. /\ Spaced' /\ tkn \in Vocabulary /\ <<tkn>> \in Words
          /\ Spoken(skipSpace + 1) = Cat(Spoken(pos), <<tkn>>)
      BY <1>2, <1>8, <2>3, OverToken DEF Postfix
    <2>5. tkn \in Written({"CA"})
      <3>1. {"CA"} \in SUBSET FixedKinds
        BY DEF FixedKinds
      <3> QED  BY <1>8, <2>4, <3>1, FixedIsWritten
    <2> PICK sep : sep = <<tkn>>
      OBVIOUS
    <2>6. sep \in Mark("CA")
      BY <2>5 DEF Mark
    <2>7. HoldsHolds(Top, it, sep)
      BY <1>2, <1>4, <1>8, <2>1, <2>6, SeqCommas
    <2> QED  BY <1>2, <2>1, <2>2, <2>4, <2>7, SoundStayed
  <1>9. CASE Enter(skipSpace, self, "elem")
    <2>1. src' = src /\ pos' = skipSpace
      BY <1>9 DEF Enter
    <2>2. Spaced' /\ <<>> \in Words /\ Spoken(skipSpace) = Cat(Spoken(pos), <<>>)
      BY <1>2, <2>1, OverSpace
    <2>3. Waits(self, "elem")
      BY <1>4 DEF Waits, Callers
    <2>4. HoldsAwaits(Top, self, <<>>)
      BY <1>2, <1>4, SeqAwaits
    <2> QED  BY <1>2, <1>4, <1>9, <2>2, <2>3, <2>4, SoundEntered
  <1> QED  BY <1>5, <1>6, <1>7, <1>8, <1>9

\* Over a postfix operator, right behind what it is an operator of.
LEMMA OverPostfix ==
  ASSUME TypeOK, Spaced, src' = src, pos' = pos + 1, pos < Len(src), NEW op, op = src[pos + 1],
         Kind(op) \in Postfix, JustRead(pos)
  PROVE  /\ Spaced' /\ op \in Written({"QM", "STAR", "PLUS"}) /\ <<op>> \in Words
         /\ Spoken(pos + 1) = Cat(Spoken(pos), <<op>>) /\ JustRead(pos + 1)
  <1>1. pos \in Nat /\ Len(src) \in Nat /\ pos + 1 \in 1 .. Len(src) /\ pos + 1 \in Nat
    BY Sight
  <1>2. op \in Vocabulary /\ op # SP
    <2>1. op \in Vocabulary \cup {SP, EndOfSource}
      BY <1>1 DEF TypeOK
    <2> QED  BY <2>1, Distinct DEF Postfix
  <1>3. op \in Written({"QM", "STAR", "PLUS"})
    <2>1. {"QM", "STAR", "PLUS"} \in SUBSET FixedKinds /\ Kind(op) \in {"QM", "STAR", "PLUS"}
      BY DEF FixedKinds, Postfix
    <2> QED  BY <1>2, <2>1, FixedIsWritten
  <1>4. Spoken(pos + 1) = Cat(Spoken(pos), <<op>>)
    BY <1>1, <1>2, SpokenNext
  <1>5. ASSUME NEW i \in 1 .. pos + 1, NEW j \in 1 .. pos + 1, j = i + 1, src[i] = SP  PROVE Kind(src[j]) \notin Postfix
    <2>1. (i \in 1 .. pos /\ j \in 1 .. pos) \/ i = pos
      BY <1>1, <1>5
    <2> HIDE DEF SP
    <2> QED  BY <1>5, <2>1 DEF Spaced, JustRead
  <1>6. Spaced'
    BY <1>5 DEF Spaced
  <1>7. JustRead(pos + 1)
    BY <1>1, <1>2 DEF JustRead
  <1> QED  BY <1>2, <1>3, <1>4, <1>6, <1>7, TokenIsWord

LEMMA ElemSound ==
  ASSUME Inv, Sound, parseElem
  PROVE  Sound'
  <1>1. Running("elem")
    BY DEF parseElem
  <1>2. /\ status = "reading" /\ Top.fn = "elem" /\ TypeOK /\ Shape /\ IsCall(Top) /\ pos < Len(src)
        /\ Ahead[1] = src[pos + 1] /\ "atom" \in Functions /\ Spaced
        /\ Top.got # <<>> => JustRead(pos)
    BY <1>1, Reads, Sight DEF Functions, Sound
  <1>3. CASE Top.got = <<>>
    <2>1. Enter(pos, Top, "atom")
      BY <1>3 DEF parseElem
    <2>2. Waits(Top, "atom")
      BY <1>2, <1>3 DEF Waits, Callers
    <2>3. src' = src /\ pos' = pos
      BY <2>1 DEF Enter
    <2>4. Spaced' /\ <<>> \in Words /\ Spoken(pos) = Cat(Spoken(pos), <<>>)
      BY <1>2, <2>3, OverNothing
    <2>5. HoldsAwaits(Top, Top, <<>>)
      BY <1>2, <1>3, ElemAwaits
    <2> QED  BY <1>2, <2>1, <2>2, <2>4, <2>5, SoundEntered
  <1> PICK op : op = Ahead[1]
    OBVIOUS
  <1>4. CASE Top.got # <<>> /\ Kind(op) \in Postfix
    <2>1. PICK x : x = << <<Operator(Kind(op)), Top.got[1]>> >>
      OBVIOUS
    <2>2. PICK self : self = WithGot(Top, x)
      OBVIOUS
    <2>3. Stay(pos + 1, self)
      BY <1>4, <2>1, <2>2 DEF parseElem, WithGot
    <2>4. x = <<x[1]>>
      BY <2>1
    <2>5. IsCall(self) /\ self.fn = "elem" /\ self.got = x
      BY <1>2, <2>2, <2>4, GotFields
    <2>6. src' = src /\ pos' = pos + 1
      BY <2>3 DEF Stay
    <2>7. /\ Spaced' /\ op \in Written({"QM", "STAR", "PLUS"}) /\ <<op>> \in Words
          /\ Spoken(pos + 1) = Cat(Spoken(pos), <<op>>) /\ JustRead(pos + 1)
      BY <1>2, <1>4, <2>6, OverPostfix
    <2>8. HoldsHolds(Top, self, <<op>>)
      BY <1>2, <1>4, <2>1, <2>5, <2>7, ElemHolds
    <2>9. Ready(self)
      BY <2>5 DEF Ready
    <2> QED  BY <1>2, <2>3, <2>5, <2>7, <2>8, <2>9, SoundStayed
  <1>5. CASE Top.got # <<>> /\ Kind(op) \notin Postfix
    <2> PICK x : x = Top.got[1]
      OBVIOUS
    <2>1. Return(pos, x)
      BY <1>5 DEF parseElem
    <2>2. src' = src /\ pos' = pos
      BY <2>1 DEF Return
    <2>3. Spaced' /\ <<>> \in Words /\ Spoken(pos) = Cat(Spoken(pos), <<>>)
      BY <1>2, <2>2, OverNothing
    <2>4. Giving(Top, <<>>, x)
      <3> SUFFICES ASSUME NEW caller, Waits(caller, Top.fn), NEW w \in Words, Holds(Top, w)
                   PROVE  Gives(caller.fn, Cat(w, <<>>), x)
        BY DEF Giving
      <3>1. caller.fn = "seq"
        BY <1>2 DEF Waits, Callers
      <3>2. Cat(w, <<>>) = w /\ IsElem(w, x)
        BY <1>2, <1>5, ElemGathered, CatLaws
      <3> QED  BY <3>1, <3>2 DEF Gives
    <2> QED  BY <1>2, <2>1, <2>3, <2>4, SoundReturned
  <1> QED  BY <1>3, <1>4, <1>5

LEMMA AtomSound ==
  ASSUME Inv, Sound, parseAtom
  PROVE  Sound'
  <1>1. Running("atom")
    BY DEF parseAtom
  <1>2. /\ status = "reading" /\ Top.fn = "atom" /\ TypeOK /\ Shape /\ IsCall(Top) /\ Ready(Top)
        /\ skipSpace < Len(src) /\ Rest[1] = src[skipSpace + 1] /\ "alts" \in Functions /\ Spaced
    BY <1>1, Reads DEF Functions, Sound
  <1> PICK tkn : tkn = Rest[1]
    OBVIOUS
  <1>3. ASSUME NEW u, NEW x, \A w \in Words : Holds(Top, w) => IsElem(Cat(w, u), x)
        PROVE  Giving(Top, u, x)
    <2> SUFFICES ASSUME NEW caller, Waits(caller, Top.fn), NEW w \in Words, Holds(Top, w)
                 PROVE  Gives(caller.fn, Cat(w, u), x)
      BY DEF Giving
    <2>1. caller.fn = "elem"
      BY <1>2 DEF Waits, Callers
    <2> QED  BY <1>3, <2>1 DEF Gives
  <1>4. CASE Top.local = "group" /\ Kind(tkn) = "RP"
    <2>1. PICK x : x = <<"group", Top.got[1]>>
      OBVIOUS
    <2>2. Return(skipSpace + 1, x)
      BY <1>4, <2>1 DEF parseAtom
    <2>3. src' = src /\ pos' = skipSpace + 1
      BY <2>2 DEF Return
    <2>4. /\ Spaced' /\ tkn \in Vocabulary /\ <<tkn>> \in Words
          /\ Spoken(skipSpace + 1) = Cat(Spoken(pos), <<tkn>>) /\ JustRead(skipSpace + 1)
      BY <1>2, <1>4, <2>3, OverToken DEF Postfix
    <2>5. tkn \in Written({"RP"})
      <3>1. {"RP"} \in SUBSET FixedKinds
        BY DEF FixedKinds
      <3> QED  BY <1>4, <2>4, <3>1, FixedIsWritten
    <2>6. Top.got # <<>>
      BY <1>2, <1>4 DEF Ready
    <2>7. Giving(Top, <<tkn>>, x)
      BY <1>2, <1>3, <2>1, <2>5, <2>6, GroupReturns
    <2> QED  BY <1>2, <2>2, <2>4, <2>7, SoundReturned
  <1>5. CASE Top.local = "group" /\ Kind(tkn) # "RP"
    <2>1. Fail("unclosed-group")
      BY <1>5 DEF parseAtom
    <2> QED  BY <1>2, <2>1, SoundFailed
  <1>6. CASE Top.local # "group"
    <2>1. Top.got = <<>>
      BY <1>2, <1>6 DEF Ready
    <2>2. \/ tkn \in Written(AtomKinds) /\ Return(skipSpace + 1, Leaf(tkn))
          \/ Kind(tkn) = "LP" /\ Enter(skipSpace + 1, WithLocal(Top, "group"), "alts")
          \/ Fail(Unreadable(tkn))
      BY <1>6, Zenon DEF parseAtom, WithLocal
    <2>3. CASE tkn \in Written(AtomKinds) /\ Return(skipSpace + 1, Leaf(tkn))
      <3> PICK x : x = Leaf(tkn)
        OBVIOUS
      <3>1. Return(skipSpace + 1, x)
        BY <2>3
      <3>2. src' = src /\ pos' = skipSpace + 1
        BY <3>1 DEF Return
      <3>3. Kind(tkn) \notin Postfix \cup {"ZZ", "SP"}
        BY <2>3 DEF Written, AtomKinds, Postfix
      <3>4. /\ Spaced' /\ <<tkn>> \in Words
            /\ Spoken(skipSpace + 1) = Cat(Spoken(pos), <<tkn>>) /\ JustRead(skipSpace + 1)
        BY <1>2, <3>2, <3>3, OverToken
      <3>5. Giving(Top, <<tkn>>, x)
        BY <1>2, <1>3, <2>1, <2>3, AtomReturns
      <3> QED  BY <1>2, <3>1, <3>4, <3>5, SoundReturned
    <2>4. CASE Kind(tkn) = "LP" /\ Enter(skipSpace + 1, WithLocal(Top, "group"), "alts")
      <3> PICK self : self = WithLocal(Top, "group")
        OBVIOUS
      <3>1. IsCall(self) /\ self.fn = "atom" /\ self.got = <<>> /\ self.local = "group"
        BY <1>2, <2>1, LocalFields
      <3>2. Enter(skipSpace + 1, self, "alts") /\ Waits(self, "alts")
        BY <2>4, <3>1 DEF Waits, Callers
      <3>3. src' = src /\ pos' = skipSpace + 1
        BY <3>2 DEF Enter
      <3>4. /\ Spaced' /\ tkn \in Vocabulary /\ <<tkn>> \in Words
            /\ Spoken(skipSpace + 1) = Cat(Spoken(pos), <<tkn>>)
        BY <1>2, <2>4, <3>3, OverToken DEF Postfix
      <3>5. tkn \in Written({"LP"})
        <4>1. {"LP"} \in SUBSET FixedKinds
          BY DEF FixedKinds
        <4> QED  BY <2>4, <3>4, <4>1, FixedIsWritten
      <3>6. HoldsAwaits(Top, self, <<tkn>>)
        BY <1>2, <2>1, <3>1, <3>5, AtomAwaits
      <3> QED  BY <1>2, <3>1, <3>2, <3>4, <3>6, SoundEntered
    <2>5. CASE Fail(Unreadable(tkn))
      <3> PICK why : why = Unreadable(tkn)
        OBVIOUS
      <3>1. why \notin {"reading", "parsed"}
        <4>1. Unreadable(tkn) \in {"no-expression", "special-sequence", "subtraction", "ISO-repetition",
                        "dangling-postfix", "unclosed-character-class", "symbol-name",
                        "empty-literal", "character-class", "code-point", "unexpected-character"}
          BY Reasons
        <4> QED  BY <4>1
      <3>2. Fail(why)
        BY <2>5
      <3> QED  BY <1>2, <3>1, <3>2, SoundFailed
    <2> QED  BY <2>2, <2>3, <2>4, <2>5
  <1> QED  BY <1>4, <1>5, <1>6

LEMMA ReadSound ==
  ASSUME Inv, Sound, Read
  PROVE  Sound'
  <1>1. PICK tkn \in {EndOfSource} \cup (IF Len(src) < MaxTokens THEN Vocabulary \cup {SP} ELSE {}) : src' = Append(src, tkn)
    BY DEF Read
  <1>2. pos' = pos /\ stack' = stack /\ status' = "reading" /\ status = "reading" /\ TypeOK
    BY DEF Read, Inv
  <1>3. /\ Len(src') = Len(src) + 1 /\ src'[Len(src) + 1] = tkn /\ Len(src) \in Nat /\ pos \in 0 .. Len(src)
        /\ \A i \in 1 .. Len(src) : src'[i] = src[i]
    BY <1>1, <1>2, OneLonger, Sight DEF TypeOK
  <1>4. Spoken(pos)' = Spoken(pos)
    <2>1. SubSeq(Append(src, tkn), 1, pos) = SubSeq(src, 1, pos)
      <3>1. src \in Seq(Vocabulary \cup {SP, EndOfSource} \cup {tkn}) /\ tkn \in Vocabulary \cup {SP, EndOfSource} \cup {tkn}
        BY <1>2 DEF TypeOK
      <3> QED  BY <1>3, <3>1
    <2> QED  BY <1>1, <1>2, <2>1 DEF Spoken
  <1>5. Tells'
    BY <1>2, <1>4 DEF Sound, Tells, Height
  <1>6. Top'.fn = "elem" /\ Top'.got # <<>> => JustRead(pos)'
    <2>1. Top' = Top
      BY <1>2 DEF Top
    <2>2. pos > 0 => src'[pos] = src[pos]
      BY <1>3
    <2> QED  BY <1>2, <2>1, <2>2 DEF Sound, JustRead
  <1>7. Spaced'
    <2>1. \A i \in 1 .. pos : src'[i] = src[i]
      BY <1>3
    <2> QED  BY <1>2, <2>1 DEF Sound, Spaced
  <1>8. Bounded'
    <2>1. ASSUME NEW i \in 1 .. Len(src'), src'[i] # EndOfSource  PROVE i <= MaxTokens
      <3>1. CASE i \in 1 .. Len(src)
        BY <1>3, <2>1, <3>1 DEF Sound, Bounded
      <3>2. CASE i = Len(src) + 1
        <4>1. Len(src) < MaxTokens
          BY <1>1, <1>3, <2>1, <3>2
        <4> QED  BY <1>3, <3>2, <4>1, MaxTokensAssumption
      <3> QED  BY <1>3, <3>1, <3>2
    <2> QED  BY <2>1 DEF Bounded
  <1>9. ReadsTheNotation'
    BY <1>2 DEF ReadsTheNotation
  <1> QED  BY <1>5, <1>6, <1>7, <1>8, <1>9 DEF Sound

LEMMA InitSound ==
  ASSUME Init
  PROVE  Sound
  <1>1. src = <<>> /\ pos = 0 /\ status = "reading" /\ stack = <<Call("ebnf")>> /\ "ebnf" \in Functions
    BY DEF Init, Functions
  <1>2. Shape
    BY <1>1, InitInv DEF Inv
  <1> PICK c : c = Call("ebnf")
    OBVIOUS
  <1>3. Height = 1 /\ stack[1] = c /\ Top = c
    BY <1>1, <1>2, ShapeTop DEF Height
  <1>4. c.fn = "ebnf" /\ c.got = <<>> /\ c.val = <<>> /\ c.local = ""
    BY <1>1, NewCall
  <1>5. Holds(c, <<>>)
    BY <1>4, SourceRules DEF Holds, Starting
  <1>6. Told(stack, 1, <<>>)
    <2> DEFINE at == [i \in 1 .. 1 |-> <<>>]
    <2>1. at \in [1 .. 1 -> Words] /\ at[1] = <<>>
      BY CatLaws
    <2>2. Ending(<<>>, c, <<>>)
      BY <1>5, CatLaws DEF Ending
    <2> HIDE DEF at
    <2>3. \A i \in 1 .. 1 : \A j \in 1 .. 1 : j = i + 1 => Joins(at[i], stack[i], at[j])
      OBVIOUS
    <2>4. Ending(at[1], stack[1], <<>>)
      BY <1>3, <2>1, <2>2
    <2> QED  BY <2>1, <2>3, <2>4 DEF Told
  <1>7. Tells
    BY <1>1, <1>3, <1>6, SpokenNone DEF Tells
  <1>8. Spaced /\ Bounded
    BY <1>1 DEF Spaced, Bounded
  <1>9. ReadsTheNotation
    BY <1>1 DEF ReadsTheNotation
  <1> QED  BY <1>3, <1>4, <1>7, <1>8, <1>9 DEF Sound

LEMMA UnchangedSound ==
  ASSUME Sound, UNCHANGED vars
  PROVE  Sound'
  <1>1. src' = src /\ pos' = pos /\ stack' = stack /\ status' = status /\ out' = out
    BY DEF vars
  <1>2. Tells' <=> Tells
    BY <1>1 DEF Tells, Height, Spoken
  <1>3. Top' = Top /\ (JustRead(pos)' <=> JustRead(pos))
    BY <1>1 DEF Top, JustRead
  <1>4. ReadsTheNotation'
    BY <1>1 DEF Sound, ReadsTheNotation, Body, DocumentedSources, SpaceBeforePostfix
  <1> QED  BY <1>1, <1>2, <1>3, <1>4 DEF Sound, Spaced, Bounded

LEMMA NextSound ==
  ASSUME Inv, Sound, [Next]_vars
  PROVE  Sound'
  <1>1. CASE Next
    BY <1>1, ReadSound, EbnfSound, AltsSound, SeqSound, ElemSound, AtomSound, UnchangedSound DEF Next
  <1>2. CASE UNCHANGED vars
    BY <1>2, UnchangedSound
  <1> QED  BY <1>1, <1>2

\* Whatever the parser accepts is written in the documented notation, and the productions
\* it returns are the tree the notation gives that source; spaces and comments stand
\* anywhere in it but before a postfix operator.
THEOREM GoReadsTheNotation == Spec => []ReadsTheNotation
  <1>1. Init => Sound
    BY InitSound
  <1>2. Inv /\ Sound /\ [Next]_vars => Sound'
    BY NextSound
  <1>3. Sound => ReadsTheNotation
    BY DEF Sound
  <1> QED  BY <1>1, <1>2, <1>3, GoStackIsSound, PTL DEF Spec

==============================================================================
