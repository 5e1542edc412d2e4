------------------------------- MODULE CharClass -------------------------------
(***************************************************************************)
(* A character class, [...] or [^...], lowered to a regular expression:    *)
(* parseCharClass of ts/src/converter.ts and of go/parser_ebnf.go, and     *)
(* parse_char_class of rs/src/classes.rs, which reads the same members and *)
(* folds the same ranges and then trims the surrogates off them.           *)
(*                                                                         *)
(* Code points are numbers on a scale with the boundaries of Unicode:      *)
(*   0 .. Lead-1, Lead .. Trail-1 and Trail .. Bmp0-1 (the two halves of   *)
(*   UTF-16 pairs), Bmp0 .. Astral-1 (the rest of the BMP), Astral .. Top, *)
(*   one of the last for each pair: Top - Astral + 1 =                     *)
(*   (Trail - Lead) * (Bmp0 - Trail).                                      *)
(***************************************************************************)
EXTENDS Integers, SequencesExt

CONSTANTS Hyphen, Lead, Trail, Bmp0, Astral, Top,
          Members,     (* the code points that a class may hold *)
          MaxMembers   (* bound: and how many of them it holds  *)

Mark == -1               \* a hyphen written as '-', until the ranges are folded
Surrogates == Lead..Bmp0 - 1
Scalars == 0..Top \ Surrogates
Replacement == Astral - 1   \* U+FFFD, near the end of the BMP

VARIABLES negated,   (* the class starts with ^                              *)
          items,     (* its members: code points, and Mark                   *)
          k,         (* the fold's place among them                          *)
          parts,     (* the ranges folded so far, [lo, hi]                   *)
          status     (* "items", "fold", "class" or "refused"                *)

vars == <<negated, items, k, parts, status>>

Init == negated \in BOOLEAN /\ items = <<>> /\ k = 1 /\ parts = <<>> /\ status = "items"

\* codePoint: one above the maximum is refused; so is #x with no digit.
Member ==
  /\ status = "items" /\ Len(items) < MaxMembers
  /\ \/ \E cp \in Members \cup {Mark} : items' = Append(items, cp) /\ UNCHANGED status
     \/ status' = "refused" /\ UNCHANGED items
  /\ UNCHANGED <<negated, k, parts>>

ClassEnds ==
  /\ status = "items" /\ status' = (IF items = <<>> THEN "refused" ELSE "fold")
  /\ UNCHANGED <<negated, items, k, parts>>

RangeAt == k + 2 <= Len(items) /\ items[k] # Mark /\ items[k + 1] = Mark /\ items[k + 2] # Mark

RangeMember ==
  /\ status = "fold" /\ RangeAt
  /\ IF items[k + 2] < items[k] THEN status' = "refused" /\ UNCHANGED <<k, parts>>
     ELSE /\ parts' = Append(parts, [lo |-> items[k], hi |-> items[k + 2]])
          /\ k' = k + 3 /\ UNCHANGED status
  /\ UNCHANGED <<negated, items>>

Single ==
  /\ status = "fold" /\ k <= Len(items) /\ ~RangeAt
  /\ LET cp == IF items[k] = Mark THEN Hyphen ELSE items[k]
     IN  parts' = Append(parts, [lo |-> cp, hi |-> cp])
  /\ k' = k + 1 /\ UNCHANGED <<negated, items, status>>

Folded ==
  /\ status = "fold" /\ k > Len(items) /\ status' = "class"
  /\ UNCHANGED <<negated, items, k, parts>>

Next == Member \/ ClassEnds \/ RangeMember \/ Single \/ Folded
Spec == Init /\ [][Next]_vars

-----------------------------------------------------------------------------
(* What is emitted. *)

astral == \E i \in DOMAIN parts : parts[i].hi >= Astral

\* Mutant: the u flag for members above the BMP only.
flagUMembers == astral

flagU == negated \/ astral

\* TypeScript's pattern: an escape for each end, \u{...} throughout when a
\* member is astral and \uXXXX throughout when none is; "-" between two ends.
pattern ==
  FoldLeft(LAMBDA acc, p : acc \o (IF p.lo = p.hi THEN <<p.lo>> ELSE <<p.lo, Mark, p.hi>>), <<>>, parts)

Chars(ps) == UNION {ps[i].lo..ps[i].hi : i \in DOMAIN ps}

\* Rust: no end may be a surrogate, which its regular expressions refuse.
trimmed ==
  LET trim(p) == [lo |-> IF p.lo \in Surrogates THEN Bmp0 ELSE p.lo,
                  hi |-> IF p.hi \in Surrogates THEN Lead - 1 ELSE p.hi]
  IN  SelectSeq([i \in DOMAIN parts |-> trim(parts[i])], LAMBDA p : p.lo <= p.hi)

rust ==
  IF trimmed # <<>> THEN [negated |-> negated, parts |-> trimmed]
  ELSE IF negated THEN [negated |-> FALSE, parts |-> <<[lo |-> 0, hi |-> Top]>>]
  ELSE [negated |-> FALSE, parts |-> <<[lo |-> Replacement, hi |-> Replacement]>>]

-----------------------------------------------------------------------------
(* How JavaScript reads the pattern.  In Unicode mode two \uXXXX escapes,  *)
(* a leading and a trailing surrogate, side by side are one code point.    *)

Pair(lead, trail) == Astral + (lead - Lead) * (Bmp0 - Trail) + (trail - Trail)
IsLead(cp) == cp \in Lead..Trail - 1
IsTrail(cp) == cp \in Trail..Bmp0 - 1

Joined(i) ==
  /\ flagU /\ ~astral /\ i < Len(pattern) /\ IsLead(pattern[i]) /\ IsTrail(pattern[i + 1])

Atoms ==
  FoldLeft(LAMBDA acc, i :
             IF i > 1 /\ Joined(i - 1) THEN acc
             ELSE Append(acc, IF Joined(i) THEN Pair(pattern[i], pattern[i + 1]) ELSE pattern[i]),
           <<>>, [i \in DOMAIN pattern |-> i])

ReadBack ==
  UNION {IF i > 1 /\ Atoms[i - 1] = Mark THEN {}
         ELSE IF i < Len(Atoms) /\ Atoms[i + 1] = Mark THEN Atoms[i]..Atoms[i + 2]
         ELSE {Atoms[i]} : i \in {j \in DOMAIN Atoms : Atoms[j] # Mark}}

\* What is taken from a document at the character c: all of it, the first
\* half of its pair, or nothing.  chars is what the pattern reads back as.
Taken(c, chars) ==
  LET accepts(u) == (u \in chars) # negated
      lead == CHOOSE u \in Lead..Trail - 1 : \E t \in Trail..Bmp0 - 1 : Pair(u, t) = c
  IN  IF flagU \/ c < Astral THEN (IF accepts(c) THEN "whole" ELSE "nothing")
      ELSE IF accepts(lead) THEN "half" ELSE "nothing"

-----------------------------------------------------------------------------
(* The ranges of a class, by their hyphens: one joins its neighbours when    *)
(* both are members and the left one is not the high end of a range.         *)
Joins ==
  LET joins[i \in 0..Len(items)] ==
        /\ 1 < i /\ i < Len(items)
        /\ items[i] = Mark /\ items[i - 1] # Mark /\ items[i + 1] # Mark
        /\ (i > 2 => ~joins[i - 2])
  IN  {i \in DOMAIN items : joins[i]}

Denotes ==
  UNION {items[i - 1]..items[i + 1] : i \in Joins}
    \cup {IF items[i] = Mark THEN Hyphen ELSE items[i] :
            i \in {j \in DOMAIN items : {j - 1, j, j + 1} \cap Joins = {}}}

\* A class denotes what its hyphens say, wherever they stand: between two
\* members a range, and a hyphen when first, last, doubled or after a range.
\* It is refused for nothing but a range whose ends are the wrong way round.
ReadsTheRanges ==
  /\ status = "class" =>
       Chars(parts) = Denotes /\ \A i \in DOMAIN parts : parts[i].lo <= parts[i].hi
  /\ status = "refused" /\ k > 1 => \E i \in Joins : items[i + 1] < items[i - 1]

NamesNoSurrogate == \A i \in DOMAIN parts : {parts[i].lo, parts[i].hi} \cap Surrogates = {}

\* The pattern takes from a document exactly the characters that the class
\* says, each of them whole, for a class that names no surrogate (and, where
\* Unicode mode is off, spans none).
TakesWholeCharacters ==
  status = "class" /\ NamesNoSurrogate /\ (flagU \/ Chars(parts) \cap Surrogates = {}) =>
    LET chars == ReadBack
        denoted == Denotes
    IN  \A c \in Scalars : Taken(c, chars) = IF (c \in denoted) # negated THEN "whole" ELSE "nothing"

\* Rust's class accepts the same characters as the class that was written,
\* though it names no surrogate; only a class of nothing else accepts another.
RustKeepsTheCharacters ==
  status = "class" =>
    LET emitted == rust
        chars == Chars(emitted.parts)
        denoted == Denotes
    IN  /\ \A i \in DOMAIN emitted.parts : {emitted.parts[i].lo, emitted.parts[i].hi} \cap Surrogates = {}
        /\ ~(denoted \subseteq Surrogates /\ ~negated) =>
             \A c \in Scalars : ((c \in chars) # emitted.negated) = ((c \in denoted) # negated)

\* "Unicode mode follows what the matcher can MATCH, not what was written":
\* no pattern takes one surrogate of a pair (converter.ts:740).
UnicodeModeFollowsTheMatch ==
  status = "class" => LET chars == ReadBack IN \A c \in Scalars : Taken(c, chars) # "half"

==============================================================================
