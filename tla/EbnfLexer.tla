------------------------------- MODULE EbnfLexer -------------------------------
(***************************************************************************)
(* Where the lexemes of a source stand: the matchers that                  *)
(* ts/src/converter.ts adds to the engine's lexer, and the scanner of      *)
(* go/parser_ebnf.go, over the same characters.                            *)
(*                                                                         *)
(* "nl" is a newline, "a" any character of a name but a hyphen.  The       *)
(* engine tries the match tokens first, then the fixed tokens, then space  *)
(* and lines, then text; of its own matchers only that much is used.       *)
(* Quoted literals and the engine's own /* */ comments are left out.       *)
(***************************************************************************)
EXTENDS Naturals, SequencesExt, FiniteSetsExt

CONSTANT MaxChars   (* bound: the characters of a source *)

Chars == {"(", "*", ")", "[", "]", "-", "a", "nl"}

VARIABLES src,      (* the source                                            *)
          pnt,      (* where the lexer stands: [i, r, c]                     *)
          tokens,   (* the lexemes behind it, comments and space not among
                       them: [kind, s, e, r, c], the span s..e-1             *)
          ts,       (* what the TypeScript lexer made of the source, or <<>> *)
          status    (* "ts", "go", "done" or "refused"                       *)

vars == <<src, pnt, tokens, ts, status>>

Start == [i |-> 1, r |-> 1, c |-> 1]
Init ==
  /\ src \in UNION {[1..n -> Chars] : n \in 1..MaxChars}
  /\ pnt = Start /\ tokens = <<>> /\ ts = <<>> /\ status = "ts"

\* The character at the place, or "end" behind the last.
At(i) == IF i \in DOMAIN src THEN src[i] ELSE "end"
Here == At(pnt.i)

\* The place behind the first "*)" that begins at from or later, or 0.
CommentEnd(from) ==
  LET ends == {j \in from..Len(src) - 1 : src[j] = "*" /\ src[j + 1] = ")"}
  IN  IF ends = {} THEN 0 ELSE Min(ends) + 2

\* The place behind the class that opens at i, all on one line, or 0.
ClassEnd(i) ==
  LET stops == {j \in i + 1..Len(src) : src[j] \in {"]", "nl"}}
  IN  IF stops = {} \/ src[Min(stops)] = "nl" THEN 0 ELSE Min(stops) + 1

\* The place behind the name at i: a hyphen in a name is part of it.
NameEnd(i) == Min({j \in i..Len(src) + 1 : At(j) \notin {"a", "-"}})

\* Character by character, a newline beginning a line.
Walk(stop) ==
  FoldLeft(LAMBDA p, ch : IF ch = "nl" THEN [i |-> p.i + 1, r |-> p.r + 1, c |-> 1]
                          ELSE [p EXCEPT !.i = @ + 1, !.c = @ + 1],
           pnt, SubSeq(src, pnt.i, stop - 1))

\* What the engine does for a match of its own or of a regular expression:
\* the newlines in it are not counted.
Advance(stop) == [pnt EXCEPT !.i = stop, !.c = @ + (stop - pnt.i)]

Token(kind, stop) == [kind |-> kind, s |-> pnt.i, e |-> stop, r |-> pnt.r, c |-> pnt.c]

-----------------------------------------------------------------------------
(* The TypeScript lexer. *)

\* Mutant: the comment's newlines are not counted.
isoCommentMatcherFlat ==
  LET stop == CommentEnd(pnt.i + 2) IN
    /\ Here = "(" /\ At(pnt.i + 1) = "*" /\ stop # 0
    /\ pnt' = Advance(stop) /\ UNCHANGED tokens

\* Without an end it is left to "(" and "*".
isoCommentMatcher ==
  LET stop == CommentEnd(pnt.i + 2) IN
    /\ Here = "(" /\ At(pnt.i + 1) = "*" /\ stop # 0
    /\ pnt' = Walk(stop) /\ UNCHANGED tokens

IsoComment == Here = "(" /\ At(pnt.i + 1) = "*" /\ CommentEnd(pnt.i + 2) # 0

Claim(kind, stop) == pnt' = Advance(stop) /\ tokens' = Append(tokens, Token(kind, stop))

classToken == Here = "[" /\ ClassEnd(pnt.i) # 0 /\ Claim("CC", ClassEnd(pnt.i))

subToken == Here = "-" /\ Claim("SUB", pnt.i + 1)

Kinds == [ch \in {"(", ")", "*", "[", "]"} |->
            CASE ch = "(" -> "LP" [] ch = ")" -> "RP" [] ch = "*" -> "STAR"
              [] ch = "[" -> "OS" [] ch = "]" -> "CS"]

fixedToken ==
  /\ Here \in DOMAIN Kinds /\ ~IsoComment /\ ~(Here = "[" /\ ClassEnd(pnt.i) # 0)
  /\ Claim(Kinds[Here], pnt.i + 1)

line == Here = "nl" /\ pnt' = Walk(pnt.i + 1) /\ UNCHANGED tokens
text == Here = "a" /\ Claim("TX", NameEnd(pnt.i))

TsLex ==
  /\ status = "ts" /\ Here # "end"
  /\ isoCommentMatcher \/ classToken \/ subToken \/ fixedToken \/ line \/ text
  /\ UNCHANGED <<src, ts, status>>

TsEnd ==
  /\ status = "ts" /\ Here = "end" /\ status' = "go"
  /\ ts' = tokens /\ tokens' = <<>> /\ pnt' = Start /\ UNCHANGED src

-----------------------------------------------------------------------------
(* The Go scanner, as far as the lexemes go: whichever function calls it,   *)
(* skipSpace and then one lexeme.                                           *)

Refuse == status' = "refused" /\ UNCHANGED <<pnt, tokens>>

skipSpace ==
  \/ Here = "nl" /\ pnt' = Walk(pnt.i + 1) /\ UNCHANGED <<tokens, status>>
  \/ /\ Here = "(" /\ At(pnt.i + 1) = "*"
     /\ LET stop == CommentEnd(pnt.i + 2) IN
          IF stop = 0 THEN Refuse ELSE pnt' = Walk(stop) /\ UNCHANGED <<tokens, status>>

Take(kind, stop) ==
  pnt' = Walk(stop) /\ tokens' = Append(tokens, Token(kind, stop)) /\ UNCHANGED status

parseAtom ==
  CASE Here = "a" -> Take("TX", NameEnd(pnt.i))
    [] Here = "[" /\ ClassEnd(pnt.i) # 0 -> Take("CC", ClassEnd(pnt.i))
    [] Here \in {"-", "]"} \/ (Here = "[" /\ ClassEnd(pnt.i) = 0) -> Refuse
    [] Here = "(" /\ At(pnt.i + 1) # "*" -> Take("LP", pnt.i + 1)
    [] Here = ")" -> Take("RP", pnt.i + 1)
    [] Here = "*" -> Take("STAR", pnt.i + 1)
    [] OTHER -> FALSE

GoScan ==
  /\ status = "go" /\ Here # "end" /\ (skipSpace \/ parseAtom)
  /\ UNCHANGED <<src, ts>>

GoEnd == status = "go" /\ Here = "end" /\ status' = "done" /\ UNCHANGED <<src, pnt, tokens, ts>>

Next == TsLex \/ TsEnd \/ GoScan \/ GoEnd

Spec == Init /\ [][Next]_vars

-----------------------------------------------------------------------------
Newlines(i) == {j \in 1..i - 1 : src[j] = "nl"}
TrueAt(i, r, c) ==
  /\ r = 1 + Cardinality(Newlines(i))
  /\ c = i - (IF Newlines(i) = {} THEN 0 ELSE Max(Newlines(i)))

\* Rows and columns are those of the source wherever the lexers stand, after
\* comments over several lines too; a token claimed by a regular expression
\* whose match held a newline would put every later position wrong.
PositionIsTrue ==
  /\ TrueAt(pnt.i, pnt.r, pnt.c)
  /\ \A t \in ToSet(tokens \o ts) : TrueAt(t.s, t.r, t.c)

\* Where TypeScript's reader refuses what its lexer found: a subtraction, a
\* bracket that is no class, a "(" with its "*".
NoReader(n) ==
  \/ ts[n].kind \in {"SUB", "OS", "CS"}
  \/ n < Len(ts) /\ ts[n].kind = "LP" /\ ts[n + 1].kind = "STAR" /\ ts[n].e = ts[n + 1].s

\* The ports find the same lexemes, with the same spans, up to the first
\* that neither of them reads.
SameLexemes ==
  /\ status = "done" => tokens = ts
  /\ status = "refused" =>
       IsPrefix(tokens, ts) /\ Len(tokens) < Len(ts) /\ NoReader(Len(tokens) + 1)

==============================================================================
