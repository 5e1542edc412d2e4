------------------------------ MODULE EbnfReader ------------------------------
(***************************************************************************)
(* What the rule table of EbnfRules promises, stated against Notation: it  *)
(* reads the documented notation, all of it and nothing else, and names    *)
(* what is wrong with the rest at the token where it goes wrong.           *)
(***************************************************************************)
EXTENDS EbnfRules, Notation, FiniteSets

DocumentedSources == Sources(MaxTokens)
DocumentedTexts == {s[1] : s \in DocumentedSources}
DocumentedBeginnings == Beginnings(DocumentedSources)

Refused == status \notin {"reading", "parsed"}
Body == Without(src, {EndOfSource})

\* The tokens accepted so far, and the kinds of the last of them and of the next.
Consumed == SubSeq(src, 1, pos)
Before == IF pos = 0 THEN "ZZ" ELSE Kind(src[pos])
Offender == IF pos < Len(src) THEN Kind(src[pos + 1]) ELSE "none"

Count(kind, toks) == Cardinality({i \in DOMAIN toks : Kind(toks[i]) = kind})

-----------------------------------------------------------------------------
\* Which rule may be the parent of which.
Parents == [prod |-> {"ebnf"}, alts |-> {"prod", "atom"}, seq |-> {"alts"}, elem |-> {"seq"},
            post |-> {"elem", "post"}, atom |-> {"elem"}]

\* Types, and the shape of the stack: every array that a hook appends to belongs to
\* the rule right below, so a rule in the wrong place corrupts another one's tree.
TypeOK ==
  /\ src \in Seq(Vocabulary \cup {EndOfSource})
  /\ pos \in 0 .. Len(src)
  /\ status \in {"reading", "parsed", "syntax", "symbol-name", "empty-literal",
                 "character-class", "code-point"} \cup Refusals
  /\ (stack = <<>>) <=> (status = "parsed")
  /\ \A i \in DOMAIN stack :
       IF i = 1 THEN stack[i].rule = "ebnf"
       ELSE stack[i].rule # "ebnf" /\ stack[i - 1].rule \in Parents[stack[i].rule]

\* A source the table accepts is one the documentation describes, and the tree it
\* returns is the one that source denotes: sequences, alternatives, groups and
\* stacked postfix operators in their places, commas and semicolons gone.  It is
\* assembled by the bc hooks of seven rules on arrays they share.
ReadsTheNotation == status = "parsed" => <<Body, out>> \in DocumentedSources

\* A source the table refuses is not a documented one, and when it is refused before
\* its end was read, no documented source begins so.
RefusesTheRest ==
  Refused => IF Ended THEN Body \notin DocumentedTexts ELSE src \notin DocumentedBeginnings

\* A source is refused at the first token that no documented source has in that
\* place: everything accepted before it can still be completed.  (Checked where
\* the completion fits in the bound: a body or an atom, and the open groups.)
FailsFast ==
  Refused /\ pos + 3 + Count("LP", Consumed) <= MaxTokens => Consumed \in DocumentedBeginnings

\* Where an expression is due: nothing of the alternative has been read.
AtStart == Before \in {"DEF", "DEFE", "ALT", "LP"}

\* A diagnostic that names a construct is given for that construct; and
\* conversely, wherever an expression is being read, an operator of ISO 14977 or a
\* subtraction is refused by its own name, never as a stray token.
NamesTheMistake ==
  /\ status = "empty-alternative" => AtStart /\ Offender \in {"ALT", "RP", "SC", "ZZ", "TX"}
  /\ status = "leading-comma" => AtStart /\ Offender = "CA"
  /\ status = "dangling-postfix" => AtStart /\ Offender \in {"STAR", "PLUS"}
  /\ status = "special-sequence" => (AtStart \/ Before = "CA") /\ Offender = "QM"
  /\ status = "subtraction" => Offender = "SUB"
  /\ status = "ISO-repetition" => Offender \in {"OB", "CB"}
  /\ status = "stray-bracket" => Offender \in {"OS", "CS"}
  /\ status = "unclosed-group" =>
       /\ Count("LP", Consumed) > Count("RP", Consumed) /\ Offender # "RP"
       /\ ~AtStart \/ Offender \in DEFOP
  /\ status = "syntax" /\ (\E i \in DOMAIN stack : stack[i].rule = "seq") =>
       Offender \notin {"SUB", "OB", "CB", "OS", "QM"}

\* How many steps may be left before a token is consumed, next being in sight: four
\* for every rule on the stack, and what the rule on top may still push.
Ahead(f, next) ==
  IF f.state = "open" /\ f.rule # "post"
  THEN [ebnf |-> 6, prod |-> 1, alts |-> 16, seq |-> 11, elem |-> 6, atom |-> 1][f.rule]
  ELSE (IF next \in DEFOP THEN 0 ELSE 20)
       + (CASE f.rule = "post" -> IF f.state = "open" THEN 2 ELSE 1
            [] f.rule = "elem" /\ f.u = <<>> -> 7
            [] f.rule = "atom" /\ f.u = <<>> -> 4
            [] OTHER -> 0)
Rank == 4 * Len(stack) + Ahead(Top, Offender)

\* Reading moves on, whatever the source, and so it ends: a step that neither consumes
\* a token nor asks for one brings the next that does nearer.  Between two tokens there
\* are at most 4 * Len(stack) + 27 steps, though a close state is entered again for
\* every child, and some alternatives push or replace a rule without a token.
MovesOn == [][status' = "reading" /\ pos' = pos /\ src' = src => Rank' < Rank]_vars

-----------------------------------------------------------------------------
\* The grammar in the comment above the table (ts/src/converter.ts:148-155) says
\*   seq ::= (','? elem)*
\* These are some of the productions it derives.
CommentSequences ==
  {<<>>} \cup {comma \o <<atom>> : comma \in {<<>>} \cup Mark("CA"), atom \in Written(AtomKinds)}

CommentSources ==
  {<<name, def>> \o seq : name \in Written({"TX"}), def \in Written({"DEF", "DEFE"}),
                          seq \in CommentSequences}

\* The table reads what the comment above it derives.
ReadsTheComment == Refused /\ Ended => Body \notin CommentSources

==============================================================================
