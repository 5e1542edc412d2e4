------------------------------ MODULE EbnfRules ------------------------------
(***************************************************************************)
(* ts/src/converter.ts: the rule table ebnfRules that reads EBNF source    *)
(* into the grammar IR, and the rule-stack engine of @tabnas/parser that   *)
(* runs it.                                                                *)
(*                                                                         *)
(* A rule has an open and a close state.  In each the engine takes the     *)
(* FIRST alternative whose token pattern and condition match; `b` gives    *)
(* tokens back, `p` pushes a child rule, `r` replaces the rule.  A rule    *)
(* re-enters its close state every time a child returns, and its bc hook   *)
(* runs before each of those.  The tree is assembled by side effects on    *)
(* arrays that rules share with their parents, in that order of events.    *)
(*                                                                         *)
(* The lexer is lazy: a token is read when an alternative needs to see it. *)
(* The source is therefore not fixed in advance; it is whatever tokens the *)
(* table asks for, one by one, so the model reads EVERY source of at most  *)
(* MaxTokens tokens.                                                       *)
(***************************************************************************)
EXTENDS Lexemes, SequencesExt

CONSTANT MaxTokens   (* bound: tokens in a source, its end not counted      *)
ASSUME MaxTokensAssumption == MaxTokens \in Nat

VARIABLES src,       (* the tokens read so far, with EndOfSource when read  *)
          pos,       (* how many of them are consumed                       *)
          stack,     (* the rules being parsed, the innermost last          *)
          status,    (* "reading", "parsed", or why the source was refused  *)
          out        (* the productions, once parsed                        *)

vars == <<src, pos, stack, status, out>>

-----------------------------------------------------------------------------
(* The table.                                                               *)

Alt == [s |-> <<>>, b |-> 0, c |-> "always", a |-> "none", p |-> "none", r |-> "none"]
Leave == [Alt EXCEPT !.b = 1]

DEFOP == {"DEF", "DEFE"}
Header == <<{"TX"}, DEFOP>>

\* An alternative whose action is one of the fail* helpers: it throws.
Refuse(kinds, why) == [Alt EXCEPT !.s = <<kinds>>, !.a = why]

ebnfOpen == << [Alt EXCEPT !.s = <<{"ZZ"}>>], [Alt EXCEPT !.p = "prod"] >>
ebnfClose == << [Alt EXCEPT !.s = <<{"ZZ"}>>] >>

prodOpen == << [Alt EXCEPT !.s = Header, !.a = "name", !.p = "alts"] >>
\* Mutant: a `;` must be followed by another production.
prodCloseSeparator ==
  << [Alt EXCEPT !.s = <<{"SC"}>> \o Header, !.b = 2, !.r = "prod"],
     [Alt EXCEPT !.s = Header, !.b = 2, !.r = "prod"],
     Leave >>

prodClose ==
  << [Alt EXCEPT !.s = <<{"SC"}>> \o Header, !.b = 2, !.r = "prod"],
     [Alt EXCEPT !.s = <<{"SC"}>>],
     [Alt EXCEPT !.s = Header, !.b = 2, !.r = "prod"],
     Leave >>

altsOpen == << [Alt EXCEPT !.p = "seq"] >>
altsClose == << [Alt EXCEPT !.s = <<{"ALT"}>>, !.p = "seq"], Leave >>

\* Mutant: a leading bar is skipped, as in some dialects.
seqAltsLeadingBar(first) ==
  (IF first
   THEN << [Alt EXCEPT !.s = Header, !.b = 2, !.a = "empty-alternative"],
           [Alt EXCEPT !.s = <<{"ALT"}>>],
           Refuse({"RP", "SC", "ZZ"}, "empty-alternative"),
           Refuse({"CA"}, "leading-comma") >>
   ELSE << [Alt EXCEPT !.s = Header, !.b = 2],
           [Alt EXCEPT !.s = <<{"ALT", "RP", "SC", "ZZ"}>>, !.b = 1],
           [Alt EXCEPT !.s = <<{"CA"}>>, !.p = "elem"] >>)
  \o
  << [Alt EXCEPT !.s = <<{"ST", "CC", "HX", "TX", "LP"}>>, !.b = 1, !.p = "elem"],
     Leave >>

seqAlts(first) ==
  (IF first
   THEN << [Alt EXCEPT !.s = Header, !.b = 2, !.a = "empty-alternative"],
           Refuse({"ALT", "RP", "SC", "ZZ"}, "empty-alternative"),
           Refuse({"CA"}, "leading-comma") >>
   ELSE << [Alt EXCEPT !.s = Header, !.b = 2],
           [Alt EXCEPT !.s = <<{"ALT", "RP", "SC", "ZZ"}>>, !.b = 1],
           [Alt EXCEPT !.s = <<{"CA"}>>, !.p = "elem"] >>)
  \o
  << [Alt EXCEPT !.s = <<{"ST", "CC", "HX", "TX", "LP"}>>, !.b = 1, !.p = "elem"],
     Refuse({"QM"}, "special-sequence"),
     Refuse({"SUB"}, "subtraction"),
     Refuse({"OB", "CB"}, "ISO-repetition"),
     Refuse({"OS", "CS"}, "stray-bracket"),
     Refuse({"STAR", "PLUS"}, "dangling-postfix"),
     Leave >>

elemOpen == << [Alt EXCEPT !.p = "atom"] >>
elemClose == << [Alt EXCEPT !.c = "not-got", !.a = "got", !.p = "post"], Leave >>

postOpen ==
  << [Alt EXCEPT !.s = <<{"QM"}>>, !.a = "opt", !.p = "post"],
     [Alt EXCEPT !.s = <<{"STAR"}>>, !.a = "star", !.p = "post"],
     [Alt EXCEPT !.s = <<{"PLUS"}>>, !.a = "plus", !.p = "post"],
     Leave >>
\* Mutant: post recurs through r instead of p.
postCloseReplace == << [Alt EXCEPT !.r = "post"] >>

postClose == << Leave >>

atomOpen ==
  << [Alt EXCEPT !.s = <<{"ST"}>>, !.a = "term"],
     [Alt EXCEPT !.s = <<{"CC"}>>, !.a = "regex"],
     [Alt EXCEPT !.s = <<{"HX"}>>, !.a = "code-point"],
     [Alt EXCEPT !.s = <<{"TX"}>>, !.a = "ref"],
     [Alt EXCEPT !.s = <<{"LP"}>>, !.a = "open-group", !.p = "alts"],
     Refuse({"QM"}, "special-sequence"),
     Refuse({"SUB"}, "subtraction"),
     Refuse({"OB", "CB"}, "ISO-repetition"),
     Refuse({"OS"}, "stray-bracket") >>
\* Mutant: the complaint about an unclosed group lost its condition.
atomCloseAlways ==
  << [Alt EXCEPT !.s = <<{"RP"}>>, !.c = "group", !.a = "close-group"],
     [Alt EXCEPT !.a = "unclosed-group"] >>

atomClose ==
  << [Alt EXCEPT !.s = <<{"RP"}>>, !.c = "group", !.a = "close-group"],
     [Alt EXCEPT !.c = "group", !.a = "unclosed-group"],
     Leave >>

Refusals == {"empty-alternative", "leading-comma", "special-sequence", "subtraction",
             "ISO-repetition", "stray-bracket", "dangling-postfix", "unclosed-group"}

Open(rule) ==
  CASE rule = "ebnf" -> ebnfOpen [] rule = "prod" -> prodOpen [] rule = "alts" -> altsOpen
    [] rule = "seq"  -> seqAlts(TRUE) [] rule = "elem" -> elemOpen
    [] rule = "post" -> postOpen [] rule = "atom" -> atomOpen

Close(rule) ==
  CASE rule = "ebnf" -> ebnfClose [] rule = "prod" -> prodClose [] rule = "alts" -> altsClose
    [] rule = "seq"  -> seqAlts(FALSE) [] rule = "elem" -> elemClose
    [] rule = "post" -> postClose [] rule = "atom" -> atomClose

RuleNames == {"ebnf", "prod", "alts", "seq", "elem", "post", "atom"}

-----------------------------------------------------------------------------
(* Rules on the stack.  node, child and u hold a value as a one-element     *)
(* sequence, or <<>> when it is undefined; elem and prod have no node of    *)
(* their own but append to their parent's array.                            *)

\* A rule as its bo hook leaves it.
New(rule) ==
  [rule |-> rule, state |-> "open", u |-> <<>>, child |-> <<>>,
   node |-> IF rule \in {"ebnf", "alts", "seq", "post"} THEN <<<<>>>> ELSE <<>>]

Top == Last(stack)

Extend(frame, x) == [frame EXCEPT !.node = << Append(@[1], x) >>]

\* The bc hooks, as the stack they leave.  A child without a node does nothing.
Returned == Top.child # <<>>
ToParent(x) == [stack EXCEPT ![Len(stack) - 1] = Extend(@, x)]

prodBc == IF Returned THEN ToParent([name |-> Top.u[1], alts |-> Top.child[1]]) ELSE stack

altsBc == IF Returned THEN [stack EXCEPT ![Len(stack)] = Extend(@, Top.child[1])] ELSE stack

\* An element with operators around it, the first the innermost.
Wrapped(el, ops) ==
  LET around[n \in 0 .. Len(ops)] == IF n = 0 THEN el ELSE <<ops[n], around[n - 1]>>
  IN around[Len(ops)]

elemBc ==
  IF Top.u # <<>>
  THEN ToParent(Wrapped(Top.u[1], Top.child[1]))
  ELSE stack

\* Mutant: a rule's own operators after those of its child.
postBcReversed ==
  IF Returned THEN [stack EXCEPT ![Len(stack)].node = << Top.child[1] \o @[1] >>] ELSE stack

postBc ==
  IF Returned THEN [stack EXCEPT ![Len(stack)].node = << @[1] \o Top.child[1] >>] ELSE stack

\* The stack after the bc hook of its top rule, if the rule has one.
AfterBc ==
  CASE Top.rule = "prod" -> prodBc [] Top.rule = "alts" -> altsBc
    [] Top.rule = "elem" -> elemBc [] Top.rule = "post" -> postBc
    [] OTHER -> stack

\* Why the alternative's action throws on its first token, or "no".
Throws(alt, tkn) ==
  CASE alt.a \in Refusals -> alt.a
    [] alt.a \in {"name", "ref"} /\ Text(tkn) = "!" -> "symbol-name"
    [] alt.a = "term" /\ Text(tkn) = "!" -> "empty-literal"
    [] alt.a = "regex" /\ Text(tkn) = "!" -> "character-class"
    [] alt.a = "code-point" /\ Text(tkn) = "!" -> "code-point"
    [] OTHER -> "no"

\* What the alternative's action does to its rule.
Act(alt, frame, tkn) ==
  CASE alt.a = "name" -> [frame EXCEPT !.u = <<Text(tkn)>>]
    [] alt.a \in {"term", "regex", "ref"} -> [frame EXCEPT !.node = << <<alt.a, Text(tkn)>> >>]
    [] alt.a = "code-point" -> [frame EXCEPT !.node = << <<"term", "code-point">> >>]
    [] alt.a = "open-group" -> [frame EXCEPT !.u = <<"group">>]
    [] alt.a = "close-group" -> [frame EXCEPT !.node = << <<"group", frame.child[1]>> >>]
    [] alt.a = "got" -> [frame EXCEPT !.u = frame.child]
    [] alt.a \in {"opt", "star", "plus"} -> Extend(frame, alt.a)
    [] OTHER -> frame

-----------------------------------------------------------------------------
(* The engine.                                                              *)

Condition(alt, frame) ==
  CASE alt.c = "not-got" -> frame.u = <<>>
    [] alt.c = "group"   -> frame.u # <<>>
    [] OTHER             -> TRUE

\* The tokens in sight agree with the pattern as far as both go.
Agrees(alt, frame) ==
  /\ Condition(alt, frame)
  /\ \A k \in DOMAIN alt.s : pos + k <= Len(src) => Kind(src[pos + k]) \in alt.s[k]

InSight(alt) == pos + Len(alt.s) <= Len(src)

Alternatives == IF Top.state = "open" THEN Open(Top.rule) ELSE Close(Top.rule)

\* The first alternative that the tokens in sight do not rule out; 0 for none.
Choice == SelectInSeq(Alternatives, LAMBDA alt : Agrees(alt, Top))

\* That alternative needs to see one more token before it is taken.
NeedsToken == Choice # 0 /\ ~InSight(Alternatives[Choice])

Init ==
  /\ src = <<>> /\ pos = 0
  /\ stack = << New("ebnf") >>
  /\ status = "reading"
  /\ out = <<>>

Ended == src # <<>> /\ Last(src) = EndOfSource

\* The lexer reads one more token, of any kind; past the end, the end again.
Lex ==
  /\ status = "reading" /\ NeedsToken
  /\ \E tkn \in {EndOfSource} \cup
                 (IF Len(src) < MaxTokens /\ ~Ended THEN Vocabulary ELSE {}) :
       src' = Append(src, tkn)
  /\ UNCHANGED <<pos, stack, status, out>>

\* The value a rule leaves to its parent.
Popped(stk) ==
  LET n == Len(stk)
  IN IF n = 1 THEN <<>> ELSE [Front(stk) EXCEPT ![n - 1].child = stk[n].node]

\* Take alternative alt of the top rule of stk.
Take(alt, stk) ==
  LET n == Len(stk)
      tkn == IF alt.s = <<>> THEN EndOfSource ELSE src[pos + 1]
      acted == [stk EXCEPT ![n] = [Act(alt, @, tkn) EXCEPT !.state = "close"]]
  IN IF Throws(alt, tkn) # "no"
     THEN status' = Throws(alt, tkn) /\ UNCHANGED <<pos, stack, out>>
     ELSE /\ pos' = IF Len(alt.s) > alt.b THEN pos + Len(alt.s) - alt.b ELSE pos
          /\ stack' = IF alt.p # "none" THEN Append(acted, New(alt.p))
                      ELSE IF alt.r # "none" THEN Append(Front(acted), New(alt.r))
                      ELSE IF Top.state = "open" THEN acted
                      ELSE Popped(acted)
          /\ IF stack' = <<>>
             THEN status' = "parsed" /\ out' = stk[1].node[1]
             ELSE UNCHANGED <<status, out>>

\* One step of a rule: its hook, then its first matching alternative.  With no
\* alternative the engine throws its own error.
Step(rule, state) ==
  /\ status = "reading" /\ Top.rule = rule /\ Top.state = state
  /\ ~NeedsToken
  /\ UNCHANGED src
  /\ IF Choice = 0
     THEN status' = "syntax" /\ UNCHANGED <<pos, stack, out>>
     ELSE Take(Alternatives[Choice], IF state = "close" THEN AfterBc ELSE stack)

Next ==
  \/ Lex
  \/ \E rule \in RuleNames, state \in {"open", "close"} : Step(rule, state)
  \/ status # "reading" /\ UNCHANGED vars

\* A parse is one synchronous call: it does not stop half way.  (This is
\* WF_vars(Next) as long as a parse that reads can go on, which the search
\* for deadlocks shows; TLC would take hours over its ENABLED.)
Spec == Init /\ [][Next]_vars /\ ([]<>(status # "reading") \/ []<><<TRUE>>_vars)

=============================================================================
