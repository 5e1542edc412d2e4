------------------------------- MODULE GoReader -------------------------------
(***************************************************************************)
(* go/parser_ebnf.go: the hand-written recursive descent that reads EBNF   *)
(* in the Go port and, through it, in the C library.                       *)
(*                                                                         *)
(* There is no lexer: every function looks at the characters where the     *)
(* scanner stands, and whether space and comments are skipped first is up  *)
(* to each of them.  A source is therefore a sequence of lexemes AND       *)
(* spaces (a space stands for any run of white space and comments).  The   *)
(* Go stack is a stack of frames; a step runs from one call or return to   *)
(* the next.                                                               *)
(*                                                                         *)
(* As in EbnfRules the source is not fixed in advance: Read adds a lexeme  *)
(* when the function on top has to look at one more.                       *)
(***************************************************************************)
EXTENDS Notation, FiniteSets

CONSTANT MaxTokens   (* bound: lexemes and spaces in a source               *)
ASSUME MaxTokensAssumption == MaxTokens \in Nat

VARIABLES src,       (* the source as far as it has been looked at          *)
          pos,       (* where the scanner stands                            *)
          stack,     (* the active calls, the innermost last                *)
          status,    (* "reading", "parsed", or why the source was refused  *)
          out        (* the productions, once parsed                        *)

vars == <<src, pos, stack, status, out>>

SP == <<"SP", "">>
Postfix == {"QM", "STAR", "PLUS"}

\* What a run of name bytes may be: a hyphen is one of them.
NameKinds == {"TX", "SUB"}

\* Lexemes that do not stay two without a space between them: runs of name bytes or
\* of spaces, a code point followed by a name, and a comment's opening.
Glued(x, y) ==
  \/ Kind(x) \in NameKinds \cup {"HX"} /\ Kind(y) \in NameKinds
  \/ x = SP /\ y = SP
  \/ Kind(x) = "LP" /\ Kind(y) = "STAR"

-----------------------------------------------------------------------------
(* The scanner.                                                             *)

\* A call: its function, what it has accumulated, what its callee returned, and a
\* local: the name being defined, "comma" after a comma, "group" after a "(".
Call(fn) == [fn |-> fn, val |-> <<>>, got |-> <<>>, local |-> ""]

Top == Last(stack)
Ended == src # <<>> /\ Last(src) = EndOfSource

Ahead == SubSeq(src, pos + 1, Len(src))

\* Where skipSpace leaves the scanner, and what lies ahead of it then.
skipSpace == IF Ahead # <<>> /\ Ahead[1] = SP THEN pos + 1 ELSE pos
Rest == SubSeq(src, skipSpace + 1, Len(src))

\* Behind a name and the space after it.
Behind(a) == IF Len(a) > 1 /\ a[2] = SP THEN 3 ELSE 2

\* Mutant: no space between a name and the operator that defines it.
atSeqEndTight(a) ==
  \/ Kind(a[1]) \in {"ZZ", "ALT", "RP", "SC"}
  \/ Kind(a[1]) \in NameKinds /\ Kind(a[2]) \in {"DEF", "DEFE"}

\* The sequence ends here: NAME "==" is not a definition.
atSeqEnd(a) ==
  \/ Kind(a[1]) \in {"ZZ", "ALT", "RP", "SC"}
  \/ /\ Kind(a[1]) \in NameKinds
     /\ LET op == Behind(a)
        IN \/ Kind(a[op]) = "DEF"
           \/ Kind(a[op]) = "DEFE" /\ Kind(a[op + 1]) # "DEFE"

\* Enough is in sight for the function on top to go on.
InSight ==
  CASE Top.fn = "elem" -> Ahead # <<>>
    [] Top.fn = "ebnf" -> Rest # <<>> /\ (Kind(Rest[1]) \in NameKinds => Len(Rest) >= Behind(Rest))
    [] Top.fn = "seq"  -> /\ Rest # <<>>
                          /\ Kind(Rest[1]) \in NameKinds =>
                               /\ Len(Rest) >= Behind(Rest)
                               /\ Kind(Rest[Behind(Rest)]) = "DEFE" => Len(Rest) > Behind(Rest)
    [] OTHER -> Rest # <<>>

NeedsLexeme == ~Ended /\ ~InSight

Init ==
  /\ src = <<>> /\ pos = 0
  /\ stack = << Call("ebnf") >>
  /\ status = "reading"
  /\ out = <<>>

Read ==
  /\ status = "reading" /\ NeedsLexeme
  /\ \E tkn \in {EndOfSource} \cup (IF Len(src) < MaxTokens THEN Vocabulary \cup {SP} ELSE {}) :
       /\ src # <<>> => ~Glued(Last(src), tkn)
       /\ src' = Append(src, tkn)
  /\ UNCHANGED <<pos, stack, status, out>>

Running(fn) == status = "reading" /\ ~NeedsLexeme /\ Top.fn = fn

-----------------------------------------------------------------------------
(* Calls, returns, errors.  self is the running call as the step leaves it. *)

\* The scanner goes to p, and fn is called.
Enter(p, self, fn) ==
  /\ pos' = p
  /\ stack' = Front(stack) \o <<self, Call(fn)>>
  /\ UNCHANGED <<src, status, out>>

\* The scanner goes to p, and the running call goes on.
Stay(p, self) ==
  /\ pos' = p
  /\ stack' = Append(Front(stack), self)
  /\ UNCHANGED <<src, status, out>>

Return(p, x) ==
  /\ pos' = p
  /\ stack' = [Front(stack) EXCEPT ![Len(stack) - 1].got = <<x>>]
  /\ UNCHANGED <<src, status, out>>

\* An error is returned by every caller in turn.
Fail(why) == status' = why /\ UNCHANGED <<src, pos, stack, out>>

-----------------------------------------------------------------------------
\* A turn of the loop: a name and its operator; or, once its body has been read, the
\* production and an optional ";".
ParseEbnf ==
  /\ Running("ebnf")
  /\ LET name == Rest[1]
         op == Behind(Rest)
     IN IF Top.got = <<>>
        THEN \/ /\ name = EndOfSource
                /\ status' = "parsed" /\ out' = Top.val
                /\ stack' = <<>> /\ UNCHANGED <<src, pos>>
             \/ name # EndOfSource /\ Kind(name) \notin NameKinds /\ Fail("no-rule-name")
             \/ Kind(name) \in NameKinds /\ Text(name) \notin Names /\ Fail("symbol-name")
             \/ /\ Kind(name) = "TX" /\ Text(name) \in Names
                /\ IF Kind(Rest[op]) \in {"DEF", "DEFE"}
                   THEN Enter(skipSpace + op, [Top EXCEPT !.local = Text(name)], "alts")
                   ELSE Fail("no-definition-operator")
        ELSE Stay(IF Kind(Rest[1]) = "SC" THEN skipSpace + 1 ELSE skipSpace,
                  [Top EXCEPT !.got = <<>>,
                              !.val = Append(@, [name |-> Top.local, alts |-> Top.got[1]])])

\* The first sequence, and one more after each "|".
parseAlts ==
  /\ Running("alts")
  /\ IF Top.got = <<>> THEN Enter(pos, Top, "seq")
     ELSE LET self == [Top EXCEPT !.val = @ \o Top.got, !.got = <<>>]
          IN IF Kind(Rest[1]) = "ALT" THEN Enter(skipSpace + 1, self, "seq")
             ELSE Return(skipSpace, self.val)

\* Mutants: the scanner does not advance past a comma; a comma may come last.
parseSeqStuck ==
  /\ Running("seq")
  /\ LET self == [Top EXCEPT !.val = @ \o Top.got, !.got = <<>>]
     IN IF atSeqEnd(Rest)
        THEN IF self.val = <<>> THEN Fail("empty-alternative") ELSE Return(skipSpace, self.val)
        ELSE IF Kind(Rest[1]) = "CA"
        THEN IF self.val = <<>> THEN Fail("leading-comma") ELSE Stay(skipSpace, self)
        ELSE Enter(skipSpace, self, "elem")

parseSeqTrailing ==
  /\ Running("seq")
  /\ LET self == [Top EXCEPT !.val = @ \o Top.got, !.got = <<>>]
     IN IF atSeqEnd(Rest)
        THEN IF self.val = <<>> THEN Fail("empty-alternative") ELSE Return(skipSpace, self.val)
        ELSE IF Kind(Rest[1]) = "CA"
        THEN IF self.val = <<>> THEN Fail("leading-comma") ELSE Stay(skipSpace + 1, self)
        ELSE Enter(skipSpace, self, "elem")

\* A turn of the loop; a comma is followed by an element, whatever comes.
parseSeq ==
  /\ Running("seq")
  /\ LET self == [Top EXCEPT !.val = @ \o Top.got, !.got = <<>>, !.local = ""]
     IN IF atSeqEnd(Rest)
        THEN \/ self.val = <<>> /\ Fail("empty-alternative")
             \/ Top.local = "comma" /\ Fail("trailing-comma")
             \/ self.val # <<>> /\ Top.local # "comma" /\ Return(skipSpace, self.val)
        ELSE IF Kind(Rest[1]) = "CA" /\ Top.local # "comma"
        THEN \/ self.val = <<>> /\ Fail("leading-comma")
             \/ self.val # <<>> /\ Stay(skipSpace + 1, [self EXCEPT !.local = "comma"])
        ELSE Enter(skipSpace, self, "elem")

\* Mutant: one postfix operator at most.
parseElemOnce ==
  /\ Running("elem")
  /\ IF Top.got = <<>> THEN Enter(pos, Top, "atom")
     ELSE IF Kind(Ahead[1]) \in Postfix /\ Top.got[1][1] \notin {"opt", "star", "plus"}
     THEN Stay(pos + 1, [Top EXCEPT !.got = << <<Operator(Kind(Ahead[1])), @[1]>> >>])
     ELSE Return(pos, Top.got[1])

\* An atom, then the postfix operators that follow it with no space between.
parseElem ==
  /\ Running("elem")
  /\ IF Top.got = <<>> THEN Enter(pos, Top, "atom")
     ELSE IF Kind(Ahead[1]) \in Postfix
     THEN Stay(pos + 1, [Top EXCEPT !.got = << <<Operator(Kind(Ahead[1])), @[1]>> >>])
     ELSE Return(pos, Top.got[1])

\* Why parseAtom cannot begin with tkn.
Unreadable(tkn) ==
  CASE tkn = EndOfSource -> "no-expression"
    [] Kind(tkn) = "QM" -> "special-sequence"
    [] Kind(tkn) = "SUB" -> "subtraction"
    [] Kind(tkn) \in {"OB", "CB"} -> "ISO-repetition"
    [] Kind(tkn) \in {"STAR", "PLUS"} -> "dangling-postfix"
    [] Kind(tkn) = "OS" -> "unclosed-character-class"
    [] Kind(tkn) = "TX" -> "symbol-name"
    [] Kind(tkn) = "ST" -> "empty-literal"
    [] Kind(tkn) = "CC" -> "character-class"
    [] Kind(tkn) = "HX" -> "code-point"
    [] OTHER -> "unexpected-character"

\* A token on its own, or a "(", the alternatives, and after them the ")".
parseAtom ==
  /\ Running("atom")
  /\ LET tkn == Rest[1]
     IN IF Top.local = "group"
        THEN IF Kind(tkn) = "RP" THEN Return(skipSpace + 1, <<"group", Top.got[1]>>)
             ELSE Fail("unclosed-group")
        ELSE \/ tkn \in Written(AtomKinds) /\ Return(skipSpace + 1, Leaf(tkn))
             \/ Kind(tkn) = "LP" /\ Enter(skipSpace + 1, [Top EXCEPT !.local = "group"], "alts")
             \/ tkn \notin Written(AtomKinds \cup {"LP"}) /\ Fail(Unreadable(tkn))

Next ==
  \/ Read \/ ParseEbnf \/ parseAlts \/ parseSeq \/ parseElem \/ parseAtom
  \/ status # "reading" /\ UNCHANGED vars

\* One synchronous call.
Spec == Init /\ [][Next]_vars /\ WF_vars(Next)

-----------------------------------------------------------------------------
(* What it promises.                                                        *)

DocumentedSources == Sources(MaxTokens)
DocumentedTexts == {s[1] : s \in DocumentedSources}
DocumentedBeginnings == Beginnings(DocumentedSources)

Refused == status \notin {"reading", "parsed"}
Body == Without(src, {SP, EndOfSource})
SpaceBeforePostfix == \E i \in 1 .. Len(src) - 1 : src[i] = SP /\ Kind(src[i + 1]) \in Postfix

\* A source the scanner accepts is a documented one, read as the tree it denotes,
\* with spaces anywhere but before a postfix operator.
ReadsTheNotation ==
  status = "parsed" => <<Body, out>> \in DocumentedSources /\ ~SpaceBeforePostfix

\* A source the scanner refuses is not a documented one, nor the beginning of one,
\* unless it has a space before a postfix operator.
RefusesTheRest ==
  Refused /\ ~SpaceBeforePostfix =>
    IF Ended THEN Body \notin DocumentedTexts ELSE Body \notin DocumentedBeginnings

\* What the scanner has behind it, a space apart, and what it has ahead.
Before == LET end == IF pos > 0 /\ src[pos] = SP THEN pos - 1 ELSE pos
          IN IF end = 0 THEN "ZZ" ELSE Kind(src[end])
Offender == IF Rest = <<>> THEN "none" ELSE Kind(Rest[1])
SpaceBehind == skipSpace > 0 /\ src[skipSpace] = SP

Passed(kind) == Cardinality({i \in 1 .. pos : Kind(src[i]) = kind})
AtStart == Before \in {"DEF", "DEFE", "ALT", "LP"}

\* A diagnostic that names a construct is given for that construct.  A rule's name is
\* asked for only where one is due, and with every group closed: whatever else cannot
\* go on is refused by the function that was reading it.  A postfix operator is called
\* dangling, or a special sequence, only where an element is due or after a space.
NamesTheMistake ==
  /\ status = "empty-alternative" => AtStart /\ Offender \in NameKinds \cup {"ALT", "RP", "SC", "ZZ"}
  /\ status = "leading-comma" => AtStart /\ Offender = "CA"
  /\ status = "trailing-comma" => Before = "CA" /\ Offender \in NameKinds \cup {"ALT", "RP", "SC", "ZZ"}
  /\ status \in {"dangling-postfix", "special-sequence"} =>
       /\ Offender \in (IF status = "special-sequence" THEN {"QM"} ELSE {"STAR", "PLUS"})
       /\ AtStart \/ Before = "CA" \/ SpaceBehind
  /\ status = "subtraction" => Offender = "SUB"
  /\ status = "ISO-repetition" => Offender \in {"OB", "CB"}
  /\ status = "unclosed-group" =>
       Passed("LP") > Passed("RP") /\ Offender \in NameKinds \cup {"SC", "ZZ"}
  /\ status \in {"no-rule-name", "no-definition-operator"} =>
       /\ Passed("LP") = Passed("RP")
       /\ Before \in {"ZZ", "SC"} \/ Offender = "RP"

\* How many steps may be left before a lexeme is consumed: four for every call, and
\* what the running one may still call.
Rank ==
  4 * Len(stack) + (IF Top.fn = "seq" THEN 10
                    ELSE IF Top.got = <<>> THEN [ebnf |-> 0, alts |-> 15, elem |-> 5, atom |-> 0][Top.fn]
                    ELSE [ebnf |-> 1, alts |-> 0, elem |-> 7, atom |-> 0][Top.fn])

\* Reading moves on, and so it ends: a step that neither consumes something nor asks
\* for more brings the next that does nearer.  Each of the loops has turns that consume
\* nothing, and calls that return without having moved.
MovesOn == [][status' = "reading" /\ pos' = pos /\ src' = src => Rank' < Rank]_vars

-----------------------------------------------------------------------------
\* "the two implementations are held to the same accept/reject table"
\* (go/parser_ebnf.go:23): what is written in the documented notation, which EbnfRules
\* reads with spaces anywhere between tokens, this scanner does not refuse.
SameDialect ==
  Refused =>
    IF Ended THEN Body \notin DocumentedTexts ELSE Body \notin DocumentedBeginnings

==============================================================================
