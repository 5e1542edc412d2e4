------------------------------- MODULE GoIgnored -------------------------------
(***************************************************************************)
(* tools/port-deps.cjs, goIgnored: is a Go file's build constraint exactly *)
(* `ignore`?  A file taken for ignored has its imports hidden, so the      *)
(* answer has to be Go's own.                                              *)
(*                                                                         *)
(* A line is a sequence of marks: the starts of a // comment by what it    *)
(* says, the two ends of a block comment, and any other text.              *)
(***************************************************************************)
EXTENDS Naturals, SequencesExt

CONSTANTS Lines,      (* the lines a file may hold     *)
          MaxLines    (* and how many of them, at most *)

GoBuild == {"//go:build ignore", "//go:build linux"}
PlusBuild == {"// +build ignore", "// +build linux"}
Slashes == GoBuild \cup PlusBuild \cup {"//"}
Marks == Slashes \cup {"/*", "*/", "text"}

VARIABLES lines,      (* the lines the header scan has taken             *)
          end,        (* the last blank line before anything but //      *)
          ended,      (* something other than blank and // has been seen *)
          inStar,     (* within a block comment                          *)
          goBuild,    (* the //go:build lines: at most one               *)
          status      (* "header", "ignored", "built" or "refused"       *)

vars == <<lines, end, ended, inStar, goBuild, status>>

Init ==
  /\ lines = <<>> /\ end = 0 /\ ended = FALSE /\ inStar = FALSE
  /\ goBuild = {} /\ status = "header"

Starts(line, marks) == line # <<>> /\ line[1] \in marks

\* The rest of a line after its mark, and whether the header ends there.
Mark(s, mark) ==
  IF s.to # "next" THEN s
  ELSE IF s.inStar THEN [s EXCEPT !.inStar = mark # "*/"]
  ELSE IF mark \in Slashes THEN [s EXCEPT !.to = "line"]
  ELSE IF mark = "/*" THEN [s EXCEPT !.inStar = TRUE]
  ELSE [s EXCEPT !.to = "break"]

\* A //go:build line alone decides; else the +build lines up to `end`.
Decide ==
  IF goBuild # {} THEN goBuild = {"//go:build ignore"}
  ELSE \E m \in 1 .. end : Starts(lines[m], {"// +build ignore"})

Stop(is) == status' = IF is THEN "ignored" ELSE "built"

\* A line that is not blank, or comes after the header's // lines.
HeaderLine(line) ==
  /\ status = "header" /\ lines' = Append(lines, line)
  /\ \E s \in {FoldLeft(Mark, [inStar |-> inStar, to |-> "next"], line)} :
       /\ line # <<>> \/ ended
       /\ ended' = (ended \/ ~Starts(line, Slashes))
       /\ ~inStar /\ Starts(line, GoBuild) => goBuild = {}
       /\ goBuild' = goBuild \cup (IF ~inStar /\ Starts(line, GoBuild) THEN {line[1]} ELSE {})
       /\ inStar' = s.inStar
       /\ IF s.to = "break" THEN Stop(Decide) ELSE UNCHANGED status
       /\ UNCHANGED end

BlankLine(line) ==
  /\ status = "header" /\ line = <<>> /\ ~ended
  /\ lines' = Append(lines, line) /\ end' = Len(lines) + 1
  /\ UNCHANGED <<ended, inStar, goBuild, status>>

SecondGoBuild(line) ==
  /\ status = "header" /\ ~inStar /\ goBuild # {} /\ Starts(line, GoBuild)
  /\ lines' = Append(lines, line) /\ status' = "refused"
  /\ UNCHANGED <<end, ended, inStar, goBuild>>

EndOfFile ==
  /\ status = "header"
  /\ Stop(Decide) /\ UNCHANGED <<lines, end, ended, inStar, goBuild>>

Next ==
  \/ Len(lines) < MaxLines /\ \E l \in Lines : HeaderLine(l) \/ BlankLine(l) \/ SecondGoBuild(l)
  \/ EndOfFile

Spec == Init /\ [][Next]_vars

-----------------------------------------------------------------------------
(* The rule, on the text as a whole. *)

\* Is a block comment open after the first m marks of line k?
Open[k \in 0 .. MaxLines] ==
  IF k = 0 THEN FALSE
  ELSE LET line == lines[k]
           block[m \in 0 .. Len(line)] ==
             IF m = 0 THEN Open[k - 1]
             ELSE IF block[m - 1] THEN line[m] # "*/"
             ELSE line[m] = "/*" /\ \A j \in 1 .. m - 1 : block[j - 1] \/ line[j] \notin Slashes
       IN  block[Len(line)]
OpenBefore(k) == Open[k - 1]

GoBuildLines == {k \in DOMAIN lines : ~OpenBefore(k) /\ Starts(lines[k], GoBuild)}

\* The // comments and blank lines a file starts with.
LeadingRun == {k \in DOMAIN lines : \A j \in 1 .. k : lines[j] = <<>> \/ Starts(lines[j], Slashes)}
PlusBuildLines ==
  {k \in LeadingRun : Starts(lines[k], PlusBuild) /\ \E b \in LeadingRun : b > k /\ lines[b] = <<>>}

GoIgnores ==
  IF GoBuildLines # {} THEN \E k \in GoBuildLines : lines[k][1] = "//go:build ignore"
  ELSE \E k \in PlusBuildLines : lines[k][1] = "// +build ignore"

\* The constraint decides as in go/build: wherever block comments open and
\* close, a //go:build line counts only at the start of a line outside them
\* and silences +build lines; those count only before the last blank line of
\* the leading // comments.  Two //go:build lines are refused.
IgnoresWhatGoIgnores ==
  /\ status \in {"ignored", "built"} => Cardinality(GoBuildLines) < 2 /\ (status = "ignored") = GoIgnores
  /\ status = "refused" => Cardinality(GoBuildLines) = 2

==============================================================================
