------------------------------ MODULE ValeCounts ------------------------------
(***************************************************************************)
(* ts/scripts/vale-counts.cjs: are the counts recorded in .vale.ini and in *)
(* docs/STYLE-GUIDE.md those that Vale reports on the pages of             *)
(* ts/scripts/gated-docs.cjs?  Run as a check it exits 0 or 1, with        *)
(* --write it rewrites the counts, .vale.ini first.                        *)
(*                                                                         *)
(* A line is blank, a setting, an assignment of a level to a rule, or a    *)
(* comment, which is its words: numbers <<"number", n>>, and words that    *)
(* are more than prose beside a number.  A column is a word's place.       *)
(***************************************************************************)
EXTENDS Naturals, SequencesExt, FiniteSetsExt

CONSTANTS Lines,      (* the lines an author may write                       *)
          MaxLines,   (* bound: how many of them .vale.ini holds             *)
          Guides,     (* the words of the guide's claims, <<>> for no guide  *)
          Worlds      (* what is measured: [hits of each rule, switched off or
                         not, total, files, terms: the size of the vocabulary,
                         {} when there is none, pinned: Vale is CI's,
                         pages: each page is on disk]                        *)

VARIABLES ini, guide,   (* the two files                                     *)
          world,        (* what a run would measure                          *)
          pending,      (* the guide a run has still to write                *)
          exit,         (* the last run's status, "none" since an edit       *)
          settled       (* the last edit was a whole --write                 *)

vars == <<ini, guide, world, pending, exit, settled>>

Init ==
  /\ ini = <<>> /\ guide \in Guides /\ world \in Worlds
  /\ pending = <<>> /\ exit = "none" /\ settled = FALSE

Blank == [t |-> "blank"]
Setting == [t |-> "setting"]
Note(words) == [t |-> "note", words |-> words]
Level(rule, level) == [t |-> "rule", rule |-> rule, level |-> level]

Num(n) == <<"number", n>>
Word(w) == <<w>>

Demoted == {"warning", "suggestion", "NO"}
noun(n) == Word(IF n = 1 THEN "file" ELSE "files")
ordinal(n) ==
  Word(CASE n % 100 \in 11 .. 13 -> "th" [] n % 10 = 1 -> "st" [] n % 10 = 2 -> "nd" [] n % 10 = 3 -> "rd"
         [] OTHER -> "th")

-----------------------------------------------------------------------------
(* What a comment claims.  A block is the comment lines above a line that   *)
(* is none; its words are joined, and each knows the line it came from.     *)

\* The first comment line of the block that ends above line i.
Top(i) == LET above == {j \in 1 .. i - 1 : ini[j].t # "note"} IN IF above = {} THEN 1 ELSE Max(above) + 1

join(i) ==
  FlattenSeq([j \in 1 .. i - Top(i) |->
    LET l == Top(i) + j - 1 IN [c \in DOMAIN ini[l].words |-> [line |-> l, col |-> c, word |-> ini[l].words[c]]]])

Words(entries) == [n \in DOMAIN entries |-> entries[n].word]
IsNumber(w) == w[1] = "number"
Is(ws, n, w) == n \in DOMAIN ws /\ ws[n] = Word(w)
Before(ws, w) == {n \in DOMAIN ws : IsNumber(ws[n]) /\ Is(ws, n + 1, w)}
HITS(ws) == Before(ws, "hits")
SPAN(ws) == {n \in Before(ws, "alerts across") :
               n + 3 \in DOMAIN ws /\ IsNumber(ws[n + 2]) /\ ws[n + 3][1] \in {"file", "files"}}
TERMS(ws) == Before(ws, "domain terms")
NEXT(ws) == {n \in DOMAIN ws : IsNumber(ws[n]) /\ Is(ws, n - 1, "a") /\ 
                          /\ n + 1 \in DOMAIN ws /\ ws[n + 1][1] \in {"st", "nd", "rd", "th"}}

\* The words that have to stand at each place: the header's claims.
HeaderWants(ws) ==
  UNION {{<<n, Num(world.total)>>, <<n + 2, Num(world.files)>>, <<n + 3, noun(world.files)>>} : n \in SPAN(ws)}
  \cup {<<n, Num(t)>> : n \in TERMS(ws), t \in world.terms}

Wants(ws, rule) ==
  HeaderWants(ws)
  \cup {<<n, Num(world.hits[rule])>> : n \in (IF rule = "none" THEN {} ELSE HITS(ws))}
  \cup (IF TERMS(ws) = {} THEN {}
        ELSE UNION {{<<n, Num(t + 1)>>, <<n + 1, ordinal(t + 1)>>} : n \in NEXT(ws), t \in world.terms})

\* Where blocks end: at a line that is no comment, and at the end of the file.
Ends == {i \in 1 .. Len(ini) + 1 : i \in DOMAIN ini => ini[i].t # "note"}
RuleAt(i) == IF i \in DOMAIN ini /\ ini[i].t = "rule" THEN ini[i].rule ELSE "none"

edits ==
  UNION {LET entries == join(i)
             ws == Words(entries)
         IN  {[line |-> entries[w[1]].line, col |-> entries[w[1]].col, word |-> w[2]] :
                w \in {w \in Wants(ws, RuleAt(i)) : ws[w[1]] # w[2]}} : i \in Ends}

\* Demoted rules without a count above them.
inserts == {i \in Ends : RuleAt(i) # "none" /\ ini[i].level \in Demoted /\ HITS(Words(join(i))) = {}}

\* The guide, with its claims mended.
guideEdits == {w \in HeaderWants(guide) : guide[w[1]] # w[2]}
Mended == [n \in DOMAIN guide |-> IF \E w \in guideEdits : w[1] = n THEN (CHOOSE w \in guideEdits : w[1] = n)[2] ELSE guide[n]]

wrong == edits # {} \/ inserts # {} \/ guideEdits # {} \/ ~world.pinned

-----------------------------------------------------------------------------
edited ==
  [i \in DOMAIN ini |->
    IF ini[i].t # "note" THEN ini[i]
    ELSE Note([c \in DOMAIN ini[i].words |->
           LET here == {e \in edits : e.line = i /\ e.col = c}
           IN  IF here = {} THEN ini[i].words[c] ELSE (CHOOSE e \in here : TRUE).word])]

Counted(lines, i) == InsertAt(lines, i, Note(<<Num(world.hits[ini[i].rule]), Word("hits")>>))

\* Mutant: from the top down, the later places not moved along.
rewrittenDown == FoldLeft(Counted, edited, SetToSortSeq(inserts, <))

\* The new lines go in from the bottom up, each above its rule.
rewritten == FoldLeft(Counted, edited, SetToSortSeq(inserts, >))

\* A gated page that is not on disk throws.
present == world.pages

\* report(false)
Check ==
  /\ pending = <<>> /\ exit' = (IF present /\ ~wrong THEN "ok" ELSE "failed")
  /\ UNCHANGED <<ini, guide, world, pending, settled>>

\* report(true): nothing is written when a page is gone, and no guide when there
\* is none.
WriteIni ==
  /\ pending = <<>> /\ present
  /\ ini' = rewritten /\ pending' = Mended /\ exit' = "none" /\ settled' = (guide = <<>>)
  /\ UNCHANGED <<guide, world>>

WriteGuide ==
  /\ pending # <<>> /\ guide' = pending /\ pending' = <<>> /\ settled' = TRUE
  /\ UNCHANGED <<ini, world, exit>>

Crash == pending # <<>> /\ pending' = <<>> /\ UNCHANGED <<ini, guide, world, exit, settled>>

\* An author writes the next line of .vale.ini; the pages change.
Author ==
  /\ pending = <<>> /\ Len(ini) < MaxLines /\ (\E l \in Lines : ini' = Append(ini, l))
  /\ exit' = "none" /\ settled' = FALSE /\ UNCHANGED <<guide, world, pending>>

PagesChange ==
  /\ pending = <<>> /\ settled /\ world' \in Worlds \ {world}
  /\ exit' = "none" /\ settled' = FALSE /\ UNCHANGED <<ini, guide, pending>>

Next == Check \/ WriteIni \/ WriteGuide \/ Crash \/ Author \/ PagesChange
Spec == Init /\ [][Next]_vars

-----------------------------------------------------------------------------
(* The claims, said without blocks. *)

Commented(i) == {j \in 1 .. i - 1 : \A k \in j .. i - 1 : ini[k].t = "note"}
Above(i) == FlattenSeq([j \in 1 .. Cardinality(Commented(i)) |-> ini[i - 1 - Cardinality(Commented(i)) + j].words])
Claimed(ws) == {ws[n] : n \in {n \in DOMAIN ws : Is(ws, n + 1, "hits") /\ IsNumber(ws[n])}}

\* A check that passes vouches for the record: every demoted rule has its
\* count in the comment above it, and that count and the total are Vale's,
\* CI's Vale and all the pages.
PassesOnlyTrueCounts ==
  exit = "ok" =>
    /\ world.pinned /\ world.pages
    /\ \A i \in DOMAIN ini : ini[i].t = "rule" =>
         /\ Claimed(Above(i)) \subseteq {Num(world.hits[ini[i].rule])}
         /\ ini[i].level \in Demoted => Claimed(Above(i)) # {}
    /\ \A n \in SPAN(guide) : guide[n] = Num(world.total) /\ guide[n + 2] = Num(world.files)
    /\ \A n \in TERMS(guide), t \in world.terms : guide[n] = Num(t)

\* A --write that ran to its end leaves nothing for a check to find, wherever
\* the counts it put in stand; a run cut short between the files is made good
\* by the next.  The version of Vale is not something it can mend.
WriteSettles == settled /\ exit # "none" => (exit = "ok") = (world.pinned /\ world.pages)

==============================================================================
