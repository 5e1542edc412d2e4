--------------------------------- MODULE Toml ---------------------------------
(***************************************************************************)
(* tools/port-deps.cjs, parseToml: statement by statement, the tree of     *)
(* tables that a Cargo.toml spells out.                                    *)
(*                                                                         *)
(* The tree is a function from paths to nodes: the root is <<>>, a key     *)
(* lengthens the path, and so does an item of an array of tables, by its   *)
(* number.  Characters, escapes and line numbers are left out; a statement *)
(* is a header, an array header or a pair.  Bounds: the value of a pair    *)
(* inside an inline table is a scalar, and arrays of tables do not nest.   *)
(***************************************************************************)
EXTENDS Naturals, SequencesExt

(* A statement is
     [t |-> "header" or "array", path |-> ...]
     [t |-> "pair", path |-> ..., value |-> a scalar or an inline table]
   a scalar      [t |-> "string", "bool", "other" or "array", v |-> ...]
   an inline one [t |-> "inline", pairs |-> a sequence of pairs]           *)
CONSTANT Follows(_)   (* the statements that may follow a text *)

VARIABLES doc,      (* the statements read, the one refused included       *)
          nodes,    (* the tree                                            *)
          current,  (* the table that pairs go to                          *)
          status    (* "reading", "read" or "refused"                      *)

tomlVars == <<doc, nodes, current, status>>

table(defined, inline) == [t |-> "table", defined |-> defined, inline |-> inline]
Root == (<<>> :> table(TRUE, FALSE))
Item(path, i) == Append(path, ToString(i))

\* A place in a tree under construction, and whether the walk to it failed.
Place(ns, path) == [nodes |-> ns, at |-> path, ok |-> TRUE]
IsOpenTable(node) == node.t = "table" /\ ~node.inline

\* One part of a dotted key before the last: into a table, made if missing.
assignStep(w, part) ==
  LET p == Append(w.at, part) IN
  IF p \notin DOMAIN w.nodes
  THEN [w EXCEPT !.nodes = (p :> table(TRUE, FALSE)) @@ @, !.at = p]
  ELSE [w EXCEPT !.ok = @ /\ IsOpenTable(w.nodes[p]), !.at = p]

\* Hang a tree (rooted at <<>>) below a table.
Graft(ns, path, tree) ==
  [p \in {path \o q : q \in DOMAIN tree} |-> tree[SubSeq(p, Len(path) + 1, Len(p))]] @@ ns

assign(w, path, tree) ==
  LET to == FoldLeft(assignStep, w, Front(path))
      p  == Append(to.at, Last(path))
  IN  [nodes |-> IF p \in DOMAIN to.nodes THEN to.nodes ELSE Graft(to.nodes, p, tree),
       at |-> w.at, ok |-> to.ok /\ p \notin DOMAIN to.nodes]

Leaf(v) == (<<>> :> v)

\* The tree of a value; ok is false when an inline table sets a key twice.
value(v) ==
  IF v.t # "inline" THEN Place(Leaf(v), <<>>)
  ELSE FoldLeft(LAMBDA w, p : assign(w, p.path, Leaf(p.value)),
                Place(<<>> :> table(TRUE, TRUE), <<>>), v.pairs)

\* One part of a header before the last: an array of tables stands for its
\* last item, and a table made on the way may still get a header of its own.
headerStep(w, part) ==
  LET p    == Append(w.at, part)
      next == IF p \in DOMAIN w.nodes /\ w.nodes[p].t = "aot" THEN Item(p, w.nodes[p].n) ELSE p
  IN  IF p \notin DOMAIN w.nodes
      THEN [w EXCEPT !.nodes = (p :> table(FALSE, FALSE)) @@ @, !.at = p]
      ELSE [w EXCEPT !.ok = @ /\ IsOpenTable(w.nodes[next]), !.at = next]

-----------------------------------------------------------------------------
TomlInit ==
  /\ doc = <<>>
  /\ nodes = Root /\ current = <<>> /\ status = "reading"

Statement(s, t) == status = "reading" /\ s.t = t /\ doc' = Append(doc, s)
Refuse == status' = "refused" /\ UNCHANGED <<nodes, current>>

\* Where the header s leads.
Walk(s) == FoldLeft(headerStep, Place(nodes, <<>>), Front(s.path))

\* [path]: a new table, or one made on the way to a deeper header.
Header(s) ==
  /\ Statement(s, "header")
  /\ LET w == Walk(s)
         p == Append(w.at, Last(s.path))
     IN  IF w.ok /\ (p \in DOMAIN w.nodes => w.nodes[p].t = "table" /\ ~w.nodes[p].defined)
         THEN nodes' = (p :> table(TRUE, FALSE)) @@ w.nodes /\ current' = p /\ UNCHANGED status
         ELSE Refuse

\* [[path]]: the first or the next item of an array of tables.
ArrayHeader(s) ==
  /\ Statement(s, "array")
  /\ LET w == Walk(s)
         p == Append(w.at, Last(s.path))
         i == IF p \in DOMAIN w.nodes /\ w.nodes[p].t = "aot" THEN w.nodes[p].n + 1 ELSE 1
     IN  IF w.ok /\ (p \in DOMAIN w.nodes => w.nodes[p].t = "aot")
         THEN /\ nodes' = (p :> [t |-> "aot", n |-> i]) @@ (Item(p, i) :> table(TRUE, FALSE)) @@ w.nodes
              /\ current' = Item(p, i) /\ UNCHANGED status
         ELSE Refuse

\* path = value, in the current table.
Pair(s) ==
  /\ Statement(s, "pair")
  /\ \E v \in {value(s.value)}, w \in {assign(Place(nodes, current), s.path, value(s.value).nodes)} :
       IF v.ok /\ w.ok
       THEN nodes' = w.nodes /\ UNCHANGED <<current, status>>
       ELSE Refuse

EndOfText ==
  /\ status = "reading"
  /\ status' = "read" /\ UNCHANGED <<doc, nodes, current>>

parseToml ==
  \/ status = "reading" /\ \E s \in Follows(doc) : Header(s) \/ ArrayHeader(s) \/ Pair(s)
  \/ EndOfText
TomlSpec == TomlInit /\ [][parseToml]_tomlVars

-----------------------------------------------------------------------------
(* What the text says, without a tree. *)

\* The last statement before the i-th that opens a section (0: the top).
SectionOf(i) ==
  LET heads == {j \in 1 .. i : doc[j].t # "pair"}
  IN  IF heads = {} THEN 0 ELSE CHOOSE j \in heads : \A h \in heads : h <= j

\* The items of the array of tables `path` that the first i statements open.
Items(path, i) == Cardinality({j \in 1 .. i : doc[j].t = "array" /\ doc[j].path = path})

\* A header's path as of statement i, with the item an array stands for.
Resolved(path, i) ==
  FoldLeft(LAMBDA acc, m : LET p == Append(acc, path[m])
                               c == Items(SubSeq(path, 1, m), i)
                           IN  IF c = 0 THEN p ELSE Item(p, c),
           <<>>, [m \in 1 .. Len(path) |-> m])
Section(i) == IF SectionOf(i) = 0 THEN <<>> ELSE Resolved(doc[SectionOf(i)].path, SectionOf(i))

PairsOf(i) ==
  LET p == Section(i) \o doc[i].path
      v == doc[i].value
  IN  IF v.t # "inline" THEN {<<p, v>>}
      ELSE {<<p \o v.pairs[j].path, v.pairs[j].value>> : j \in DOMAIN v.pairs}
PairsSaid == UNION {PairsOf(i) : i \in {i \in DOMAIN doc : doc[i].t = "pair"}}
TablesSaid == {Resolved(doc[i].path, i) : i \in {i \in DOMAIN doc : doc[i].t # "pair"}}

ProperPrefixes(path) == {SubSeq(path, 1, m) : m \in 0 .. Len(path) - 1}

\* The tables that the dotted keys of statement i make.
Dotted(i) == {Section(i) \o q : q \in ProperPrefixes(doc[i].path) \ {<<>>}}
\* What statement i gives a value, an inline table being one.
Valued(i) == Section(i) \o doc[i].path

\* TOML's rules for two statements, i before j: nothing is defined twice.
Compatible(i, j) ==
  LET pi == doc[i].t = "pair"
      pj == doc[j].t = "pair"
      hi == Resolved(doc[i].path, i)
      hj == Resolved(doc[j].path, j)
  IN  CASE pi /\ pj -> /\ ~IsPrefix(Valued(i), Valued(j)) /\ ~IsPrefix(Valued(j), Valued(i))
                       /\ SectionOf(i) # SectionOf(j) => Dotted(i) \cap Dotted(j) = {}
        [] pi /\ ~pj -> ~IsPrefix(Valued(i), hj) /\ hj \notin Dotted(i)
                        /\ (doc[j].t = "array" => doc[j].path \notin Dotted(i) \cup {Valued(i)})
        [] ~pi /\ pj -> ~IsPrefix(Valued(j), hi) /\ \A d \in Dotted(j) : ~IsPrefix(d, hi)
        [] OTHER -> /\ hi # hj
                    /\ doc[i].t # doc[j].t => doc[i].path # doc[j].path
                    \* an array is opened before its items are walked into
                    /\ doc[j].t = "array" /\ doc[i].t = "header" => ~IsPrefix(doc[j].path, doc[i].path)
                         \/ Items(doc[j].path, i) > 0

\* Keys of one inline table that do not clash.
InlineValid(v) ==
  v.t = "inline" =>
    \A i, j \in DOMAIN v.pairs : i # j => ~IsPrefix(v.pairs[i].path, v.pairs[j].path)

Valid ==
  /\ \A i \in DOMAIN doc : doc[i].t = "pair" => InlineValid(doc[i].value)
  /\ \A i, j \in DOMAIN doc : i < j => Compatible(i, j)

-----------------------------------------------------------------------------
Leaves == {p \in DOMAIN nodes : nodes[p].t \notin {"table", "aot"}}

\* The tree hangs together: what a path leads to hangs from a table, and pairs
\* go to a table that is still open.
TreeIsWhole ==
  /\ \A p \in DOMAIN nodes : p # <<>> => Front(p) \in DOMAIN nodes /\ nodes[Front(p)].t \in {"table", "aot"}
  /\ current \in DOMAIN nodes /\ IsOpenTable(nodes[current])

\* The text is read whole: the leaves of the tree are the pairs the text
\* spells, whatever mixture of headers, dotted keys and inline tables spells
\* them, and every table with a header is there.
KeepsEveryPair ==
  status = "read" =>
    /\ {<<p, nodes[p]>> : p \in Leaves} = PairsSaid
    /\ TablesSaid \subseteq DOMAIN nodes

\* A text that TOML allows is not refused (parseToml is more lenient than
\* TOML, never stricter).
ReadsValidToml == status = "refused" => ~Valid

==============================================================================
