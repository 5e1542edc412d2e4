--------------------------------- MODULE GoMod ---------------------------------
(***************************************************************************)
(* tools/port-deps.cjs, parseGoMod: the module's name and its requires,    *)
(* line by line, and readGo: the dependencies of the Go port, from what    *)
(* its files import.                                                       *)
(*                                                                         *)
(* A line is its words and whether a comment says "indirect"; quoting is   *)
(* left out.  A path is a sequence of elements.                            *)
(***************************************************************************)
EXTENDS Naturals, SequencesExt

CONSTANTS Lines,        (* the lines a go.mod may hold: [words, indirect]     *)
          MaxLines,     (* and how many of them, at most                      *)
          PathOf(_),    (* the path that a word spells                        *)
          OrgId(_),     (* the id in a path below the org, or NoId            *)
          InOrg(_),     (* is a path below the org?                           *)
          Dotted(_),    (* does its first element hold a dot?                 *)
          NoId,
          Imports       (* what the module's files may import: sets of
                           [path, test], test for those of a _test.go file    *)

VARIABLES lines,      (* the lines read                                       *)
          block,      (* the verb of the open block, or <<>>                  *)
          module,     (* the module directive's path, or <<>>                 *)
          requires,   (* [path, indirect] of each require                     *)
          imports,    (* the imports of the files that the walk finds         *)
          port,       (* what readGo answers, or <<>>                         *)
          status      (* "reading", "read", "refused" or "port"               *)

vars == <<lines, block, module, requires, imports, port, status>>

Init ==
  /\ lines = <<>> /\ block = <<>> /\ module = <<>> /\ requires = {} /\ port = <<>>
  /\ imports = {} /\ status = "reading"

Refuse == status' = "refused" /\ UNCHANGED <<block, module, requires>>
Goto(b) == block' = b /\ UNCHANGED <<module, requires, status>>
Skip == UNCHANGED <<block, module, requires, status>>

\* A directive: the arguments of a verb, on a line of its own or in a block.
directive(verb, args, indirect) ==
  CASE verb = "module" ->
         IF Len(args) # 1 \/ module # <<>> THEN Refuse
         ELSE module' = PathOf(args[1]) /\ UNCHANGED <<block, requires, status>>
    [] verb = "require" ->
         IF Len(args) # 2 THEN Refuse
         ELSE /\ requires' = requires \cup {[path |-> PathOf(args[1]), indirect |-> indirect]}
              /\ UNCHANGED <<block, module, status>>
    [] OTHER -> Skip

\* Mutant: a line of a block is read as a directive of its own.
lineAlone(l) ==
  IF l.words = <<>> THEN Skip
  ELSE LET args == Tail(l.words)
       IN  IF l.words[1] = ")" THEN Goto(<<>>)
           ELSE IF args # <<>> /\ args[1] = "(" THEN IF Len(args) = 1 THEN Goto(<<l.words[1]>>) ELSE Refuse
           ELSE directive(l.words[1], args, l.indirect)

line(l) ==
  IF l.words = <<>> THEN Skip
  ELSE IF block # <<>>
  THEN IF l.words[1] = ")" THEN IF Len(l.words) = 1 THEN Goto(<<>>) ELSE Refuse
       ELSE directive(block[1], l.words, l.indirect)
  ELSE LET args == Tail(l.words)
       IN  IF args # <<>> /\ args[1] = "(" THEN IF Len(args) = 1 THEN Goto(<<l.words[1]>>) ELSE Refuse
           ELSE directive(l.words[1], args, l.indirect)

ReadLine ==
  /\ status = "reading" /\ Len(lines) < MaxLines
  /\ \E l \in Lines : lines' = Append(lines, l) /\ line(l)
  /\ UNCHANGED <<imports, port>>

EndOfFile ==
  /\ status = "reading"
  /\ status' = IF block # <<>> \/ module = <<>> THEN "refused" ELSE "read"
  /\ UNCHANGED <<lines, block, module, requires, imports, port>>

-----------------------------------------------------------------------------
Own(path) == IsPrefix(module, path)
OrgIds(is, test) == {OrgId(i.path) : i \in {i \in is : i.test = test /\ ~Own(i.path) /\ InOrg(i.path)}}

\* The require that a path belongs to: the longest.
Best(path) ==
  LET rs == {r \in requires : IsPrefix(r.path, path)}
  IN  {r \in rs : \A s \in rs : Len(s.path) <= Len(r.path)}

External(i) ==
  ~i.test /\ ~Own(i.path) /\ ~InOrg(i.path) /\ Dotted(i.path)

\* The files are walked; a path of the org that names no repository is refused.
readGo ==
  /\ status = "read" /\ imports' \in Imports
  /\ LET runtime == OrgIds(imports', FALSE)
         tests   == OrgIds(imports', TRUE)
         best    == UNION {Best(i.path) : i \in {i \in imports' : External(i)}}
     IN  IF NoId \in runtime \cup tests THEN status' = "refused" /\ UNCHANGED port
         ELSE /\ status' = "port"
              /\ port' = [runtime  |-> runtime, optional |-> {}, dev |-> tests \ runtime,
                          external |-> {r.path : r \in {r \in best : ~r.indirect}}]
  /\ UNCHANGED <<lines, block, module, requires>>

Next == ReadLine \/ EndOfFile \/ readGo
Spec == Init /\ [][Next]_vars

-----------------------------------------------------------------------------
(* go.mod as a text: a block runs from "verb (" to the next ")", and holds
   no other. *)

Opener(k) == Len(lines[k].words) = 2 /\ lines[k].words[2] = "("
Closer(k) == lines[k].words # <<>> /\ lines[k].words[1] = ")"

\* The verb of the block that line k stands in.
BlockAt(k) ==
  {v \in {lines[j].words[1] : j \in {j \in 1 .. k - 1 : Opener(j)}} :
     \E j \in 1 .. k - 1 : /\ Opener(j) /\ lines[j].words[1] = v
                           /\ \A m \in j + 1 .. k - 1 : ~Closer(m)}
Nested == \E k \in DOMAIN lines : Opener(k) /\ BlockAt(k) # {}
Whole == {k \in DOMAIN lines : BlockAt(k) = {} /\ ~Opener(k) /\ lines[k].words # <<>>}
Within(verb) == {k \in DOMAIN lines : BlockAt(k) = {verb} /\ ~Closer(k) /\ lines[k].words # <<>>}

RequiresSaid ==
  {[path |-> PathOf(lines[k].words[2]), indirect |-> lines[k].indirect] :
     k \in {k \in Whole : lines[k].words[1] = "require"}}
  \cup {[path |-> PathOf(lines[k].words[1]), indirect |-> lines[k].indirect] : k \in Within("require")}
ModulesSaid ==
  {lines[k].words[2] : k \in {k \in Whole : lines[k].words[1] = "module"}}
  \cup {lines[k].words[1] : k \in Within("module")}

\* The module and every require are read, in a block or on a line of their
\* own, and nothing of a replace or exclude block passes for one.
ReadsGoMod ==
  status \in {"read", "port"} /\ ~Nested =>
    /\ requires = RequiresSaid
    /\ {PathOf(w) : w \in ModulesSaid} = {module}

\* The Go port depends on what its files import: an org module is runtime
\* when a file other than a test imports it and is never both; the module's
\* own packages and the standard library are not dependencies; any other
\* package is the one whose require is the longest, and it is listed unless
\* that require is said to be indirect.
DependsOnWhatItImports ==
  status = "port" =>
    /\ \A i \in imports : InOrg(i.path) /\ ~Own(i.path) =>
         OrgId(i.path) \in port.runtime \/ (i.test /\ OrgId(i.path) \in port.dev)
    /\ port.runtime \cap port.dev = {}
    /\ \A p \in port.external : \E i \in imports :
         /\ External(i) /\ IsPrefix(p, i.path)
         /\ ~\E r \in requires : IsPrefix(r.path, i.path) /\ Len(r.path) > Len(p)
    /\ \A i \in imports : External(i) =>
         \A r \in requires : IsPrefix(r.path, i.path) =>
           \E s \in requires : IsPrefix(s.path, i.path) /\ Len(s.path) >= Len(r.path)
                                /\ (s.indirect \/ s.path \in port.external)

==============================================================================
