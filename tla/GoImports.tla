------------------------------- MODULE GoImports -------------------------------
(***************************************************************************)
(* tools/port-deps.cjs, goImports: the import paths of one Go file, token  *)
(* by token up to the first declaration that is not an import.             *)
(*                                                                         *)
(* Tokens are those of `next`: a word (package, import or another), an     *)
(* import path, a punctuation mark, the end of the file.  Comments and     *)
(* newlines never become tokens.                                           *)
(***************************************************************************)
EXTENDS Naturals, Sequences

CONSTANTS Paths,       (* import paths, as quoted in the file *)
          MaxTokens    (* tokens read from one file, at most  *)

Words == {"package", "import", "name"}
Punct == {"(", ")", ";", "."}
Tokens == Words \cup Punct \cup Paths \cup {"eof"}

VARIABLES tokens,   (* what has been read                                   *)
          at,       (* what is expected: "package", "package name",
                       "declaration", "import", "group" or "path"           *)
          back,     (* where a path leads back to: a declaration or a group *)
          out,      (* the paths found, in order                            *)
          status    (* "reading", "read" or "refused"                       *)

vars == <<tokens, at, back, out, status>>

Init ==
  /\ tokens = <<>> /\ at = "package" /\ back = "declaration"
  /\ out = <<>> /\ status = "reading"

Take(where, tok) == status = "reading" /\ at = where /\ tokens' = Append(tokens, tok)
Expect(where) == at' = where /\ UNCHANGED <<back, out, status>>
Fail == status' = "refused" /\ UNCHANGED <<at, back, out>>

packageClause(tok) ==
  \/ Take("package", tok) /\ IF tok = "package" THEN Expect("package name") ELSE Fail
  \/ Take("package name", tok) /\ IF tok \in Words THEN Expect("declaration") ELSE Fail

declaration(tok) ==
  /\ Take("declaration", tok)
  /\ CASE tok = ";" -> Expect("declaration")
       [] tok = "import" -> Expect("import")
       [] OTHER -> status' = "read" /\ UNCHANGED <<at, back, out>>

\* An import spec from its first token: an alias, or the path itself.
spec(tok, from) ==
  CASE tok \in Words \cup {"."} -> at' = "path" /\ back' = from /\ UNCHANGED <<out, status>>
    [] tok \in Paths -> at' = from /\ out' = Append(out, tok) /\ UNCHANGED <<back, status>>
    [] OTHER -> Fail

import(tok) ==
  /\ Take("import", tok)
  /\ IF tok = "(" THEN Expect("group") ELSE spec(tok, "declaration")

path(tok) ==
  /\ Take("path", tok)
  /\ IF tok \in Paths
     THEN at' = back /\ out' = Append(out, tok) /\ UNCHANGED <<back, status>>
     ELSE Fail

group(tok) ==
  /\ Take("group", tok)
  /\ CASE tok = ")" -> Expect("declaration")
       [] tok = ";" -> Expect("group")
       [] tok = "eof" -> Fail
       [] OTHER -> spec(tok, "group")

Next ==
  \E tok \in Tokens :
    /\ Len(tokens) < MaxTokens
    /\ tokens # <<>> => tokens[Len(tokens)] # "eof"
    /\ packageClause(tok) \/ declaration(tok) \/ import(tok) \/ path(tok) \/ group(tok)

Spec == Init /\ [][Next]_vars

-----------------------------------------------------------------------------
(* Go's grammar of what comes before the other declarations, without the
   semicolons that Go puts at line ends. *)

Specs == {<<p>> : p \in Paths} \cup {<<a, p>> : a \in {"name", "."}, p \in Paths}
Many(set, max) == UNION {[1 .. m -> set] : m \in 0 .. max}
Flat(ss) == IF ss = <<>> THEN <<>>
            ELSE LET f[m \in 0 .. Len(ss)] == IF m = 0 THEN <<>> ELSE f[m - 1] \o ss[m] IN f[Len(ss)]
ImportDecls ==
  {<<"import">> \o s : s \in Specs}
  \cup {<<"import", "(">> \o Flat(g) \o <<")">> : g \in Many(Specs, 2)}
Separated == ImportDecls \cup {d \o <<";">> : d \in ImportDecls}

\* The files of at most MaxTokens tokens up to the first other declaration.
GoFiles ==
  {f \in {<<"package", "name">> \o Flat(ds) \o <<e>> : ds \in Many(Separated, 2), e \in {"name", "eof"}} :
     Len(f) <= MaxTokens}

IsPath(tok) == tok \in Paths

GoBeginnings == UNION {{SubSeq(f, 1, m) : m \in 0 .. Len(f) - 1} : f \in GoFiles}

\* Every path of a Go file's imports is found, in order, whatever aliases
\* and groups it stands in, and the scan stops at the first other
\* declaration and not before; no Go file is refused.  A missed import would
\* hide a dependency.  (files is GoFiles, beginnings GoBeginnings.)
ReadsEveryImport(files, beginnings) ==
  /\ tokens \in files => status = "read" /\ out = SelectSeq(tokens, IsPath)
  /\ status # "reading" => tokens \notin beginnings

==============================================================================
