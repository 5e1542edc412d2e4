-------------------------------- MODULE MCParts --------------------------------
(***************************************************************************)
(* The parts that run by themselves, to completion and one at a time: the  *)
(* dependency checker and its manifest readers, the counts check, the      *)
(* character classes and the lexers.  A behaviour is a behaviour of one of *)
(* them, chosen at the start; the variables of the others do not change.   *)
(***************************************************************************)
EXTENDS PortDeps, Sequences, TLC

VARIABLES part,                                                   (* which one  *)
          doc, nodes, current, tomlStatus, crates,                (* Cargo.toml *)
          pkg, npmPort, npmStatus,                                (* npm        *)
          header, end, ended, inStar, goBuild, built,             (* GoIgnored  *)
          goTokens, goAt, back, out, goStatus,                    (* GoImports  *)
          modLines, block, module, requires, imports, goPort, modStatus,
          ini, guide, world, pending, valeExit, settled,          (* ValeCounts *)
          negated, items, k, parts, classStatus,                  (* CharClass  *)
          src, pnt, lexemes, ts, lexStatus                        (* EbnfLexer  *)

Parts == {"deps", "toml", "cargo", "npm", "ignored", "imports", "mod", "vale", "class", "lexer"}

-----------------------------------------------------------------------------
(* PortDeps: sets of dependencies under the repo's own name, one of them    *)
(* the repo itself; a manifest that names another repo, or none.            *)

MCManifests ==
  {NoPort, Unreadable} \cup [id : {"ebnf"}, declares : {{}, {"a"}, {"a", "b"}}]
    \cup {[id |-> "ebnf", declares |-> {"a", "ebnf"}], [id |-> "b", declares |-> {"a", "b"}],
          [id |-> NoId, declares |-> {"ebnf"}]}

Sound(ports) == [ports |-> ports, sorted |-> TRUE, extra |-> FALSE, reason |-> TRUE, repair |-> TRUE]
Entries == {NoEntry, Malformed, Sound({"go", "rs"}), [Sound({"go", "rs"}) EXCEPT !.sorted = FALSE],
            [Sound({"ts"}) EXCEPT !.reason = FALSE], [Sound({"go"}) EXCEPT !.repair = FALSE, !.extra = TRUE]}

MCRegisters ==
  {NoFile, Unreadable, Malformed}
    \cup {[alien |-> FALSE, note |-> TRUE, differ |-> d] :
            d \in {[id \in Ids |-> IF id = "a" THEN e ELSE NoEntry] : e \in Entries} \cup {Malformed}}
    \cup {[alien |-> TRUE, note |-> FALSE, differ |-> [id \in Ids |-> IF id = "ebnf" THEN NoEntry ELSE Sound({"rs", "ts"})]]}

-----------------------------------------------------------------------------
(* Toml: tables, arrays, dotted keys and inline tables that meet.           *)

One == [t |-> "other", v |-> "1"]
Str(v) == [t |-> "string", v |-> v]
Head1(p) == [t |-> "header", path |-> p]
Array(p) == [t |-> "array", path |-> p]
KV(p, v) == [t |-> "pair", path |-> p, value |-> v]
Inline(pairs) == [t |-> "inline", pairs |-> pairs]

Statements ==
  { Head1(<<"a">>), Head1(<<"a", "b">>), Head1(<<"a", "b", "c">>), Head1(<<"b", "c">>), Array(<<"a">>), Array(<<"b">>),
    KV(<<"a">>, One), KV(<<"b">>, Str("2")), KV(<<"a", "b">>, One), KV(<<"b", "c">>, One), KV(<<"b", "a">>, Str("2")),
    KV(<<"a">>, Inline(<<KV(<<"b">>, One)>>)),
    KV(<<"b">>, Inline(<<KV(<<"c", "a">>, One), KV(<<"c", "b">>, Str("2"))>>)),
    KV(<<"c">>, Inline(<<KV(<<"a">>, One), KV(<<"a", "b">>, One)>>)) }

TomlFollows(text) == IF Len(text) < 4 THEN Statements ELSE {}
T == INSTANCE Toml WITH Follows <- TomlFollows, status <- tomlStatus

-----------------------------------------------------------------------------
(* CargoManifest: the sections that hold dependencies, and what may stand   *)
(* in them or above.                                                        *)

true == [t |-> "bool", v |-> "true"]
CrateId(name) == CASE name = "tabnas-self" -> "self" [] name = "tabnas-a" -> "a"
                   [] name = "tabnas-b" -> "b" [] OTHER -> NoId

Sections ==
  { Head1(<<"dependencies">>), Head1(<<"dependencies", "tabnas-a">>),
    Head1(<<"build_dependencies">>), Head1(<<"build-dependencies">>),
    Head1(<<"dev-dependencies">>), Head1(<<"target", "x", "dependencies">>), Head1(<<"target", "x">>) }
CargoLines ==
  { KV(<<"tabnas-a">>, Str("1")), KV(<<"serde">>, Str("1")), KV(<<"tabnas-self">>, Str("1")),
    KV(<<"tabnas-a", "optional">>, true),
    KV(<<"tabnas-a">>, Inline(<<KV(<<"version">>, Str("1")), KV(<<"optional">>, true)>>)),
    KV(<<"serde">>, Inline(<<KV(<<"package">>, Str("tabnas-b"))>>)),
    KV(<<"serde", "workspace">>, true),
    KV(<<"optional">>, true), KV(<<"package">>, Str("tabnas-b")),
    KV(<<"dependencies", "tabnas-b">>, Str("1")),
    KV(<<"dependencies">>, Inline(<<KV(<<"tabnas-b", "optional">>, true)>>)) }

CargoFollows(text) ==
  CASE Len(text) = 0 -> {Head1(<<"package">>), KV(<<"package", "name">>, Str("tabnas-self"))}
    [] Len(text) = 1 -> IF text[1].t = "header" THEN {KV(<<"name">>, Str("tabnas-self"))} ELSE CargoLines
    [] Len(text) = 2 -> Sections \cup {KV(<<"edition">>, Str(e)) : e \in {"2021", "2024"}}
    [] Len(text) = 3 -> Sections \cup CargoLines
    [] Len(text) = 4 -> Sections \cup {KV(<<"optional">>, true)}
    [] Len(text) = 5 -> {KV(<<"package">>, Str("tabnas-b")), KV(<<"tabnas-a">>, Str("1"))}
    [] OTHER -> {}
C == INSTANCE CargoManifest WITH
       Follows <- CargoFollows, IdOf <- CrateId, Modern <- {"2024"}, status <- tomlStatus, port <- crates

-----------------------------------------------------------------------------
(* NpmManifest: names, and what they install, by themselves or as an alias. *)

NpmId(name) == CASE name = "@tabnas/self" -> "self" [] name = "@tabnas/a" -> "a"
                 [] name = "@tabnas/b" -> "b" [] OTHER -> NoId
Installs(n) == IF n = "b" THEN {"@tabnas/b", "@tabnas/a"} ELSE {n}
Metas(n) == {"true", "false", "unset", "malformed"}
Maps(to(_)) ==
  UNION {{f \in [ns -> UNION {to(n) : n \in ns}] : \A n \in ns : f[n] \in to(n)} : ns \in SUBSET {"@tabnas/a", "b"}}
NpmManifests ==
  [name : {"@tabnas/self"}, deps : Maps(Installs) \cup {"@tabnas/self" :> "@tabnas/self", Malformed},
   peer : Maps(Installs), opt : Maps(Installs), dev : {<<>>, "@tabnas/a" :> "@tabnas/a"}, meta : Maps(Metas)]
N == INSTANCE NpmManifest WITH
       Manifests <- NpmManifests, IdOf <- NpmId, port <- npmPort, status <- npmStatus

-----------------------------------------------------------------------------
(* GoIgnored and GoImports. *)

I == INSTANCE GoIgnored WITH
       Lines <- {<<>>, <<"text">>, <<"/*">>, <<"*/">>, <<"/*", "*/">>, <<"*/", "text">>, <<"//", "/*">>,
                 <<"/*", "*/", "//go:build ignore">>, <<"*/", "//go:build ignore">>, <<"*/", "/*">>,
                 <<"//">>, <<"//go:build ignore">>, <<"//go:build linux">>, <<"// +build ignore">>, <<"// +build linux">>},
       MaxLines <- 4, lines <- header, status <- built

G == INSTANCE GoImports WITH
       Paths <- {"a", "b"}, MaxTokens <- 9, tokens <- goTokens, at <- goAt, status <- goStatus
GoFiles == G!GoFiles
GoBeginnings == G!GoBeginnings

-----------------------------------------------------------------------------
(* GoMod: blocks and single lines, the module's own path and requires that  *)
(* nest.                                                                    *)

L(words) == [words |-> words, indirect |-> FALSE]
ModLines ==
  { L(<<>>), L(<<"module", "self">>), L(<<"module">>), L(<<"self">>), L(<<"go", "1.24">>),
    L(<<"require", "(">>), L(<<"replace", "(">>), L(<<"require", "(", "x">>), L(<<"module", "(">>), L(<<")">>), L(<<")", "x">>),
    L(<<"require", "x.com/m", "v1">>), L(<<"require", "x.com/m">>), L(<<"x.com/m", "v1">>),
    L(<<"x.com/m/v2", "v2">>), [words |-> <<"x.com/m/v2", "v2">>, indirect |-> TRUE] }

Org(tail) == <<"github.com", "tabnas">> \o tail
PathFor(w) ==
  CASE w = "self" -> Org(<<"self", "go">>)
    [] w = "x.com/m" -> <<"x.com", "m">>
    [] w = "x.com/m/v2" -> <<"x.com", "m", "v2">>
    [] OTHER -> <<w>>
BelowOrg(p) == Len(p) > 2 /\ SubSeq(p, 1, 2) = Org(<<>>)
IdBelowOrg(p) == IF Len(p) >= 4 /\ p[4] = "go" THEN p[3] ELSE NoId
HasDot(p) == p[1] \in {"github.com", "x.com"}

Import(p, test) == [path |-> p, test |-> test]
SomeImports ==
  { Import(Org(<<"a", "go">>), FALSE), Import(Org(<<"a", "go", "sub">>), TRUE), Import(Org(<<"b", "go">>), TRUE),
    Import(Org(<<"self", "go", "lib">>), FALSE), Import(<<"x.com", "m", "v2", "p">>, FALSE), Import(<<"fmt">>, FALSE) }
M == INSTANCE GoMod WITH
       Lines <- ModLines, MaxLines <- 4, PathOf <- PathFor, OrgId <- IdBelowOrg, InOrg <- BelowOrg, Dotted <- HasDot,
       Imports <- {SomeImports, SomeImports \cup {Import(Org(<<"a", "rs">>), FALSE)}, {}},
       lines <- modLines, port <- goPort, status <- modStatus

-----------------------------------------------------------------------------
(* ValeCounts: two rules, one of them demoted; claims that wrap, claims     *)
(* away from their rule, and a header.                                      *)

Note(words) == [t |-> "note", words |-> words]
Num(n) == <<"number", n>>
Word(w) == <<w>>
Level(rule, level) == [t |-> "rule", rule |-> rule, level |-> level]

ValeLines ==
  {[t |-> "blank"], [t |-> "setting"], Level("A", "NO"), Level("B", "warning"), Level("B", "error"),
   Note(<<Num(1), Word("hits")>>), Note(<<Word("a"), Num(1)>>), Note(<<Word("hits"), Num(2), Word("hits")>>),
   Note(<<Num(1), Word("alerts across"), Num(2), Word("file")>>),
   Note(<<Num(1), Word("domain terms"), Word("a"), Num(1), Word("nd")>>)}

ValeGuides ==
  {<<>>, <<Num(1), Word("alerts across"), Num(2), Word("files")>>,
   <<Num(2), Word("alerts across"), Num(1), Word("files"), Num(1), Word("domain terms")>>}

Measured(a, b, total, files, terms, pinned, pages) ==
  [hits |-> ("A" :> a @@ "B" :> b), total |-> total, files |-> files, terms |-> terms, pinned |-> pinned, pages |-> pages]
ValeWorlds ==
  {Measured(1, 2, 1, 2, {1}, TRUE, TRUE), Measured(0, 1, 2, 1, {10}, TRUE, TRUE), Measured(1, 2, 1, 2, {}, TRUE, TRUE),
   Measured(1, 2, 1, 2, {1}, FALSE, TRUE), Measured(1, 2, 1, 2, {1}, TRUE, FALSE)}
V == INSTANCE ValeCounts WITH
       Lines <- ValeLines, MaxLines <- 3, Guides <- ValeGuides, Worlds <- ValeWorlds, exit <- valeExit

-----------------------------------------------------------------------------
(* CharClass: two leading and two trailing surrogates, hence four astral    *)
(* characters; EbnfLexer: every source of five characters.                  *)

K == INSTANCE CharClass WITH
       Hyphen <- 1, Lead <- 3, Trail <- 5, Bmp0 <- 7, Astral <- 8, Top <- 11,
       Members <- {0, 1, 3, 5, 7, 8}, MaxMembers <- 5, status <- classStatus

X == INSTANCE EbnfLexer WITH MaxChars <- 5, tokens <- lexemes, status <- lexStatus

-----------------------------------------------------------------------------
cargoVars == <<doc, nodes, current, tomlStatus, crates>>
npmVars == <<pkg, npmPort, npmStatus>>
ignoredVars == <<header, end, ended, inStar, goBuild, built>>
importsVars == <<goTokens, goAt, back, out, goStatus>>
modVars == <<modLines, block, module, requires, imports, goPort, modStatus>>
valeVars == <<ini, guide, world, pending, valeExit, settled>>
classVars == <<negated, items, k, parts, classStatus>>
lexVars == <<src, pnt, lexemes, ts, lexStatus>>
allVars ==
  <<part, vars, cargoVars, npmVars, ignoredVars, importsVars, modVars, valeVars, classVars, lexVars>>

\* Where another part runs, one input stands for all.
Of(p, inputs, idle) == IF part = p THEN inputs ELSE {idle}

PartsInit ==
  /\ part \in Parts
  /\ dir \in Of("deps", BOOLEAN, FALSE)
  /\ manifest \in Of("deps", [Ports -> Manifests], [port \in Ports |-> NoPort]) /\ Init
  /\ C!CargoInit /\ I!Init /\ G!Init /\ M!Init
  /\ IF part = "npm" THEN N!Init ELSE pkg = <<>> /\ npmPort = <<>> /\ npmStatus = "text"
  /\ guide \in Of("vale", ValeGuides, <<Num(1), Word("alerts across"), Num(2), Word("files")>>)
  /\ world \in Of("vale", ValeWorlds, Measured(1, 2, 1, 2, {1}, TRUE, TRUE)) /\ V!Init
  /\ negated \in Of("class", BOOLEAN, FALSE) /\ K!Init
  /\ IF part = "lexer" THEN X!Init
     ELSE src = <<>> /\ pnt = X!Start /\ lexemes = <<>> /\ ts = <<>> /\ lexStatus = "ts"

\* Everything else stays.
Only(p) ==
  /\ UNCHANGED part
  /\ IF p = "deps" THEN TRUE ELSE UNCHANGED vars
  /\ IF p \in {"toml", "cargo"} THEN TRUE ELSE UNCHANGED cargoVars
  /\ IF p = "npm" THEN TRUE ELSE UNCHANGED npmVars
  /\ IF p = "ignored" THEN TRUE ELSE UNCHANGED ignoredVars
  /\ IF p = "imports" THEN TRUE ELSE UNCHANGED importsVars
  /\ IF p = "mod" THEN TRUE ELSE UNCHANGED modVars
  /\ IF p = "vale" THEN TRUE ELSE UNCHANGED valeVars
  /\ IF p = "class" THEN TRUE ELSE UNCHANGED classVars
  /\ IF p = "lexer" THEN TRUE ELSE UNCHANGED lexVars

PartsNext ==
  \/ part = "deps" /\ Next /\ Only("deps")
  \/ part = "toml" /\ T!parseToml /\ UNCHANGED crates /\ Only("toml")
  \/ part = "cargo" /\ C!CargoNext /\ Only("cargo")
  \/ part = "npm" /\ N!readTs /\ Only("npm")
  \/ part = "ignored" /\ I!Next /\ Only("ignored")
  \/ part = "imports" /\ G!Next /\ Only("imports")
  \/ part = "mod" /\ M!Next /\ Only("mod")
  \/ part = "vale" /\ V!Next /\ Only("vale")
  \/ part = "class" /\ K!Next /\ Only("class")
  \/ part = "lexer" /\ X!Next /\ Only("lexer")

PartsSpec == PartsInit /\ [][PartsNext]_allVars

-----------------------------------------------------------------------------
\* Cargo.toml: the tree is the text's, whatever mixture of headers, dotted keys
\* and inline tables spells it, valid TOML is not refused, and the dependencies
\* are those of the text in every spelling Cargo takes.
ReadsCargoManifests ==
  /\ part = "toml" => T!TreeIsWhole /\ T!KeepsEveryPair /\ T!ReadsValidToml
  /\ part = "cargo" => C!ReadsEverySpelling /\ C!RefusesForAReason

\* package.json: the list is what an install of the package brings.
ReadsNpmManifests == part = "npm" => N!ReadsWhatNpmInstalls

\* The Go port: a file is passed over only where Go passes over it, every import
\* of the others is found, go.mod is read whatever its blocks, and an import is
\* the dependency of the module it belongs to.
ReadsGoSources ==
  /\ part = "ignored" => I!IgnoresWhatGoIgnores
  /\ part = "imports" => G!ReadsEveryImport(GoFiles, GoBeginnings)
  /\ part = "mod" => M!ReadsGoMod /\ M!DependsOnWhatItImports

\* A check that passes vouches for the counts, and a --write leaves nothing for
\* it to find, also after one that was cut short.
CountsAreTrue == part = "vale" => V!PassesOnlyTrueCounts /\ V!WriteSettles

\* A class denotes what its hyphens say, and both the TypeScript pattern and the
\* Rust class take exactly those characters from a document, each of them whole.
ClassesDenote ==
  part = "class" => K!ReadsTheRanges /\ K!TakesWholeCharacters /\ K!RustKeepsTheCharacters

\* The TypeScript lexer and the Go scanner find the same lexemes, and at the rows and
\* columns that the source gives them, comments of several lines before it or not.
LexersAgree == part = "lexer" => X!PositionIsTrue /\ X!SameLexemes
================================================================================
