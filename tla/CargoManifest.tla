---------------------------- MODULE CargoManifest ----------------------------
(***************************************************************************)
(* tools/port-deps.cjs, readRs: the dependencies of the Rust port, from    *)
(* the tree that parseToml made of rs/Cargo.toml.                          *)
(*                                                                         *)
(* Cargo takes a dependency in many spellings.  The promise is stated on   *)
(* the text, as a set of pairs, and knows nothing of the tree.             *)
(***************************************************************************)
EXTENDS Toml, PortFold

CONSTANT Modern   (* the editions that refuse the underscore spelling *)

VARIABLE port   (* what readRs answers, or <<>> *)

cargoVars == <<tomlVars, port>>

CARGO_TABLES ==
  { [key |-> "dependencies",       old |-> {},                     dev |-> FALSE],
    [key |-> "build-dependencies", old |-> {"build_dependencies"}, dev |-> FALSE],
    [key |-> "dev-dependencies",   old |-> {"dev_dependencies"},   dev |-> TRUE] }

Is(p, t) == p \in DOMAIN nodes /\ nodes[p].t = t
KeysOf(p) == {Last(q) : q \in {q \in DOMAIN nodes : q # <<>> /\ Front(q) = p}}

NamePath == <<"package", "name">>

modern == Is(<<"package", "edition">>, "string") /\ nodes[<<"package", "edition">>].v \in Modern

\* A dependency this reader does not understand.
EntryFails(p) ==
  IF nodes[p].t # "table" THEN nodes[p].t # "string"
  ELSE \/ Append(p, "workspace") \in DOMAIN nodes
       \/ Append(p, "package") \in DOMAIN nodes /\ ~Is(Append(p, "package"), "string")
       \/ Append(p, "optional") \in DOMAIN nodes /\ ~Is(Append(p, "optional"), "bool")

\* `name = "1"`, or a table that may rename it or make it optional.
entry(p) ==
  [name     |-> IF Append(p, "package") \in DOMAIN nodes THEN nodes[Append(p, "package")].v ELSE Last(p),
   optional |-> Append(p, "optional") \in DOMAIN nodes /\ nodes[Append(p, "optional")].v = "true"]

\* Mutant: both spellings of a table are read.
UsedBoth(scope, kind) == {Append(scope, k) : k \in ({kind.key} \cup kind.old)} \cap DOMAIN nodes

\* The table of this kind that counts in a scope: the old spelling only
\* when the hyphen one is absent.
Used(scope, kind) ==
  LET new == Append(scope, kind.key)
  IN  IF new \in DOMAIN nodes THEN {new}
      ELSE {Append(scope, k) : k \in kind.old} \cap DOMAIN nodes

Scopes == {<<>>} \cup {<<"target", cfg>> : cfg \in KeysOf(<<"target">>)}

Entries(kind) == UNION {UNION {{Append(t, k) : k \in KeysOf(t)} : t \in Used(s, kind)} : s \in Scopes}

NotFollowed ==
  \/ ~Is(<<"package">>, "table") \/ ~Is(NamePath, "string")
  \/ <<"target">> \in DOMAIN nodes /\ ~Is(<<"target">>, "table")
  \/ \E s \in Scopes : s # <<>> /\ ~Is(s, "table")
  \/ \E kind \in CARGO_TABLES, s \in Scopes :
       \/ modern /\ \E k \in kind.old : Append(s, k) \in DOMAIN nodes
       \/ \E t \in Used(s, kind) : ~Is(t, "table") \/ \E k \in KeysOf(t) : EntryFails(Append(t, k))

Declared(isDev) ==
  {entry(p) : p \in UNION {Entries(kind) : kind \in {k \in CARGO_TABLES : k.dev = isDev}}}

readRs ==
  /\ status = "read"
  /\ IF NotFollowed THEN status' = "unreadable" /\ UNCHANGED port
     ELSE /\ status' = "port"
          /\ port' = fold(IdOf(nodes[NamePath].v), Declared(FALSE), {d.name : d \in Declared(TRUE)})
  /\ UNCHANGED <<doc, nodes, current>>

CargoInit == TomlInit /\ port = <<>>
CargoNext == (parseToml /\ UNCHANGED port) \/ readRs
CargoSpec == CargoInit /\ [][CargoNext]_cargoVars

-----------------------------------------------------------------------------
(* The same, from the text. *)

Mentioned ==
  {p[1] : p \in PairsSaid} \cup TablesSaid
  \cup {Section(i) \o doc[i].path : i \in {i \in DOMAIN doc : doc[i].t = "pair"}}

SaidBelow(p) == {q[Len(p) + 1] : q \in {q \in Mentioned : IsPrefix(p, q) /\ Len(q) > Len(p)}}
IsSaid(p) == \E q \in Mentioned : IsPrefix(p, q)
Said(p, v) == <<p, v>> \in PairsSaid
SomeString == {v \in {q[2] : q \in PairsSaid} : v.t = "string"}
true == [t |-> "bool", v |-> "true"]

SaidTables(isDev) ==
  {p \in {q \in UNION {{SubSeq(r, 1, m) : m \in 1 .. Len(r)} : r \in Mentioned} :
            Len(q) = 1 \/ (Len(q) = 3 /\ q[1] = "target")} :
     \E kind \in CARGO_TABLES :
       /\ kind.dev = isDev
       /\ \/ Last(p) = kind.key
          \/ Last(p) \in kind.old /\ ~IsSaid(Append(Front(p), kind.key))}

SaidDeps(isDev) == UNION {{Append(t, k) : k \in SaidBelow(t)} : t \in SaidTables(isDev)}
CrateOf(p) ==
  IF IsSaid(Append(p, "package"))
  THEN (CHOOSE v \in SomeString : Said(Append(p, "package"), v)).v ELSE Last(p)

\* Whatever spells it (a string, an inline table, a header, a dotted key,
\* any of them below [target]; a rename; the underscore of older editions),
\* a dependency of the text is in the list, and nothing else is.  "Never
\* read as no dependency."
ReadsEverySpelling ==
  status = "port" =>
    \E self \in {v \in SomeString : Said(NamePath, v)}, deps \in {SaidDeps(FALSE)}, dev \in {SaidDeps(TRUE)} :
      LET ids(ps) == {IdOf(CrateOf(p)) : p \in ps} \ {NoId, IdOf(self.v)}
      IN  /\ port.runtime = ids(deps)
          /\ port.dev = ids(dev) \ ids(deps)
          /\ port.optional = {id \in ids(deps) : \A p \in deps :
                                IdOf(CrateOf(p)) = id => Said(Append(p, "optional"), true)}

\* A manifest is refused for something the reader says it does not follow:
\* no name, a workspace's value, a spelling the edition refuses, or a value
\* of the wrong kind.
RefusesForAReason ==
  status = "unreadable" =>
    LET given(p, kinds) == \E v \in {q[2] : q \in PairsSaid} : v.t \in kinds /\ Said(p, v)
        deps == SaidDeps(TRUE) \cup SaidDeps(FALSE)
    IN  \/ ~given(NamePath, {"string"})
        \/ \E p \in deps : \/ given(p, {"bool", "other", "array"})
                           \/ IsSaid(Append(p, "workspace"))
                           \/ IsSaid(Append(p, "package")) /\ ~given(Append(p, "package"), {"string"})
                           \/ IsSaid(Append(p, "optional")) /\ ~given(Append(p, "optional"), {"bool"})
        \/ \E p \in SaidTables(TRUE) \cup SaidTables(FALSE) \cup {<<"target">>} :
             given(p, {"string", "bool", "other", "array"})
        \/ \E v \in SomeString, kind \in CARGO_TABLES, p \in Mentioned, m \in {1, 3} :
             Said(<<"package", "edition">>, v) /\ v.v \in Modern /\ Len(p) >= m /\ p[m] \in kind.old

==============================================================================
