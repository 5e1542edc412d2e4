------------------------------- MODULE PortDeps -------------------------------
(***************************************************************************)
(* tools/port-deps.cjs from readRepo up: a run reads the manifests of the  *)
(* ports that are here, then the register of the differences on record,    *)
(* compares them and exits 0, 1 or 2; between runs someone edits a         *)
(* manifest or the register, or does what the report of the last run       *)
(* advises.  How each manifest is read is the matter of NpmManifest, GoMod *)
(* and CargoManifest; here a manifest is the id in its name and the ids it *)
(* depends on at run time.                                                 *)
(***************************************************************************)
EXTENDS Naturals, FiniteSets

CONSTANTS Ids,         (* the ids a port may depend on                       *)
          RepoIds,     (* the ids a manifest's name may hold                 *)
          NoId,        (* a name that holds none                             *)
          NoPort,      (* there is no such manifest                          *)
          Unreadable,  (* a manifest or a register that a reader refuses     *)
          NoFile,      (* there is no register                               *)
          NoEntry,     (* the register has no entry for an id                *)
          Malformed    (* a register, "differ" or an entry that is no object *)

Ports == {"ts", "go", "rs"}
Order == <<"ts", "go", "rs">>

Written == [id : RepoIds \cup {NoId}, declares : SUBSET Ids]
Manifest == Written \cup {NoPort, Unreadable}

\* An entry; sorted: its ports are in the order the checker writes them in.
Entry == [ports : SUBSET Ports, sorted : BOOLEAN, extra : BOOLEAN, reason : BOOLEAN, repair : BOOLEAN]

Records == [Ids -> Entry \cup {Malformed, NoEntry}]

\* alien: it has a key that is neither note nor differ; note: a sound note or none.
Object == [alien : BOOLEAN, note : BOOLEAN, differ : Records \cup {Malformed}]
Register == Object \cup {NoFile, Unreadable, Malformed}

CONSTANTS Manifests,   (* what a port's manifest may become by an edit       *)
          Registers    (* and what the register may                          *)

\* What a run keeps of a port it has read.
Repo == [id : RepoIds \cup {NoId}, runtime : SUBSET Ids]

ASSUME Distinct ==
  /\ NoPort \notin Written \cup Repo \cup {Unreadable} /\ Unreadable \notin Written \cup Object
  /\ {NoFile, Malformed} \cap (Object \cup {Unreadable}) = {} /\ NoFile # Malformed
  /\ Malformed \notin Entry \cup Records \cup {NoEntry} /\ NoEntry \notin Entry
  /\ NoId \notin RepoIds
ASSUME Choices == Manifests \subseteq Manifest /\ Registers \subseteq Register

VARIABLES dir,        (* is DIR a directory?                                 *)
          manifest,   (* the manifest of each port, on disk                  *)
          register,   (* the register, on disk                               *)
          pc,         (* "idle", or what the run does next                   *)
          at,         (* how many ports the run has looked at                *)
          read,       (* what it has read of each port                       *)
          problems,   (* the problems it reports                             *)
          exit,       (* the status of the last run, or NoStatus            *)
          followed    (* the report's advice was the last edit               *)

NoStatus == 3   \* no run has ended since the last edit
tree == <<dir, manifest, register>>
vars == <<dir, manifest, register, pc, at, read, problems, exit, followed>>

Init ==
  /\ dir \in BOOLEAN /\ manifest \in [Ports -> Manifests] /\ register = NoFile
  /\ pc = "idle" /\ at = 0 /\ read = [p \in Ports |-> NoPort]
  /\ problems = {} /\ exit = NoStatus /\ followed = FALSE

-----------------------------------------------------------------------------
(* The run. *)

\* What a run has read is gone with it.
Fresh == at' = 0 /\ read' = [p \in Ports |-> NoPort] /\ problems' = {}
Exit(status) == exit' = status /\ pc' = "idle"

main ==
  /\ pc = "idle" /\ Fresh
  /\ IF dir THEN pc' = "ports" /\ exit' = NoStatus ELSE Exit(2)
  /\ UNCHANGED <<tree, followed>>

\* Mutant: a port is taken to depend on itself.
readRepoOwn ==
  /\ pc = "ports" /\ at < 3
  /\ LET p == Order[at + 1] IN
       CASE manifest[p] = NoPort -> UNCHANGED <<read, pc, exit>>
         [] manifest[p] = Unreadable -> Exit(2) /\ UNCHANGED read
         [] OTHER ->
              /\ read' = [read EXCEPT ![p] =
                   [id |-> manifest[p].id, runtime |-> manifest[p].declares]]
              /\ UNCHANGED <<pc, exit>>
  /\ at' = at + 1
  /\ UNCHANGED <<tree, problems, followed>>

\* The next port in order: not here, refused, or read.  A port's own id is no
\* dependency of it.
readRepo ==
  /\ pc = "ports" /\ at < 3
  /\ LET p == Order[at + 1] IN
       CASE manifest[p] = NoPort -> UNCHANGED <<read, pc, exit>>
         [] manifest[p] = Unreadable -> Exit(2) /\ UNCHANGED read
         [] OTHER ->
              /\ read' = [read EXCEPT ![p] =
                   [id |-> manifest[p].id, runtime |-> manifest[p].declares \ {manifest[p].id}]]
              /\ UNCHANGED <<pc, exit>>
  /\ at' = at + 1
  /\ UNCHANGED <<tree, problems, followed>>

readRegister ==
  /\ pc = "ports" /\ at = 3
  /\ IF register = Unreadable THEN Exit(2) ELSE pc' = "compare" /\ UNCHANGED exit
  /\ UNCHANGED <<tree, at, read, problems, followed>>

Present == {p \in Ports : read[p] # NoPort}
Named == {p \in Present : read[p].id # NoId}

NameProblems ==
  {<<"name", p, "none">> : p \in Present \ Named}
    \cup {<<"name", p, "disagrees">> : p \in {q \in Named : \E o \in Named : read[o].id # read[q].id}}

\* The part of the register that can be trusted.
differ ==
  IF register \in {NoFile, Malformed} \/ register.differ = Malformed
    THEN [id \in Ids |-> NoEntry] ELSE register.differ

RegisterProblems ==
  IF register = NoFile THEN {}
  ELSE IF register = Malformed THEN {<<"register", "object", "missing">>}
  ELSE {<<"register", part, "wrong">> : part \in
          {x \in {"alien", "note", "differ"} :
             \/ x = "alien" /\ register.alien
             \/ x = "note" /\ ~register.note
             \/ x = "differ" /\ register.differ = Malformed}}

have(id) == {p \in Present : id \in read[p].runtime}
differs(id) == have(id) # {} /\ have(id) # Present

\* The ports are compared as text: the same ones in another order are not the same.
EntryProblems(id, entry) ==
  IF entry = Malformed THEN {<<"entry", id, "object">>}
  ELSE {<<"entry", id, field>> : field \in
          {x \in {"extra", "ports", "reason", "repair"} :
             \/ x = "extra" /\ entry.extra
             \/ x = "ports" /\ (entry.ports # have(id) \/ ~entry.sorted)
             \/ x = "reason" /\ ~entry.reason
             \/ x = "repair" /\ ~entry.repair}}

\* Mutant: an entry is looked at only where the ports still differ.
IdProblemsLive(id) ==
  IF ~differs(id) THEN {}
  ELSE IF differ[id] = NoEntry THEN {<<"entry", id, "missing">>} ELSE EntryProblems(id, differ[id])

IdProblems(id) ==
  IF differ[id] = NoEntry THEN (IF differs(id) THEN {<<"entry", id, "missing">>} ELSE {})
  ELSE IF ~differs(id) THEN {<<"entry", id, "stale">>} ELSE EntryProblems(id, differ[id])

compare ==
  /\ pc = "compare"
  /\ problems' = NameProblems \cup RegisterProblems \cup UNION {IdProblems(id) : id \in Ids}
  /\ Exit(IF problems' = {} THEN 0 ELSE 1)
  /\ UNCHANGED <<tree, at, read, followed>>

-----------------------------------------------------------------------------
(* Between the runs. *)

Edited == exit' = NoStatus /\ followed' = FALSE /\ Fresh /\ UNCHANGED pc

EditManifest ==
  /\ pc = "idle" /\ Edited
  /\ \E p \in Ports, m \in Manifests : manifest' = [manifest EXCEPT ![p] = m]
  /\ UNCHANGED <<dir, register>>

EditRegister ==
  /\ pc = "idle" /\ Edited /\ register' \in Registers /\ UNCHANGED <<dir, manifest>>

\* What the report says to write for an id it names, or nothing to delete it.
Advised(id) == [ports |-> have(id), sorted |-> TRUE, extra |-> FALSE, reason |-> TRUE, repair |-> TRUE]
Told(id) == {problem \in problems : problem[1] = "entry" /\ problem[2] = id}

\* Mutant: the advice shows the ports in the order they are read in.
MendedUnsorted(id) ==
  IF <<"entry", id, "stale">> \in problems THEN NoEntry
  ELSE IF Told(id) = {} THEN differ[id]
  ELSE [Advised(id) EXCEPT !.sorted = Cardinality(have(id)) < 2]

Mended(id) ==
  IF <<"entry", id, "stale">> \in problems THEN NoEntry
  ELSE IF Told(id) = {} THEN differ[id]
  ELSE Advised(id)

\* Do to the register all that the report says: drop the keys it names, mend
\* the note, write "differ", add, mend and delete entries.
FollowReport ==
  /\ pc = "idle" /\ exit = 1 /\ exit' = NoStatus /\ followed' = TRUE
  /\ register' = [alien |-> FALSE, note |-> TRUE, differ |-> [id \in Ids |-> Mended(id)]]
  /\ Fresh /\ UNCHANGED <<dir, manifest, pc>>

Next == main \/ readRepo \/ readRegister \/ compare \/ EditManifest \/ EditRegister \/ FollowReport

Spec == Init /\ [][Next]_vars

-----------------------------------------------------------------------------
TypeOK ==
  /\ dir \in BOOLEAN /\ manifest \in [Ports -> Manifest] /\ register \in Register
  /\ pc \in {"idle", "ports", "compare"} /\ at \in 0..3
  /\ read \in [Ports -> Repo \cup {NoPort}]
  /\ exit \in {0, 1, 2, NoStatus} /\ followed \in BOOLEAN

(* What is true of the files, said without the run that reads them. *)

Here == {p \in Ports : manifest[p] # NoPort}
DependOn(id) == {p \in Here : id \in manifest[p].declares /\ id # manifest[p].id}
AllReadable == dir /\ Unreadable \notin {manifest[p] : p \in Ports} /\ register # Unreadable

OneName == \E repo \in RepoIds : \A p \in Here : manifest[p].id = repo

EveryDifferenceIsOnRecord ==
  /\ register # Malformed
  /\ register # NoFile => ~register.alien /\ register.note /\ register.differ # Malformed
  /\ \A id \in Ids :
       (IF register = NoFile THEN NoEntry ELSE register.differ[id]) =
         (IF DependOn(id) \in {{}, Here} THEN NoEntry
          ELSE [ports |-> DependOn(id), sorted |-> TRUE, extra |-> FALSE, reason |-> TRUE, repair |-> TRUE])

\* Status 0 is never given to a tree with a manifest that could not be read,
\* to ports that do not agree on a name, to a difference that the register
\* does not record exactly and with its reason and repair, nor to a record
\* of a difference that is gone.  (DIR read as an empty tree, a record of
\* yesterday's difference and a half-read register would each do it.)
PassesOnlyWhatIsRecorded ==
  exit = 0 => AllReadable /\ (Here # {} => OneName) /\ EveryDifferenceIsOnRecord

\* And 1 is given for one of these, 2 for a tree that cannot be read.
FailsForAReason ==
  /\ exit = 1 => AllReadable /\ ~((Here # {} => OneName) /\ EveryDifferenceIsOnRecord)
  /\ exit = 2 => ~AllReadable

\* The advice is enough: a register edited as the report of a run says passes
\* the next one, unless the ports have to be named first.
AdviceSuffices ==
  followed /\ exit \in {1, 2} => exit = 1 /\ \A problem \in problems : problem[1] = "name"

==============================================================================
