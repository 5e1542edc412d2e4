---------------------------- MODULE PortDepsProofs ----------------------------
(***************************************************************************)
(* Proofs about PortDeps, for any ids, and any manifests and registers     *)
(* that an edit may write.                                                 *)
(***************************************************************************)
EXTENDS PortDeps, TLAPS

ReadOf(p) ==
  IF manifest[p] = NoPort THEN NoPort
  ELSE [id |-> manifest[p].id, runtime |-> manifest[p].declares \ {manifest[p].id}]

\* What the run has read is what is on disk, for the ports it has looked at.
ReadSoFar ==
  \A i \in 1..at : read[Order[i]] = ReadOf(Order[i]) /\ manifest[Order[i]] # Unreadable

Whole == \A p \in Ports : read[p] = ReadOf(p) /\ manifest[p] # Unreadable

Problems == NameProblems \cup RegisterProblems \cup UNION {IdProblems(id) : id \in Ids}

Running ==
  /\ pc # "idle" => dir /\ exit = NoStatus
  /\ pc = "ports" => ReadSoFar /\ \A i \in 1..3 : i > at => read[Order[i]] = NoPort
  /\ pc = "compare" => at = 3

\* When a run is about to compare, and when it has, it has read it all, and
\* nobody has edited it since.
Compared ==
  pc = "compare" \/ exit \in {0, 1} => dir /\ Whole /\ register # Unreadable

Reported ==
  /\ exit = 0 => Problems = {} /\ problems = {}
  /\ exit = 1 => Problems # {} /\ problems = Problems
  /\ exit = 2 => ~AllReadable

\* What the advice of a report leads to.
Followed == followed => AllReadable /\ EveryDifferenceIsOnRecord

IInv == TypeOK /\ Running /\ Compared /\ Reported /\ Followed

-----------------------------------------------------------------------------
(* What comparing does. *)

Kept(id) == IF register = NoFile THEN NoEntry ELSE register.differ[id]

Right(id) ==
  IF DependOn(id) \in {{}, Here} THEN NoEntry
  ELSE [ports |-> DependOn(id), sorted |-> TRUE, extra |-> FALSE, reason |-> TRUE, repair |-> TRUE]

RegisterSound ==
  /\ register # Malformed
  /\ register # NoFile => ~register.alien /\ register.note /\ register.differ # Malformed

LEMMA RegisterKinds ==
  ASSUME TypeOK, register \notin {NoFile, Unreadable, Malformed}
  PROVE  register \in Object
  BY DEF TypeOK, Register

LEMMA ReadOfType ==
  ASSUME TypeOK, NEW p \in Ports, manifest[p] # Unreadable
  PROVE  /\ ReadOf(p) \in Repo \cup {NoPort}
         /\ ReadOf(p) = NoPort <=> manifest[p] = NoPort
         /\ manifest[p] # NoPort => manifest[p] \in Written
  <1>1. manifest[p] # NoPort => manifest[p] \in Written  BY DEF TypeOK, Manifest
  <1>2. CASE manifest[p] = NoPort  BY <1>2 DEF ReadOf
  <1>3. CASE manifest[p] # NoPort
    <2>1. ReadOf(p) \in Repo  BY <1>1, <1>3 DEF ReadOf, Repo, Written
    <2> QED  BY <1>1, <1>3, <2>1, Distinct
  <1> QED  BY <1>2, <1>3

LEMMA PresentIsHere ==
  ASSUME TypeOK, Whole
  PROVE  Present = Here /\ \A p \in Here : read[p].id = manifest[p].id
  <1>1. \A p \in Ports : read[p] = NoPort <=> manifest[p] = NoPort  BY ReadOfType DEF Whole
  <1>2. ASSUME NEW p \in Here PROVE read[p].id = manifest[p].id
    <2>1. read[p] = [id |-> manifest[p].id, runtime |-> manifest[p].declares \ {manifest[p].id}]
      BY <1>2 DEF Here, Whole, ReadOf
    <2> QED  BY <2>1
  <1> QED  BY <1>1, <1>2 DEF Present, Here

LEMMA HaveIsDependOn ==
  ASSUME TypeOK, Whole, NEW id \in Ids
  PROVE  have(id) = DependOn(id)
  <1>1. ASSUME NEW p \in Here
        PROVE  id \in read[p].runtime <=> id \in manifest[p].declares /\ id # manifest[p].id
    <2>1. read[p] = [id |-> manifest[p].id, runtime |-> manifest[p].declares \ {manifest[p].id}]
      BY <1>1 DEF Here, Whole, ReadOf
    <2> QED  BY <2>1
  <1>2. have(id) = {p \in Here : id \in read[p].runtime}  BY PresentIsHere DEF have
  <1>3. DependOn(id) = {p \in Here : id \in manifest[p].declares /\ id # manifest[p].id}
    BY DEF DependOn
  <1> QED  BY <1>1, <1>2, <1>3

LEMMA NamesAgree ==
  ASSUME TypeOK, Whole
  PROVE  NameProblems = {} <=> (Here # {} => OneName)
  <1>1. Named = {p \in Here : manifest[p].id # NoId}  BY PresentIsHere DEF Named
  <1>2. NameProblems = {} <=>
          /\ \A p \in Here : manifest[p].id # NoId
          /\ \A q, o \in Here : manifest[o].id = manifest[q].id
    <2>1. Present \ Named = {p \in Here : manifest[p].id = NoId}  BY <1>1, PresentIsHere
    <2>2. {<<"name", p, "none">> : p \in Present \ Named} = {}
            <=> \A p \in Here : manifest[p].id # NoId
      <3>1. (\A p \in Here : manifest[p].id # NoId) <=> Present \ Named = {}  BY <2>1
      <3> QED  BY <3>1
    <2> DEFINE Odd == {q \in Named : \E o \in Named : read[o].id # read[q].id}
    <2>3. {<<"name", p, "disagrees">> : p \in Odd} = {} <=> Odd = {}  OBVIOUS
    <2>4. Odd = {} <=> \A q, o \in Named : manifest[o].id = manifest[q].id
      BY <1>1, PresentIsHere
    <2> QED  BY <1>1, <2>2, <2>3, <2>4 DEF NameProblems
  <1>3. \A p \in Here : manifest[p].id \in RepoIds \cup {NoId}
    BY ReadOfType DEF Here, Whole, Written
  <1> QED  BY <1>2, <1>3, Distinct DEF OneName

LEMMA RegisterProblemsNone ==
  ASSUME TypeOK, register # Unreadable
  PROVE  RegisterProblems = {} <=> RegisterSound
  <1>1. CASE register = NoFile
    BY <1>1, Distinct DEF RegisterProblems, RegisterSound
  <1>2. CASE register = Malformed
    BY <1>2, Distinct DEF RegisterProblems, RegisterSound
  <1>3. CASE register \notin {NoFile, Malformed}
    <2> DEFINE Parts == {x \in {"alien", "note", "differ"} :
                           \/ x = "alien" /\ register.alien
                           \/ x = "note" /\ ~register.note
                           \/ x = "differ" /\ register.differ = Malformed}
    <2>1. RegisterProblems = {<<"register", part, "wrong">> : part \in Parts}
      BY <1>3 DEF RegisterProblems
    <2>2. RegisterProblems = {} <=> Parts = {}  BY <2>1
    <2>3. Parts = {} <=> ~register.alien /\ register.note /\ register.differ # Malformed  OBVIOUS
    <2> QED  BY <1>3, <2>2, <2>3 DEF RegisterSound
  <1> QED  BY <1>1, <1>2, <1>3

LEMMA DifferType ==
  ASSUME TypeOK, register # Unreadable, NEW id \in Ids
  PROVE  differ[id] \in Entry \cup {Malformed, NoEntry}
  <1>1. CASE register \in {NoFile, Malformed}  BY <1>1 DEF differ
  <1>2. CASE register \notin {NoFile, Malformed}
    <2>1. register \in Object  BY <1>2, RegisterKinds
    <2>2. register.differ # Malformed => register.differ \in Records  BY <2>1 DEF Object
    <2> QED  BY <1>2, <2>2 DEF differ, Records
  <1> QED  BY <1>1, <1>2

LEMMA EntryProblemsNone ==
  ASSUME TypeOK, Whole, register # Unreadable, NEW id \in Ids
  PROVE  IdProblems(id) = {} <=> differ[id] = Right(id)
  <1>1. differs(id) <=> DependOn(id) \notin {{}, Here}
    BY HaveIsDependOn, PresentIsHere DEF differs
  <1>2. CASE differ[id] = NoEntry
    <2>1. DependOn(id) \subseteq Ports  BY DEF DependOn, Here
    <2>2. DependOn(id) \notin {{}, Here} => Right(id) \in Entry  BY <2>1 DEF Right, Entry
    <2> QED  BY <1>1, <1>2, <2>2, Distinct DEF IdProblems, Right
  <1>3. CASE differ[id] # NoEntry /\ ~differs(id)
    BY <1>1, <1>3 DEF IdProblems, Right
  <1>4. CASE differ[id] # NoEntry /\ differs(id)
    <2>1. IdProblems(id) = EntryProblems(id, differ[id])  BY <1>4 DEF IdProblems
    <2>2. Right(id) = [ports |-> have(id), sorted |-> TRUE, extra |-> FALSE, reason |-> TRUE, repair |-> TRUE]
      BY <1>1, <1>4, HaveIsDependOn DEF Right
    <2>3. have(id) \subseteq Ports  BY DEF have, Present
    <2>4. CASE differ[id] = Malformed
      <3>1. Right(id) \in Entry  BY <2>2, <2>3 DEF Entry
      <3> QED  BY <2>1, <2>4, <3>1, Distinct DEF EntryProblems
    <2>5. CASE differ[id] # Malformed
      <3> DEFINE entry == differ[id]
                 Fields == {x \in {"extra", "ports", "reason", "repair"} :
                             \/ x = "extra" /\ entry.extra
                             \/ x = "ports" /\ (entry.ports # have(id) \/ ~entry.sorted)
                             \/ x = "reason" /\ ~entry.reason
                             \/ x = "repair" /\ ~entry.repair}
      <3>1. entry \in Entry  BY <1>4, <2>5, DifferType
      <3>2. IdProblems(id) = {<<"entry", id, field>> : field \in Fields}
        BY <2>1, <2>5 DEF EntryProblems
      <3>3. IdProblems(id) = {} <=> Fields = {}  BY <3>2
      <3>4. Fields = {} <=> /\ ~entry.extra /\ entry.ports = have(id) /\ entry.sorted
                            /\ entry.reason /\ entry.repair
        OBVIOUS
      <3>5. entry = [ports |-> entry.ports, sorted |-> entry.sorted, extra |-> entry.extra,
                     reason |-> entry.reason, repair |-> entry.repair]
            /\ entry.sorted \in BOOLEAN /\ entry.extra \in BOOLEAN
            /\ entry.reason \in BOOLEAN /\ entry.repair \in BOOLEAN
        BY <3>1 DEF Entry
      <3> HIDE DEF entry, Fields
      <3>6. entry = Right(id) <=> /\ ~entry.extra /\ entry.ports = have(id) /\ entry.sorted
                                  /\ entry.reason /\ entry.repair
        BY <2>2, <3>5
      <3> QED  BY <3>3, <3>4, <3>6 DEF entry
    <2> QED  BY <2>4, <2>5
  <1> QED  BY <1>2, <1>3, <1>4

\* Comparing finds nothing exactly when all is as it should be.
LEMMA RecordProblemsNone ==
  ASSUME TypeOK, Whole, register # Unreadable
  PROVE  RegisterProblems = {} /\ (\A id \in Ids : IdProblems(id) = {}) <=> EveryDifferenceIsOnRecord
  <1>1. RegisterProblems = {} <=> RegisterSound  BY RegisterProblemsNone
  <1>2. ASSUME RegisterSound, NEW id \in Ids PROVE differ[id] = Kept(id)
    BY <1>2 DEF RegisterSound, differ, Kept
  <1>3. EveryDifferenceIsOnRecord <=> RegisterSound /\ \A id \in Ids : Kept(id) = Right(id)
    BY DEF EveryDifferenceIsOnRecord, RegisterSound, Kept, Right
  <1>4. ASSUME NEW id \in Ids PROVE IdProblems(id) = {} <=> differ[id] = Right(id)
    BY EntryProblemsNone
  <1> QED  BY <1>1, <1>2, <1>3, <1>4

LEMMA ProblemsNone ==
  ASSUME TypeOK, Whole, register # Unreadable
  PROVE  Problems = {} <=> (Here # {} => OneName) /\ EveryDifferenceIsOnRecord
  <1>1. Problems = {} <=> NameProblems = {} /\ RegisterProblems = {} /\ \A id \in Ids : IdProblems(id) = {}
    BY DEF Problems
  <1> QED  BY <1>1, NamesAgree, RecordProblemsNone

-----------------------------------------------------------------------------
(* The steps. *)

LEMMA InitIInv == Init => IInv
  <1> SUFFICES ASSUME Init PROVE IInv  OBVIOUS
  <1>1. TypeOK
    <2>1. manifest \in [Ports -> Manifest] /\ register \in Register  BY Choices DEF Init, Register
    <2>2. read \in [Ports -> Repo \cup {NoPort}] /\ at \in 0..3  BY DEF Init
    <2>3. dir \in BOOLEAN /\ followed \in BOOLEAN  BY DEF Init
    <2> QED  BY <2>1, <2>2, <2>3 DEF Init, TypeOK, NoStatus
  <1> QED  BY <1>1 DEF Init, IInv, Running, Compared, Reported, Followed, NoStatus

\* What the files say does not change while they do not.
LEMMA SameFiles ==
  ASSUME UNCHANGED tree
  PROVE  (AllReadable' <=> AllReadable) /\ (EveryDifferenceIsOnRecord' <=> EveryDifferenceIsOnRecord)
  BY DEF tree, AllReadable, EveryDifferenceIsOnRecord, DependOn, Here

LEMMA MainKeeps == ASSUME IInv, main PROVE IInv'
  <1>1. TypeOK'  BY DEF IInv, TypeOK, main, Fresh, Exit, tree, NoStatus
  <1>2. Running'  BY DEF IInv, Running, main, Fresh, Exit, tree, ReadSoFar, NoStatus, Order, Ports
  <1>3. Compared' /\ Reported'
    BY SameFiles DEF main, Fresh, Exit, tree, Compared, Reported, AllReadable, NoStatus
  <1>4. Followed'  BY SameFiles DEF IInv, main, Followed
  <1> QED  BY <1>1, <1>2, <1>3, <1>4 DEF IInv

LEMMA ReadRepoKeeps == ASSUME IInv, readRepo PROVE IInv'
  <1> DEFINE p == Order[at + 1]
  <1>1. at \in 0..2 /\ at' = at + 1 /\ p \in Ports /\ pc = "ports" /\ UNCHANGED <<tree, followed>>
    BY DEF IInv, TypeOK, readRepo, Order, Ports
  <1>2. manifest' = manifest /\ dir' = dir /\ dir /\ manifest[p] \in Manifest /\ exit = NoStatus
    BY <1>1 DEF tree, IInv, Running, TypeOK
  <1>3. Followed'  BY <1>1, SameFiles DEF IInv, Followed
  <1>4. CASE manifest[p] = Unreadable
    <2>1. manifest[p] # NoPort /\ pc' = "idle" /\ exit' = 2 /\ read' = read
      BY <1>4, Distinct DEF readRepo, Exit
    <2>2. ~AllReadable'  BY <1>1, <1>2, <1>4 DEF AllReadable
    <2>3. TypeOK'  BY <1>1, <2>1 DEF IInv, TypeOK, tree
    <2>4. Running' /\ Compared' /\ Reported'  BY <2>1, <2>2 DEF Running, Compared, Reported
    <2> QED  BY <1>3, <2>3, <2>4 DEF IInv
  <1>5. CASE manifest[p] # Unreadable
    <2>1. pc' = pc /\ exit' = exit  BY <1>5 DEF readRepo, Exit
    <2>2. read' = [read EXCEPT ![p] = ReadOf(p)]
      <3>1. CASE manifest[p] = NoPort
        <4>1. read' = read /\ ReadOf(p) = NoPort  BY <3>1 DEF readRepo, ReadOf
        <4>2. at + 1 \in 1..3 /\ at + 1 > at  BY <1>1
        <4>3. read[p] = NoPort  BY <1>1, <4>2 DEF IInv, Running
        <4> QED  BY <4>1, <4>3 DEF IInv, TypeOK
      <3>2. CASE manifest[p] # NoPort
        BY <1>5, <3>2 DEF readRepo, ReadOf
      <3> QED  BY <3>1, <3>2
    <2>3. TypeOK'
      <3>1. ReadOf(p) \in Repo \cup {NoPort}  BY <1>1, <1>5, ReadOfType DEF IInv
      <3> QED  BY <1>1, <2>1, <2>2, <3>1 DEF IInv, TypeOK, tree
    <2>4. \A i, j \in 1..3 : Order[i] = Order[j] => i = j
      BY DEF Order
    <2>5. \A q \in Ports : read'[q] = IF q = p THEN ReadOf(p) ELSE read[q]
      BY <2>2 DEF IInv, TypeOK
    <2>6. \A i \in 1..3 : Order[i] \in Ports  BY DEF Order, Ports
    <2>7. ReadSoFar'
      <3> SUFFICES ASSUME NEW i \in 1..at'
                   PROVE  read'[Order[i]] = ReadOf(Order[i])' /\ manifest'[Order[i]] # Unreadable
        BY DEF ReadSoFar
      <3>1. i \in 1..3 /\ (i = at + 1 \/ i \in 1..at)  BY <1>1
      <3>2. ReadOf(Order[i])' = ReadOf(Order[i])  BY <1>2 DEF ReadOf
      <3>3. CASE i = at + 1  BY <1>2, <1>5, <2>5, <2>6, <3>1, <3>2, <3>3
      <3>4. CASE i \in 1..at
        <4>1. Order[i] # p  BY <1>1, <2>4, <3>1, <3>4
        <4>2. read[Order[i]] = ReadOf(Order[i]) /\ manifest[Order[i]] # Unreadable
          BY <1>1, <3>4 DEF IInv, Running, ReadSoFar
        <4> QED  BY <1>2, <2>5, <2>6, <3>1, <3>2, <4>1, <4>2
      <3> QED  BY <3>1, <3>3, <3>4
    <2>8. \A i \in 1..3 : i > at' => read'[Order[i]] = NoPort
      <3> SUFFICES ASSUME NEW i \in 1..3, i > at' PROVE read'[Order[i]] = NoPort  OBVIOUS
      <3>1. i > at /\ i # at + 1 /\ at + 1 \in 1..3  BY <1>1
      <3>2. Order[i] # p  BY <2>4, <3>1
      <3>3. read[Order[i]] = NoPort  BY <1>1, <3>1 DEF IInv, Running
      <3> QED  BY <2>5, <2>6, <3>2, <3>3
    <2>9. Running' /\ Compared' /\ Reported'
      BY <1>1, <1>2, <2>1, <2>7, <2>8 DEF Running, Compared, Reported, NoStatus
    <2> QED  BY <1>3, <2>3, <2>9 DEF IInv
  <1> QED  BY <1>4, <1>5

LEMMA ReadRegisterKeeps == ASSUME IInv, readRegister PROVE IInv'
  <1>1. pc = "ports" /\ at = 3 /\ UNCHANGED <<tree, at, read, followed>>  BY DEF readRegister
  <1>2. dir' = dir /\ dir /\ manifest' = manifest /\ register' = register /\ exit = NoStatus
    BY <1>1 DEF tree, IInv, Running
  <1>3. TypeOK'  BY DEF IInv, TypeOK, readRegister, Exit, tree
  <1>4. Followed'  BY <1>1, SameFiles DEF IInv, Followed
  <1>5. CASE register = Unreadable
    <2>1. pc' = "idle" /\ exit' = 2  BY <1>5 DEF readRegister, Exit
    <2>2. ~AllReadable'  BY <1>2, <1>5 DEF AllReadable
    <2>3. Running' /\ Compared' /\ Reported'  BY <2>1, <2>2 DEF Running, Compared, Reported
    <2> QED  BY <1>3, <1>4, <2>3 DEF IInv
  <1>6. CASE register # Unreadable
    <2>1. pc' = "compare" /\ exit' = exit  BY <1>6 DEF readRegister
    <2>2. Whole'
      <3>1. Order[1] = "ts" /\ Order[2] = "go" /\ Order[3] = "rs"  BY DEF Order
      <3>2. 1 \in 1..at /\ 2 \in 1..at /\ 3 \in 1..at  BY <1>1
      <3>3. ReadSoFar  BY <1>1 DEF IInv, Running
      <3>4. \A q \in Ports : read[q] = ReadOf(q) /\ manifest[q] # Unreadable
        BY <3>1, <3>2, <3>3 DEF ReadSoFar, Ports
      <3>5. \A q \in Ports : ReadOf(q)' = ReadOf(q)  BY <1>2 DEF ReadOf
      <3> QED  BY <1>1, <1>2, <3>4, <3>5 DEF Whole
    <2>3. Running' /\ Compared' /\ Reported'
      BY <1>1, <1>2, <1>6, <2>1, <2>2 DEF Running, Compared, Reported, NoStatus
    <2> QED  BY <1>3, <1>4, <2>3 DEF IInv
  <1> QED  BY <1>5, <1>6

LEMMA CompareKeeps == ASSUME IInv, compare PROVE IInv'
  <1>1. pc = "compare" /\ problems' = Problems /\ UNCHANGED <<tree, at, read, followed>>
    BY DEF compare, Problems
  <1>2. dir /\ Whole /\ register # Unreadable  BY <1>1 DEF IInv, Compared
  <1>3. pc' = "idle" /\ exit' = IF Problems = {} THEN 0 ELSE 1  BY <1>1 DEF compare, Exit
  <1>4. Problems' = Problems /\ Whole' = Whole /\ dir' = dir /\ register' = register
    BY <1>1 DEF tree, Whole, ReadOf, Problems, NameProblems, RegisterProblems, IdProblems,
       EntryProblems, Present, Named, differ, differs, have
  <1>5. TypeOK'  BY <1>1, <1>3 DEF IInv, TypeOK, tree
  <1>6. Followed'  BY <1>1, SameFiles DEF IInv, Followed
  <1>7. Running' /\ Compared' /\ Reported'
    BY <1>1, <1>2, <1>3, <1>4 DEF Running, Compared, Reported
  <1> QED  BY <1>5, <1>6, <1>7 DEF IInv

LEMMA EditKeeps == ASSUME IInv, EditManifest \/ EditRegister PROVE IInv'
  <1>1. exit' = NoStatus /\ followed' = FALSE /\ pc' = "idle" /\ Fresh
    BY DEF EditManifest, EditRegister, Edited, IInv, TypeOK
  <1>2. dir' \in BOOLEAN /\ manifest' \in [Ports -> Manifest] /\ register' \in Register
    BY Choices DEF IInv, TypeOK, EditManifest, EditRegister
  <1>3. TypeOK'
    <2>1. read' \in [Ports -> Repo \cup {NoPort}] /\ at' \in 0..3  BY <1>1 DEF Fresh
    <2> QED  BY <1>1, <1>2, <2>1 DEF TypeOK, NoStatus
  <1> QED  BY <1>1, <1>3 DEF IInv, Running, Compared, Reported, Followed, NoStatus

\* What the report advises is right for every id.
LEMMA MendedIsRight ==
  ASSUME IInv, exit = 1, NEW id \in Ids
  PROVE  Mended(id) = Right(id)
  <1>1. Whole /\ register # Unreadable /\ problems = Problems  BY DEF IInv, Compared, Reported
  <1>2. \A x \in NameProblems : x[1] = "name"  BY DEF NameProblems
  <1>3. \A x \in RegisterProblems : x[1] = "register"
    <2>1. CASE register \in {NoFile, Malformed}  BY <2>1 DEF RegisterProblems
    <2>2. CASE register \notin {NoFile, Malformed}
      <3>1. \A part : <<"register", part, "wrong">>[1] = "register"  OBVIOUS
      <3> QED  BY <2>2, <3>1 DEF RegisterProblems
    <2> QED  BY <2>1, <2>2
  <1>4. \A j \in Ids : \A x \in IdProblems(j) : x[1] = "entry" /\ x[2] = j
    BY DEF IdProblems, EntryProblems
  <1>5. Told(id) = IdProblems(id)
    <2>1. \A x \in IdProblems(id) : x \in Problems  BY DEF Problems
    <2>2. ASSUME NEW x \in Problems, x[1] = "entry", x[2] = id PROVE x \in IdProblems(id)
      <3>1. PICK j \in Ids : x \in IdProblems(j)  BY <1>2, <1>3, <2>2 DEF Problems
      <3> QED  BY <1>4, <2>2, <3>1
    <2> QED  BY <1>1, <1>4, <2>1, <2>2 DEF Told
  <1>6. IdProblems(id) = {} <=> differ[id] = Right(id)  BY <1>1, EntryProblemsNone DEF IInv
  <1>7. differs(id) <=> DependOn(id) \notin {{}, Here}
    BY <1>1, HaveIsDependOn, PresentIsHere DEF IInv, differs
  <1>8. <<"entry", id, "stale">> \in problems <=> differ[id] # NoEntry /\ ~differs(id)
    <2>1. <<"entry", id, "stale">> \in problems <=> <<"entry", id, "stale">> \in IdProblems(id)
      BY <1>1, <1>5 DEF Told
    <2>2. "stale" \notin {"missing", "object", "extra", "ports", "reason", "repair"}  OBVIOUS
    <2>3. CASE differ[id] = NoEntry  BY <2>1, <2>2, <2>3 DEF IdProblems
    <2>4. CASE differ[id] # NoEntry /\ ~differs(id)  BY <2>1, <2>4 DEF IdProblems
    <2>5. CASE differ[id] # NoEntry /\ differs(id)
      <3>1. IdProblems(id) = EntryProblems(id, differ[id])  BY <2>5 DEF IdProblems
      <3>2. <<"entry", id, "stale">> \notin EntryProblems(id, differ[id])  BY <2>2 DEF EntryProblems
      <3> QED  BY <2>1, <2>5, <3>1, <3>2
    <2> QED  BY <2>3, <2>4, <2>5
  <1>9. CASE <<"entry", id, "stale">> \in problems
    <2>1. Told(id) # {}  BY <1>9 DEF Told
    <2>2. Mended(id) = NoEntry  BY <1>9, <2>1 DEF Mended
    <2> QED  BY <1>7, <1>8, <1>9, <2>2 DEF Right
  <1>10. CASE <<"entry", id, "stale">> \notin problems /\ Told(id) = {}
    BY <1>5, <1>6, <1>10 DEF Mended
  <1>11. CASE <<"entry", id, "stale">> \notin problems /\ Told(id) # {}
    <2>1. Mended(id) = Advised(id)  BY <1>11 DEF Mended
    <2>2. differs(id)
      <3>1. CASE differ[id] # NoEntry  BY <1>8, <1>11, <3>1
      <3>2. CASE differ[id] = NoEntry  BY <1>5, <1>11, <3>2 DEF IdProblems
      <3> QED  BY <3>1, <3>2
    <2>3. have(id) = DependOn(id)  BY <1>1, HaveIsDependOn DEF IInv
    <2> QED  BY <1>7, <2>1, <2>2, <2>3 DEF Advised, Right
  <1> QED  BY <1>9, <1>10, <1>11

LEMMA FollowKeeps == ASSUME IInv, FollowReport PROVE IInv'
  <1> DEFINE new == [alien |-> FALSE, note |-> TRUE, differ |-> [id \in Ids |-> Mended(id)]]
  <1>1. exit = 1 /\ exit' = NoStatus /\ pc' = "idle" /\ Fresh /\ register' = new
        /\ followed' = TRUE /\ dir' = dir /\ manifest' = manifest
    BY DEF FollowReport
  <1>2. dir /\ Whole /\ Here' = Here /\ \A id \in Ids : DependOn(id)' = DependOn(id)
    BY <1>1 DEF IInv, Compared, Here, DependOn
  <1>3. new.differ = [id \in Ids |-> Right(id)]  BY <1>1, MendedIsRight
  <1>4. new.differ \in Records
    <2>1. \A id \in Ids : DependOn(id) \subseteq Ports  BY DEF DependOn, Here
    <2>2. \A id \in Ids : Right(id) \in Entry \cup {NoEntry}  BY <2>1 DEF Right, Entry
    <2> QED  BY <1>3, <2>2 DEF Records
  <1>5. new \in Object  BY <1>4 DEF Object
  <1>6. new \notin {NoFile, Malformed, Unreadable} /\ new.differ # Malformed
    BY <1>4, <1>5, Distinct
  <1>7. TypeOK'
    <2>1. read' \in [Ports -> Repo \cup {NoPort}] /\ at' \in 0..3  BY <1>1 DEF Fresh
    <2> QED  BY <1>1, <1>5, <2>1 DEF IInv, TypeOK, NoStatus, Register
  <1>8. AllReadable'
    BY <1>1, <1>2, <1>6 DEF AllReadable, Whole
  <1>9. EveryDifferenceIsOnRecord'
    <2>1. register' # Malformed /\ register' # NoFile  BY <1>1, <1>6
    <2>2. ~register'.alien /\ register'.note /\ register'.differ # Malformed  BY <1>1, <1>6
    <2>3. \A id \in Ids : register'.differ[id] = Right(id)  BY <1>1, <1>3
    <2>4. \A id \in Ids : Right(id)' = Right(id)  BY <1>2 DEF Right
    <2> QED  BY <2>1, <2>2, <2>3, <2>4 DEF EveryDifferenceIsOnRecord, Right
  <1>10. Running' /\ Compared' /\ Reported' /\ Followed'
    BY <1>1, <1>8, <1>9 DEF Running, Compared, Reported, Followed, NoStatus
  <1> QED  BY <1>7, <1>10 DEF IInv

LEMMA NextIInv == IInv /\ [Next]_vars => IInv'
  <1> SUFFICES ASSUME IInv, [Next]_vars PROVE IInv'  OBVIOUS
  <1>1. CASE UNCHANGED vars
    <2>1. UNCHANGED tree /\ UNCHANGED <<dir, manifest, register, pc, at, read, problems, exit, followed>>
      BY <1>1 DEF vars, tree
    <2>2. Problems' = Problems /\ Whole' = Whole
      BY <2>1 DEF tree, Whole, ReadOf, Problems, NameProblems, RegisterProblems, IdProblems,
         EntryProblems, Present, Named, differ, differs, have
    <2>3. TypeOK'  BY <2>1 DEF IInv, TypeOK
    <2>4. Running'  BY <2>1 DEF IInv, Running, ReadSoFar, ReadOf
    <2>5. Compared' /\ Reported' /\ Followed'
      BY <2>1, <2>2, SameFiles DEF IInv, Compared, Reported, Followed
    <2> QED  BY <2>3, <2>4, <2>5 DEF IInv
  <1>2. CASE Next
    BY <1>2, MainKeeps, ReadRepoKeeps, ReadRegisterKeeps, CompareKeeps, EditKeeps, FollowKeeps DEF Next
  <1> QED  BY <1>1, <1>2

\* The invariant - a run that compares has read every port, as it is on disk,
\* and its problems are those of what it read - holds at first and is kept.
THEOREM Inductive == Spec => []IInv
  BY InitIInv, NextIInv, PTL DEF Spec

\* Types, for any ids, manifests and registers.
THEOREM TypeCorrect == Spec => []TypeOK
  <1>1. IInv => TypeOK  BY DEF IInv
  <1> QED  BY <1>1, Inductive, PTL

\* Status 0 says that every manifest was read, that the ports agree on a name
\* and that the register records exactly the differences there are.
THEOREM PassesSoundly == Spec => []PassesOnlyWhatIsRecorded
  <1>1. IInv => PassesOnlyWhatIsRecorded
    <2> SUFFICES ASSUME IInv, exit = 0
                 PROVE  AllReadable /\ (Here # {} => OneName) /\ EveryDifferenceIsOnRecord
      BY DEF PassesOnlyWhatIsRecorded
    <2>1. dir /\ Whole /\ register # Unreadable /\ Problems = {}  BY DEF IInv, Compared, Reported
    <2>2. AllReadable  BY <2>1 DEF AllReadable, Whole
    <2> QED  BY <2>1, <2>2, ProblemsNone DEF IInv
  <1> QED  BY <1>1, Inductive, PTL

\* Status 1 and status 2 are never given without their reason.
THEOREM FailsSoundly == Spec => []FailsForAReason
  <1>1. IInv => FailsForAReason
    <2> SUFFICES ASSUME IInv PROVE FailsForAReason  OBVIOUS
    <2>1. ASSUME exit = 1
          PROVE  AllReadable /\ ~((Here # {} => OneName) /\ EveryDifferenceIsOnRecord)
      <3>1. dir /\ Whole /\ register # Unreadable /\ Problems # {}
        BY <2>1 DEF IInv, Compared, Reported
      <3>2. AllReadable  BY <3>1 DEF AllReadable, Whole
      <3> QED  BY <3>1, <3>2, ProblemsNone DEF IInv
    <2> QED  BY <2>1 DEF FailsForAReason, IInv, Reported
  <1> QED  BY <1>1, Inductive, PTL

\* Who does what the report says has nothing left to do but name the ports.
THEOREM AdviceWorks == Spec => []AdviceSuffices
  <1>1. IInv => AdviceSuffices
    <2> SUFFICES ASSUME IInv, followed, exit \in {1, 2}
                 PROVE  exit = 1 /\ \A problem \in problems : problem[1] = "name"
      BY DEF AdviceSuffices
    <2>1. AllReadable /\ EveryDifferenceIsOnRecord  BY DEF IInv, Followed
    <2>2. exit = 1  BY <2>1 DEF IInv, Reported
    <2>3. Whole /\ register # Unreadable /\ problems = Problems  BY <2>2 DEF IInv, Compared, Reported
    <2>4. RegisterProblems = {} /\ \A id \in Ids : IdProblems(id) = {}
      BY <2>1, <2>3, RecordProblemsNone DEF IInv
    <2>5. problems = NameProblems  BY <2>3, <2>4 DEF Problems
    <2> QED  BY <2>2, <2>5 DEF NameProblems
  <1> QED  BY <1>1, Inductive, PTL
-----------------------------------------------------------------------------
(* NpmManifest, for any manifests and any naming of packages.               *)

CONSTANTS NpmManifests, IdOf(_)
VARIABLES pkg, npmPort, npmStatus

N == INSTANCE NpmManifest WITH Manifests <- NpmManifests, port <- npmPort, status <- npmStatus

\* What is answered is the manifest's declarations, folded.
Folded ==
  npmStatus = "port" =>
    npmPort = N!fold(IdOf(pkg.name), N!declarations, {pkg.dev[n] : n \in DOMAIN pkg.dev})

Names == UNION {DOMAIN s : s \in N!Runtime}

\* An install does without a name exactly where the reader calls it optional.
LEMMA OptionalIsDispensable ==
  ASSUME NEW n \in Names
  PROVE  N!optional(n) <=> ~N!FailsWithout(n)
  BY DEF Names, N!Runtime, N!optional, N!FailsWithout

\* A declaration is of a name in one of the three sections.
LEMMA DeclarationsOfSections ==
  /\ \A d \in N!declarations : \E s \in N!Runtime : \E n \in DOMAIN s :
       d.name = s[n] /\ d.optional = N!optional(n)
  /\ \A s \in N!Runtime : \A n \in DOMAIN s : \E d \in N!declarations :
       d.name = s[n] /\ d.optional = N!optional(n)
  <1> DEFINE made(s, n) == [name |-> s[n], optional |-> N!optional(n)]
  <1>1. \A s, n : made(s, n).name = s[n] /\ made(s, n).optional = N!optional(n)
    OBVIOUS
  <1>2. ASSUME NEW d \in N!declarations
        PROVE  \E s \in N!Runtime : \E n \in DOMAIN s : d = made(s, n)
    BY <1>2 DEF N!declarations
  <1>3. ASSUME NEW s \in N!Runtime, NEW n \in DOMAIN s
        PROVE  made(s, n) \in N!declarations
    BY <1>3 DEF N!declarations
  <1> HIDE DEF made
  <1> QED  BY <1>1, <1>2, <1>3

LEMMA RuntimeIsInstalled ==
  {IdOf(d.name) : d \in N!declarations} = UNION {{IdOf(s[n]) : n \in DOMAIN s} : s \in N!Runtime}
  <1>1. ASSUME NEW d \in N!declarations
        PROVE  IdOf(d.name) \in UNION {{IdOf(s[n]) : n \in DOMAIN s} : s \in N!Runtime}
    <2>1. PICK s \in N!Runtime : \E n \in DOMAIN s : d.name = s[n]  BY DeclarationsOfSections
    <2> QED  BY <2>1
  <1>2. ASSUME NEW s \in N!Runtime, NEW n \in DOMAIN s
        PROVE  IdOf(s[n]) \in {IdOf(d.name) : d \in N!declarations}
    <2>1. PICK d \in N!declarations : d.name = s[n]  BY DeclarationsOfSections
    <2> QED  BY <2>1
  <1> QED  BY <1>1, <1>2

\* All declarations of an id are optional where an install does without all its names.
LEMMA OptionalEverywhere ==
  ASSUME NEW id
  PROVE  (\A d \in N!declarations : IdOf(d.name) = id => d.optional)
           <=> (\A n \in N!InstalledAs(id) : ~N!FailsWithout(n))
  <1>1. ASSUME \A d \in N!declarations : IdOf(d.name) = id => d.optional, NEW n \in N!InstalledAs(id)
        PROVE  ~N!FailsWithout(n)
    <2>1. PICK s \in N!Runtime : n \in DOMAIN s /\ IdOf(s[n]) = id  BY DEF N!InstalledAs
    <2>2. PICK d \in N!declarations : d.name = s[n] /\ d.optional = N!optional(n)
      BY <2>1, DeclarationsOfSections
    <2>3. n \in Names  BY <2>1 DEF Names
    <2> QED  BY <1>1, <2>1, <2>2, <2>3, OptionalIsDispensable
  <1>2. ASSUME \A n \in N!InstalledAs(id) : ~N!FailsWithout(n), NEW d \in N!declarations, IdOf(d.name) = id
        PROVE  d.optional
    <2>1. PICK s \in N!Runtime : \E n \in DOMAIN s : d.name = s[n] /\ d.optional = N!optional(n)
      BY DeclarationsOfSections
    <2>2. PICK n \in DOMAIN s : d.name = s[n] /\ d.optional = N!optional(n)  BY <2>1
    <2>3. n \in Names /\ n \in N!InstalledAs(id)  BY <1>2, <2>2 DEF Names, N!InstalledAs
    <2> QED  BY <1>2, <2>2, <2>3, OptionalIsDispensable
  <1> QED  BY <1>1, <1>2

LEMMA FoldedIsInstalled == Folded => N!ReadsWhatNpmInstalls
  <1> SUFFICES ASSUME Folded, npmStatus = "port" PROVE N!ReadsWhatNpmInstalls
    BY DEF N!ReadsWhatNpmInstalls
  <1> DEFINE self == IdOf(pkg.name)
             ids == {IdOf(d.name) : d \in N!declarations} \ {NoId, self}
  <1>1. /\ npmPort.runtime = ids
        /\ npmPort.optional = {id \in ids : \A d \in N!declarations : IdOf(d.name) = id => d.optional}
        /\ npmPort.dev = {IdOf(name) : name \in {pkg.dev[n] : n \in DOMAIN pkg.dev}} \ (ids \cup {NoId, self})
    BY DEF Folded, N!fold
  <1>2. npmPort.runtime = {id \in UNION {{IdOf(s[n]) : n \in DOMAIN s} : s \in N!Runtime} : id \notin {NoId, self}}
    BY <1>1, RuntimeIsInstalled
  <1>3. npmPort.optional = {id \in npmPort.runtime : \A n \in N!InstalledAs(id) : ~N!FailsWithout(n)}
    BY <1>1, OptionalEverywhere
  <1>4. npmPort.runtime \cap npmPort.dev = {} /\ self \notin npmPort.dev
    BY <1>1
  <1> QED  BY <1>2, <1>3, <1>4 DEF N!ReadsWhatNpmInstalls

\* Whatever package.json declares, in whichever of its overlapping sections, the
\* list is what an install of the package brings (readTs in tools/port-deps.cjs).
THEOREM ListsWhatNpmInstalls == N!Spec => []N!ReadsWhatNpmInstalls
  <1>1. N!Init => Folded  BY DEF N!Init, Folded
  <1>2. Folded /\ [N!readTs]_(N!vars) => Folded'
    <2> SUFFICES ASSUME Folded, [N!readTs]_(N!vars) PROVE Folded'
      OBVIOUS
    <2>1. CASE UNCHANGED N!vars
      BY <2>1 DEF N!vars, Folded, N!declarations, N!optional, N!Runtime
    <2>2. CASE N!readTs
      <3>1. UNCHANGED pkg /\ N!declarations' = N!declarations
        BY <2>2 DEF N!readTs, N!declarations, N!optional, N!Runtime
      <3>2. npmStatus' = "port" =>
              npmPort' = N!fold(IdOf(pkg.name), N!declarations, {pkg.dev[n] : n \in DOMAIN pkg.dev})
        BY <2>2 DEF N!readTs
      <3> QED  BY <3>1, <3>2 DEF Folded
    <2> QED  BY <2>1, <2>2
  <1>3. Folded => N!ReadsWhatNpmInstalls  BY FoldedIsInstalled
  <1> QED  BY <1>1, <1>2, <1>3, PTL DEF N!Spec
================================================================================
