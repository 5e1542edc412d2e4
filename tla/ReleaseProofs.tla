----------------------------- MODULE ReleaseProofs -----------------------------
(***************************************************************************)
(* Proofs about Release, for any runs, any histories of main and any       *)
(* bounds on versions and failures.                                        *)
(***************************************************************************)
EXTENDS Release, TLAPS

Kinds == {"none", "dispatch", "push", "repair"}
Places == {"none", "decide", "npm", "publish", "tag", "hand over", "done", "failed", "nothing left", "by hand",
           "view", "create", "artifacts", "manifest", "confirm"}
Run == [kind : Kinds, go : BOOLEAN, at : Nat, v : Nat, tag : Tags, missing : SUBSET {"ts", "go"}, anchor : Nat,
        job : [Jobs -> Places]]

\* The types of what is shared; and crates.io trusts nobody with a crate it does
\* not have, nor has a version of it.
TypedShared ==
  /\ history \in Histories /\ main \in 1 .. Len(history.commits) /\ failures \in Nat
  /\ npm \in [Versions -> Nat] /\ ts \in [Versions -> Nat] /\ go \in [Versions -> Nat]
  /\ crate \in [Versions -> Nat] /\ listed \in BOOLEAN /\ trusted \subseteq Workflows
  /\ ~listed => trusted = {} /\ \A v \in Versions : crate[v] = 0
  /\ release \in [Tags -> [Versions -> {"none", "draft", "attached", "public", "bare"}]]

Typed == TypedShared /\ run \in [Runs -> Run]

\* A run that was begun is of a version, from a commit.
Begun == \A r \in Runs : run[r] = NoRun \/ (run[r].v \in Versions /\ run[r].at > 0)

\* A Go tag stands beside a ts tag that names the same commit, and so does what
\* crates.io serves; a Release is of a tag that is there.
AgreeAt(v) ==
  /\ go[v] # 0 => ts[v] = go[v] /\ npm[v] # 0
  /\ crate[v] # 0 => ts[v] = crate[v]
  /\ \A T \in Tags : release[T][v] # "none" => Tag(T, v) # 0 /\ release[T][v] # "bare"

Agree == \A v \in Versions : AgreeAt(v)

\* The C library and the crate are built from a tag that is there.
Standing == \A r \in Runs : run[r].job["clib"] # "none" \/ run[r].job["crates"] # "none" => Tagged(r) # 0

\* A dispatch that has decided has an anchor, and unless it is to push the ts
\* tag itself, that is the commit the ts tag names.
Decided ==
  \A r \in Runs : run[r].kind = "dispatch" /\ run[r].job["npm"] \in {"npm", "publish", "tag"} =>
    run[r].anchor # 0 /\ ("ts" \in run[r].missing \/ ts[run[r].v] = run[r].anchor)

\* Only a dispatch gets to its tags, and not before npm has the version.
Published == \A r \in Runs : run[r].job["npm"] = "tag" => run[r].kind = "dispatch" /\ npm[run[r].v] # 0

\* What a job that builds, or is about to publish, knows of its Release: it is
\* there, and its manifest was seen.
Seen(place, is) ==
  /\ place \in {"artifacts", "manifest"} => is # "none"
  /\ place = "publish" => is \in {"attached", "public"}

Manifest == \A r \in Runs : Seen(run[r].job["clib"], Release(r))

IInv == Typed /\ Begun /\ Agree /\ Standing /\ Decided /\ Published /\ Manifest

\* What a step may do to what the runs share: nothing that is out is taken
\* back, so that what a run has seen of it stays so.
Onward ==
  /\ TypedShared' /\ Agree'
  /\ \A v \in Versions :
       /\ ts[v] # 0 => ts'[v] = ts[v]
       /\ go[v] # 0 => go'[v] # 0
       /\ npm[v] # 0 => npm'[v] # 0
       /\ \A T \in Tags :
            /\ release[T][v] # "none" => release'[T][v] # "none"
            /\ release[T][v] \in {"attached", "public"} => release'[T][v] \in {"attached", "public"}

\* What has to be so for a job to get to a place.
Fits(r, job, place) ==
  /\ job = "npm" /\ place \in {"npm", "publish", "tag"} /\ run[r].kind = "dispatch" =>
       run[r].anchor # 0 /\ ("ts" \in run[r].missing \/ ts'[run[r].v] = run[r].anchor)
  /\ job = "npm" /\ place = "tag" => run[r].kind = "dispatch" /\ npm'[run[r].v] # 0
  /\ job = "clib" => Seen(place, release'[run[r].tag][run[r].v])

-----------------------------------------------------------------------------
(* What the helpers do to a run. *)

LEMMA NoRunIsRun == NoRun \in Run
  <1>1. [job \in Jobs |-> "none"] \in [Jobs -> Places]
    BY DEF Places
  <1> QED  BY <1>1 DEF NoRun, Run, Kinds, Tags

LEMMA NoRunIsNowhere == \A job \in Jobs : NoRun.job[job] = "none"
  BY DEF NoRun

\* A job that goes on changes nothing else of its run, and no other run.
LEMMA GotoMoves ==
  ASSUME Typed, NEW r \in Runs, NEW job \in Jobs, NEW place \in Places, Goto(r, job, place)
  PROVE  /\ run' \in [Runs -> Run]
         /\ \A q \in Runs \ {r} : run'[q] = run[q]
         /\ run'[r] = [run[r] EXCEPT !.job[job] = place]
  BY DEF Typed, Goto, Run

LEMMA GotoFields ==
  ASSUME Typed, NEW r \in Runs, NEW job \in Jobs, NEW place \in Places, Goto(r, job, place)
  PROVE  /\ run'[r].kind = run[r].kind /\ run'[r].v = run[r].v /\ run'[r].at = run[r].at /\ run'[r].tag = run[r].tag
         /\ run'[r].missing = run[r].missing /\ run'[r].anchor = run[r].anchor
         /\ \A j \in Jobs : run'[r].job[j] = IF j = job THEN place ELSE run[r].job[j]
  <1>1. run'[r] = [run[r] EXCEPT !.job[job] = place]  BY GotoMoves
  <1>2. run[r] \in Run  BY DEF Typed
  <1> QED  BY <1>1, <1>2 DEF Run

LEMMA TagStays ==
  ASSUME Onward, NEW v \in Versions, NEW T, Tag(T, v) # 0
  PROVE  (IF T = "ts" THEN ts'[v] ELSE go'[v]) # 0
  BY DEF Onward, Tag

LEMMA SeenStays ==
  ASSUME Onward, NEW v \in Versions, NEW T \in Tags, NEW place, Seen(place, release[T][v])
  PROVE  Seen(place, release'[T][v])
  BY DEF Onward, Seen

\* What a step can do to the runs: one goes on, one begins, or none changes.
LEMMA GotoKeeps ==
  ASSUME IInv, Onward, NEW r \in Runs, NEW job \in Jobs, NEW place \in Places,
         run[r].job[job] # "none", Goto(r, job, place), Fits(r, job, place)
  PROVE  IInv'
  <1> USE GotoMoves, GotoFields DEF IInv
  <1>0. run[r] # NoRun  BY NoRunIsNowhere
  <1>1. Typed'  BY DEF Typed, Onward
  <1>2. run[r].v \in Versions /\ run[r].at > 0  BY <1>0 DEF Begun
  <1>3. Begun'
    <2> SUFFICES ASSUME NEW q \in Runs PROVE run'[q] = NoRun \/ (run'[q].v \in Versions /\ run'[q].at > 0)
      BY DEF Begun
    <2>1. CASE q = r
      <3>1. run'[q].v = run[r].v /\ run'[q].at = run[r].at  BY <2>1
      <3>2. run'[q].v \in Versions /\ run'[q].at > 0  BY <1>2, <3>1
      <3> QED  BY <3>2
    <2>2. CASE q # r
      <3>1. run'[q] = run[q]  BY <2>2
      <3>2. run[q] = NoRun \/ (run[q].v \in Versions /\ run[q].at > 0)  BY DEF Begun
      <3> QED  BY <3>1, <3>2
    <2> QED  BY <2>1, <2>2
  <1>4. \A q \in Runs : run[q] # NoRun => run[q].v \in Versions  BY DEF Begun
  <1>5. \A q \in Runs : (\E j \in Jobs : run[q].job[j] # "none") => run[q].v \in Versions
    BY <1>4, NoRunIsNowhere
  <1>6. {"npm", "clib", "crates"} \subseteq Jobs  BY DEF Jobs
  <1>7. Decided'
    <2> SUFFICES ASSUME NEW q \in Runs, run'[q].kind = "dispatch", run'[q].job["npm"] \in {"npm", "publish", "tag"}
                 PROVE  run'[q].anchor # 0 /\ ("ts" \in run'[q].missing \/ ts'[run'[q].v] = run'[q].anchor)
      BY DEF Decided
    <2>1. CASE q = r /\ job = "npm"  BY <2>1, <1>6 DEF Fits
    <2>2. CASE ~(q = r /\ job = "npm")
      <3>1. run'[q].job["npm"] = run[q].job["npm"] /\ run'[q].kind = run[q].kind /\ run'[q].v = run[q].v
            /\ run'[q].missing = run[q].missing /\ run'[q].anchor = run[q].anchor
        <4>1. CASE q = r  BY <4>1, <2>2, <1>6
        <4>2. CASE q # r  BY <4>2
        <4> QED  BY <4>1, <4>2
      <3>2. run[q].anchor # 0 /\ ("ts" \in run[q].missing \/ ts[run[q].v] = run[q].anchor)
        BY <3>1 DEF Decided
      <3>3. run[q].v \in Versions  BY <3>1, <1>5, <1>6
      <3> QED  BY <3>1, <3>2, <3>3 DEF Onward
    <2> QED  BY <2>1, <2>2
  <1>8. Published'
    <2> SUFFICES ASSUME NEW q \in Runs, run'[q].job["npm"] = "tag"
                 PROVE  run'[q].kind = "dispatch" /\ npm'[run'[q].v] # 0
      BY DEF Published
    <2>1. CASE q = r /\ job = "npm"  BY <2>1, <1>6 DEF Fits
    <2>2. CASE ~(q = r /\ job = "npm")
      <3>1. run'[q].job["npm"] = run[q].job["npm"] /\ run'[q].kind = run[q].kind /\ run'[q].v = run[q].v
        <4>1. CASE q = r  BY <4>1, <2>2, <1>6
        <4>2. CASE q # r  BY <4>2
        <4> QED  BY <4>1, <4>2
      <3>2. run[q].v \in Versions  BY <3>1, <1>5, <1>6
      <3> QED  BY <3>1, <3>2 DEF Onward, Published
    <2> QED  BY <2>1, <2>2
  <1>9. Manifest'
    <2> SUFFICES ASSUME NEW q \in Runs, run'[q].job["clib"] \in {"artifacts", "manifest", "publish"}
                 PROVE  Seen(run'[q].job["clib"], release'[run'[q].tag][run'[q].v])
      BY DEF Manifest, Release, Seen
    <2>1. CASE q = r /\ job = "clib"  BY <2>1, <1>6 DEF Fits
    <2>2. CASE ~(q = r /\ job = "clib")
      <3>1. run'[q].job["clib"] = run[q].job["clib"] /\ run'[q].v = run[q].v /\ run'[q].tag = run[q].tag
        <4>1. CASE q = r  BY <4>1, <2>2, <1>6
        <4>2. CASE q # r  BY <4>2
        <4> QED  BY <4>1, <4>2
      <3>2. run[q].v \in Versions /\ run[q].tag \in Tags  BY <3>1, <1>5, <1>6 DEF Typed, Run
      <3> QED  BY <3>1, <3>2, SeenStays DEF Manifest, Release
    <2> QED  BY <2>1, <2>2
  <1>10. Standing'
    <2> SUFFICES ASSUME NEW q \in Runs, NEW j \in {"clib", "crates"}, run'[q].job[j] # "none"
                 PROVE  Tagged(q)' # 0
      BY DEF Standing
    <2>1. run'[q].v = run[q].v /\ run'[q].tag = run[q].tag /\ run[q].job[j] # "none"
      <3>1. CASE q = r  BY <3>1, <1>6
      <3>2. CASE q # r  BY <3>2
      <3> QED  BY <3>1, <3>2
    <2>2. run[q].v \in Versions  BY <2>1, <1>5, <1>6
    <2>3. Tag(run[q].tag, run[q].v) # 0  BY <2>1 DEF Standing, Tagged
    <2>4. (IF run[q].tag = "ts" THEN ts'[run[q].v] ELSE go'[run[q].v]) # 0  BY <2>2, <2>3, TagStays
    <2> QED  BY <2>1, <2>4 DEF Tagged, Tag
  <1> QED  BY <1>1, <1>3, <1>7, <1>8, <1>9, <1>10 DEF Onward

LEMMA BeginKeeps ==
  ASSUME IInv, Onward, NEW r \in Runs, NEW kind \in Kinds, NEW withGo \in BOOLEAN, NEW v \in Versions, NEW T \in Tags,
         NEW job \in Jobs, NEW place \in Places \ {"artifacts", "manifest", "publish", "tag"}, kind = "dispatch" => place = "decide",
         job # "npm" => Tag(T, v) # 0, Begin(r, kind, withGo, v, T, job, place)
  PROVE  IInv'
  <1> DEFINE new == [NoRun EXCEPT !.kind = kind, !.go = withGo, !.at = main, !.v = v, !.tag = T, !.job[job] = place]
  <1>1. main \in Nat /\ main > 0  BY DEF IInv, Typed, TypedShared
  <1>2. new \in Run
    <2>1. v \in Nat  BY Bounds DEF Versions
    <2>2. [NoRun.job EXCEPT ![job] = place] \in [Jobs -> Places]  BY DEF NoRun, Places
    <2> QED  BY <1>1, <2>1, <2>2, NoRunIsRun DEF Run
  <1>3. /\ new.kind = kind /\ new.v = v /\ new.at = main /\ new.tag = T
        /\ \A j \in Jobs : new.job[j] = IF j = job THEN place ELSE "none"
    BY NoRunIsRun, NoRunIsNowhere DEF Run, NoRun
  <1>4. run' = [run EXCEPT ![r] = new]  BY DEF Begin
  <1> HIDE DEF new
  <1>5. run' \in [Runs -> Run] /\ run'[r] = new /\ \A q \in Runs \ {r} : run'[q] = run[q]
    BY <1>2, <1>4 DEF IInv, Typed
  <1>6. Typed'  BY <1>5 DEF Typed, Onward
  <1>7. \A q \in Runs : run[q] = NoRun \/ (run[q].v \in Versions /\ run[q].at > 0)  BY DEF IInv, Begun
  <1>8. {"npm", "clib", "crates"} \subseteq Jobs  BY DEF Jobs
  <1>9. \A q \in Runs : (\E j \in Jobs : run[q].job[j] # "none") => run[q].v \in Versions
    BY <1>7, NoRunIsNowhere
  <1>10. Begun'
    <2> SUFFICES ASSUME NEW q \in Runs PROVE run'[q] = NoRun \/ (run'[q].v \in Versions /\ run'[q].at > 0)
      BY DEF Begun
    <2>1. CASE q = r  BY <2>1, <1>1, <1>3, <1>5
    <2>2. CASE q # r  BY <2>2, <1>5, <1>7
    <2> QED  BY <2>1, <2>2
  <1>11. Decided'
    <2> SUFFICES ASSUME NEW q \in Runs, run'[q].kind = "dispatch", run'[q].job["npm"] \in {"npm", "publish", "tag"}
                 PROVE  run'[q].anchor # 0 /\ ("ts" \in run'[q].missing \/ ts'[run'[q].v] = run'[q].anchor)
      BY DEF Decided
    <2>1. q # r  BY <1>3, <1>5, <1>8
    <2>2. run'[q] = run[q]  BY <2>1, <1>5
    <2>3. run[q].anchor # 0 /\ ("ts" \in run[q].missing \/ ts[run[q].v] = run[q].anchor)
      BY <2>2 DEF IInv, Decided
    <2>4. run[q].v \in Versions  BY <2>2, <1>8, <1>9
    <2> QED  BY <2>2, <2>3, <2>4 DEF Onward
  <1>12. Published'
    <2> SUFFICES ASSUME NEW q \in Runs, run'[q].job["npm"] = "tag"
                 PROVE  run'[q].kind = "dispatch" /\ npm'[run'[q].v] # 0
      BY DEF Published
    <2>1. q # r  BY <1>3, <1>5, <1>8
    <2>2. run'[q] = run[q]  BY <2>1, <1>5
    <2>3. run[q].v \in Versions  BY <2>2, <1>8, <1>9
    <2> QED  BY <2>2, <2>3 DEF IInv, Published, Onward
  <1>13. Manifest'
    <2> SUFFICES ASSUME NEW q \in Runs, run'[q].job["clib"] \in {"artifacts", "manifest", "publish"}
                 PROVE  Seen(run'[q].job["clib"], release'[run'[q].tag][run'[q].v])
      BY DEF Manifest, Release, Seen
    <2>1. q # r  BY <1>3, <1>5, <1>8
    <2>2. run'[q] = run[q]  BY <2>1, <1>5
    <2>3. run[q].v \in Versions /\ run[q].tag \in Tags  BY <2>2, <1>8, <1>9 DEF IInv, Typed, Run
    <2> QED  BY <2>2, <2>3, SeenStays DEF IInv, Manifest, Release
  <1>14. Standing'
    <2> SUFFICES ASSUME NEW q \in Runs, NEW j \in {"clib", "crates"}, run'[q].job[j] # "none"
                 PROVE  Tagged(q)' # 0
      BY DEF Standing
    <2>1. CASE q = r
      <3>1. run'[q].v = v /\ run'[q].tag = T /\ Tag(T, v) # 0  BY <2>1, <1>3, <1>5, <1>8
      <3> QED  BY <3>1, TagStays DEF Tagged, Tag
    <2>2. CASE q # r
      <3>1. run'[q] = run[q]  BY <2>2, <1>5
      <3>2. run[q].v \in Versions /\ Tagged(q) # 0  BY <3>1, <1>8, <1>9 DEF IInv, Standing
      <3> QED  BY <3>1, <3>2, TagStays DEF Tagged, Tag
    <2> QED  BY <2>1, <2>2
  <1> QED  BY <1>6, <1>10, <1>11, <1>12, <1>13, <1>14 DEF IInv, Onward

LEMMA RestKeeps == ASSUME IInv, Onward, UNCHANGED run PROVE IInv'
  <1>1. \A q \in Runs : run[q] = NoRun \/ (run[q].v \in Versions /\ run[q].at > 0)  BY DEF IInv, Begun
  <1>2. \A q \in Runs : (\E j \in Jobs : run[q].job[j] # "none") => run[q].v \in Versions
    BY <1>1, NoRunIsNowhere
  <1>3. {"npm", "clib", "crates"} \subseteq Jobs  BY DEF Jobs
  <1>4. Typed' /\ Begun' /\ Agree'  BY DEF IInv, Typed, Begun, Onward
  <1>5. Decided'  BY <1>2, <1>3 DEF IInv, Decided, Onward
  <1>6. Published'  BY <1>2, <1>3 DEF IInv, Published, Onward
  <1>7. Manifest'
    <2> SUFFICES ASSUME NEW q \in Runs, run[q].job["clib"] \in {"artifacts", "manifest", "publish"}
                 PROVE  Seen(run[q].job["clib"], release'[run[q].tag][run[q].v])
      BY DEF Manifest, Release, Seen
    <2>1. run[q].v \in Versions /\ run[q].tag \in Tags  BY <1>2, <1>3 DEF IInv, Typed, Run
    <2> QED  BY <2>1, SeenStays DEF IInv, Manifest, Release
  <1>8. Standing'
    <2> SUFFICES ASSUME NEW q \in Runs, NEW j \in {"clib", "crates"}, run[q].job[j] # "none"
                 PROVE  Tagged(q)' # 0
      BY DEF Standing
    <2>1. run[q].v \in Versions /\ Tagged(q) # 0  BY <1>2, <1>3 DEF IInv, Standing
    <2> QED  BY <2>1, TagStays DEF Tagged, Tag
  <1> QED  BY <1>4, <1>5, <1>6, <1>7, <1>8 DEF IInv

-----------------------------------------------------------------------------
(* A step that leaves alone what the runs share. *)

LEMMA SameIsOnward == ASSUME IInv, UNCHANGED <<commits, shared>>, failures' \in Nat PROVE Onward
  BY DEF IInv, Typed, TypedShared, Agree, AgreeAt, Tag, Onward, shared, registry, commits

LEMMA ElsewhereFits == \A r, job : \A place \in Places \ {"npm", "artifacts", "manifest", "publish", "tag"} : Fits(r, job, place)
  BY DEF Fits, Seen

\* A run that is somewhere was begun.
LEMMA SomewhereBegun ==
  ASSUME IInv, NEW r \in Runs, NEW job \in Jobs, run[r].job[job] # "none"
  PROVE  run[r] # NoRun /\ run[r] \in Run /\ run[r].v \in Versions /\ run[r].at > 0
  BY NoRunIsNowhere DEF IInv, Typed, Begun

LEMMA InitIInv == Init => IInv
  <1> SUFFICES ASSUME Init PROVE IInv
    OBVIOUS
  <1>1. Len(history.commits) \in Nat /\ Len(history.commits) > 0
    <2>1. history \in Histories  BY DEF Init
    <2>2. history.commits \in Seq([version : Versions, manifest : Manifests]) /\ history.commits # <<>>
      BY <2>1, HistoriesAssumption
    <2> QED  BY <2>2
  <1>3. Typed  BY <1>1, NoRunIsRun DEF Init, Typed, TypedShared
  <1>4. Begun /\ Agree  BY DEF Init, Begun, Agree, AgreeAt
  <1>5. \A r \in Runs : run[r].job["npm"] = "none" /\ run[r].job["clib"] = "none" /\ run[r].job["crates"] = "none"
    BY NoRunIsNowhere DEF Init, Jobs
  <1> QED  BY <1>3, <1>4, <1>5 DEF IInv, Decided, Published, Manifest, Seen, Standing

-----------------------------------------------------------------------------
(* One lemma for each action. *)

LEMMA MergeKeeps == ASSUME IInv, Merge PROVE IInv'
  <1>1. UNCHANGED <<history, npm, ts, go, crate, release, listed, trusted, failures>>  BY DEF Merge, shared, registry
  <1>2. TypedShared'  BY <1>1 DEF Merge, IInv, Typed, TypedShared
  <1>3. Agree'  BY <1>1 DEF IInv, Agree, AgreeAt, Tag
  <1>4. Onward  BY <1>1, <1>2, <1>3 DEF Onward
  <1> QED  BY <1>4, RestKeeps DEF Merge

\* The first publish by hand is from the ts tag, or of no version here.
LEMMA FirstPublishKeeps == ASSUME IInv, FirstPublish PROVE IInv'
  <1>1. UNCHANGED <<commits, npm, ts, go, release, trusted, run, failures>> /\ listed' = TRUE
    BY DEF FirstPublish
  <1>2. crate' \in [Versions -> Nat] /\ \A v \in Versions : crate'[v] \in {crate[v], ts[v]}
    <2>1. CASE crate' = crate  BY <2>1 DEF IInv, Typed, TypedShared
    <2>2. ASSUME NEW v \in Versions, crate' = [crate EXCEPT ![v] = ts[v]]
          PROVE  crate' \in [Versions -> Nat] /\ \A u \in Versions : crate'[u] \in {crate[u], ts[u]}
      BY <2>2 DEF IInv, Typed, TypedShared
    <2> QED  BY <2>1, <2>2 DEF FirstPublish
  <1>3. TypedShared'  BY <1>1, <1>2 DEF IInv, Typed, TypedShared, commits
  <1>4. Agree'  BY <1>1, <1>2 DEF IInv, Agree, AgreeAt, Tag
  <1>5. Onward  BY <1>1, <1>3, <1>4 DEF Onward
  <1> QED  BY <1>1, <1>5, RestKeeps

LEMMA TrustKeeps == ASSUME IInv, Trust PROVE IInv'
  <1>1. UNCHANGED <<commits, npm, ts, go, crate, release, listed, run, failures>> /\ listed /\ trusted' \subseteq Workflows
    BY DEF Trust, IInv, Typed, TypedShared
  <1>2. TypedShared'  BY <1>1 DEF IInv, Typed, TypedShared, commits
  <1>3. Agree'  BY <1>1 DEF IInv, Agree, AgreeAt, Tag
  <1>4. Onward  BY <1>1, <1>2, <1>3 DEF Onward
  <1> QED  BY <1>1, <1>4, RestKeeps

LEMMA CurrentVersion == ASSUME IInv PROVE version(main) \in Versions /\ main \in Nat /\ main > 0
  <1>1. history \in Histories /\ main \in 1 .. Len(history.commits)  BY DEF IInv, Typed, TypedShared
  <1>2. history.commits \in Seq([version : Versions, manifest : Manifests])  BY <1>1, HistoriesAssumption
  <1>3. Len(history.commits) \in Nat /\ main \in Nat /\ main > 0  BY <1>1, <1>2
  <1>4. \A S : \A c \in Seq(S) : \A n \in 1 .. Len(c) : c[n] \in S
    OBVIOUS
  <1>5. history.commits[main] \in [version : Versions, manifest : Manifests]  BY <1>1, <1>2, <1>4
  <1> QED  BY <1>3, <1>5 DEF version

LEMMA DispatchKeeps == ASSUME IInv, NEW r \in Runs, Dispatch(r) PROVE IInv'
  <1>1. PICK withGo \in BOOLEAN : Begin(r, "dispatch", withGo, version(main), "go", "npm", "decide")
    BY DEF Dispatch
  <1>2. Onward  BY SameIsOnward DEF Dispatch, IInv, Typed, TypedShared
  <1> QED  BY <1>1, <1>2, BeginKeeps, CurrentVersion DEF Kinds, Places, Jobs, Tags

LEMMA PushTagKeeps == ASSUME IInv, NEW r \in Runs, PushTag(r) PROVE IInv'
  <1> DEFINE v == version(main)
  <1>1. v \in Versions /\ main \in Nat /\ main > 0  BY CurrentVersion
  <1>2. ts[v] = 0 /\ ts' = [ts EXCEPT ![v] = main] /\ UNCHANGED <<commits, npm, go, crate, release, listed, trusted, failures>>
    BY DEF PushTag, registry
  <1>3. TypedShared'  BY <1>1, <1>2 DEF IInv, Typed, TypedShared, commits
  <1>4. \A u \in Versions : ts'[u] = IF u = v THEN main ELSE ts[u]  BY <1>1, <1>2 DEF IInv, Typed, TypedShared
  <1>5. go[v] = 0 /\ crate[v] = 0  BY <1>1, <1>2 DEF IInv, Agree, AgreeAt, Typed, TypedShared
  <1> HIDE DEF v
  <1>6. Agree'
    <2> SUFFICES ASSUME NEW u \in Versions PROVE AgreeAt(u)'
      BY DEF Agree
    <2>1. AgreeAt(u)  BY DEF IInv, Agree
    <2>2. CASE u = v  BY <1>1, <1>2, <1>4, <1>5, <2>1, <2>2 DEF AgreeAt, Tag
    <2>3. CASE u # v  BY <1>2, <1>4, <2>1, <2>3 DEF AgreeAt, Tag
    <2> QED  BY <2>2, <2>3
  <1>7. Onward  BY <1>2, <1>3, <1>4, <1>6 DEF Onward
  <1>8. Begin(r, "push", FALSE, v, "go", "npm", "npm")  BY DEF PushTag, v
  <1> QED  BY <1>1, <1>7, <1>8, BeginKeeps DEF Kinds, Places, Jobs, Tags

LEMMA RepairClibKeeps == ASSUME IInv, NEW r \in Runs, RepairClib(r) PROVE IInv'
  <1>1. PICK v \in Versions, T \in Tags : Tag(T, v) # 0 /\ Begin(r, "repair", FALSE, v, T, "clib", "view")
    BY DEF RepairClib
  <1>2. Onward  BY SameIsOnward DEF RepairClib, IInv, Typed, TypedShared
  <1> QED  BY <1>1, <1>2, BeginKeeps DEF Kinds, Places, Jobs

LEMMA RepairCrateKeeps == ASSUME IInv, NEW r \in Runs, RepairCrate(r) PROVE IInv'
  <1>1. PICK v \in Versions, T \in Tags : Tag(T, v) # 0 /\ Begin(r, "repair", FALSE, v, T, "crates", "decide")
    BY DEF RepairCrate
  <1>2. Onward  BY SameIsOnward DEF RepairCrate, IInv, Typed, TypedShared
  <1> QED  BY <1>1, <1>2, BeginKeeps DEF Kinds, Places, Jobs

LEMMA RerunKeeps == ASSUME IInv, NEW r \in Runs, NEW job \in Jobs, Rerun(r, job) PROVE IInv'
  <1>1. First(r, job) \in Places  BY DEF First, Jobs, Places
  <1>2. Onward  BY SameIsOnward DEF Rerun, IInv, Typed, TypedShared
  <1>3. run[r].job[job] # "none"  BY DEF Rerun
  <1>4. Fits(r, job, First(r, job))  BY DEF First, Jobs, Fits, Seen
  <1> QED  BY <1>1, <1>2, <1>3, <1>4, GotoKeeps DEF Rerun

LEMMA FailKeeps == ASSUME IInv, NEW r \in Runs, NEW job \in Jobs, Fail(r, job) PROVE IInv'
  <1>1. Onward
    <2>1. failures' = failures + 1 /\ UNCHANGED <<commits, shared>>  BY DEF Fail
    <2>2. failures \in Nat  BY DEF IInv, Typed, TypedShared
    <2> QED  BY <2>1, <2>2, SameIsOnward
  <1>2. run[r].job[job] # "none"  BY DEF Fail
  <1> QED  BY <1>1, <1>2, GotoKeeps, ElsewhereFits DEF Fail, Places

LEMMA ViewNpmKeeps == ASSUME IInv, NEW r \in Runs, ViewNpm(r) PROVE IInv'
  <1>1. Onward  BY SameIsOnward DEF ViewNpm, IInv, Typed, TypedShared
  <1>2. run[r].job["npm"] = "npm" /\ run[r] # NoRun
    BY SomewhereBegun DEF ViewNpm, At, Jobs
  <1> DEFINE place == IF npm[run[r].v] # 0 THEN AfterNpm(r) ELSE "publish"
  <1>3. place \in Places  BY DEF AfterNpm, Places
  <1>4. Fits(r, "npm", place)
    BY <1>2 DEF Fits, AfterNpm, ViewNpm, IInv, Decided, shared
  <1>5. Goto(r, "npm", place)  BY DEF ViewNpm
  <1> QED  BY <1>1, <1>2, <1>3, <1>4, <1>5, GotoKeeps DEF Jobs

LEMMA PublishNpmKeeps == ASSUME IInv, NEW r \in Runs, PublishNpm(r) PROVE IInv'
  <1>1. run[r].job["npm"] = "publish" /\ run[r] # NoRun /\ run[r].v \in Versions /\ run[r].at > 0 /\ run[r].at \in Nat
    BY SomewhereBegun DEF PublishNpm, At, Jobs, Run
  <1>2. CASE npm[run[r].v] = 0
    <2>1. npm' = [npm EXCEPT ![run[r].v] = run[r].at] /\ Goto(r, "npm", AfterNpm(r))
      BY <1>2 DEF PublishNpm
    <2>2. TypedShared'  BY <1>1, <2>1 DEF PublishNpm, IInv, Typed, TypedShared, commits, registry
    <2>3. \A v \in Versions : npm[v] # 0 => npm'[v] # 0
      BY <1>1, <2>1 DEF IInv, Typed, TypedShared
    <2>4. Onward
      <3>1. Agree'  BY <2>3 DEF PublishNpm, IInv, Agree, AgreeAt, Tag
      <3> QED  BY <2>2, <2>3, <3>1 DEF PublishNpm, Onward
    <2>5. npm'[run[r].v] # 0  BY <1>1, <2>1 DEF IInv, Typed, TypedShared
    <2>6. AfterNpm(r) \in Places /\ Fits(r, "npm", AfterNpm(r))
      BY <1>1, <2>5 DEF AfterNpm, Fits, Places, PublishNpm, IInv, Decided
    <2> QED  BY <1>1, <2>1, <2>4, <2>6, GotoKeeps DEF Jobs
  <1>3. CASE npm[run[r].v] # 0
    <2>1. Onward  BY <1>3, SameIsOnward DEF PublishNpm, IInv, Typed, TypedShared, shared
    <2> QED  BY <1>1, <1>3, <2>1, GotoKeeps, ElsewhereFits DEF PublishNpm, Jobs, Places
  <1> QED  BY <1>2, <1>3

LEMMA DecideTagsKeeps == ASSUME IInv, NEW r \in Runs, DecideTags(r) PROVE IInv'
  <1>1. run[r].job["npm"] = "decide" /\ run[r] # NoRun /\ run[r] \in Run /\ run[r].v \in Versions /\ run[r].at > 0
    BY SomewhereBegun DEF DecideTags, At, Jobs
  <1> DEFINE missing == {T \in Asked(r) : Tag(T, run[r].v) = 0}
  <1>2. Onward  BY SameIsOnward DEF DecideTags, IInv, Typed, TypedShared
  <1>3. CASE Goto(r, "npm", "nothing left") \/ Goto(r, "npm", "by hand")
    BY <1>1, <1>2, <1>3, GotoKeeps, ElsewhereFits DEF Jobs, Places
  <1>4. CASE run' = [run EXCEPT ![r].job["npm"] = "npm", ![r].missing = missing, ![r].anchor = Anchor(r)]
    <2>1. Anchor(r) \in Nat /\ Anchor(r) # 0
      BY <1>1 DEF Anchor, IInv, Typed, TypedShared, Run
    <2>2. missing \subseteq {"ts", "go"} /\ ("ts" \in missing \/ ts[run[r].v] = Anchor(r))
      BY DEF Asked, Tag, Anchor
    <2> HIDE DEF missing
    <2>3. run' \in [Runs -> Run] /\ \A q \in Runs \ {r} : run'[q] = run[q]
      BY <1>1, <1>4, <2>1, <2>2 DEF IInv, Typed, Run, Places
    <2>4. /\ run'[r].kind = run[r].kind /\ run'[r].v = run[r].v /\ run'[r].at = run[r].at
          /\ run'[r].missing = missing /\ run'[r].anchor = Anchor(r)
          /\ run'[r].tag = run[r].tag
          /\ \A j \in {"clib", "crates"} : run'[r].job[j] = run[r].job[j]
          /\ run'[r].job["npm"] = "npm"
      BY <1>1, <1>4 DEF IInv, Typed, Run, Jobs
    <2>5. UNCHANGED <<commits, npm, ts, go, crate, release, registry, failures>>  BY DEF DecideTags, shared, registry
    <2>6. Typed' /\ Agree'  BY <1>2, <2>3 DEF Typed, Onward
    <2>7. Begun'
      <3> SUFFICES ASSUME NEW q \in Runs PROVE run'[q] = NoRun \/ (run'[q].v \in Versions /\ run'[q].at > 0)
        BY DEF Begun
      <3>1. CASE q = r  BY <3>1, <1>1, <2>4
      <3>2. CASE q # r
        <4>1. run'[q] = run[q]  BY <3>2, <2>3
        <4>2. run[q] = NoRun \/ (run[q].v \in Versions /\ run[q].at > 0)  BY DEF IInv, Begun
        <4> QED  BY <4>1, <4>2
      <3> QED  BY <3>1, <3>2
    <2>8. Decided'
      <3> SUFFICES ASSUME NEW q \in Runs, run'[q].kind = "dispatch", run'[q].job["npm"] \in {"npm", "publish", "tag"}
                   PROVE  run'[q].anchor # 0 /\ ("ts" \in run'[q].missing \/ ts'[run'[q].v] = run'[q].anchor)
        BY DEF Decided
      <3>1. CASE q = r  BY <3>1, <2>1, <2>2, <2>4, <2>5
      <3>2. CASE q # r  BY <3>2, <2>3, <2>5 DEF IInv, Decided
      <3> QED  BY <3>1, <3>2
    <2>9. Published'
      <3> SUFFICES ASSUME NEW q \in Runs, run'[q].job["npm"] = "tag"
                   PROVE  run'[q].kind = "dispatch" /\ npm'[run'[q].v] # 0
        BY DEF Published
      <3>1. q # r  BY <2>4
      <3> QED  BY <3>1, <2>3, <2>5 DEF IInv, Published
    <2>10. Manifest'
      <3> SUFFICES ASSUME NEW q \in Runs, run'[q].job["clib"] \in {"artifacts", "manifest", "publish"}
                   PROVE  Seen(run'[q].job["clib"], release'[run'[q].tag][run'[q].v])
        BY DEF Manifest, Release, Seen
      <3>1. CASE q = r  BY <3>1, <2>4, <2>5 DEF IInv, Manifest, Release, Seen
      <3>2. CASE q # r  BY <3>2, <2>3, <2>5 DEF IInv, Manifest, Release, Seen
      <3> QED  BY <3>1, <3>2
    <2>11. Standing'
      <3> SUFFICES ASSUME NEW q \in Runs, NEW j \in {"clib", "crates"}, run'[q].job[j] # "none"
                   PROVE  Tagged(q)' # 0
        BY DEF Standing
      <3>1. run'[q].v = run[q].v /\ run'[q].tag = run[q].tag /\ run[q].job[j] # "none"
        <4>1. CASE q = r  BY <4>1, <2>4
        <4>2. CASE q # r  BY <4>2, <2>3
        <4> QED  BY <4>1, <4>2
      <3> QED  BY <3>1, <2>5 DEF IInv, Standing, Tagged, Tag
    <2> QED  BY <2>6, <2>7, <2>8, <2>9, <2>10, <2>11 DEF IInv
  <1> QED  BY <1>3, <1>4 DEF DecideTags

LEMMA TagReleaseKeeps == ASSUME IInv, NEW r \in Runs, TagRelease(r) PROVE IInv'
  <1> DEFINE v == run[r].v
             a == run[r].anchor
  <1>1. /\ run[r].job["npm"] = "tag" /\ run[r] # NoRun /\ v \in Versions
        /\ run[r].missing \subseteq {"ts", "go"} /\ a \in Nat
    BY SomewhereBegun DEF TagRelease, At, Jobs, Run
  <1>2. npm[v] # 0 /\ run[r].kind = "dispatch"  BY <1>1 DEF IInv, Published
  <1>3. a # 0 /\ ("ts" \in run[r].missing \/ ts[v] = a)  BY <1>1, <1>2 DEF IInv, Decided
  <1>4. CASE \E T \in run[r].missing : Refuses(r, T)
    <2>1. Onward  BY <1>4, SameIsOnward DEF TagRelease, IInv, Typed, TypedShared, shared
    <2> QED  BY <1>1, <1>4, <2>1, GotoKeeps, ElsewhereFits DEF TagRelease, Jobs, Places
  <1>5. CASE ~\E T \in run[r].missing : Refuses(r, T)
    <2>1. /\ ts' = IF "ts" \in run[r].missing THEN [ts EXCEPT ![v] = a] ELSE ts
          /\ go' = IF "go" \in run[r].missing THEN [go EXCEPT ![v] = a] ELSE go
          /\ Goto(r, "npm", "hand over")
      BY <1>5 DEF TagRelease
    <2>2. UNCHANGED <<commits, npm, crate, release, listed, trusted, failures>>  BY DEF TagRelease, registry
    <2>3. /\ "ts" \in run[r].missing => ts[v] \in {0, a}
          /\ "go" \in run[r].missing => go[v] \in {0, a}
      BY <1>5 DEF Refuses, Tag
    <2>4. TypedShared'  BY <1>1, <2>1, <2>2 DEF IInv, Typed, TypedShared, commits
    <2>5. ts'[v] = a /\ go'[v] \in {go[v], a}
      BY <1>1, <1>3, <2>1 DEF IInv, Typed, TypedShared
    <2>6. \A u \in Versions \ {v} : ts'[u] = ts[u] /\ go'[u] = go[u]
      BY <1>1, <2>1 DEF IInv, Typed, TypedShared
    <2>7. ts[v] \in {0, a}  BY <1>3, <2>3
    <2>8. go[v] \in {0, a} /\ crate[v] \in {0, a}  BY <1>1, <2>7 DEF IInv, Agree, AgreeAt, Typed, TypedShared
    <2>9. Agree'
      <3> SUFFICES ASSUME NEW u \in Versions PROVE AgreeAt(u)'
        BY DEF Agree
      <3>1. AgreeAt(u)  BY DEF IInv, Agree
      <3>2. CASE u = v
        <4>1. ts'[u] = a /\ a # 0 /\ go'[u] \in {0, a} /\ (go[u] # 0 => go'[u] # 0)
          BY <1>3, <2>5, <2>8, <3>2
        <4>2. npm[u] # 0 /\ crate[u] \in {0, a}  BY <1>2, <2>8, <3>2
        <4>3. \A T \in Tags : Tag(T, u) # 0 => Tag(T, u)' # 0
          BY <4>1 DEF Tag
        <4> QED  BY <3>1, <2>2, <4>1, <4>2, <4>3 DEF AgreeAt
      <3>3. CASE u # v  BY <3>1, <3>3, <2>2, <2>6 DEF AgreeAt, Tag
      <3> QED  BY <3>2, <3>3
    <2>10. Onward  BY <1>1, <1>3, <2>2, <2>4, <2>5, <2>6, <2>7, <2>8, <2>9 DEF Onward
    <2> QED  BY <1>1, <2>1, <2>10, GotoKeeps, ElsewhereFits DEF Jobs, Places
  <1> QED  BY <1>4, <1>5

LEMMA HandOverKeeps == ASSUME IInv, NEW r \in Runs, HandOver(r) PROVE IInv'
  <1>1. run[r].job["npm"] = "hand over" /\ run[r] # NoRun /\ run[r] \in Run /\ run[r].v \in Versions /\ run[r].at > 0
    BY SomewhereBegun DEF HandOver, At, Jobs
  <1>2. Onward  BY SameIsOnward DEF HandOver, IInv, Typed, TypedShared
  <1>3. CASE Goto(r, "npm", "done")
    BY <1>1, <1>2, <1>3, GotoKeeps, ElsewhereFits DEF Jobs, Places
  <1> DEFINE begun == [job \in Jobs |-> IF job = "npm" THEN "done" ELSE IF job \in history.called THEN First(r, job) ELSE "none"]
  <1>4. CASE go[run[r].v] # 0 /\ run' = [run EXCEPT ![r].job = begun]
    <2>1. begun \in [Jobs -> Places] /\ begun["npm"] = "done" /\ begun["clib"] \in {"none", "view"}
      BY DEF First, Jobs, Places
    <2> HIDE DEF begun
    <2>2. run' \in [Runs -> Run] /\ \A q \in Runs \ {r} : run'[q] = run[q]
      BY <1>1, <1>4, <2>1 DEF IInv, Typed, Run
    <2>3. run'[r].v = run[r].v /\ run'[r].at = run[r].at /\ run'[r].tag = run[r].tag
          /\ run'[r].job["npm"] = "done" /\ run'[r].job["clib"] \in {"none", "view"}
      BY <1>1, <1>4, <2>1 DEF IInv, Typed, Run
    <2>4. UNCHANGED <<npm, ts, go, release>>  BY DEF HandOver, shared
    <2>5. Typed' /\ Agree'  BY <1>2, <2>2 DEF Typed, Onward
    <2>6. Begun'
      <3> SUFFICES ASSUME NEW q \in Runs PROVE run'[q] = NoRun \/ (run'[q].v \in Versions /\ run'[q].at > 0)
        BY DEF Begun
      <3>1. CASE q = r  BY <3>1, <1>1, <2>3
      <3>2. CASE q # r
        <4>1. run'[q] = run[q]  BY <3>2, <2>2
        <4>2. run[q] = NoRun \/ (run[q].v \in Versions /\ run[q].at > 0)  BY DEF IInv, Begun
        <4> QED  BY <4>1, <4>2
      <3> QED  BY <3>1, <3>2
    <2>7. Decided'
      <3> SUFFICES ASSUME NEW q \in Runs, run'[q].kind = "dispatch", run'[q].job["npm"] \in {"npm", "publish", "tag"}
                   PROVE  run'[q].anchor # 0 /\ ("ts" \in run'[q].missing \/ ts'[run'[q].v] = run'[q].anchor)
        BY DEF Decided
      <3>1. q # r  BY <2>3
      <3> QED  BY <3>1, <2>2, <2>4 DEF IInv, Decided
    <2>8. Published'
      <3> SUFFICES ASSUME NEW q \in Runs, run'[q].job["npm"] = "tag"
                   PROVE  run'[q].kind = "dispatch" /\ npm'[run'[q].v] # 0
        BY DEF Published
      <3>1. q # r  BY <2>3
      <3> QED  BY <3>1, <2>2, <2>4 DEF IInv, Published
    <2>9. Manifest'
      <3> SUFFICES ASSUME NEW q \in Runs, run'[q].job["clib"] \in {"artifacts", "manifest", "publish"}
                   PROVE  Seen(run'[q].job["clib"], release'[run'[q].tag][run'[q].v])
        BY DEF Manifest, Release, Seen
      <3>1. q # r  BY <2>3
      <3> QED  BY <3>1, <2>2, <2>4 DEF IInv, Manifest, Release, Seen
    <2>10. Standing'
      <3> SUFFICES ASSUME NEW q \in Runs, NEW j \in {"clib", "crates"}, run'[q].job[j] # "none"
                   PROVE  Tagged(q)' # 0
        BY DEF Standing
      <3>1. CASE q = r
        <4>1. ts[run[r].v] # 0 /\ go[run[r].v] # 0  BY <1>1, <1>4 DEF IInv, Agree, AgreeAt
        <4> QED  BY <3>1, <4>1, <2>3, <2>4 DEF Tagged, Tag
      <3>2. CASE q # r  BY <3>2, <2>2, <2>4 DEF IInv, Standing, Tagged, Tag
      <3> QED  BY <3>1, <3>2
    <2> QED  BY <2>5, <2>6, <2>7, <2>8, <2>9, <2>10 DEF IInv
  <1> QED  BY <1>3, <1>4 DEF HandOver

\* A step that only moves a Release on leaves the rest as it is.
LEMMA ReleaseIsOnward ==
  ASSUME IInv, NEW r \in Runs, Tagged(r) # 0, run[r].v \in Versions, run[r].tag \in Tags,
         NEW to \in {"draft", "attached", "public"}, SetRelease(r, to),
         Release(r) \in {"attached", "public"} => to \in {"attached", "public"},
         UNCHANGED <<commits, npm, ts, go, crate, registry, failures>>
  PROVE  Onward /\ release'[run[r].tag][run[r].v] = to
  <1> DEFINE v == run[r].v
             T == run[r].tag
  <1>1. release' = [release EXCEPT ![T] = [release[T] EXCEPT ![v] = to]]  BY DEF SetRelease
  <1>2. /\ release' \in [Tags -> [Versions -> {"none", "draft", "attached", "public", "bare"}]]
        /\ \A U \in Tags, u \in Versions : release'[U][u] = IF U = T /\ u = v THEN to ELSE release[U][u]
    BY <1>1 DEF IInv, Typed, TypedShared
  <1>3. UNCHANGED <<commits, npm, ts, go, crate, listed, trusted, failures>>  BY DEF registry
  <1>4. TypedShared'  BY <1>2, <1>3 DEF IInv, Typed, TypedShared, commits
  <1>5. Tag(T, v) # 0  BY DEF Tagged
  <1> HIDE DEF v, T
  <1>6. Agree'
    <2> SUFFICES ASSUME NEW u \in Versions PROVE AgreeAt(u)'
      BY DEF Agree
    <2>1. AgreeAt(u)  BY DEF IInv, Agree
    <2>2. ASSUME NEW U \in Tags, release'[U][u] # "none" PROVE Tag(U, u)' # 0 /\ release'[U][u] # "bare"
      <3>1. CASE U = T /\ u = v  BY <1>2, <1>3, <1>5, <3>1 DEF Tag
      <3>2. CASE ~(U = T /\ u = v)  BY <1>2, <1>3, <2>1, <2>2, <3>2 DEF AgreeAt, Tag
      <3> QED  BY <3>1, <3>2
    <2> QED  BY <1>3, <2>1, <2>2 DEF AgreeAt
  <1>7. Release(r) = release[T][v]  BY DEF Release, T, v
  <1>8. Onward  BY <1>2, <1>3, <1>4, <1>6, <1>7 DEF Onward
  <1>9. release'[T][v] = to  BY <1>2 DEF T, v
  <1> QED  BY <1>8, <1>9 DEF T, v

LEMMA ClibBegun ==
  ASSUME IInv, NEW r \in Runs, run[r].job["clib"] # "none"
  PROVE  /\ Tagged(r) # 0 /\ run[r].v \in Versions /\ run[r].tag \in Tags
         /\ Release(r) \in {"none", "draft", "attached", "public"}
  <1>1. run[r].v \in Versions /\ run[r].tag \in Tags  BY SomewhereBegun DEF Jobs, Run
  <1>2. Tagged(r) # 0  BY DEF IInv, Standing
  <1>3. Release(r) \in {"none", "draft", "attached", "public"}
    BY <1>1 DEF IInv, Typed, TypedShared, Agree, AgreeAt, Release
  <1> QED  BY <1>1, <1>2, <1>3

LEMMA ViewReleaseKeeps == ASSUME IInv, NEW r \in Runs, ViewRelease(r) PROVE IInv'
  <1> DEFINE place == IF Release(r) = "none" THEN "create" ELSE "artifacts"
  <1>1. run[r].job["clib"] # "none" /\ Goto(r, "clib", place)  BY DEF ViewRelease, At
  <1>2. Onward  BY SameIsOnward DEF ViewRelease, IInv, Typed, TypedShared
  <1>3. Fits(r, "clib", place)  BY DEF ViewRelease, Fits, Seen, Release, shared
  <1> QED  BY <1>1, <1>2, <1>3, GotoKeeps DEF Jobs, Places

LEMMA CreateReleaseKeeps == ASSUME IInv, NEW r \in Runs, CreateRelease(r) PROVE IInv'
  <1>1. run[r].job["clib"] # "none"  BY DEF CreateRelease, At
  <1>2. CASE Release(r) = "none"
    <2>1. SetRelease(r, "draft") /\ Goto(r, "clib", "artifacts")  BY <1>2 DEF CreateRelease
    <2>2. Onward /\ release'[run[r].tag][run[r].v] = "draft"
      BY <1>1, <1>2, <2>1, ClibBegun, ReleaseIsOnward DEF CreateRelease
    <2>3. Fits(r, "clib", "artifacts")  BY <2>2 DEF Fits, Seen
    <2> QED  BY <1>1, <2>1, <2>2, <2>3, GotoKeeps DEF Jobs, Places
  <1>3. CASE Release(r) # "none"
    <2>1. UNCHANGED <<commits, shared>> /\ failures' = failures  BY <1>3 DEF CreateRelease, shared
    <2>2. Onward  BY <2>1, SameIsOnward DEF IInv, Typed, TypedShared
    <2>3. Fits(r, "clib", "artifacts")  BY <1>3, <2>1 DEF Fits, Seen, Release, shared
    <2>4. Goto(r, "clib", "failed") \/ Goto(r, "clib", "artifacts")  BY <1>3 DEF CreateRelease
    <2> QED  BY <1>1, <2>2, <2>3, <2>4, GotoKeeps, ElsewhereFits DEF Jobs, Places
  <1> QED  BY <1>2, <1>3

LEMMA ArtifactsKeeps == ASSUME IInv, NEW r \in Runs, Artifacts(r) PROVE IInv'
  <1>1. run[r].job["clib"] = "artifacts"  BY DEF Artifacts, At
  <1>2. PICK attached \in BOOLEAN : SetRelease(r, IF Release(r) = "draft" /\ attached THEN "attached" ELSE Release(r))
    BY DEF Artifacts
  <1> DEFINE to == IF Release(r) = "draft" /\ attached THEN "attached" ELSE Release(r)
  <1>3. Release(r) # "none"  BY <1>1 DEF IInv, Manifest, Seen
  <1>4. to \in {"draft", "attached", "public"} /\ (Release(r) \in {"attached", "public"} => to = Release(r))
    BY <1>1, <1>3, ClibBegun
  <1>5. SetRelease(r, to)  BY <1>2
  <1> HIDE DEF to
  <1>6. Onward /\ release'[run[r].tag][run[r].v] = to
    BY <1>1, <1>4, <1>5, ClibBegun, ReleaseIsOnward DEF Artifacts
  <1>7. Fits(r, "clib", "manifest")  BY <1>4, <1>6 DEF Fits, Seen
  <1> QED  BY <1>1, <1>6, <1>7, GotoKeeps DEF Artifacts, Jobs, Places

LEMMA LookForManifestKeeps == ASSUME IInv, NEW r \in Runs, LookForManifest(r) PROVE IInv'
  <1> DEFINE place == CASE Release(r) = "draft" -> "failed"
                        [] Release(r) = "public" -> "done"
                        [] OTHER -> "publish"
  <1>1. run[r].job["clib"] = "manifest"  BY DEF LookForManifest, At
  <1>2. Onward  BY SameIsOnward DEF LookForManifest, IInv, Typed, TypedShared
  <1>3. Release(r) \in {"draft", "attached", "public"}
    BY <1>1, ClibBegun DEF IInv, Manifest, Seen
  <1>4. place \in {"failed", "done", "publish"} /\ (place = "publish" => Release(r) = "attached")
    BY <1>3
  <1>5. Goto(r, "clib", place)  BY DEF LookForManifest
  <1> HIDE DEF place
  <1>6. Fits(r, "clib", place)  BY <1>4 DEF Fits, Seen, LookForManifest, Release, shared
  <1> QED  BY <1>1, <1>2, <1>4, <1>5, <1>6, GotoKeeps DEF Jobs, Places

LEMMA PublishReleaseKeeps == ASSUME IInv, NEW r \in Runs, PublishRelease(r) PROVE IInv'
  <1>1. run[r].job["clib"] = "publish"  BY DEF PublishRelease, At
  <1>2. Release(r) # "draft"  BY <1>1 DEF IInv, Manifest, Seen
  <1>3. SetRelease(r, "public")  BY <1>2 DEF PublishRelease
  <1>4. Onward  BY <1>1, <1>3, ClibBegun, ReleaseIsOnward DEF PublishRelease
  <1> QED  BY <1>1, <1>4, GotoKeeps, ElsewhereFits DEF PublishRelease, Jobs, Places

LEMMA DecideCrateKeeps == ASSUME IInv, NEW r \in Runs, DecideCrate(r) PROVE IInv'
  <1>1. run[r].job["crates"] # "none"  BY DEF DecideCrate, At
  <1>2. Onward  BY SameIsOnward DEF DecideCrate, IInv, Typed, TypedShared
  <1>3. PICK place \in {"failed", "done", "publish"} : Goto(r, "crates", place)  BY DEF DecideCrate
  <1>4. Fits(r, "crates", place)  BY DEF Fits
  <1> QED  BY <1>1, <1>2, <1>3, <1>4, GotoKeeps DEF Jobs, Places

\* Whichever tag it is published from, the ts tag names that commit.
LEMMA PublishCrateKeeps == ASSUME IInv, NEW r \in Runs, PublishCrate(r) PROVE IInv'
  <1> DEFINE v == run[r].v
             taken == manifest(Tagged(r)) = "publishes" /\ Workflow(r) \in trusted /\ crate[v] = 0
  <1>1. run[r].job["crates"] # "none" /\ v \in Versions  BY SomewhereBegun DEF PublishCrate, At, Jobs
  <1>2. CASE taken
    <2>1. crate' = [crate EXCEPT ![v] = Tagged(r)] /\ Goto(r, "crates", "confirm")
      BY <1>2 DEF PublishCrate
    <2>2. UNCHANGED <<commits, npm, ts, go, release, listed, trusted, failures>>  BY DEF PublishCrate, registry
    <2>3. Tagged(r) = ts[v] /\ Tagged(r) \in Nat
      <3>1. Tagged(r) # 0  BY <1>1 DEF IInv, Standing
      <3>2. go[v] # 0 => ts[v] = go[v]  BY <1>1 DEF IInv, Agree, AgreeAt
      <3> QED  BY <1>1, <3>1, <3>2 DEF Tagged, Tag, IInv, Typed, TypedShared
    <2>4. TypedShared'
      <3>1. listed  BY <1>2 DEF IInv, Typed, TypedShared
      <3> QED  BY <1>1, <2>1, <2>2, <2>3, <3>1 DEF IInv, Typed, TypedShared, commits
    <2>5. crate'[v] = ts[v] /\ \A u \in Versions \ {v} : crate'[u] = crate[u]
      BY <1>1, <2>1, <2>3 DEF IInv, Typed, TypedShared
    <2>6. Agree'  BY <2>2, <2>5 DEF IInv, Agree, AgreeAt, Tag
    <2>7. Onward  BY <2>2, <2>4, <2>6 DEF Onward
    <2> QED  BY <1>1, <2>1, <2>7, GotoKeeps, ElsewhereFits DEF Jobs, Places
  <1>3. CASE ~taken
    <2>1. UNCHANGED <<commits, shared>> /\ failures' = failures  BY <1>3 DEF PublishCrate, shared
    <2>2. Onward  BY <2>1, SameIsOnward DEF IInv, Typed, TypedShared
    <2> QED  BY <1>1, <1>3, <2>2, GotoKeeps, ElsewhereFits DEF PublishCrate, Jobs, Places
  <1> QED  BY <1>2, <1>3

LEMMA ConfirmKeeps == ASSUME IInv, NEW r \in Runs, Confirm(r) PROVE IInv'
  <1>1. run[r].job["crates"] # "none"  BY DEF Confirm, At
  <1>2. Onward  BY SameIsOnward DEF Confirm, IInv, Typed, TypedShared
  <1> QED  BY <1>1, <1>2, GotoKeeps, ElsewhereFits DEF Confirm, Jobs, Places

-----------------------------------------------------------------------------
LEMMA NextKeeps == IInv /\ [Next]_vars => IInv'
  <1> SUFFICES ASSUME IInv, [Next]_vars PROVE IInv'
    OBVIOUS
  <1>1. CASE UNCHANGED vars
    <2>1. UNCHANGED <<commits, shared, run>> /\ failures' = failures  BY <1>1 DEF vars
    <2>2. Onward  BY <2>1, SameIsOnward DEF IInv, Typed, TypedShared
    <2> QED  BY <2>1, <2>2, RestKeeps
  <1>2. CASE Merge \/ FirstPublish \/ Trust  BY <1>2, MergeKeeps, FirstPublishKeeps, TrustKeeps
  <1>3. ASSUME NEW r \in Runs, Dispatch(r) \/ PushTag(r) \/ RepairClib(r) \/ RepairCrate(r) PROVE IInv'
    BY <1>3, DispatchKeeps, PushTagKeeps, RepairClibKeeps, RepairCrateKeeps
  <1>4. ASSUME NEW r \in Runs, publishNpm(r) PROVE IInv'
    BY <1>4, DecideTagsKeeps, ViewNpmKeeps, PublishNpmKeeps, TagReleaseKeeps, HandOverKeeps DEF publishNpm
  <1>5. ASSUME NEW r \in Runs, clib(r) PROVE IInv'
    BY <1>5, ViewReleaseKeeps, CreateReleaseKeeps, ArtifactsKeeps, LookForManifestKeeps, PublishReleaseKeeps DEF clib
  <1>6. ASSUME NEW r \in Runs, crates(r) PROVE IInv'
    BY <1>6, DecideCrateKeeps, PublishCrateKeeps, ConfirmKeeps DEF crates
  <1>7. ASSUME NEW r \in Runs, NEW job \in Jobs, Rerun(r, job) \/ Fail(r, job) PROVE IInv'
    BY <1>7, RerunKeeps, FailKeeps
  <1> QED  BY <1>1, <1>2, <1>3, <1>4, <1>5, <1>6, <1>7 DEF Next

\* Whatever races, fails and is run again, what the runs share keeps agreeing,
\* and no run holds on to anything about it that is no longer so
\* (release.yml, crates-release.yml and clib-release.yml, every step).
THEOREM Inductive == Spec => []IInv
  <1>1. Init => IInv  BY InitIInv
  <1>2. IInv /\ [Next]_vars => IInv'  BY NextKeeps
  <1> QED  BY <1>1, <1>2, PTL DEF Spec

\* The tags and the crate of a version name one commit, whichever of the runs
\* made each of them (the anchor of release.yml, and the checkout of the tag in
\* crates-release.yml).
THEOREM NamesOneCommit == Spec => []OneCommit
  <1>1. IInv => OneCommit  BY DEF IInv, Agree, AgreeAt, OneCommit
  <1> QED  BY <1>1, Inductive, PTL

\* Nothing is out without what it stands on: npm and a ts tag before the Go tag, the
\* ts tag before the crate, the manifest before the Release (the order of the
\* steps, the tags that a repair is accepted for, and the look that clib-release.yml
\* takes before it publishes).
THEOREM ReleasesWhole == Spec => []NothingHalfReleased
  <1>1. IInv => NothingHalfReleased
    <2> SUFFICES ASSUME IInv, NEW v \in Versions
                 PROVE  /\ go[v] # 0 => npm[v] # 0 /\ ts[v] # 0
                        /\ crate[v] # 0 => ts[v] # 0
                        /\ \A T \in Tags : release[T][v] # "none" => Tag(T, v) # 0 /\ release[T][v] # "bare"
      BY DEF NothingHalfReleased
    <2>1. AgreeAt(v)  BY DEF IInv, Agree
    <2> QED  BY <2>1 DEF AgreeAt
  <1> QED  BY <1>1, Inductive, PTL

-----------------------------------------------------------------------------
(* What no step may do. *)

Kept ==
  \A v \in Versions : /\ npm[v] # 0 => npm'[v] = npm[v]
                      /\ ts[v] # 0 => ts'[v] = ts[v]
                      /\ go[v] # 0 => go'[v] = go[v]
                      /\ crate[v] # 0 => crate'[v] = crate[v]
                      /\ \A T \in Tags : release[T][v] = "public" => release'[T][v] = "public"

LEMMA SameIsKept == UNCHANGED shared => Kept
  BY DEF shared, Kept

LEMMA PeopleKeep ==
  ASSUME IInv, NEW r \in Runs, Dispatch(r) \/ PushTag(r) \/ RepairClib(r) \/ RepairCrate(r)
  PROVE  Kept
  <1>1. CASE Dispatch(r) \/ RepairClib(r) \/ RepairCrate(r)
    BY <1>1, SameIsKept DEF Dispatch, RepairClib, RepairCrate
  <1>2. CASE PushTag(r)  BY <1>2, CurrentVersion DEF PushTag, Kept, IInv, Typed, TypedShared
  <1> QED  BY <1>1, <1>2

\* What is published by hand is the first of the crate.
LEMMA CratesIoKeeps == ASSUME IInv, FirstPublish \/ Trust PROVE Kept
  <1>1. UNCHANGED <<npm, ts, go, release>>  BY DEF FirstPublish, Trust
  <1>2. \A v \in Versions : crate[v] # 0 => crate'[v] = crate[v]
    <2>1. CASE FirstPublish  BY <2>1 DEF FirstPublish, IInv, Typed, TypedShared
    <2>2. CASE Trust  BY <2>2 DEF Trust
    <2> QED  BY <2>1, <2>2
  <1> QED  BY <1>1, <1>2 DEF Kept

\* Two runs may have decided at different commits before either pushed: what
\* the second would move it refuses to.
LEMMA PublishKeeps == ASSUME IInv, NEW r \in Runs, publishNpm(r) PROVE Kept
  <1>1. CASE DecideTags(r) \/ ViewNpm(r) \/ HandOver(r)  BY <1>1, SameIsKept DEF DecideTags, ViewNpm, HandOver
  <1>2. CASE PublishNpm(r)
    <2>1. run[r].v \in Versions  BY <1>2, SomewhereBegun DEF PublishNpm, At, Jobs
    <2>2. npm' = npm \/ (npm[run[r].v] = 0 /\ npm' = [npm EXCEPT ![run[r].v] = run[r].at])
      BY <1>2 DEF PublishNpm
    <2>3. \A v \in Versions : npm[v] # 0 => npm'[v] = npm[v]
      BY <2>1, <2>2 DEF IInv, Typed, TypedShared
    <2> QED  BY <1>2, <2>3 DEF PublishNpm, Kept
  <1>3. CASE TagRelease(r)
    <2> DEFINE v == run[r].v
               a == run[r].anchor
    <2>1. v \in Versions  BY <1>3, SomewhereBegun DEF TagRelease, At, Jobs
    <2>2. UNCHANGED <<npm, crate, release>>  BY <1>3 DEF TagRelease
    <2>3. CASE \E T \in run[r].missing : Refuses(r, T)
      BY <1>3, <2>2, <2>3, SameIsKept DEF TagRelease, shared
    <2>4. CASE ~\E T \in run[r].missing : Refuses(r, T)
      <3>1. /\ ts' = IF "ts" \in run[r].missing THEN [ts EXCEPT ![v] = a] ELSE ts
            /\ go' = IF "go" \in run[r].missing THEN [go EXCEPT ![v] = a] ELSE go
        BY <1>3, <2>4 DEF TagRelease
      <3>2. /\ "ts" \in run[r].missing => ts[v] \in {0, a}
            /\ "go" \in run[r].missing => go[v] \in {0, a}
        BY <2>4 DEF Refuses, Tag
      <3>3. \A u \in Versions : ts[u] # 0 => ts'[u] = ts[u]
        BY <2>1, <3>1, <3>2 DEF IInv, Typed, TypedShared
      <3>4. \A u \in Versions : go[u] # 0 => go'[u] = go[u]
        BY <2>1, <3>1, <3>2 DEF IInv, Typed, TypedShared
      <3> QED  BY <2>2, <3>3, <3>4 DEF Kept
    <2> QED  BY <2>3, <2>4
  <1> QED  BY <1>1, <1>2, <1>3 DEF publishNpm

LEMMA ClibKeeps == ASSUME IInv, NEW r \in Runs, clib(r) PROVE Kept
  <1>1. CASE ViewRelease(r) \/ LookForManifest(r)  BY <1>1, SameIsKept DEF ViewRelease, LookForManifest
  <1>2. CASE CreateRelease(r) \/ Artifacts(r) \/ PublishRelease(r)
    <2> DEFINE v == run[r].v
               T == run[r].tag
    <2>1. run[r].job["clib"] # "none"  BY <1>2 DEF CreateRelease, Artifacts, PublishRelease, At
    <2>2. UNCHANGED <<npm, ts, go, crate>>  BY <1>2 DEF CreateRelease, Artifacts, PublishRelease
    <2>3. PICK to : /\ release' = [release EXCEPT ![T] = [release[T] EXCEPT ![v] = to]] \/ release' = release
                    /\ release[T][v] = "public" => to = "public"
      <3>1. CASE CreateRelease(r)  BY <3>1 DEF CreateRelease, SetRelease, Release
      <3>2. CASE Artifacts(r)  BY <3>2 DEF Artifacts, SetRelease, Release
      <3>3. CASE PublishRelease(r)  BY <3>3 DEF PublishRelease, SetRelease, Release
      <3> QED  BY <1>2, <3>1, <3>2, <3>3
    <2>4. v \in Versions /\ T \in Tags  BY <2>1, ClibBegun
    <2> HIDE DEF v, T
    <2>5. \A U \in Tags, u \in Versions : release[U][u] = "public" => release'[U][u] = "public"
      <3>1. release \in [Tags -> [Versions -> {"none", "draft", "attached", "public", "bare"}]]
        BY DEF IInv, Typed, TypedShared
      <3>2. CASE release' = [release EXCEPT ![T] = [release[T] EXCEPT ![v] = to]]
        <4>1. \A U \in Tags : release'[U] = IF U = T THEN [release[T] EXCEPT ![v] = to] ELSE release[U]
          BY <2>4, <3>1, <3>2
        <4>2. \A u \in Versions : release'[T][u] = IF u = v THEN to ELSE release[T][u]
          BY <2>4, <3>1, <4>1
        <4> QED  BY <2>3, <2>4, <4>1, <4>2
      <3>3. CASE release' = release  BY <3>3
      <3> QED  BY <2>3, <3>2, <3>3
    <2> QED  BY <2>2, <2>5 DEF Kept
  <1> QED  BY <1>1, <1>2 DEF clib

LEMMA CratesKeep == ASSUME IInv, NEW r \in Runs, crates(r) PROVE Kept
  <1>1. CASE DecideCrate(r) \/ Confirm(r)  BY <1>1, SameIsKept DEF DecideCrate, Confirm
  <1>2. CASE PublishCrate(r)
    <2>1. run[r].v \in Versions  BY <1>2, SomewhereBegun DEF PublishCrate, At, Jobs
    <2>2. crate' = crate \/ (crate[run[r].v] = 0 /\ crate' = [crate EXCEPT ![run[r].v] = Tagged(r)])
      BY <1>2 DEF PublishCrate
    <2>3. \A v \in Versions : crate[v] # 0 => crate'[v] = crate[v]
      BY <2>1, <2>2 DEF IInv, Typed, TypedShared
    <2> QED  BY <1>2, <2>3 DEF PublishCrate, Kept
  <1> QED  BY <1>1, <1>2 DEF crates

\* What is out stays out (the look of release.yml at each tag before its one
\* push, and the looks at the registries before what they take only once).
THEOREM TakesNothingBack == Spec => NothingTakenBack
  <1>1. IInv /\ [Next]_vars => [Kept]_vars
    <2> SUFFICES ASSUME IInv, Next PROVE Kept
      OBVIOUS
    <2>1. CASE Merge  BY <2>1, SameIsKept DEF Merge
    <2>2. ASSUME NEW r \in Runs, NEW job \in Jobs, Rerun(r, job) \/ Fail(r, job) PROVE Kept
      BY <2>2, SameIsKept DEF Rerun, Fail
    <2> QED  BY <2>1, <2>2, CratesIoKeeps, PeopleKeep, PublishKeeps, ClibKeeps, CratesKeep DEF Next
  <1> QED  BY <1>1, Inductive, PTL DEF Spec, NothingTakenBack, Kept

================================================================================
