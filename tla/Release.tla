-------------------------------- MODULE Release --------------------------------
(***************************************************************************)
(* .github/workflows: how a version is released.                           *)
(*   release.yml         publishes to npm, tags, hands the Go tag over     *)
(*   crates-release.yml  publishes the crate from the tag                  *)
(*   clib-release.yml    drafts the GitHub Release, attaches, publishes it *)
(* Runs are started by people, several at once, each from the commit that  *)
(* main was at; any job may fail at any step, and a failed job may be run  *)
(* again, from its beginning and from the same commit, when main has moved *)
(* on.  npm, crates.io, the tags and the Releases are what they share.     *)
(* The workflows for a repair take a ts tag as well as a go tag.           *)
(*                                                                         *)
(* A commit is its place on main; 0 is none.  A dispatch from elsewhere    *)
(* than main is refused before it does anything, and is left out.          *)
(***************************************************************************)
EXTENDS Naturals, Sequences, FiniteSets

CONSTANTS Runs,         (* the runs there may be                             *)
          Histories,    (* what main may come to hold, and what is followed:
                           [commits: the version and the manifest at each,
                            called: the jobs beside publish-npm]             *)
          MaxVersions,  (* bound: the versions                               *)
          MaxFailures   (* bound: the jobs that fail for no fault of theirs  *)

Versions == 1..MaxVersions
Tags == {"ts", "go"}
Workflows == {"release", "crates-release"}
Jobs == {"npm", "clib", "crates"}

\* What rs/Cargo.toml may say.  "publishes": a crate to publish.  "private": one that
\* is not for crates.io.  And what no run of the job gets past: "refused": no crate,
\* a version that is not that of ts/package.json or not that of the tag, no
\* rust-version; "unresolved": a path dependency that is never rewritten.
Manifests == {"publishes", "private", "refused", "unresolved"}

ASSUME Bounds == MaxVersions \in Nat /\ MaxFailures \in Nat

ASSUME HistoriesAssumption ==
  \A h \in Histories : h.commits \in Seq([version : Versions, manifest : Manifests]) \ {<<>>} /\ h.called \subseteq Jobs

VARIABLES history,   (* which of them                                        *)
          main,      (* the commits on main so far                           *)
          npm,       (* the commit that npm serves, for each version         *)
          ts,        (* the commit that the tag ts/v<version> names          *)
          go,        (* and go/v<version>                                    *)
          crate,     (* the commit that crates.io serves                     *)
          listed,    (* crates.io has the crate, in whatever version         *)
          trusted,   (* the workflows it takes the crate from: it trusts
                        them, and the crate's dependencies are published     *)
          release,   (* the GitHub Release of each tag                       *)
          run,       (* the runs                                             *)
          failures   (* the failures so far                                  *)

registry == <<listed, trusted>>
shared == <<npm, ts, go, crate, release, registry>>
commits == <<history, main>>
vars == <<commits, shared, run, failures>>

version(commit) == history.commits[commit].version
manifest(commit) == history.commits[commit].manifest

\* kind: "dispatch" and "push" of release.yml, "repair" for a dispatch of one
\* of the others.  at: its commit; v: its version; tag: the tag of it that the
\* C library and the crate are built from.  missing, anchor: the tags it is to
\* push, and the commit they will name.  job: where its jobs are.
NoRun == [kind |-> "none", go |-> FALSE, at |-> 0, v |-> 0, tag |-> "go", missing |-> {}, anchor |-> 0,
          job |-> [job \in Jobs |-> "none"]]

Tag(T, v) == IF T = "ts" THEN ts[v] ELSE go[v]

Init ==
  /\ history \in Histories /\ main = 1
  /\ npm = [v \in Versions |-> 0] /\ ts = [v \in Versions |-> 0] /\ go = [v \in Versions |-> 0]
  /\ crate = [v \in Versions |-> 0] /\ release = [T \in Tags |-> [v \in Versions |-> "none"]]
  /\ listed \in BOOLEAN /\ trusted = {}
  /\ run = [r \in Runs |-> NoRun] /\ failures = 0

At(r, job, place) == run[r].job[job] = place
Goto(r, job, place) == run' = [run EXCEPT ![r].job[job] = place]

-----------------------------------------------------------------------------
(* What people do. *)

\* A reviewed commit, with or without a bump of the version.
Merge ==
  /\ main < Len(history.commits) /\ main' = main + 1
  /\ UNCHANGED <<history, shared, run, failures>>

\* The first publish of the crate is by hand: of a version from its tag, or of one
\* that no run here is about.  Only then can its publishers be set up.
FirstPublish ==
  /\ ~listed /\ listed' = TRUE
  /\ \/ crate' = crate
     \/ \E v \in Versions :
          /\ ts[v] # 0 /\ manifest(ts[v]) = "publishes" /\ crate' = [crate EXCEPT ![v] = ts[v]]
  /\ UNCHANGED <<commits, npm, ts, go, release, trusted, run, failures>>

Trust ==
  /\ listed /\ \E w \in Workflows \ trusted : trusted' = trusted \cup {w}
  /\ UNCHANGED <<commits, npm, ts, go, crate, release, listed, run, failures>>

Begin(r, kind, withGo, v, T, job, place) ==
  /\ run[r] = NoRun
  /\ run' = [run EXCEPT ![r] = [NoRun EXCEPT !.kind = kind, !.go = withGo, !.at = main, !.v = v, !.tag = T,
                                            !.job[job] = place]]

Dispatch(r) ==
  /\ \E withGo \in BOOLEAN : Begin(r, "dispatch", withGo, version(main), "go", "npm", "decide")
  /\ UNCHANGED <<commits, shared, failures>>

\* The orchestrator pushes ts/v<version> itself, and that starts a run.
PushTag(r) ==
  /\ ts[version(main)] = 0 /\ ts' = [ts EXCEPT ![version(main)] = main]
  /\ Begin(r, "push", FALSE, version(main), "go", "npm", "npm")
  /\ UNCHANGED <<commits, npm, go, crate, release, registry, failures>>

\* A dispatch of clib-release.yml or of crates-release.yml, for a tag that exists.
RepairClib(r) ==
  /\ "clib" \in history.called
  /\ \E v \in Versions, T \in Tags : Tag(T, v) # 0 /\ Begin(r, "repair", FALSE, v, T, "clib", "view")
  /\ UNCHANGED <<commits, shared, failures>>

RepairCrate(r) ==
  /\ "crates" \in history.called
  /\ \E v \in Versions, T \in Tags : Tag(T, v) # 0 /\ Begin(r, "repair", FALSE, v, T, "crates", "decide")
  /\ UNCHANGED <<commits, shared, failures>>

\* A job starts over: a runner keeps nothing from one attempt to the next.
First(r, job) ==
  CASE job = "npm" -> IF run[r].kind = "push" THEN "npm" ELSE "decide"
    [] job = "clib" -> "view"
    [] job = "crates" -> "decide"

Rerun(r, job) ==
  /\ run[r].job[job] \in {"failed", "nothing left", "by hand"} /\ Goto(r, job, First(r, job))
  /\ UNCHANGED <<commits, shared, failures>>

\* A lost runner, a registry that does not answer, a build that breaks, a
\* version that crates.io does not yet serve after it was looked for six times.
Fail(r, job) ==
  /\ run[r].job[job] \notin {"none", "done", "failed", "nothing left", "by hand"}
  /\ failures < MaxFailures /\ failures' = failures + 1 /\ Goto(r, job, "failed")
  /\ UNCHANGED <<commits, shared>>

-----------------------------------------------------------------------------
(* publish-npm *)

Asked(r) == IF run[r].go THEN {"ts", "go"} ELSE {"ts"}

\* Mutant: what is missing is tagged where main is.
AnchorHead(r) == run[r].at

\* The commit of the first of its tags there is, or its own.
Anchor(r) ==
  LET v == run[r].v IN
    IF ts[v] # 0 THEN ts[v] ELSE IF "go" \in Asked(r) /\ go[v] # 0 THEN go[v] ELSE run[r].at

DecideTags(r) ==
  /\ At(r, "npm", "decide")
  /\ LET missing == {T \in Asked(r) : Tag(T, run[r].v) = 0} IN
       IF missing = {} THEN Goto(r, "npm", "nothing left")
       ELSE IF Anchor(r) # run[r].at /\ npm[run[r].v] = 0 THEN Goto(r, "npm", "by hand")
       ELSE run' = [run EXCEPT ![r].job["npm"] = "npm", ![r].missing = missing, ![r].anchor = Anchor(r)]
  /\ UNCHANGED <<commits, shared, failures>>

AfterNpm(r) == IF run[r].kind = "dispatch" THEN "tag" ELSE "hand over"

\* The registry decides whether the version is out.
ViewNpm(r) ==
  /\ At(r, "npm", "npm") /\ Goto(r, "npm", IF npm[run[r].v] # 0 THEN AfterNpm(r) ELSE "publish")
  /\ UNCHANGED <<commits, shared, failures>>

\* npm takes a version once.
PublishNpm(r) ==
  /\ At(r, "npm", "publish")
  /\ IF npm[run[r].v] = 0
       THEN npm' = [npm EXCEPT ![run[r].v] = run[r].at] /\ Goto(r, "npm", AfterNpm(r))
       ELSE Goto(r, "npm", "failed") /\ UNCHANGED npm
  /\ UNCHANGED <<commits, ts, go, crate, release, registry, failures>>

Refuses(r, T) == Tag(T, run[r].v) \notin {0, run[r].anchor}

\* Mutant: the tags are pushed with --force.
TagReleaseForced(r) ==
  /\ At(r, "npm", "tag") /\ Goto(r, "npm", "hand over")
  /\ ts' = IF "ts" \in run[r].missing THEN [ts EXCEPT ![run[r].v] = run[r].anchor] ELSE ts
  /\ go' = IF "go" \in run[r].missing THEN [go EXCEPT ![run[r].v] = run[r].anchor] ELSE go
  /\ UNCHANGED <<commits, npm, crate, release, registry, failures>>

\* One atomic push of all that were missing, at the anchor.
TagRelease(r) ==
  /\ At(r, "npm", "tag")
  /\ IF \E T \in run[r].missing : Refuses(r, T) THEN Goto(r, "npm", "failed") /\ UNCHANGED <<ts, go>>
     ELSE /\ ts' = IF "ts" \in run[r].missing THEN [ts EXCEPT ![run[r].v] = run[r].anchor] ELSE ts
          /\ go' = IF "go" \in run[r].missing THEN [go EXCEPT ![run[r].v] = run[r].anchor] ELSE go
          /\ Goto(r, "npm", "hand over")
  /\ UNCHANGED <<commits, npm, crate, release, registry, failures>>

\* The jobs clib and crates follow if the Go tag is on the remote.
HandOver(r) ==
  /\ At(r, "npm", "hand over")
  /\ IF go[run[r].v] = 0 THEN Goto(r, "npm", "done")
     ELSE run' = [run EXCEPT ![r].job = [job \in Jobs |-> IF job = "npm" THEN "done"
                                                       ELSE IF job \in history.called THEN First(r, job) ELSE "none"]]
  /\ UNCHANGED <<commits, shared, failures>>

publishNpm(r) == DecideTags(r) \/ ViewNpm(r) \/ PublishNpm(r) \/ TagRelease(r) \/ HandOver(r)

-----------------------------------------------------------------------------
(* clib: a Release is a draft until its artifacts are on it. *)

Release(r) == release[run[r].tag][run[r].v]
SetRelease(r, is) == release' = [release EXCEPT ![run[r].tag][run[r].v] = is]

ViewRelease(r) ==
  /\ At(r, "clib", "view") /\ Goto(r, "clib", IF Release(r) = "none" THEN "create" ELSE "artifacts")
  /\ UNCHANGED <<commits, shared, failures>>

\* When another run has created it since, the service refuses, or keeps a second
\* draft by, which the tag does not stand for.
CreateRelease(r) ==
  /\ At(r, "clib", "create")
  /\ IF Release(r) = "none" THEN SetRelease(r, "draft") /\ Goto(r, "clib", "artifacts")
     ELSE UNCHANGED release /\ (Goto(r, "clib", "failed") \/ Goto(r, "clib", "artifacts"))
  /\ UNCHANGED <<commits, npm, ts, go, crate, registry, failures>>

\* The shared build is external: it may end well and have attached no manifest.
Artifacts(r) ==
  /\ At(r, "clib", "artifacts") /\ Goto(r, "clib", "manifest")
  /\ \E attached \in BOOLEAN : SetRelease(r, IF Release(r) = "draft" /\ attached THEN "attached" ELSE Release(r))
  /\ UNCHANGED <<commits, npm, ts, go, crate, registry, failures>>

\* Mutant: what the build attached is not looked at.
LookForManifestNot(r) ==
  /\ At(r, "clib", "manifest") /\ Goto(r, "clib", IF Release(r) = "public" THEN "done" ELSE "publish")
  /\ UNCHANGED <<commits, shared, failures>>

\* Nothing without a manifest is published; what is public is left as it is.
LookForManifest(r) ==
  /\ At(r, "clib", "manifest")
  /\ Goto(r, "clib", CASE Release(r) = "draft" -> "failed"
                       [] Release(r) = "public" -> "done"
                       [] OTHER -> "publish")
  /\ UNCHANGED <<commits, shared, failures>>

\* Which version is marked "latest" is left out.
PublishRelease(r) ==
  /\ At(r, "clib", "publish") /\ Goto(r, "clib", "done")
  /\ SetRelease(r, IF Release(r) = "draft" THEN "bare" ELSE "public")
  /\ UNCHANGED <<commits, npm, ts, go, crate, registry, failures>>

clib(r) == ViewRelease(r) \/ CreateRelease(r) \/ Artifacts(r) \/ LookForManifest(r) \/ PublishRelease(r)

-----------------------------------------------------------------------------
(* crates: published from the tag, unless crates.io serves it already. *)

Tagged(r) == Tag(run[r].tag, run[r].v)
Workflow(r) == IF run[r].kind = "repair" THEN "crates-release" ELSE "release"

\* Mutant: it is not asked whether crates.io has the version.
DecideCrateNot(r) ==
  /\ At(r, "crates", "decide")
  /\ Goto(r, "crates", CASE manifest(Tagged(r)) = "refused" -> "failed"
                         [] manifest(Tagged(r)) = "private" -> "done"
                         [] OTHER -> IF ~listed THEN "failed" ELSE "publish")
  /\ UNCHANGED <<commits, shared, failures>>

\* What is read at the tag and what crates.io answers: a refusal, nothing to do,
\* or a version to publish.
DecideCrate(r) ==
  /\ At(r, "crates", "decide")
  /\ Goto(r, "crates", CASE manifest(Tagged(r)) = "refused" -> "failed"
                         [] manifest(Tagged(r)) = "private" -> "done"
                         [] OTHER -> IF ~listed THEN "failed" ELSE IF crate[run[r].v] # 0 THEN "done" ELSE "publish")
  /\ UNCHANGED <<commits, shared, failures>>

\* The dependencies are rewritten, then crates.io takes a version once, and from a
\* workflow that it trusts.
PublishCrate(r) ==
  /\ At(r, "crates", "publish")
  /\ IF manifest(Tagged(r)) = "publishes" /\ Workflow(r) \in trusted /\ crate[run[r].v] = 0
       THEN crate' = [crate EXCEPT ![run[r].v] = Tagged(r)] /\ Goto(r, "crates", "confirm")
       ELSE Goto(r, "crates", "failed") /\ UNCHANGED crate
  /\ UNCHANGED <<commits, npm, ts, go, release, registry, failures>>

Confirm(r) ==
  /\ At(r, "crates", "confirm") /\ Goto(r, "crates", "done")
  /\ UNCHANGED <<commits, shared, failures>>

crates(r) == DecideCrate(r) \/ PublishCrate(r) \/ Confirm(r)

-----------------------------------------------------------------------------
Next ==
  \/ Merge \/ FirstPublish \/ Trust
  \/ \E r \in Runs :
       \/ Dispatch(r) \/ PushTag(r) \/ RepairClib(r) \/ RepairCrate(r) \/ publishNpm(r) \/ clib(r) \/ crates(r)
       \/ \E job \in Jobs : Rerun(r, job) \/ Fail(r, job)

\* The service runs every job on, and somebody runs again what has failed, as
\* the workflows' headers say to.
Spec ==
  /\ Init /\ [][Next]_vars
  /\ \A r \in Runs : /\ WF_vars(publishNpm(r)) /\ WF_vars(crates(r))
                     /\ WF_vars(Rerun(r, "npm")) /\ WF_vars(Rerun(r, "crates"))

-----------------------------------------------------------------------------
\* What a version's tags and its crate are made from is one commit, however
\* many runs raced for it, failed half way, or came later when main had moved
\* on.  (A Go tag is cached for good by the module proxy.)
OneCommit ==
  \A v \in Versions : \A a, b \in {ts[v], go[v], crate[v]} \ {0} : a = b

\* Nothing is out without what it stands on: a Go tag is of a version that npm
\* serves (a ts tag need not be, the orchestrator pushes it first), a crate is of
\* a version with a ts tag (though perhaps no Go tag: a repair may be for the ts
\* tag), a Release is of a tag that is there, and is not public without the
\* manifest that loaders read from it.
NothingHalfReleased ==
  \A v \in Versions :
    /\ go[v] # 0 => npm[v] # 0 /\ ts[v] # 0
    /\ crate[v] # 0 => ts[v] # 0
    /\ \A T \in Tags : release[T][v] # "none" => Tag(T, v) # 0 /\ release[T][v] # "bare"

\* What is out stays out: no run, however late it comes or however old what it
\* decided on, moves a tag, has a registry serve another commit for a version,
\* or turns a public Release back into anything less.
NothingTakenBack ==
  [][\A v \in Versions :
       /\ npm[v] # 0 => npm'[v] = npm[v]
       /\ ts[v] # 0 => ts'[v] = ts[v]
       /\ go[v] # 0 => go'[v] = go[v]
       /\ crate[v] # 0 => crate'[v] = crate[v]
       /\ \A T \in Tags : release[T][v] = "public" => release'[T][v] = "public"]_vars

\* Nothing stands in the way of the crate but failures that end: the tagged
\* source may be published and crates.io takes it from the run's workflow, unless
\* it has the version already or is not to have it.
Unhindered(r) ==
  \/ manifest(Tagged(r)) = "private"
  \/ manifest(Tagged(r)) # "refused" /\ crate[run[r].v] # 0
  \/ manifest(Tagged(r)) = "publishes" /\ Workflow(r) \in trusted

\* What was begun arrives, if failures end.  A dispatch that was to tag the Go
\* module gets it tagged: whatever had happened when a step failed, running its
\* job again gets past it.  And a crate's job that is unhindered ends well, also
\* one that had been refused before crates.io was ready, or was overtaken by
\* another run.
TagsArrive(r) == run[r].kind = "dispatch" /\ run[r].go ~> \E v \in Versions : v = run[r].v /\ go[v] # 0
CrateSettles(r) == At(r, "crates", "decide") /\ Unhindered(r) ~> At(r, "crates", "done")
ReleasesArrive == \A r \in Runs : TagsArrive(r) /\ CrateSettles(r)

\* "A REPAIR must name the commit the release actually happened at, not
\* whatever main has become since" (release.yml:158).
TagNamesTheRelease == \A v \in Versions : go[v] # 0 => go[v] = npm[v]

==============================================================================
