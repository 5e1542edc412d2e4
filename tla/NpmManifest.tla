------------------------------ MODULE NpmManifest ------------------------------
(***************************************************************************)
(* tools/port-deps.cjs, readTs: the dependencies of the TypeScript port    *)
(* from ts/package.json.                                                   *)
(*                                                                         *)
(* A section is a function from the names it lists to the packages they    *)
(* install ("alias": "npm:real" installs real), or Malformed.  meta gives  *)
(* names their "optional": TRUE, FALSE, "unset", or "malformed".           *)
(***************************************************************************)
EXTENDS PortFold, TLC

CONSTANTS Manifests,   (* records [name, deps, peer, opt, dev, meta] *)
          Malformed    (* what cannot be read as a section           *)

VARIABLES pkg,      (* the manifest                                   *)
          port,     (* what readTs answers, or <<>>                   *)
          status    (* "text", "port" or "unreadable"                 *)

vars == <<pkg, port, status>>

Init == pkg \in Manifests /\ port = <<>> /\ status = "text"

Runtime == {pkg.deps, pkg.peer, pkg.opt}

\* Mutant: an optional peer is optional although "dependencies" has it too.
optionalPeer(name) ==
  \/ name \in DOMAIN pkg.opt
  \/ name \in DOMAIN pkg.peer /\ name \in DOMAIN pkg.meta /\ pkg.meta[name] = "true"

\* npm carries on without it: an optional dependency, or a peer marked so
\* that "dependencies" does not install regardless.
optional(name) ==
  \/ name \in DOMAIN pkg.opt
  \/ /\ name \in DOMAIN pkg.peer /\ name \notin DOMAIN pkg.deps
     /\ name \in DOMAIN pkg.meta /\ pkg.meta[name] = "true"

declarations == UNION {{[name |-> s[n], optional |-> optional(n)] : n \in DOMAIN s} : s \in Runtime}

NotFollowed ==
  \/ Malformed \in {pkg.deps, pkg.peer, pkg.opt, pkg.dev, pkg.meta} \/ pkg.name = Malformed
  \/ \E n \in DOMAIN pkg.meta : pkg.meta[n] = "malformed"

readTs ==
  /\ status = "text"
  /\ IF NotFollowed THEN status' = "unreadable" /\ UNCHANGED port
     ELSE /\ status' = "port"
          /\ port' = fold(IdOf(pkg.name), declarations, {pkg.dev[n] : n \in DOMAIN pkg.dev})
  /\ UNCHANGED pkg

Spec == Init /\ [][readTs]_vars

-----------------------------------------------------------------------------
(* What npm installs for a consumer of the package. *)

InstalledAs(id) ==
  {n \in UNION {DOMAIN s : s \in Runtime} : \E s \in Runtime : n \in DOMAIN s /\ IdOf(s[n]) = id}

\* npm reads optionalDependencies over dependencies, and fails to install
\* without a dependency, or without a peer that is not marked optional.
FailsWithout(n) ==
  /\ n \notin DOMAIN pkg.opt
  /\ \/ n \in DOMAIN pkg.deps
     \/ n \in DOMAIN pkg.peer /\ (n \in DOMAIN pkg.meta => pkg.meta[n] # "true")

\* Every tabnas package that an install may bring is in the list, under its
\* own id and not an alias; one is called optional only if an install does
\* without every name it has; none is runtime and dev at once, and the
\* package itself is neither.
ReadsWhatNpmInstalls ==
  status = "port" =>
    /\ port.runtime = {id \in UNION {{IdOf(s[n]) : n \in DOMAIN s} : s \in Runtime} :
                         id \notin {NoId, IdOf(pkg.name)}}
    /\ port.optional = {id \in port.runtime : \A n \in InstalledAs(id) : ~FailsWithout(n)}
    /\ port.runtime \cap port.dev = {} /\ IdOf(pkg.name) \notin port.dev

==============================================================================
