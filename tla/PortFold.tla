------------------------------- MODULE PortFold -------------------------------
(***************************************************************************)
(* tools/port-deps.cjs, what the three readers share: the declarations of  *)
(* a manifest folded into the dependency lists of a port.                  *)
(*                                                                         *)
(* A declaration is [name |-> ..., optional |-> ...].  The id in a name is *)
(* whatever stands in the place that the port's naming leaves for it.      *)
(***************************************************************************)

CONSTANTS IdOf(_),    (* the id in a package name, or NoId *)
          NoId

\* self is the port's own id; runtime a set of declarations, dev a set of names.
fold(self, runtime, dev) ==
  LET ids == {IdOf(d.name) : d \in runtime} \ {NoId, self}
  IN  [runtime  |-> ids,
       optional |-> {id \in ids : \A d \in runtime : IdOf(d.name) = id => d.optional},
       dev      |-> {IdOf(name) : name \in dev} \ (ids \cup {NoId, self}),
       external |-> {d.name : d \in {e \in runtime : IdOf(e.name) = NoId}}]

==============================================================================
