-------------------------------- MODULE Calls --------------------------------
(***************************************************************************)
(* The vocabulary of the C ABI (go/clib/include/tabnas.h): the arguments a *)
(* host can pass and the documents it gets back.  A text argument is kept  *)
(* up to what the library does with it; a document is its outcome and, for *)
(* a successful tabnas_grammar, the handle it carries.                     *)
(***************************************************************************)
EXTENDS Naturals

CONSTANTS Threads,   (* the host's threads; the ABI asks nothing of them    *)
          MaxLoads   (* bound: tabnas_grammar calls that get past the options *)

ASSUME MaxLoadsAssumption == MaxLoads \in Nat

\* The handles the library can give within the bound, and those a host tries.
Handle == 1 .. MaxLoads

\* A (pointer, length) pair that is no buffer, an input inside the format, one
\* outside it, and one on which the parse function panics.
Source == {"badptr", "inside", "outside", "panics"}

\* No options, an options document that is not an object or is not empty, and a
\* (pointer, length) pair that is no buffer.  The empty object reads as "none".
Options == {"badptr", "none", "refused"}

Request ==
  [op : {"grammar"}, h : {0}, text : Options]
    \cup [op : {"parse"}, h : Handle, text : Source]
    \cup [op : {"free"}, h : Handle, text : {"none"}]

NoRequest == [op |-> "none", h |-> 0, text |-> "none"]

Doc(kind) == [doc |-> kind, h |-> 0]
HandleDoc(h) == [doc |-> "handle", h |-> h]
NoReply == Doc("none")

Reply ==
  [doc : {"none", "usage", "nohandle", "accept", "reject", "internal", "void"},
   h : {0}]
    \cup [doc : {"handle"}, h : Handle]

\* Three outcomes, not two: the answer parseWith gives once it has an instance.
\* An input outside the format is an ANSWER; a panic is a failed call.
Verdict(text) ==
  CASE text = "inside"  -> "accept"
    [] text = "outside" -> "reject"
    [] OTHER            -> "internal"

==============================================================================
