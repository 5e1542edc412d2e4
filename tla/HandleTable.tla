----------------------------- MODULE HandleTable -----------------------------
(***************************************************************************)
(* What the C library promises its callers, stated without a single lock:  *)
(* a table of parser handles on which every call takes effect at ONE       *)
(* instant between its invocation and its return.                          *)
(*                                                                         *)
(*   - tabnas_grammar gives a handle that was never given before, or       *)
(*     refuses its options;                                                *)
(*   - tabnas_parse answers for the input when its handle is live at that  *)
(*     instant, and fails with code "handle" when it is not;               *)
(*   - tabnas_grammar_free ends a handle, and is a no-op on an unknown or  *)
(*     an already freed one.                                               *)
(*                                                                         *)
(* Module Clib, which models go/clib/core.go with its mutexes, is shown to *)
(* implement this specification.                                           *)
(***************************************************************************)
EXTENDS Calls

VARIABLES live,      (* the handles a parse can use                         *)
          used,      (* the handles ever given                              *)
          phase,     (* per thread: "idle", "called" or "done"              *)
          req,       (* per thread: the call's arguments                    *)
          reply      (* per thread: the document the call answers with      *)

vars == <<live, used, phase, req, reply>>

Init ==
  /\ live = {}
  /\ used = {}
  /\ phase = [t \in Threads |-> "idle"]
  /\ req = [t \in Threads |-> NoRequest]
  /\ reply = [t \in Threads |-> NoReply]

Invoke(t, q) ==
  /\ phase[t] = "idle"
  /\ phase' = [phase EXCEPT ![t] = "called"]
  /\ req' = [req EXCEPT ![t] = q]
  /\ UNCHANGED <<live, used, reply>>

Answer(t, d) ==
  /\ phase[t] = "called"
  /\ phase' = [phase EXCEPT ![t] = "done"]
  /\ reply' = [reply EXCEPT ![t] = d]
  /\ UNCHANGED req

\* A broken call: its arguments are refused and nothing else happens.
Refuse(t) ==
  /\ req[t].text \in {"badptr", "refused"}
  /\ Answer(t, Doc("usage"))
  /\ UNCHANGED <<live, used>>

Load(t) ==
  /\ req[t].op = "grammar"
  /\ req[t].text = "none"
  /\ \E h \in Handle \ used :
       /\ Answer(t, HandleDoc(h))
       /\ used' = used \cup {h}
       /\ live' = live \cup {h}

Parse(t) ==
  /\ req[t].op = "parse"
  /\ req[t].text # "badptr"
  /\ Answer(t, IF req[t].h \in live THEN Doc(Verdict(req[t].text))
                                    ELSE Doc("nohandle"))
  /\ UNCHANGED <<live, used>>

Free(t) ==
  /\ req[t].op = "free"
  /\ live' = live \ {req[t].h}
  /\ Answer(t, Doc("void"))
  /\ UNCHANGED used

Return(t) ==
  /\ phase[t] = "done"
  /\ phase' = [phase EXCEPT ![t] = "idle"]
  /\ req' = [req EXCEPT ![t] = NoRequest]
  /\ reply' = [reply EXCEPT ![t] = NoReply]
  /\ UNCHANGED <<live, used>>

Next ==
  \E t \in Threads :
    \/ \E q \in Request : Invoke(t, q)
    \/ Refuse(t) \/ Load(t) \/ Parse(t) \/ Free(t)
    \/ Return(t)

Spec == Init /\ [][Next]_vars

==============================================================================
