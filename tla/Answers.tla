-------------------------------- MODULE Answers --------------------------------
(***************************************************************************)
(* How a call of the packages answers: a parse of the Rust port, by its    *)
(* thread's rejection slot, or the facades of the other two.  They share   *)
(* nothing: a behaviour is one or the other, chosen at the start.          *)
(***************************************************************************)
EXTENDS Rejection

CONSTANTS Sources, MaxCalls                              (* Facade          *)

VARIABLES part,                                          (* "rust" or "facades" *)
          calls, tsParser, installed, call, place, replies   (* Facade          *)

F == INSTANCE Facade WITH parser <- tsParser, pc <- place

facadeVars == <<calls, tsParser, installed, call, place, replies>>

BothInit == part \in {"rust", "facades"} /\ Init /\ F!Init
BothNext ==
  \/ part = "rust" /\ Next /\ UNCHANGED <<part, facadeVars>>
  \/ part = "facades" /\ F!Next /\ UNCHANGED <<part, vars>>

\* The fairness of Rejection: nobody has to make a call.
BothSpec ==
  BothInit /\ [][BothNext]_<<part, vars, facadeVars>> /\ \A t \in Threads : WF_vars(part = "rust" /\ Step(t))

\* An engine carries what some call was asked to install, and nothing else.
InstalledOnDemand == F!InstalledOnDemand

\* A caller of either port is told the same of a source.
PortsAnswerAlike == F!PortsAnswerAlike
================================================================================
