------------------------------- MODULE Rejection -------------------------------
(***************************************************************************)
(* rs/src/parser_ebnf.rs: how a diagnostic gets out of a parse.  A rule    *)
(* action can answer the engine only an error of the engine's, so the      *)
(* finished diagnostic is left in a slot of the thread, and                *)
(* parse_ebnf_raw, which has cleared the slot before the parse, reads it   *)
(* back after.  Threads share one engine, built by the first that asks.    *)
(*                                                                         *)
(* A diagnostic is <<thread, parse, n>>, the n-th that the parse raised.   *)
(* The engine may go on to other alternatives after one, end with an       *)
(* error that is not it, or panic out of the parse.                        *)
(***************************************************************************)
EXTENDS Naturals

CONSTANTS Threads,
          MaxParses,    (* bound: the parses of a thread                     *)
          MaxRejects    (* bound: the diagnostics raised in one parse        *)

ASSUME Bounds == MaxParses \in Nat /\ MaxRejects \in Nat

VARIABLES parser,    (* "none", "building", "ready", or "failed" for good    *)
          builder,   (* the thread that builds it, once one does             *)
          pc,        (* where each thread is in parse_ebnf_raw               *)
          parses,    (* the parses it has begun                              *)
          raised,    (* the diagnostics its parse has raised                 *)
          slot,      (* its REJECTION                                        *)
          code,      (* what the engine answered                             *)
          taken,     (* what was in the slot then                            *)
          reply      (* what parse_ebnf_raw answers                          *)

vars == <<parser, builder, pc, parses, raised, slot, code, taken, reply>>

None == <<>>
Diagnostics == Threads \X (1..MaxParses) \X (1..MaxRejects)

Init ==
  /\ parser = "none" /\ builder \in Threads
  /\ pc = [t \in Threads |-> "idle"] /\ parses = [t \in Threads |-> 0]
  /\ raised = [t \in Threads |-> 0] /\ slot = [t \in Threads |-> None]
  /\ code = [t \in Threads |-> "none"] /\ taken = [t \in Threads |-> None]
  /\ reply = [t \in Threads |-> <<"none", None>>]

Goto(t, place) == pc' = [pc EXCEPT ![t] = place]

parse_ebnf_raw(t) ==
  /\ pc[t] = "idle" /\ parses[t] < MaxParses
  /\ parses' = [parses EXCEPT ![t] = @ + 1] /\ raised' = [raised EXCEPT ![t] = 0]
  /\ Goto(t, "parser") /\ UNCHANGED <<parser, builder, slot, code, taken, reply>>

\* Mutant: who waited for the engine is not let in once it is built.
ebnf_parserOnce(t) ==
  /\ pc[t] = "parser"
  /\ \/ parser = "none" /\ parser' = "building" /\ builder' = t /\ UNCHANGED <<pc, reply>>
     \/ parser = "building" /\ builder = t /\ parser' = "ready" /\ Goto(t, "clear") /\ UNCHANGED <<builder, reply>>
  /\ UNCHANGED <<parses, raised, slot, code, taken>>

\* OnceLock: the first builds it, whoever comes meanwhile waits, and what it
\* came to, the engine or a message, is what every later call is given.
ebnf_parser(t) ==
  /\ pc[t] = "parser"
  /\ \/ parser = "none" /\ parser' = "building" /\ builder' = t /\ UNCHANGED <<pc, reply>>
     \/ /\ parser = "building" /\ builder = t /\ parser' \in {"ready", "failed"}
        /\ UNCHANGED <<builder, pc, reply>>
     \/ parser = "ready" /\ Goto(t, "clear") /\ UNCHANGED <<parser, builder, reply>>
     \/ /\ parser = "failed" /\ Goto(t, "idle")
        /\ reply' = [reply EXCEPT ![t] = <<"message", None>>] /\ UNCHANGED <<parser, builder>>
  /\ UNCHANGED <<parses, raised, slot, code, taken>>

\* Mutant: taking the diagnostic is thought to be enough.
clear_rejectionNot(t) ==
  /\ pc[t] = "clear" /\ Goto(t, "parse")
  /\ UNCHANGED <<parser, builder, parses, raised, slot, code, taken, reply>>

clear_rejection(t) ==
  /\ pc[t] = "clear" /\ slot' = [slot EXCEPT ![t] = None] /\ Goto(t, "parse")
  /\ UNCHANGED <<parser, builder, parses, raised, code, taken, reply>>

\* The first one raised stays in the slot.
reject(t) ==
  /\ pc[t] = "parse" /\ raised[t] < MaxRejects
  /\ raised' = [raised EXCEPT ![t] = @ + 1]
  /\ slot' = [slot EXCEPT ![t] = IF @ = None THEN <<t, parses[t], raised[t] + 1>> ELSE @]
  /\ UNCHANGED <<parser, builder, pc, parses, code, taken, reply>>

\* The engine answers: REJECT_CODE only where an action raised it.
Parsed(t) ==
  /\ pc[t] = "parse" /\ Goto(t, "take")
  /\ \E c \in {"ok", "reject", "depth", "nest", "engine"} :
       (c = "reject" => raised[t] > 0) /\ code' = [code EXCEPT ![t] = c]
  /\ UNCHANGED <<parser, builder, parses, raised, slot, taken, reply>>

Panic(t) ==
  /\ pc[t] = "parse" /\ Goto(t, "idle")
  /\ reply' = [reply EXCEPT ![t] = <<"panic", None>>]
  /\ UNCHANGED <<parser, builder, parses, raised, slot, code, taken>>

\* Mutant: one slot for the process: to take a diagnostic is to take all.
taken_rejectionShared(t) ==
  /\ pc[t] = "take" /\ Goto(t, "answer")
  /\ taken' = [taken EXCEPT ![t] = slot[t]] /\ slot' = [u \in Threads |-> None]
  /\ UNCHANGED <<parser, builder, parses, raised, code, reply>>

taken_rejection(t) ==
  /\ pc[t] = "take" /\ Goto(t, "answer")
  /\ taken' = [taken EXCEPT ![t] = slot[t]] /\ slot' = [slot EXCEPT ![t] = None]
  /\ UNCHANGED <<parser, builder, parses, raised, code, reply>>

Answer(t) ==
  /\ pc[t] = "answer" /\ Goto(t, "idle")
  /\ reply' = [reply EXCEPT ![t] =
       CASE code[t] = "ok" -> <<"ok", None>>
         [] code[t] = "reject" /\ taken[t] # None -> <<"rejected", taken[t]>>
         [] code[t] \in {"depth", "nest"} \/ (code[t] = "reject" /\ taken[t] = None) -> <<"message", None>>
         [] code[t] = "engine" -> <<"engine", None>>]
  /\ UNCHANGED <<parser, builder, parses, raised, slot, code, taken>>

\* What a parse does of itself; a call, a rejection and a panic come from elsewhere.
Step(t) == ebnf_parser(t) \/ clear_rejection(t) \/ Parsed(t) \/ taken_rejection(t) \/ Answer(t)

Next == \E t \in Threads : parse_ebnf_raw(t) \/ Step(t) \/ reject(t) \/ Panic(t)

\* A thread that is in the function runs on, and the engine ends every parse.
Spec == Init /\ [][Next]_vars /\ \A t \in Threads : WF_vars(Step(t))

-----------------------------------------------------------------------------
TypeOK ==
  /\ parser \in {"none", "building", "ready", "failed"} /\ builder \in Threads
  /\ pc \in [Threads -> {"idle", "parser", "clear", "parse", "take", "answer"}]
  /\ parses \in [Threads -> 0..MaxParses] /\ raised \in [Threads -> 0..MaxRejects]
  /\ slot \in [Threads -> Diagnostics \cup {None}] /\ taken \in [Threads -> Diagnostics \cup {None}]
  /\ code \in [Threads -> {"none", "ok", "reject", "depth", "nest", "engine"}]
  /\ reply \in [Threads -> {"none", "ok", "rejected", "message", "engine", "panic"}
                             \X (Diagnostics \cup {None})]

\* A diagnostic that is answered is the first of the very parse it is the
\* answer to: not of another thread's, not one left behind by a parse that
\* panicked, nor by one that raised it and got over it.
ReportsItsOwn ==
  \A t \in Threads : reply[t][1] = "rejected" /\ pc[t] = "idle" => reply[t][2] = <<t, parses[t], 1>>

\* And a parse that ends in a rejection is always answered with one: the
\* arm without a diagnostic is never taken ("Unreachable in practice").
NeverNameless ==
  \A t \in Threads : pc[t] = "answer" /\ code[t] = "reject" => taken[t] # None

\* Every parse ends, though all of them may wait for one engine to be built.
EveryParseEnds == \A t \in Threads : pc[t] # "idle" ~> pc[t] = "idle"

==============================================================================
