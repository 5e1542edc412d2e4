-------------------------------- MODULE Facade --------------------------------
(***************************************************************************)
(* The public calls of the TypeScript and the Go package: read a source,   *)
(* have the shared compiler emit a grammar, install it on an engine.       *)
(*   TypeScript  parseEbnf, ebnf in converter.ts; the plugin in ebnf.ts    *)
(*   Go          Ebnf, emitSafely, Install in facade.go                    *)
(* One process holds an engine per port and calls them in any order.       *)
(*                                                                         *)
(* A source is what its reading, its compilation and its installation come *)
(* to: the compiler and the engine are external, and a Go compiler panics  *)
(* where it does not return an error.                                      *)
(***************************************************************************)
EXTENDS Naturals

CONSTANTS Sources,    (* records [read, emit, install, prefix] as in Source  *)
          MaxCalls    (* bound: the calls made                               *)

Ports == {"ts", "go"}

\* read: a named rejection, an error of the engine, or neither.  emit: how the
\* compiler ends.  prefix: whose name its message begins with.
Source ==
  [read : {"ok", "named", "engine"}, emit : {"spec", "error", "panic-error", "panic-text", "panic-other"},
   install : {"ok", "refused"}, prefix : {"bnf", "abnf", "other"}]

VARIABLES calls,     (* how many calls there have been                       *)
          parser,    (* the TypeScript reader's engine has been built        *)
          installed, (* the sources whose grammars an engine carries         *)
          call,      (* the call that runs: [port, src, install], or <<>>    *)
          pc,        (* "idle", "read", "emit" or "install"                  *)
          replies    (* every call with what it came to: [call, kind, stamp,
                        cause], the stamp whose name the message begins with *)

vars == <<calls, parser, installed, call, pc, replies>>

Init ==
  /\ calls = 0 /\ parser = FALSE /\ installed = [p \in Ports |-> {}]
  /\ call = <<>> /\ pc = "idle" /\ replies = {}

\* ebnf(src), ebnf.toSpec(src); Install(j, src), ToSpec(src).
Call(port) ==
  /\ pc = "idle" /\ calls < MaxCalls /\ calls' = calls + 1 /\ pc' = "read"
  /\ \E src \in Sources, install \in BOOLEAN : call' = [port |-> port, src |-> src, install |-> install]
  /\ UNCHANGED <<parser, installed, replies>>

Reply(kind, stamp, cause) ==
  /\ replies' = replies \cup {[call |-> call, kind |-> kind, stamp |-> stamp, cause |-> cause]}
  /\ pc' = "idle" /\ call' = <<>>

\* A named rejection is passed on as it is, any other error becomes one.
parseEbnf ==
  /\ pc = "read" /\ parser' = (parser \/ call.port = "ts")
  /\ CASE call.src.read = "ok" -> pc' = "emit" /\ UNCHANGED <<call, replies>>
       [] call.src.read = "named" -> Reply("ParseError", "ebnf", FALSE)
       [] call.src.read = "engine" -> Reply("ParseError", "ebnf", call.port = "ts")
  /\ UNCHANGED <<calls, installed>>

restamp(prefix) == IF prefix \in {"bnf", "abnf"} THEN "ebnf" ELSE prefix

\* Mutant: a grammar goes to the engine of whoever asked for it, to install or not.
EmittedInstall == pc' = "install" /\ UNCHANGED <<call, replies>>

\* Where the emitted grammar goes.
Emitted ==
  IF call.install THEN pc' = "install" /\ UNCHANGED <<call, replies>> ELSE Reply("spec", "none", FALSE)

\* TypeScript: whatever is thrown becomes a compile error around it.
emitTs ==
  /\ pc = "emit" /\ call.port = "ts"
  /\ IF call.src.emit = "spec" THEN Emitted
     ELSE Reply("CompileError", restamp(call.src.prefix), TRUE)
  /\ UNCHANGED <<calls, parser, installed>>

\* Mutant: the text of a panic is kept, its value is not.
emitSafelyText ==
  /\ pc = "emit" /\ call.port = "go"
  /\ CASE call.src.emit = "spec" -> Emitted
       [] call.src.emit = "error" -> Reply("CompileError", restamp(call.src.prefix), TRUE)
       [] call.src.emit \in {"panic-error", "panic-text"} -> Reply("CompileError", restamp(call.src.prefix), FALSE)
       [] call.src.emit = "panic-other" -> Reply("panic", "other", FALSE)
  /\ UNCHANGED <<calls, parser, installed>>

\* Go: a panic with an error keeps it as the cause, one with a text has none,
\* one with anything else goes on.
emitSafely ==
  /\ pc = "emit" /\ call.port = "go"
  /\ CASE call.src.emit = "spec" -> Emitted
       [] call.src.emit \in {"error", "panic-error"} -> Reply("CompileError", restamp(call.src.prefix), TRUE)
       [] call.src.emit = "panic-text" -> Reply("CompileError", restamp(call.src.prefix), FALSE)
       [] call.src.emit = "panic-other" -> Reply("panic", "other", FALSE)
  /\ UNCHANGED <<calls, parser, installed>>

\* The engine takes the grammar or refuses it, with no frame around its error.
install ==
  /\ pc = "install"
  /\ IF call.src.install = "ok"
       THEN /\ installed' = [installed EXCEPT ![call.port] = @ \cup {call.src}]
            /\ Reply("spec", "none", FALSE)
       ELSE Reply("engine", "other", FALSE) /\ UNCHANGED installed
  /\ UNCHANGED <<calls, parser>>

Next == (\E port \in Ports : Call(port)) \/ parseEbnf \/ emitTs \/ emitSafely \/ install
Spec == Init /\ [][Next]_vars

-----------------------------------------------------------------------------
\* An engine carries a grammar only if some call read it, compiled it and
\* was asked to install it: a call that fails on the way, and a bare
\* conversion, leave every engine as it was.
InstalledOnDemand ==
  \A p \in Ports : \A src \in installed[p] :
    \E r \in replies : r.call = [port |-> p, src |-> src, install |-> TRUE] /\ r.kind = "spec"

\* Whatever the ports' compilers make of a source, a caller of either port
\* is told the same: the same kind of error, under this package's name
\* wherever the compiler wrote its own, and with the compiler's error (and
\* so the span it carries) still to be had behind it.  The exception is a
\* Go panic with a value that is neither an error nor a text.
PortsAnswerAlike ==
  \A a, b \in replies : a.call.src = b.call.src /\ a.call.install = b.call.install =>
    \/ "panic" \in {a.kind, b.kind} /\ a.call.src.emit = "panic-other"
    \/ /\ a.kind = b.kind /\ a.stamp = b.stamp
       /\ a.cause = b.cause \/ a.call.src.read = "engine" \/ a.call.src.emit = "panic-text"

==============================================================================
