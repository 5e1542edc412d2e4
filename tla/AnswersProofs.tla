----------------------------- MODULE AnswersProofs -----------------------------
(***************************************************************************)
(* Proofs about how a call of the packages answers: about Rejection, for   *)
(* any threads and any bounds on the parses and the diagnostics of a       *)
(* parse, and about Facade, for any sources and any number of calls.       *)
(***************************************************************************)
EXTENDS Answers, TLAPS

Codes == {"ok", "reject", "depth", "nest", "engine"}

\* What a diagnostic is to a parse of thread t that has raised n: the first, or none.
FirstOf(t, d) == \/ d = None /\ raised[t] = 0
                 \/ d = <<t, parses[t], 1>> /\ raised[t] > 0

\* A parse that is under way has been begun, raises
\* nothing before the slot is cleared, and has a code once it is over.
Under ==
  /\ \A t \in Threads : pc[t] # "idle" => parses[t] > 0
  /\ \A t \in Threads : pc[t] \in {"parser", "clear"} => raised[t] = 0
  /\ \A t \in Threads : pc[t] \in {"take", "answer"} => code[t] \in Codes
  /\ \A t \in Threads : pc[t] \in {"take", "answer"} /\ code[t] = "reject" => raised[t] > 0

\* The slot, from the time it was cleared until it is emptied, and then what
\* was in it, hold the first diagnostic of this parse.
Held ==
  /\ \A t \in Threads : pc[t] \in {"parse", "take"} => FirstOf(t, slot[t])
  /\ \A t \in Threads : pc[t] = "answer" => FirstOf(t, taken[t])

IInv == TypeOK /\ Under /\ Held /\ ReportsItsOwn

-----------------------------------------------------------------------------
LEMMA NoneIsNoDiagnostic == \A a, b, c : <<a, b, c>> # None
  BY DEF None

LEMMA InitIInv == Init => IInv
  BY Bounds DEF Init, IInv, TypeOK, Under, Held, ReportsItsOwn, None

-----------------------------------------------------------------------------
(* One lemma for each action. *)

LEMMA BeginKeeps == ASSUME IInv, NEW t \in Threads, parse_ebnf_raw(t) PROVE IInv'
  <1>1. TypeOK'  BY Bounds DEF IInv, TypeOK, parse_ebnf_raw, Goto
  <1>2. Under' /\ Held' /\ ReportsItsOwn'
    BY Bounds DEF IInv, TypeOK, Under, Held, FirstOf, ReportsItsOwn, parse_ebnf_raw, Goto
  <1> QED  BY <1>1, <1>2 DEF IInv

LEMMA ParserKeeps == ASSUME IInv, NEW t \in Threads, ebnf_parser(t) PROVE IInv'
  <1>1. TypeOK'  BY DEF IInv, TypeOK, ebnf_parser, Goto
  <1>2. Under' /\ Held' /\ ReportsItsOwn'
    BY DEF IInv, TypeOK, Under, Held, FirstOf, ReportsItsOwn, ebnf_parser, Goto
  <1> QED  BY <1>1, <1>2 DEF IInv

LEMMA ClearKeeps == ASSUME IInv, NEW t \in Threads, clear_rejection(t) PROVE IInv'
  <1>1. TypeOK'  BY DEF IInv, TypeOK, clear_rejection, Goto
  <1>2. Under' /\ Held' /\ ReportsItsOwn'
    BY DEF IInv, TypeOK, Under, Held, FirstOf, ReportsItsOwn, clear_rejection, Goto
  <1> QED  BY <1>1, <1>2 DEF IInv

LEMMA RejectKeeps == ASSUME IInv, NEW t \in Threads, reject(t) PROVE IInv'
  <1>1. pc[t] = "parse" /\ parses[t] \in 1..MaxParses /\ raised[t] + 1 \in 1..MaxRejects
    BY Bounds DEF IInv, TypeOK, Under, reject
  <1>2. <<t, parses[t], raised[t] + 1>> \in Diagnostics  BY <1>1 DEF Diagnostics
  <1>3. TypeOK'  BY <1>1, <1>2 DEF IInv, TypeOK, reject
  <1>4. Under' /\ ReportsItsOwn'  BY <1>1 DEF IInv, TypeOK, Under, ReportsItsOwn, reject
  <1>5. Held'
    <2>1. FirstOf(t, slot[t])'
      <3>1. raised'[t] = raised[t] + 1 /\ parses' = parses /\ raised'[t] > 0
        BY <1>1 DEF IInv, TypeOK, reject
      <3>2. CASE slot[t] = None /\ raised[t] = 0
        <4>1. slot'[t] = <<t, parses[t], 1>>  BY <1>1, <3>2 DEF IInv, TypeOK, reject
        <4> QED  BY <3>1, <4>1 DEF FirstOf
      <3>3. CASE slot[t] = <<t, parses[t], 1>>
        <4>1. slot'[t] = slot[t]  BY <3>3, NoneIsNoDiagnostic DEF IInv, TypeOK, reject
        <4> QED  BY <3>1, <3>3, <4>1 DEF FirstOf
      <3> QED  BY <1>1, <3>2, <3>3 DEF IInv, Held, FirstOf
    <2>2. ASSUME NEW u \in Threads, u # t
          PROVE  slot'[u] = slot[u] /\ raised'[u] = raised[u] /\ parses' = parses /\ taken' = taken /\ pc' = pc
      BY <2>2 DEF IInv, TypeOK, reject
    <2> QED  BY <1>1, <2>1, <2>2 DEF IInv, Held, FirstOf, reject
  <1> QED  BY <1>3, <1>4, <1>5 DEF IInv

LEMMA ParsedKeeps == ASSUME IInv, NEW t \in Threads, Parsed(t) PROVE IInv'
  <1>1. TypeOK'  BY DEF IInv, TypeOK, Parsed, Goto
  <1>2. Under' /\ Held' /\ ReportsItsOwn'
    BY DEF IInv, TypeOK, Under, Held, FirstOf, Codes, ReportsItsOwn, Parsed, Goto
  <1> QED  BY <1>1, <1>2 DEF IInv

LEMMA PanicKeeps == ASSUME IInv, NEW t \in Threads, Panic(t) PROVE IInv'
  <1>1. TypeOK'  BY DEF IInv, TypeOK, Panic, Goto
  <1>2. Under' /\ Held' /\ ReportsItsOwn'
    BY DEF IInv, TypeOK, Under, Held, FirstOf, ReportsItsOwn, Panic, Goto
  <1> QED  BY <1>1, <1>2 DEF IInv

LEMMA TakeKeeps == ASSUME IInv, NEW t \in Threads, taken_rejection(t) PROVE IInv'
  <1>1. TypeOK'  BY DEF IInv, TypeOK, taken_rejection, Goto
  <1>2. Under' /\ Held' /\ ReportsItsOwn'
    BY DEF IInv, TypeOK, Under, Held, FirstOf, ReportsItsOwn, taken_rejection, Goto
  <1> QED  BY <1>1, <1>2 DEF IInv

LEMMA AnswerKeeps == ASSUME IInv, NEW t \in Threads, Answer(t) PROVE IInv'
  <1>1. TypeOK'  BY DEF IInv, TypeOK, Under, Codes, Answer, Goto
  <1>2. Under' /\ Held' /\ ReportsItsOwn'
    BY DEF IInv, TypeOK, Under, Held, FirstOf, Codes, ReportsItsOwn, Answer, Goto
  <1> QED  BY <1>1, <1>2 DEF IInv

LEMMA NextIInv == IInv /\ [Next]_vars => IInv'
  <1> SUFFICES ASSUME IInv, [Next]_vars PROVE IInv'  OBVIOUS
  <1>1. CASE UNCHANGED vars
    BY <1>1 DEF vars, IInv, TypeOK, Under, Held, FirstOf, ReportsItsOwn
  <1>2. CASE Next
    BY <1>2, BeginKeeps, ParserKeeps, ClearKeeps, RejectKeeps, ParsedKeeps, PanicKeeps, TakeKeeps, AnswerKeeps
       DEF Next, Step
  <1> QED  BY <1>1, <1>2

\* The invariant - what the slot and what was taken from it may hold while a
\* parse is on its way - holds at first and every step of every thread keeps it.
THEOREM Inductive == Spec => []IInv
  BY InitIInv, NextIInv, PTL DEF Spec

\* Types, for any threads and bounds.
THEOREM TypeCorrect == Spec => []TypeOK
  <1>1. IInv => TypeOK  BY DEF IInv
  <1> QED  BY <1>1, Inductive, PTL

\* An answered diagnostic is the first of the very parse it is the answer to.
THEOREM AnswersItsOwn == Spec => []ReportsItsOwn
  <1>1. IInv => ReportsItsOwn  BY DEF IInv
  <1> QED  BY <1>1, Inductive, PTL

\* A parse that ends in a rejection is answered with a diagnostic.
THEOREM AlwaysNamed == Spec => []NeverNameless
  <1>1. IInv => NeverNameless
    <2> SUFFICES ASSUME IInv, NEW t \in Threads, pc[t] = "answer", code[t] = "reject"
                 PROVE  taken[t] # None
      BY DEF NeverNameless
    <2>1. raised[t] > 0 /\ FirstOf(t, taken[t])  BY DEF IInv, Under, Held
    <2>2. raised[t] # 0  BY <2>1
    <2> QED  BY <2>1, <2>2, NoneIsNoDiagnostic DEF FirstOf
  <1> QED  BY <1>1, Inductive, PTL

-----------------------------------------------------------------------------
(* The facades.  A reply is a function of the call it answers: nothing of  *)
(* an earlier call gets into it.  Answered writes that function down, and  *)
(* the two ports' answers to one source are then two values of it.         *)

Calls == [port : F!Ports, src : Sources, install : BOOLEAN]

\* What a call is answered, by its port and what its source comes to.
Says(c, kind, stamp, cause) == [call |-> c, kind |-> kind, stamp |-> stamp, cause |-> cause]

EmitFails(c) ==
  IF c.port = "go" /\ c.src.emit = "panic-other" THEN Says(c, "panic", "other", FALSE)
  ELSE Says(c, "CompileError", F!restamp(c.src.prefix), c.port = "ts" \/ c.src.emit # "panic-text")

Answered(c) ==
  IF c.src.read = "named" THEN Says(c, "ParseError", "ebnf", FALSE)
  ELSE IF c.src.read = "engine" THEN Says(c, "ParseError", "ebnf", c.port = "ts")
  ELSE IF c.src.emit # "spec" THEN EmitFails(c)
  ELSE IF c.install /\ c.src.install # "ok" THEN Says(c, "engine", "other", FALSE)
  ELSE Says(c, "spec", "none", FALSE)

\* A call that runs, and what it has come past.
Running ==
  /\ place \in {"idle", "read", "emit", "install"}
  /\ place # "idle" => call \in Calls
  /\ place \in {"emit", "install"} => call.src.read = "ok"
  /\ place = "install" => call.src.emit = "spec" /\ call.install

\* Engines carry sources, and replies are those that calls are answered.
Answering ==
  /\ installed \in [F!Ports -> SUBSET Sources]
  /\ \A r \in replies : r.call \in Calls /\ r = Answered(r.call)

FInv == Running /\ Answering /\ F!InstalledOnDemand

-----------------------------------------------------------------------------
LEMMA FInit == F!Init => FInv
  BY DEF F!Init, FInv, Running, Answering, F!InstalledOnDemand

\* A step that answers the call that runs with what it is to be answered.
LEMMA RepliedKeeps ==
  ASSUME FInv, place # "idle", NEW kind, NEW stamp, NEW cause,
         Says(call, kind, stamp, cause) = Answered(call),
         F!Reply(kind, stamp, cause), UNCHANGED installed
  PROVE  FInv'
  <1>1. call \in Calls  BY DEF FInv, Running
  <1>2. replies' = replies \cup {Answered(call)} /\ place' = "idle"  BY DEF F!Reply, Says
  <1>3. Answered(call).call = call  BY DEF Says
  <1>4. Running'  BY <1>2 DEF Running
  <1>5. Answering'  BY <1>1, <1>2, <1>3 DEF FInv, Answering
  <1>6. F!InstalledOnDemand'  BY <1>2 DEF FInv, F!InstalledOnDemand
  <1> QED  BY <1>4, <1>5, <1>6 DEF FInv

LEMMA CallKeeps == ASSUME FInv, NEW port \in F!Ports, F!Call(port) PROVE FInv'
  <1>1. call' \in Calls /\ place' = "read" /\ UNCHANGED <<installed, replies>>
    BY DEF F!Call, Calls
  <1> QED  BY <1>1 DEF FInv, Running, Answering, F!InstalledOnDemand

LEMMA ParseKeeps == ASSUME Sources \subseteq F!Source, FInv, F!parseEbnf PROVE FInv'
  <1>1. place = "read" /\ call \in Calls /\ UNCHANGED installed  BY DEF F!parseEbnf, FInv, Running
  <1>2. call.src.read \in {"ok", "named", "engine"}  BY <1>1 DEF Calls, F!Source
  <1>3. CASE call.src.read = "ok"
    <2>1. place' = "emit" /\ UNCHANGED <<call, replies, installed>>  BY <1>1, <1>3 DEF F!parseEbnf
    <2> QED  BY <1>1, <1>3, <2>1 DEF FInv, Running, Answering, F!InstalledOnDemand
  <1>4. CASE call.src.read = "named"
    <2>1. F!Reply("ParseError", "ebnf", FALSE)  BY <1>4 DEF F!parseEbnf
    <2>2. Says(call, "ParseError", "ebnf", FALSE) = Answered(call)  BY <1>4 DEF Answered
    <2> QED  BY <1>1, <2>1, <2>2, RepliedKeeps
  <1>5. CASE call.src.read = "engine"
    <2>1. F!Reply("ParseError", "ebnf", call.port = "ts")  BY <1>5 DEF F!parseEbnf
    <2>2. Says(call, "ParseError", "ebnf", call.port = "ts") = Answered(call)  BY <1>5 DEF Answered
    <2> QED  BY <1>1, <2>1, <2>2, RepliedKeeps
  <1> QED  BY <1>2, <1>3, <1>4, <1>5

\* Where an emitted grammar goes, whichever port emitted it.
LEMMA EmittedKeeps ==
  ASSUME FInv, place = "emit", call.src.emit = "spec", F!Emitted, UNCHANGED installed
  PROVE  FInv'
  <1>1. call \in Calls /\ call.src.read = "ok"  BY DEF FInv, Running
  <1>2. CASE call.install
    <2>1. place' = "install" /\ UNCHANGED <<call, replies>>  BY <1>2 DEF F!Emitted
    <2> QED  BY <1>1, <1>2, <2>1 DEF FInv, Running, Answering, F!InstalledOnDemand
  <1>3. CASE ~call.install
    <2>1. F!Reply("spec", "none", FALSE)  BY <1>3 DEF F!Emitted
    <2>2. Says(call, "spec", "none", FALSE) = Answered(call)  BY <1>1, <1>3 DEF Answered
    <2> QED  BY <2>1, <2>2, RepliedKeeps
  <1> QED  BY <1>2, <1>3

LEMMA EmitTsKeeps == ASSUME FInv, F!emitTs PROVE FInv'
  <1>1. place = "emit" /\ call.port = "ts" /\ call.src.read = "ok" /\ UNCHANGED installed
    BY DEF F!emitTs, FInv, Running
  <1>2. CASE call.src.emit = "spec"
    <2>1. F!Emitted  BY <1>2 DEF F!emitTs
    <2> QED  BY <1>1, <1>2, <2>1, EmittedKeeps
  <1>3. CASE call.src.emit # "spec"
    <2>1. F!Reply("CompileError", F!restamp(call.src.prefix), TRUE)  BY <1>3 DEF F!emitTs
    <2>2. Says(call, "CompileError", F!restamp(call.src.prefix), TRUE) = Answered(call)
      BY <1>1, <1>3 DEF Answered, EmitFails
    <2> QED  BY <1>1, <2>1, <2>2, RepliedKeeps
  <1> QED  BY <1>2, <1>3

LEMMA EmitSafelyKeeps == ASSUME Sources \subseteq F!Source, FInv, F!emitSafely PROVE FInv'
  <1>1. /\ place = "emit" /\ call.port = "go" /\ call \in Calls /\ call.src.read = "ok" /\ UNCHANGED installed
    BY DEF F!emitSafely, FInv, Running
  <1>2. call.src.emit \in {"spec", "error", "panic-error", "panic-text", "panic-other"}
    BY <1>1 DEF Calls, F!Source
  <1>3. CASE call.src.emit = "spec"
    <2>1. F!Emitted  BY <1>3 DEF F!emitSafely
    <2> QED  BY <1>1, <1>3, <2>1, EmittedKeeps
  <1>4. CASE call.src.emit \in {"error", "panic-error"}
    <2>1. F!Reply("CompileError", F!restamp(call.src.prefix), TRUE)  BY <1>4 DEF F!emitSafely
    <2>2. Says(call, "CompileError", F!restamp(call.src.prefix), TRUE) = Answered(call)
      BY <1>1, <1>4 DEF Answered, EmitFails
    <2> QED  BY <1>1, <2>1, <2>2, RepliedKeeps
  <1>5. CASE call.src.emit = "panic-text"
    <2>1. F!Reply("CompileError", F!restamp(call.src.prefix), FALSE)  BY <1>5 DEF F!emitSafely
    <2>2. Says(call, "CompileError", F!restamp(call.src.prefix), FALSE) = Answered(call)
      BY <1>1, <1>5 DEF Answered, EmitFails
    <2> QED  BY <1>1, <2>1, <2>2, RepliedKeeps
  <1>6. CASE call.src.emit = "panic-other"
    <2>1. F!Reply("panic", "other", FALSE)  BY <1>6 DEF F!emitSafely
    <2>2. Says(call, "panic", "other", FALSE) = Answered(call)
      BY <1>1, <1>6 DEF Answered, EmitFails
    <2> QED  BY <1>1, <2>1, <2>2, RepliedKeeps
  <1> QED  BY <1>2, <1>3, <1>4, <1>5, <1>6

LEMMA InstallKeeps == ASSUME FInv, F!install PROVE FInv'
  <1>1. /\ place = "install" /\ call \in Calls /\ call.src.read = "ok" /\ call.src.emit = "spec" /\ call.install
    BY DEF F!install, FInv, Running
  <1>2. CASE call.src.install # "ok"
    <2>1. F!Reply("engine", "other", FALSE) /\ UNCHANGED installed  BY <1>2 DEF F!install
    <2>2. Says(call, "engine", "other", FALSE) = Answered(call)  BY <1>1, <1>2 DEF Answered
    <2> QED  BY <1>1, <2>1, <2>2, RepliedKeeps
  <1>3. CASE call.src.install = "ok"
    <2>1. /\ installed' = [installed EXCEPT ![call.port] = @ \cup {call.src}]
          /\ F!Reply("spec", "none", FALSE)
      BY <1>3 DEF F!install
    <2>2. Says(call, "spec", "none", FALSE) = Answered(call)  BY <1>1, <1>3 DEF Answered
    <2> DEFINE new == Says(call, "spec", "none", FALSE)
    <2>3. replies' = replies \cup {new} /\ place' = "idle"  BY <2>1 DEF F!Reply, Says
    <2>4. new.call = call /\ new.kind = "spec"  BY DEF Says
    <2>5. new = Answered(new.call)  BY <2>2, <2>4
    <2> HIDE DEF new
    <2>6. call.port \in F!Ports /\ call.src \in Sources  BY <1>1 DEF Calls
    <2>7. installed' \in [F!Ports -> SUBSET Sources]  BY <2>1, <2>6 DEF FInv, Answering
    <2>8. Running'  BY <2>3 DEF Running
    <2>9. Answering'  BY <1>1, <2>3, <2>4, <2>5, <2>7 DEF FInv, Answering
    <2>10. F!InstalledOnDemand'
      <3> SUFFICES ASSUME NEW p \in F!Ports, NEW src \in installed'[p]
                   PROVE  \E r \in replies' : r.call = [port |-> p, src |-> src, install |-> TRUE] /\ r.kind = "spec"
        BY DEF F!InstalledOnDemand
      <3>1. CASE src \in installed[p]
        BY <3>1, <2>3 DEF FInv, F!InstalledOnDemand
      <3>2. CASE src \notin installed[p]
        <4>1. p = call.port /\ src = call.src  BY <3>2, <2>1, <2>6 DEF FInv, Answering
        <4>2. call = [port |-> p, src |-> src, install |-> TRUE]  BY <1>1, <4>1 DEF Calls
        <4> QED  BY <4>2, <2>3, <2>4
      <3> QED  BY <3>1, <3>2
    <2> QED  BY <2>8, <2>9, <2>10 DEF FInv
  <1> QED  BY <1>2, <1>3

LEMMA FNext == ASSUME Sources \subseteq F!Source, FInv, [F!Next]_(F!vars) PROVE FInv'
  <1>1. CASE UNCHANGED F!vars
    BY <1>1 DEF F!vars, FInv, Running, Answering, F!InstalledOnDemand
  <1>2. CASE F!Next
    BY <1>2, CallKeeps, ParseKeeps, EmitTsKeeps, EmitSafelyKeeps, InstallKeeps DEF F!Next
  <1> QED  BY <1>1, <1>2

\* Two replies to one source, asked for alike, are two values of Answered.
LEMMA AnsweredAlike == FInv => F!PortsAnswerAlike
  <1> SUFFICES ASSUME FInv, NEW a \in replies, NEW b \in replies,
                      a.call.src = b.call.src, a.call.install = b.call.install
               PROVE  \/ "panic" \in {a.kind, b.kind} /\ a.call.src.emit = "panic-other"
                      \/ /\ a.kind = b.kind /\ a.stamp = b.stamp
                         /\ a.cause = b.cause \/ a.call.src.read = "engine" \/ a.call.src.emit = "panic-text"
    BY DEF F!PortsAnswerAlike
  <1>1. a = Answered(a.call) /\ b = Answered(b.call)  BY DEF FInv, Answering
  <1> DEFINE src == a.call.src
  <1>2. CASE src.read = "named"
    <2>1. a = Says(a.call, "ParseError", "ebnf", FALSE) /\ b = Says(b.call, "ParseError", "ebnf", FALSE)
      BY <1>1, <1>2 DEF Answered
    <2>2. a.kind = b.kind /\ a.stamp = b.stamp  BY <2>1 DEF Says
    <2>3. a.cause = FALSE /\ b.cause = FALSE  BY <2>1 DEF Says
    <2> QED  BY <2>2, <2>3
  <1>3. CASE src.read = "engine"
    <2>1. /\ a = Says(a.call, "ParseError", "ebnf", a.call.port = "ts")
          /\ b = Says(b.call, "ParseError", "ebnf", b.call.port = "ts")
      BY <1>1, <1>3 DEF Answered
    <2>2. a.kind = "ParseError" /\ b.kind = "ParseError" /\ a.stamp = "ebnf" /\ b.stamp = "ebnf"
      BY <2>1 DEF Says
    <2> QED  BY <1>3, <2>2
  <1>4. CASE src.read \notin {"named", "engine"} /\ src.emit # "spec"
    <2>1. a = EmitFails(a.call) /\ b = EmitFails(b.call)  BY <1>1, <1>4 DEF Answered
    <2>2. CASE src.emit = "panic-other"
      <3>1. \A c : c.src.emit = "panic-other" =>
              EmitFails(c) = IF c.port = "go" THEN Says(c, "panic", "other", FALSE)
                             ELSE Says(c, "CompileError", F!restamp(c.src.prefix), TRUE)
        BY DEF EmitFails
      <3>2. CASE a.call.port = "go" \/ b.call.port = "go"
        <4>1. "panic" \in {a.kind, b.kind}  BY <2>1, <2>2, <3>1, <3>2 DEF Says
        <4> QED  BY <2>2, <4>1
      <3>3. CASE a.call.port # "go" /\ b.call.port # "go"
        <4>1. /\ a = Says(a.call, "CompileError", F!restamp(src.prefix), TRUE)
              /\ b = Says(b.call, "CompileError", F!restamp(src.prefix), TRUE)
          BY <2>1, <2>2, <3>1, <3>3
        <4>2. a.kind = b.kind /\ a.stamp = b.stamp  BY <4>1 DEF Says
        <4>3. a.cause = TRUE /\ b.cause = TRUE  BY <4>1 DEF Says
        <4> QED  BY <4>2, <4>3
      <3> QED  BY <3>2, <3>3
    <2>3. CASE src.emit # "panic-other"
      <3>1. /\ a = Says(a.call, "CompileError", F!restamp(src.prefix), a.call.port = "ts" \/ src.emit # "panic-text")
            /\ b = Says(b.call, "CompileError", F!restamp(src.prefix), b.call.port = "ts" \/ src.emit # "panic-text")
        BY <2>1, <2>3 DEF EmitFails
      <3>2. a.kind = b.kind /\ a.stamp = b.stamp  BY <3>1 DEF Says
      <3>3. src.emit # "panic-text" => a.cause = TRUE /\ b.cause = TRUE
        <4>1. SUFFICES ASSUME src.emit # "panic-text" PROVE a.cause = TRUE /\ b.cause = TRUE
          OBVIOUS
        <4>2. /\ a = Says(a.call, "CompileError", F!restamp(src.prefix), TRUE)
              /\ b = Says(b.call, "CompileError", F!restamp(src.prefix), TRUE)
          BY <2>1, <2>3, <4>1 DEF EmitFails
        <4> QED  BY <4>2 DEF Says
      <3> QED  BY <3>2, <3>3
    <2> QED  BY <2>2, <2>3
  <1>5. CASE src.read \notin {"named", "engine"} /\ src.emit = "spec"
    <2>1. CASE a.call.install /\ src.install # "ok"
      <3>1. a = Says(a.call, "engine", "other", FALSE) /\ b = Says(b.call, "engine", "other", FALSE)
        BY <1>1, <1>5, <2>1 DEF Answered
      <3>2. a.kind = b.kind /\ a.stamp = b.stamp  BY <3>1 DEF Says
      <3>3. a.cause = FALSE /\ b.cause = FALSE  BY <3>1 DEF Says
      <3> QED  BY <3>2, <3>3
    <2>2. CASE ~(a.call.install /\ src.install # "ok")
      <3>1. a = Says(a.call, "spec", "none", FALSE) /\ b = Says(b.call, "spec", "none", FALSE)
        BY <1>1, <1>5, <2>2 DEF Answered
      <3>2. a.kind = b.kind /\ a.stamp = b.stamp  BY <3>1 DEF Says
      <3>3. a.cause = FALSE /\ b.cause = FALSE  BY <3>1 DEF Says
      <3> QED  BY <3>2, <3>3
    <2> QED  BY <2>1, <2>2
  <1> QED  BY <1>2, <1>3, <1>4, <1>5

-----------------------------------------------------------------------------
\* Whatever the calls, every reply is the one its call has coming, and an
\* engine carries what some call has been answered for (facade.go, converter.ts
\* and ebnf.ts, every way out of them).
THEOREM FacadeInductive == ASSUME Sources \subseteq F!Source PROVE F!Spec => []FInv
  <1>1. F!Init => FInv  BY FInit
  <1>2. FInv /\ [F!Next]_(F!vars) => FInv'  BY FNext
  <1> QED  BY <1>1, <1>2, PTL DEF F!Spec

\* An engine carries what some call was asked to install, and nothing else
\* (Install in facade.go, the plugin in ebnf.ts).
THEOREM InstallsOnDemand == ASSUME Sources \subseteq F!Source PROVE F!Spec => []InstalledOnDemand
  <1>1. FInv => InstalledOnDemand  BY DEF FInv, InstalledOnDemand
  <1> QED  BY <1>1, FacadeInductive, PTL

\* A caller of either port is told the same of a source (emitSafely in
\* facade.go, ebnf in converter.ts).
THEOREM BothPortsAnswerAlike == ASSUME Sources \subseteq F!Source PROVE F!Spec => []PortsAnswerAlike
  <1>1. FInv => PortsAnswerAlike  BY AnsweredAlike DEF PortsAnswerAlike
  <1> QED  BY <1>1, FacadeInductive, PTL

================================================================================
