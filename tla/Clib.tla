-------------------------------- MODULE Clib --------------------------------
(***************************************************************************)
(* go/clib/core.go behind the cgo shim go/clib/tabnas_c.go: the registry   *)
(* of parser handles, called by any number of host threads at once.        *)
(*                                                                         *)
(* Three kinds of lock are involved, and the order in which one call takes *)
(* and drops them is the subject of this module:                           *)
(*   reg       sync.RWMutex over nextID and the loaded map;                *)
(*   mu        one sync.Mutex per instance, around safeParse;              *)
(*   sharedMu  one process-wide sync.Mutex inside the parse closure.       *)
(*                                                                         *)
(* A Go mutex is its holder (or None); the blocking call is the action's   *)
(* guard.  Each statement that reads or writes shared state is a step of   *)
(* its own, so that what the locks exclude is excluded by the locks and    *)
(* not by the grain of the model.                                          *)
(***************************************************************************)
EXTENDS Calls, FiniteSets

CONSTANT None        (* no holder                                           *)

ASSUME ThreadsAssumption == None \notin Threads /\ IsFiniteSet(Threads)

VARIABLES nextID,    (* the last id given                                   *)
          loaded,    (* handle -> instance; its domain is the live handles  *)
          objs,      (* instances allocated; they are numbered from 1       *)
          regW,      (* the writer holding reg, or None                     *)
          regR,      (* the readers holding reg                             *)
          mu,        (* per instance: the thread holding its mutex, or None *)
          sharedMu,  (* the thread holding sharedMu, or None                *)
          pc,        (* per thread: the next statement                      *)
          req,       (* per thread: the call's arguments                    *)
          id,        (* per thread: loadGrammar's local id                  *)
          g,         (* per thread: parseWith's local g, 0 for nil          *)
          reply,     (* per thread: the document about to be returned       *)
          issued     (* history: the handles returned to the host           *)

registry == <<nextID, loaded, objs>>
locks == <<regW, regR, mu, sharedMu>>
locals == <<id, g>>
vars == <<registry, locks, pc, req, locals, reply, issued>>

Instance == 1 .. MaxLoads

\* The statements of loadGrammar, freeGrammar and parseWith, by what they hold.
LoadWrite == {"g_bump", "g_read", "g_store", "g_unlock"}
FreeWrite == {"f_delete", "f_unlock"}
Writing == LoadWrite \cup FreeWrite
Reading == {"p_lookup", "p_runlock"}
InShared == {"p_engine", "p_unshared"}
InInstance == {"p_shared", "p_unmu"} \cup InShared
PC == {"idle", "ret", "g_opts", "g_lock", "f_lock", "p_bytes", "p_rlock", "p_mu"}
        \cup Writing \cup Reading \cup InInstance

Init ==
  /\ nextID = 0
  /\ loaded = [h \in {} |-> 0]
  /\ objs = 0
  /\ regW = None
  /\ regR = {}
  /\ mu = [o \in Instance |-> None]
  /\ sharedMu = None
  /\ pc = [t \in Threads |-> "idle"]
  /\ req = [t \in Threads |-> NoRequest]
  /\ id = [t \in Threads |-> 0]
  /\ g = [t \in Threads |-> 0]
  /\ reply = [t \in Threads |-> NoReply]
  /\ issued = {}

Goto(t, from, to) ==
  /\ pc[t] = from
  /\ pc' = [pc EXCEPT ![t] = to]

Finish(t, from, doc) ==
  /\ Goto(t, from, "ret")
  /\ reply' = [reply EXCEPT ![t] = doc]

-----------------------------------------------------------------------------
(* The calls a host thread makes, and their returns.                        *)

\* Bound: the loads that have been begun and not been refused.
Loading == {t \in Threads : pc[t] \in {"g_opts", "g_lock", "g_bump"}}

Call(t, q) ==
  /\ q.op = "grammar" => nextID + Cardinality(Loading) < MaxLoads
  /\ Goto(t, "idle", CASE q.op = "grammar" -> "g_opts"
                       [] q.op = "parse"   -> "p_bytes"
                       [] OTHER            -> "f_lock")
  /\ req' = [req EXCEPT ![t] = q]
  /\ UNCHANGED <<registry, locks, locals, reply, issued>>

Return(t) ==
  /\ Goto(t, "ret", "idle")
  /\ issued' = IF reply[t].doc = "handle" THEN issued \cup {reply[t].h} ELSE issued
  /\ req' = [req EXCEPT ![t] = NoRequest]
  /\ reply' = [reply EXCEPT ![t] = NoReply]
  /\ id' = [id EXCEPT ![t] = 0]
  /\ g' = [g EXCEPT ![t] = 0]
  /\ UNCHANGED <<registry, locks>>

-----------------------------------------------------------------------------
(* sync.RWMutex reg.                                                        *)

RegLock(t, from, to) ==
  /\ regW = None /\ regR = {}
  /\ Goto(t, from, to)
  /\ regW' = t
  /\ UNCHANGED <<registry, regR, mu, sharedMu, req, locals, reply, issued>>

RegRLock(t, from, to) ==
  /\ regW = None
  /\ Goto(t, from, to)
  /\ regR' = regR \cup {t}
  /\ UNCHANGED <<registry, regW, mu, sharedMu, req, locals, reply, issued>>

-----------------------------------------------------------------------------
(* tabnas_grammar / loadGrammar.                                            *)

\* goBytes, then the reservation of the options.  The construct that newParser
\* builds cannot fail, so the error return of safeNew is never taken.
GrammarOpts(t) ==
  \/ /\ req[t].text = "none"
     /\ Goto(t, "g_opts", "g_lock")
     /\ UNCHANGED <<registry, locks, req, locals, reply, issued>>
  \/ /\ req[t].text # "none"
     /\ Finish(t, "g_opts", Doc("usage"))
     /\ UNCHANGED <<registry, locks, req, locals, issued>>

\* Mutant: only a read lock around the load.
GrammarLockShared(t) == RegRLock(t, "g_lock", "g_bump")

GrammarLock(t) == RegLock(t, "g_lock", "g_bump")

GrammarBump(t) ==
  /\ Goto(t, "g_bump", "g_read")
  /\ nextID' = nextID + 1
  /\ UNCHANGED <<loaded, objs, locks, req, locals, reply, issued>>

GrammarRead(t) ==
  /\ Goto(t, "g_read", "g_store")
  /\ id' = [id EXCEPT ![t] = nextID]
  /\ UNCHANGED <<registry, locks, req, g, reply, issued>>

GrammarStore(t) ==
  /\ Goto(t, "g_store", "g_unlock")
  /\ objs' = objs + 1
  /\ loaded' = [h \in DOMAIN loaded \cup {id[t]} |->
                  IF h = id[t] THEN objs + 1 ELSE loaded[h]]
  /\ UNCHANGED <<nextID, locks, req, locals, reply, issued>>

GrammarUnlock(t) ==
  /\ Finish(t, "g_unlock", HandleDoc(id[t]))
  /\ regW' = None
  /\ UNCHANGED <<registry, regR, mu, sharedMu, req, locals, issued>>

-----------------------------------------------------------------------------
(* tabnas_grammar_free / freeGrammar.                                       *)

FreeLock(t) == RegLock(t, "f_lock", "f_delete")

FreeDelete(t) ==
  /\ Goto(t, "f_delete", "f_unlock")
  /\ loaded' = [h \in DOMAIN loaded \ {req[t].h} |-> loaded[h]]
  /\ UNCHANGED <<nextID, objs, locks, req, locals, reply, issued>>

FreeUnlock(t) ==
  /\ Finish(t, "f_unlock", Doc("void"))
  /\ regW' = None
  /\ UNCHANGED <<registry, regR, mu, sharedMu, req, locals, issued>>

-----------------------------------------------------------------------------
(* tabnas_parse / parseWith.                                                *)

ParseBytes(t) ==
  \/ /\ req[t].text # "badptr"
     /\ Goto(t, "p_bytes", "p_rlock")
     /\ UNCHANGED <<registry, locks, req, locals, reply, issued>>
  \/ /\ req[t].text = "badptr"
     /\ Finish(t, "p_bytes", Doc("usage"))
     /\ UNCHANGED <<registry, locks, req, locals, issued>>

ParseRLock(t) == RegRLock(t, "p_rlock", "p_lookup")

ParseLookup(t) ==
  /\ Goto(t, "p_lookup", "p_runlock")
  /\ g' = [g EXCEPT ![t] = IF req[t].h \in DOMAIN loaded THEN loaded[req[t].h] ELSE 0]
  /\ UNCHANGED <<registry, locks, req, id, reply, issued>>

ParseRUnlock(t) ==
  /\ regR' = regR \ {t}
  /\ \/ g[t] # 0 /\ Goto(t, "p_runlock", "p_mu") /\ UNCHANGED reply
     \/ g[t] = 0 /\ Finish(t, "p_runlock", Doc("nohandle"))
  /\ UNCHANGED <<registry, regW, mu, sharedMu, req, locals, issued>>

ParseMu(t) ==
  /\ Goto(t, "p_mu", "p_shared")
  /\ mu[g[t]] = None
  /\ mu' = [mu EXCEPT ![g[t]] = t]
  /\ UNCHANGED <<registry, regW, regR, sharedMu, req, locals, reply, issued>>

ParseShared(t) ==
  /\ Goto(t, "p_shared", "p_engine")
  /\ sharedMu = None
  /\ sharedMu' = t
  /\ UNCHANGED <<registry, regW, regR, mu, req, locals, reply, issued>>

\* plug.ParseEbnf: it returns, or it panics; the deferred unlock runs either way.
ParseEngine(t) ==
  /\ Goto(t, "p_engine", "p_unshared")
  /\ UNCHANGED <<registry, locks, req, locals, reply, issued>>

\* Mutant: the unlock is not deferred, so a panic skips it.
ParseUnsharedInline(t) ==
  /\ Goto(t, "p_unshared", "p_unmu")
  /\ sharedMu' = IF req[t].text = "panics" THEN sharedMu ELSE None
  /\ UNCHANGED <<registry, regW, regR, mu, req, locals, reply, issued>>

ParseUnshared(t) ==
  /\ Goto(t, "p_unshared", "p_unmu")
  /\ sharedMu' = None
  /\ UNCHANGED <<registry, regW, regR, mu, req, locals, reply, issued>>

\* Mutants: safeParse's recover outlives the unlock of mu; parseWith looks the handle
\* up again after the parse.
ParseUnmuInline(t) ==
  /\ Finish(t, "p_unmu", Doc(Verdict(req[t].text)))
  /\ mu' = IF req[t].text = "panics" THEN mu ELSE [mu EXCEPT ![g[t]] = None]
  /\ UNCHANGED <<registry, regW, regR, sharedMu, req, locals, issued>>

ParseUnmuRecheck(t) ==
  /\ Finish(t, "p_unmu",
            Doc(IF req[t].h \in DOMAIN loaded THEN Verdict(req[t].text) ELSE "nohandle"))
  /\ mu' = [mu EXCEPT ![g[t]] = None]
  /\ UNCHANGED <<registry, regW, regR, sharedMu, req, locals, issued>>

\* safeParse has turned a panic into an error by the time mu is unlocked.
ParseUnmu(t) ==
  /\ Finish(t, "p_unmu", Doc(Verdict(req[t].text)))
  /\ mu' = [mu EXCEPT ![g[t]] = None]
  /\ UNCHANGED <<registry, regW, regR, sharedMu, req, locals, issued>>

-----------------------------------------------------------------------------
Acquire(t) == GrammarLock(t) \/ FreeLock(t) \/ ParseRLock(t) \/ ParseMu(t) \/ ParseShared(t)

Run(t) ==
  \/ GrammarOpts(t) \/ GrammarBump(t) \/ GrammarRead(t)
  \/ GrammarStore(t) \/ GrammarUnlock(t)
  \/ FreeDelete(t) \/ FreeUnlock(t)
  \/ ParseBytes(t) \/ ParseLookup(t) \/ ParseRUnlock(t)
  \/ ParseEngine(t) \/ ParseUnshared(t) \/ ParseUnmu(t)
  \/ Return(t)

Next == \E t \in Threads : (\E q \in Request : Call(t, q)) \/ Acquire(t) \/ Run(t)

Spec == Init /\ [][Next]_vars

\* The host is not obliged to call.  A thread inside the library is scheduled, and
\* a Go mutex hands over in turn (starvation mode; RWMutex holds back new readers
\* for a waiting writer), so a lock that is free again and again is obtained.
Fairness == \A t \in Threads : WF_vars(Run(t)) /\ SF_vars(Acquire(t))
FairSpec == Spec /\ Fairness
-----------------------------------------------------------------------------
(* What must hold.                                                          *)

TypeOK ==
  /\ nextID \in Nat /\ objs \in Nat
  /\ loaded \in [DOMAIN loaded -> Instance] /\ DOMAIN loaded \subseteq Handle
  /\ regW \in Threads \cup {None}
  /\ regR \subseteq Threads
  /\ mu \in [Instance -> Threads \cup {None}]
  /\ sharedMu \in Threads \cup {None}
  /\ pc \in [Threads -> PC]
  /\ req \in [Threads -> Request \cup {NoRequest}]
  /\ id \in [Threads -> {0} \cup Handle]
  /\ g \in [Threads -> {0} \cup Instance]
  /\ reply \in [Threads -> Reply]
  /\ issued \subseteq Handle

\* A Go map is never touched while another goroutine writes it (the runtime
\* aborts the host process on a concurrent map access): the statements of
\* loadGrammar and freeGrammar between reg.Lock and reg.Unlock exclude each other
\* and every lookup of parseWith.
RegistryExclusion ==
  \A t, u \in Threads :
    t # u /\ pc[t] \in Writing => pc[u] \notin Writing \cup Reading

\* "Engines are not safe for concurrent Parse": two calls on one instance are
\* never inside safeParse together, whatever handles they came through and even
\* when the handle was freed, or freed and another loaded, in between.
InstanceExclusion ==
  \A t, u \in Threads :
    t # u /\ pc[t] \in InInstance /\ pc[u] \in InInstance => g[t] # g[u]

\* "Every handle in this process serializes on one shared lock": the parse
\* closure runs for at most one call of the whole process.
EngineExclusion ==
  \A t, u \in Threads : pc[t] \in InShared /\ pc[u] \in InShared => t = u

\* What the three kinds of lock are for, together: no map access beside a write,
\* no two parses on one instance, no two parses at once in the process.
MutualExclusion == RegistryExclusion /\ InstanceExclusion /\ EngineExclusion

\* Every lock is held by a call that is still between its Lock and its Unlock:
\* no return, refusal or recovered panic leaves one behind.
NoOrphanLock ==
  /\ regW # None => pc[regW] \in Writing
  /\ \A t \in regR : pc[t] \in Reading
  /\ sharedMu # None => pc[sharedMu] \in InShared
  /\ \A o \in Instance : mu[o] # None => pc[mu[o]] \in InInstance /\ g[mu[o]] = o

\* tabnas_grammar never returns a handle it has returned before, however many
\* threads load at once and whatever has been freed.
HandlesNeverReused ==
  [][\A t \in Threads :
       pc[t] = "ret" /\ pc'[t] = "idle" /\ reply[t].doc = "handle"
         => reply[t].h \notin issued]_vars

\* A handle the host was given and that is no longer live never becomes live
\* again: a stale copy of it can reach no parser, its own or another's.
FreedIsFinal ==
  [][\A h \in issued : h \notin DOMAIN loaded => h \notin DOMAIN loaded']_vars

\* Every call returns: no order in which the three locks are taken and dropped,
\* and no panicking parse, leaves a host thread inside the library for ever.
EveryCallReturns == \A t \in Threads : pc[t] # "idle" ~> pc[t] = "idle"

-----------------------------------------------------------------------------
(* Every call takes effect at one instant: a load when its instance is      *)
(* stored, a free when its handle is deleted, a parse when it looks its     *)
(* handle up, however long it then waits for its locks.                     *)

TookEffect == {"ret", "g_unlock", "f_unlock", "p_runlock", "p_mu"} \cup InInstance

absPhase ==
  [t \in Threads |-> CASE pc[t] = "idle"       -> "idle"
                       [] pc[t] \in TookEffect -> "done"
                       [] OTHER                -> "called"]

absReply ==
  [t \in Threads |->
     CASE pc[t] = "g_unlock" -> HandleDoc(id[t])
       [] pc[t] = "f_unlock" -> Doc("void")
       [] pc[t] \in {"p_runlock", "p_mu"} \cup InInstance ->
            IF g[t] = 0 THEN Doc("nohandle") ELSE Doc(Verdict(req[t].text))
       [] OTHER -> reply[t]]

Table == INSTANCE HandleTable WITH
           live <- DOMAIN loaded, used <- 1 .. objs,
           phase <- absPhase, reply <- absReply

\* The library behaves as the lock-free table of module HandleTable: every call,
\* concurrent or not, sees the loads and the frees that returned before it began.
Linearizable == Table!Spec

=============================================================================
