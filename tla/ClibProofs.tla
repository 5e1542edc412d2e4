----------------------------- MODULE ClibProofs -----------------------------
(***************************************************************************)
(* Proofs about Clib, for every finite set of host threads and every bound *)
(* on the loads.                                                           *)
(***************************************************************************)
EXTENDS Clib, FiniteSetTheorems, TLAPS

\* The bound on loads is kept: an id about to be given still fits.
LoadsFit == nextID + Cardinality(Loading) <= MaxLoads

\* Each lock is held by exactly the threads between its Lock and its Unlock.
RegOwner ==
  /\ \A t \in Threads : pc[t] \in Writing <=> regW = t
  /\ \A t \in Threads : pc[t] \in Reading <=> t \in regR
  /\ regW # None => regR = {}

SharedOwner == \A t \in Threads : pc[t] \in InShared <=> sharedMu = t

MuOwner ==
  /\ \A t \in Threads : pc[t] = "p_mu" \/ pc[t] \in InInstance => g[t] # 0
  /\ \A t \in Threads : pc[t] \in InInstance => mu[g[t]] = t
  /\ \A o \in Instance : mu[o] # None => pc[mu[o]] \in InInstance /\ g[mu[o]] = o

\* The handle a thread is about to return.
Carries(t, h) ==
  \/ pc[t] = "g_unlock" /\ id[t] = h
  \/ pc[t] = "ret" /\ reply[t].doc = "handle" /\ reply[t].h = h

\* The ids stored are 1 .. objs; nextID runs ahead of them inside one critical
\* section only, and a handle on its way out is nobody else's.
Counting ==
  /\ nextID = objs \/ nextID = objs + 1
  /\ \A t \in Threads : pc[t] \in {"g_read", "g_store"} => nextID = objs + 1
  /\ nextID = objs + 1 => regW # None /\ pc[regW] \in {"g_read", "g_store"}
  /\ \A t \in Threads : pc[t] = "g_store" => id[t] = nextID
  /\ DOMAIN loaded \subseteq 1 .. objs
  /\ issued \subseteq 1 .. objs

Carrying ==
  /\ \A t \in Threads, h \in Handle : Carries(t, h) => h \in 1 .. objs /\ h \notin issued
  /\ \A t \in Threads : pc[t] = "g_unlock" => id[t] \in Handle
  /\ \A t, u \in Threads, h \in Handle : Carries(t, h) /\ Carries(u, h) => t = u

\* What is known of a call's arguments once the statements that test them are past.
Requests ==
  /\ \A t \in Threads : pc[t] \in {"f_lock"} \cup FreeWrite => req[t].op = "free"
  /\ \A t \in Threads :
       pc[t] \in {"p_bytes", "p_rlock", "p_mu"} \cup Reading \cup InInstance
         => req[t].op = "parse"
  /\ \A t \in Threads : pc[t] \in {"g_opts", "g_lock"} \cup LoadWrite => req[t].op = "grammar"
  /\ \A t \in Threads : pc[t] \in {"g_lock"} \cup LoadWrite => req[t].text = "none"
  /\ \A t \in Threads :
       pc[t] \in {"p_rlock", "p_mu"} \cup Reading \cup InInstance => req[t].text # "badptr"

\* Everything but the bound on the loads, which needs cardinalities.
Core == TypeOK /\ RegOwner /\ SharedOwner /\ MuOwner /\ Counting /\ Carrying /\ Requests

IInv == Core /\ LoadsFit

-----------------------------------------------------------------------------
LEMMA DocTypes ==
  /\ \A k \in {"none", "usage", "nohandle", "accept", "reject", "internal", "void"} :
       Doc(k) \in Reply /\ Doc(k).doc = k
  /\ \A h \in Handle : HandleDoc(h) \in Reply /\ HandleDoc(h).doc = "handle" /\ HandleDoc(h).h = h
  /\ \A r \in Reply : r.doc = "handle" => r.h \in Handle
  /\ \A x : Verdict(x) \in {"accept", "reject", "internal"}
  BY DEF Doc, HandleDoc, Reply, Verdict

LEMMA RequestTypes ==
  /\ \A q \in Request : q.op \in {"grammar", "parse", "free"}
  /\ \A q \in Request : q.op \in {"parse", "free"} => q.h \in Handle
  /\ \A q \in Request : q.op = "grammar" => q.text \in {"badptr", "none", "refused"}
  /\ NoRequest.op = "none"
  BY DEF Request, NoRequest, Options

LEMMA LoadingFinite == IsFiniteSet(Loading) /\ Cardinality(Loading) \in Nat
  BY ThreadsAssumption, FS_Subset, FS_CardinalityType DEF Loading

LEMMA InitIInv == Init => IInv
  <1> SUFFICES ASSUME Init PROVE IInv
    OBVIOUS
  <1> USE ThreadsAssumption, MaxLoadsAssumption, DocTypes, RequestTypes DEF Init
  <1>1. Loading = {}
    BY DEF Loading
  <1>2. LoadsFit
    BY <1>1, FS_EmptySet DEF LoadsFit
  <1>3. Core
    BY DEF Core, TypeOK, RegOwner, SharedOwner, MuOwner, Counting, Carrying, Carries,
           Requests, PC, Writing, Reading, LoadWrite, FreeWrite, InShared, InInstance,
           NoReply, Handle, Instance
  <1> QED BY <1>2, <1>3 DEF IInv

\* The next id fits: some thread is about to be given one.
LEMMA IdFits ==
  ASSUME IInv
  PROVE  /\ nextID \in Nat /\ nextID <= MaxLoads
         /\ \A t \in Threads : pc[t] = "g_bump" => nextID < MaxLoads
  <1>1. nextID \in Nat /\ MaxLoads \in Nat /\ nextID + Cardinality(Loading) <= MaxLoads
    BY MaxLoadsAssumption DEF IInv, Core, TypeOK, LoadsFit
  <1>2. ASSUME NEW t \in Threads, pc[t] = "g_bump" PROVE Cardinality(Loading) # 0
    <2>1. t \in Loading
      BY <1>2 DEF Loading
    <2> QED BY <2>1, LoadingFinite, FS_EmptySet
  <1> QED BY <1>1, <1>2, LoadingFinite

-----------------------------------------------------------------------------
(* Every action keeps the invariant.                                        *)

LEMMA CoreStep ==
  ASSUME IInv, NEW t \in Threads
  PROVE  /\ \A q \in Request : Call(t, q) => Core'
         /\ Acquire(t) \/ Run(t) => Core'
  <1> USE ThreadsAssumption, MaxLoadsAssumption, DocTypes, RequestTypes, IdFits
      DEF IInv, Core, TypeOK, RegOwner, SharedOwner, MuOwner, Counting, Carrying, Carries,
          Requests, Goto, Finish, RegLock, RegRLock, registry, locks, locals,
          PC, Writing, Reading, LoadWrite, FreeWrite, InShared, InInstance,
          NoReply, Handle, Instance
  <1>1. ASSUME NEW q \in Request, Call(t, q) PROVE Core'
    <2>1. PICK to \in {"g_opts", "p_bytes", "f_lock"} :
            /\ pc[t] = "idle" /\ pc' = [pc EXCEPT ![t] = to]
            /\ to = "f_lock" => q.op = "free"
            /\ to = "p_bytes" => q.op = "parse"
            /\ to = "g_opts" => q.op = "grammar"
            /\ req' = [req EXCEPT ![t] = q]
            /\ UNCHANGED <<registry, locks, locals, reply, issued>>
      BY <1>1 DEF Call
    <2> QED BY <2>1, SMTT(60)
  <1>2. ASSUME GrammarOpts(t) PROVE Core'
    <2>1. CASE req[t].text = "none"
      <3>1. /\ pc[t] = "g_opts" /\ pc' = [pc EXCEPT ![t] = "g_lock"]
            /\ UNCHANGED <<registry, locks, req, locals, reply, issued>>
        BY <1>2, <2>1 DEF GrammarOpts
      <3> QED BY <2>1, <3>1, SMTT(60)
    <2>2. CASE req[t].text # "none"
      <3>1. /\ Finish(t, "g_opts", Doc("usage"))
            /\ UNCHANGED <<registry, locks, req, locals, issued>>
        BY <1>2, <2>2 DEF GrammarOpts
      <3> QED BY <3>1, SMTT(60)
    <2> QED BY <2>1, <2>2
  <1>3. ASSUME ParseBytes(t) PROVE Core'
    <2>1. CASE req[t].text # "badptr"
      <3>1. /\ pc[t] = "p_bytes" /\ pc' = [pc EXCEPT ![t] = "p_rlock"]
            /\ UNCHANGED <<registry, locks, req, locals, reply, issued>>
        BY <1>3, <2>1 DEF ParseBytes
      <3> QED BY <2>1, <3>1, SMTT(60)
    <2>2. CASE req[t].text = "badptr"
      <3>1. /\ Finish(t, "p_bytes", Doc("usage"))
            /\ UNCHANGED <<registry, locks, req, locals, issued>>
        BY <1>3, <2>2 DEF ParseBytes
      <3> QED BY <3>1, SMTT(60)
    <2> QED BY <2>1, <2>2
  <1>4. ASSUME ParseRUnlock(t) PROVE Core'
    <2>1. CASE g[t] # 0
      <3>1. /\ pc[t] = "p_runlock" /\ pc' = [pc EXCEPT ![t] = "p_mu"]
            /\ regR' = regR \ {t}
            /\ UNCHANGED <<registry, regW, mu, sharedMu, req, locals, reply, issued>>
        BY <1>4, <2>1 DEF ParseRUnlock
      <3> QED BY <2>1, <3>1, SMTT(60)
    <2>2. CASE g[t] = 0
      <3>1. /\ Finish(t, "p_runlock", Doc("nohandle"))
            /\ regR' = regR \ {t}
            /\ UNCHANGED <<registry, regW, mu, sharedMu, req, locals, issued>>
        BY <1>4, <2>2 DEF ParseRUnlock
      <3> QED BY <3>1, SMTT(60)
    <2> QED BY <2>1, <2>2
  <1>5. ASSUME Return(t) PROVE Core'
    <2>1. CASE reply[t].doc = "handle"
      BY <1>5, <2>1, SMTT(60) DEF Return
    <2>2. CASE reply[t].doc # "handle"
      BY <1>5, <2>2, SMTT(60) DEF Return
    <2> QED BY <2>1, <2>2
  <1>6. ASSUME GrammarLock(t) PROVE Core'
    BY <1>6, SMTT(60) DEF GrammarLock
  <1>7. ASSUME FreeLock(t) PROVE Core'
    BY <1>7, SMTT(60) DEF FreeLock
  <1>8. ASSUME ParseRLock(t) PROVE Core'
    BY <1>8, SMTT(60) DEF ParseRLock
  <1>9. ASSUME ParseMu(t) PROVE Core'
    BY <1>9, SMTT(60) DEF ParseMu
  <1>10. ASSUME ParseShared(t) PROVE Core'
    BY <1>10, SMTT(60) DEF ParseShared
  <1>11. ASSUME GrammarBump(t) PROVE Core'
    BY <1>11, SMTT(60) DEF GrammarBump
  <1>12. ASSUME GrammarRead(t) PROVE Core'
    BY <1>12, SMTT(60) DEF GrammarRead
  <1>13. ASSUME GrammarStore(t) PROVE Core'
    BY <1>13, SMTT(60) DEF GrammarStore
  <1>14. ASSUME GrammarUnlock(t) PROVE Core'
    BY <1>14, SMTT(60) DEF GrammarUnlock
  <1>15. ASSUME FreeDelete(t) PROVE Core'
    BY <1>15, SMTT(60) DEF FreeDelete
  <1>16. ASSUME FreeUnlock(t) PROVE Core'
    BY <1>16, SMTT(60) DEF FreeUnlock
  <1>17. ASSUME ParseLookup(t) PROVE Core'
    BY <1>17, SMTT(60) DEF ParseLookup
  <1>18. ASSUME ParseEngine(t) PROVE Core'
    BY <1>18, SMTT(60) DEF ParseEngine
  <1>19. ASSUME ParseUnshared(t) PROVE Core'
    BY <1>19, SMTT(60) DEF ParseUnshared
  <1>20. ASSUME ParseUnmu(t) PROVE Core'
    BY <1>20, SMTT(60) DEF ParseUnmu
  <1> QED
    <2> HIDE DEF Core
    <2> QED
      BY <1>1, <1>2, <1>3, <1>4, <1>5, <1>6, <1>7, <1>8, <1>9, <1>10, <1>11, <1>12, <1>13,
         <1>14, <1>15, <1>16, <1>17, <1>18, <1>19, <1>20 DEF Acquire, Run

LEMMA LoadsFitStep ==
  ASSUME IInv, NEW t \in Threads
  PROVE  /\ \A q \in Request : Call(t, q) => LoadsFit'
         /\ Acquire(t) \/ Run(t) => LoadsFit'
  <1> DEFINE Before == {"g_opts", "g_lock", "g_bump"}
  <1>0. /\ nextID \in Nat /\ MaxLoads \in Nat /\ pc \in [Threads -> PC]
        /\ nextID + Cardinality(Loading) <= MaxLoads
    BY MaxLoadsAssumption DEF IInv, Core, TypeOK, LoadsFit
  <1>1. ASSUME NEW q \in Request, Call(t, q) PROVE LoadsFit'
    <2>1. CASE q.op = "grammar"
      <3>1. Loading' = Loading \cup {t} /\ t \notin Loading
        BY <1>0, <1>1, <2>1 DEF Call, Goto, Loading
      <3>2. Cardinality(Loading') = Cardinality(Loading) + 1
        BY <3>1, LoadingFinite, FS_AddElement
      <3> QED BY <1>0, <1>1, <2>1, <3>2, LoadingFinite DEF Call, LoadsFit, registry
    <2>2. CASE q.op # "grammar"
      <3>1. Loading' = Loading
        BY <1>0, <1>1, <2>2 DEF Call, Goto, Loading
      <3> QED BY <1>0, <1>1, <3>1 DEF Call, LoadsFit, registry
    <2> QED BY <2>1, <2>2
  <1>2. ASSUME GrammarBump(t) PROVE LoadsFit'
    <2>1. Loading' = Loading \ {t} /\ t \in Loading
      BY <1>0, <1>2 DEF GrammarBump, Goto, Loading
    <2>2. Cardinality(Loading') = Cardinality(Loading) - 1
      BY <2>1, LoadingFinite, FS_RemoveElement
    <2> QED BY <1>0, <1>2, <2>2, LoadingFinite DEF GrammarBump, LoadsFit
  <1>3. ASSUME GrammarOpts(t) PROVE LoadsFit'
    <2>1. Loading' \subseteq Loading /\ nextID' = nextID
      BY <1>0, <1>3 DEF GrammarOpts, Goto, Finish, Loading, registry
    <2>2. Cardinality(Loading') <= Cardinality(Loading) /\ Cardinality(Loading') \in Nat
      BY <2>1, LoadingFinite, FS_Subset, FS_CardinalityType
    <2> QED BY <1>0, <2>1, <2>2, LoadingFinite DEF LoadsFit
  <1>4. ASSUME \/ GrammarLock(t) \/ FreeLock(t) \/ ParseRLock(t) \/ ParseMu(t) \/ ParseShared(t)
               \/ GrammarRead(t) \/ GrammarStore(t) \/ GrammarUnlock(t)
               \/ FreeDelete(t) \/ FreeUnlock(t) \/ ParseBytes(t) \/ ParseLookup(t)
               \/ ParseRUnlock(t) \/ ParseEngine(t) \/ ParseUnshared(t) \/ ParseUnmu(t)
               \/ Return(t)
        PROVE  LoadsFit'
    <2>1. nextID' = nextID
      BY <1>4 DEF GrammarLock, FreeLock, ParseRLock, ParseMu, ParseShared, GrammarRead,
         GrammarStore, GrammarUnlock, FreeDelete, FreeUnlock, ParseBytes, ParseLookup,
         ParseRUnlock, ParseEngine, ParseUnshared, ParseUnmu, Return, RegLock, RegRLock, registry
    <2>2. \E to : pc' = [pc EXCEPT ![t] = to] /\ (to \in Before <=> pc[t] \in Before)
      BY <1>4 DEF GrammarLock, FreeLock, ParseRLock, ParseMu, ParseShared, GrammarRead,
         GrammarStore, GrammarUnlock, FreeDelete, FreeUnlock, ParseBytes, ParseLookup,
         ParseRUnlock, ParseEngine, ParseUnshared, ParseUnmu, Return, RegLock, RegRLock,
         Goto, Finish
    <2>3. Loading' = Loading
      BY <1>0, <2>2 DEF Loading
    <2> QED BY <1>0, <2>1, <2>3 DEF LoadsFit
  <1> QED BY <1>1, <1>2, <1>3, <1>4 DEF Acquire, Run

LEMMA StepIInv == IInv /\ [Next]_vars => IInv'
  <1> SUFFICES ASSUME IInv, [Next]_vars PROVE IInv'
    OBVIOUS
  <1>1. ASSUME NEW t \in Threads, (\E q \in Request : Call(t, q)) \/ Acquire(t) \/ Run(t)
        PROVE  IInv'
    BY <1>1, CoreStep, LoadsFitStep DEF IInv
  <1>2. CASE UNCHANGED vars
    BY <1>2 DEF vars, registry, locks, locals, IInv, Core, TypeOK, LoadsFit, Loading,
        RegOwner, SharedOwner, MuOwner, Counting, Carrying, Carries, Requests
  <1> QED BY <1>1, <1>2 DEF Next

\* The inductive invariant holds of every behaviour.
THEOREM Inductive == Spec => []IInv
  BY InitIInv, StepIInv, PTL DEF Spec

-----------------------------------------------------------------------------
\* Type correctness, for every set of threads.
THEOREM TypeCorrect == Spec => []TypeOK
  <1>1. IInv => TypeOK
    BY DEF IInv, Core
  <1> QED BY <1>1, Inductive, PTL

\* reg keeps every access to the map away from the sections that write it.
THEOREM RegistryExcludes == Spec => []RegistryExclusion
  <1>1. IInv => RegistryExclusion
    BY ThreadsAssumption DEF IInv, Core, RegOwner, RegistryExclusion
  <1> QED BY <1>1, Inductive, PTL

\* No two calls are inside safeParse on one instance.
THEOREM InstanceExcludes == Spec => []InstanceExclusion
  <1>1. IInv => InstanceExclusion
    BY DEF IInv, Core, MuOwner, InstanceExclusion
  <1> QED BY <1>1, Inductive, PTL

\* No two calls of the process are inside the parse closure.
THEOREM EngineExcludes == Spec => []EngineExclusion
  <1>1. IInv => EngineExclusion
    BY DEF IInv, Core, SharedOwner, EngineExclusion
  <1> QED BY <1>1, Inductive, PTL

\* The three exclusions together.
THEOREM Excludes == Spec => []MutualExclusion
  BY RegistryExcludes, InstanceExcludes, EngineExcludes, PTL DEF MutualExclusion

\* No call leaves a lock behind.
THEOREM LocksReturned == Spec => []NoOrphanLock
  <1>1. IInv => NoOrphanLock
    BY DEF IInv, Core, TypeOK, RegOwner, SharedOwner, MuOwner, NoOrphanLock
  <1> QED BY <1>1, Inductive, PTL

\* No handle is given twice.
THEOREM HandlesFresh == Spec => HandlesNeverReused
  <1>1. ASSUME IInv, NEW t \in Threads, pc[t] = "ret", reply[t].doc = "handle"
        PROVE  reply[t].h \notin issued
    BY <1>1, DocTypes DEF IInv, Core, TypeOK, Carrying, Carries
  <1>2. ASSUME IInv
        PROVE  [\A t \in Threads :
                  pc[t] = "ret" /\ pc'[t] = "idle" /\ reply[t].doc = "handle"
                    => reply[t].h \notin issued]_vars
    BY <1>1, <1>2
  <1> QED BY <1>2, Inductive, PTL DEF HandlesNeverReused

\* What is freed stays freed.
THEOREM FreedFinal == Spec => FreedIsFinal
  <1>1. ASSUME IInv, Next, NEW h \in issued, h \notin DOMAIN loaded
        PROVE  h \notin DOMAIN loaded'
    <2>1. PICK t \in Threads : (\E q \in Request : Call(t, q)) \/ Acquire(t) \/ Run(t)
      BY <1>1 DEF Next
    <2>2. CASE GrammarStore(t)
      BY <1>1, <2>2 DEF GrammarStore, Goto, IInv, Core, TypeOK, Counting, Handle
    <2>3. CASE FreeDelete(t)
      BY <1>1, <2>3 DEF FreeDelete
    <2>4. CASE ~GrammarStore(t) /\ ~FreeDelete(t)
      <3>1. loaded' = loaded
        BY <2>1, <2>4 DEF Call, Acquire, Run, GrammarLock, FreeLock, ParseRLock, ParseMu,
           ParseShared, GrammarOpts, GrammarBump, GrammarRead, GrammarUnlock, FreeUnlock,
           ParseBytes, ParseLookup, ParseRUnlock, ParseEngine, ParseUnshared, ParseUnmu,
           Return, RegLock, RegRLock, registry
      <3> QED BY <1>1, <3>1
    <2> QED BY <2>2, <2>3, <2>4
  <1>2. ASSUME IInv, [Next]_vars
        PROVE  [\A h \in issued : h \notin DOMAIN loaded => h \notin DOMAIN loaded']_vars
    BY <1>1, <1>2
  <1> QED BY <1>2, Inductive, PTL DEF Spec, FreedIsFinal

-----------------------------------------------------------------------------
(* The library implements the lock-free table: Clib's steps are steps of    *)
(* HandleTable, or leave the table as it is.                                *)

\* The instance speaks of the same requests and documents.
LEMMA SameVocabulary ==
  /\ Table!NoRequest = NoRequest /\ Table!Request = Request /\ Table!Handle = Handle
  /\ Table!NoReply = NoReply
  /\ \A k : Table!Doc(k) = Doc(k)
  /\ \A h : Table!HandleDoc(h) = HandleDoc(h)
  /\ \A x : Table!Verdict(x) = Verdict(x)
  BY DEF Table!NoRequest, NoRequest, Table!Request, Request, Table!Handle, Handle,
         Table!NoReply, NoReply, Table!Doc, Doc, Table!HandleDoc, HandleDoc,
         Table!Verdict, Verdict, Table!Options, Options, Table!Source, Source

\* A step at which thread t's call takes effect with document d.
LEMMA AnswerStep ==
  ASSUME pc \in [Threads -> PC], NEW t \in Threads, NEW to, NEW d,
         pc[t] # "idle", pc[t] \notin TookEffect, to \in TookEffect,
         pc' = [pc EXCEPT ![t] = to], req' = req,
         \A u \in Threads \ {t} : absReply'[u] = absReply[u],
         absReply'[t] = d
  PROVE  Table!Answer(t, d)
  <1>1. absPhase[t] = "called"
    BY DEF absPhase
  <1>2. absPhase' = [absPhase EXCEPT ![t] = "done"]
    BY DEF absPhase, TookEffect, InInstance, InShared
  <1>3. absReply' = [absReply EXCEPT ![t] = d]
    <2>1. /\ absReply = [u \in Threads |-> absReply[u]]
          /\ absReply' = [u \in Threads |-> absReply'[u]]
      BY DEF absReply
    <2> QED BY <2>1
  <1> QED BY <1>1, <1>2, <1>3 DEF Table!Answer

LEMMA StepRefines == IInv /\ IInv' /\ [Next]_vars => [Table!Next]_(Table!vars)
  <1> SUFFICES ASSUME IInv, IInv', [Next]_vars
               PROVE  [Table!Next]_(Table!vars)
    OBVIOUS
  <1> USE SameVocabulary DEF IInv, Core, TypeOK
  <1> DEFINE Others(t) == \A u \in Threads \ {t} : absReply'[u] = absReply[u]
  <1>1. ASSUME NEW t \in Threads, NEW q \in Request, Call(t, q)
        PROVE  Table!Invoke(t, q)
    <2>1. PICK to \in {"g_opts", "p_bytes", "f_lock"} :
            pc[t] = "idle" /\ pc' = [pc EXCEPT ![t] = to]
      BY <1>1 DEF Call, Goto
    <2>2. absPhase[t] = "idle" /\ absPhase' = [absPhase EXCEPT ![t] = "called"]
      BY <2>1 DEF absPhase, TookEffect, InInstance, InShared
    <2>3. /\ req' = [req EXCEPT ![t] = q]
          /\ UNCHANGED <<loaded, objs, id, g, reply>>
      BY <1>1 DEF Call, registry, locals
    <2>4. absReply' = absReply
      BY <2>1, <2>3 DEF absReply, TookEffect, InInstance, InShared
    <2> QED BY <2>2, <2>3, <2>4 DEF Table!Invoke
  <1>2. ASSUME NEW t \in Threads, Return(t)
        PROVE  Table!Return(t)
    <2>1. /\ pc[t] = "ret" /\ pc' = [pc EXCEPT ![t] = "idle"]
          /\ req' = [req EXCEPT ![t] = NoRequest]
          /\ reply' = [reply EXCEPT ![t] = NoReply]
          /\ id' = [id EXCEPT ![t] = 0] /\ g' = [g EXCEPT ![t] = 0]
          /\ loaded' = loaded /\ objs' = objs
      BY <1>2 DEF Return, Goto, registry
    <2>2. absPhase[t] = "done" /\ absPhase' = [absPhase EXCEPT ![t] = "idle"]
      BY <2>1 DEF absPhase, TookEffect, InInstance, InShared
    <2>3. absReply' = [absReply EXCEPT ![t] = NoReply]
      BY <2>1 DEF absReply, TookEffect, InInstance, InShared
    <2> QED BY <2>1, <2>2, <2>3 DEF Table!Return
  <1>3. ASSUME NEW t \in Threads, GrammarOpts(t)
        PROVE  Table!Refuse(t) \/ UNCHANGED Table!vars
    <2>1. CASE req[t].text = "none"
      <3>1. /\ pc[t] = "g_opts" /\ pc' = [pc EXCEPT ![t] = "g_lock"]
            /\ UNCHANGED <<loaded, objs, req, id, g, reply>>
        BY <1>3, <2>1 DEF GrammarOpts, Goto, registry, locals
      <3>2. absPhase' = absPhase
        BY <3>1 DEF absPhase, TookEffect, InInstance, InShared
      <3>3. absReply' = absReply
        BY <3>1 DEF absReply, TookEffect, InInstance, InShared
      <3> QED BY <3>1, <3>2, <3>3 DEF Table!vars
    <2>2. CASE req[t].text # "none"
      <3>1. /\ pc[t] = "g_opts" /\ pc' = [pc EXCEPT ![t] = "ret"]
            /\ reply' = [reply EXCEPT ![t] = Doc("usage")]
            /\ UNCHANGED <<loaded, objs, req, id, g>>
        BY <1>3, <2>2 DEF GrammarOpts, Finish, Goto, registry, locals
      <3>2. req[t].text \in {"badptr", "refused"}
        BY <2>2, <3>1, RequestTypes DEF Requests
      <3>3. Others(t) /\ absReply'[t] = Doc("usage")
        BY <3>1 DEF absReply, InInstance, InShared
      <3>4. Table!Answer(t, Doc("usage"))
        BY <3>1, <3>3, AnswerStep DEF TookEffect, InInstance, InShared
      <3> QED BY <3>1, <3>2, <3>4 DEF Table!Refuse
    <2> QED BY <2>1, <2>2
  <1>4. ASSUME NEW t \in Threads, ParseBytes(t)
        PROVE  Table!Refuse(t) \/ UNCHANGED Table!vars
    <2>1. CASE req[t].text # "badptr"
      <3>1. /\ pc[t] = "p_bytes" /\ pc' = [pc EXCEPT ![t] = "p_rlock"]
            /\ UNCHANGED <<loaded, objs, req, id, g, reply>>
        BY <1>4, <2>1 DEF ParseBytes, Goto, registry, locals
      <3>2. absPhase' = absPhase
        BY <3>1 DEF absPhase, TookEffect, InInstance, InShared
      <3>3. absReply' = absReply
        BY <3>1 DEF absReply, TookEffect, InInstance, InShared
      <3> QED BY <3>1, <3>2, <3>3 DEF Table!vars
    <2>2. CASE req[t].text = "badptr"
      <3>1. /\ pc[t] = "p_bytes" /\ pc' = [pc EXCEPT ![t] = "ret"]
            /\ reply' = [reply EXCEPT ![t] = Doc("usage")]
            /\ UNCHANGED <<loaded, objs, req, id, g>>
        BY <1>4, <2>2 DEF ParseBytes, Finish, Goto, registry, locals
      <3>2. Others(t) /\ absReply'[t] = Doc("usage")
        BY <3>1 DEF absReply, InInstance, InShared
      <3>3. Table!Answer(t, Doc("usage"))
        BY <3>1, <3>2, AnswerStep DEF TookEffect, InInstance, InShared
      <3> QED BY <2>2, <3>1, <3>3 DEF Table!Refuse
    <2> QED BY <2>1, <2>2
  <1>5. ASSUME NEW t \in Threads, GrammarStore(t)
        PROVE  Table!Load(t)
    <2>1. /\ pc[t] = "g_store" /\ pc' = [pc EXCEPT ![t] = "g_unlock"]
          /\ objs' = objs + 1
          /\ DOMAIN loaded' = DOMAIN loaded \cup {id[t]}
          /\ UNCHANGED <<req, id, g, reply>>
      BY <1>5 DEF GrammarStore, Goto, locals
    <2>2. id[t] = objs + 1 /\ id[t] \in Handle /\ id[t] \notin 1 .. objs
      BY <2>1, IdFits DEF Counting, Handle
    <2>3. 1 .. objs' = (1 .. objs) \cup {id[t]}
      BY <2>1, <2>2
    <2>4. Others(t) /\ absReply'[t] = HandleDoc(id[t])
      BY <2>1 DEF absReply, InInstance, InShared
    <2>5. Table!Answer(t, HandleDoc(id[t]))
      BY <2>1, <2>4, AnswerStep DEF TookEffect, InInstance, InShared
    <2>6. req[t].op = "grammar" /\ req[t].text = "none"
      BY <2>1 DEF Requests, LoadWrite
    <2> QED BY <2>1, <2>2, <2>3, <2>5, <2>6 DEF Table!Load
  <1>6. ASSUME NEW t \in Threads, FreeDelete(t)
        PROVE  Table!Free(t)
    <2>1. /\ pc[t] = "f_delete" /\ pc' = [pc EXCEPT ![t] = "f_unlock"]
          /\ DOMAIN loaded' = DOMAIN loaded \ {req[t].h}
          /\ UNCHANGED <<objs, req, id, g, reply>>
      BY <1>6 DEF FreeDelete, Goto, locals
    <2>2. Others(t) /\ absReply'[t] = Doc("void")
      BY <2>1 DEF absReply, InInstance, InShared
    <2>3. Table!Answer(t, Doc("void"))
      BY <2>1, <2>2, AnswerStep DEF TookEffect, InInstance, InShared
    <2>4. req[t].op = "free"
      BY <2>1 DEF Requests, FreeWrite
    <2> QED BY <2>1, <2>3, <2>4 DEF Table!Free
  <1>7. ASSUME NEW t \in Threads, ParseLookup(t)
        PROVE  Table!Parse(t)
    <2> DEFINE d == IF req[t].h \in DOMAIN loaded THEN Doc(Verdict(req[t].text))
                                                  ELSE Doc("nohandle")
    <2>1. /\ pc[t] = "p_lookup" /\ pc' = [pc EXCEPT ![t] = "p_runlock"]
          /\ g' = [g EXCEPT ![t] = IF req[t].h \in DOMAIN loaded THEN loaded[req[t].h] ELSE 0]
          /\ UNCHANGED <<loaded, objs, req, id, reply>>
      BY <1>7 DEF ParseLookup, Goto, registry
    <2>2. g'[t] = 0 <=> req[t].h \notin DOMAIN loaded
      BY <2>1, MaxLoadsAssumption DEF Instance
    <2>3. Others(t)
      BY <2>1 DEF absReply, InInstance, InShared
    <2>4. absReply'[t] = d
      BY <2>1, <2>2 DEF absReply, InInstance, InShared
    <2>5. Table!Answer(t, d)
      BY <2>1, <2>3, <2>4, AnswerStep DEF TookEffect, InInstance, InShared
    <2>6. req[t].op = "parse" /\ req[t].text # "badptr"
      BY <2>1 DEF Requests, Reading
    <2> QED BY <2>1, <2>5, <2>6 DEF Table!Parse
  <1>8. ASSUME NEW t \in Threads,
               \/ GrammarLock(t) \/ FreeLock(t) \/ ParseRLock(t) \/ GrammarBump(t)
               \/ GrammarRead(t)
        PROVE  UNCHANGED Table!vars
    <2>1. PICK to : /\ pc[t] \in {"g_lock", "f_lock", "p_rlock", "g_bump", "g_read"}
                    /\ to \in {"g_bump", "f_delete", "p_lookup", "g_read", "g_store"}
                    /\ pc' = [pc EXCEPT ![t] = to]
      BY <1>8 DEF GrammarLock, FreeLock, ParseRLock, GrammarBump, GrammarRead, RegLock,
                  RegRLock, Goto
    <2>2. /\ UNCHANGED <<loaded, objs, req, g, reply>>
          /\ \A u \in Threads \ {t} : id'[u] = id[u]
      BY <1>8 DEF GrammarLock, FreeLock, ParseRLock, GrammarBump, GrammarRead, RegLock,
                  RegRLock, registry, locals
    <2>3. absPhase' = absPhase
      BY <2>1 DEF absPhase, TookEffect, InInstance, InShared
    <2>4. absReply' = absReply
      BY <2>1, <2>2 DEF absReply, TookEffect, InInstance, InShared
    <2> QED BY <2>2, <2>3, <2>4 DEF Table!vars
  <1>9. ASSUME NEW t \in Threads,
               \/ ParseMu(t) \/ ParseShared(t) \/ ParseEngine(t) \/ ParseUnshared(t)
        PROVE  UNCHANGED Table!vars
    <2>1. PICK to : /\ pc[t] \in {"p_mu", "p_shared", "p_engine", "p_unshared"}
                    /\ to \in InInstance
                    /\ pc' = [pc EXCEPT ![t] = to]
      BY <1>9 DEF ParseMu, ParseShared, ParseEngine, ParseUnshared, Goto, InInstance, InShared
    <2>2. UNCHANGED <<loaded, objs, req, id, g, reply>>
      BY <1>9 DEF ParseMu, ParseShared, ParseEngine, ParseUnshared, registry, locals
    <2>3. absPhase' = absPhase
      BY <2>1 DEF absPhase, TookEffect, InInstance, InShared
    <2>4. absReply' = absReply
      BY <2>1, <2>2 DEF absReply, TookEffect, InInstance, InShared
    <2> QED BY <2>2, <2>3, <2>4 DEF Table!vars
  <1>10. ASSUME NEW t \in Threads,
                \/ GrammarUnlock(t) \/ FreeUnlock(t) \/ ParseUnmu(t)
                \/ ParseRUnlock(t)
         PROVE  UNCHANGED Table!vars
    <2>1. PICK to : /\ pc[t] \in {"g_unlock", "f_unlock", "p_unmu", "p_runlock"}
                    /\ to \in {"ret", "p_mu"}
                    /\ to = "p_mu" => pc[t] = "p_runlock" /\ reply' = reply
                    /\ to = "ret" => reply' = [reply EXCEPT ![t] = absReply[t]]
                    /\ pc' = [pc EXCEPT ![t] = to]
      BY <1>10 DEF GrammarUnlock, FreeUnlock, ParseUnmu, ParseRUnlock, Goto, Finish,
                   absReply, MuOwner, InInstance, InShared
    <2>2. UNCHANGED <<loaded, objs, req, id, g>>
      BY <1>10 DEF GrammarUnlock, FreeUnlock, ParseUnmu, ParseRUnlock, registry, locals
    <2>3. absPhase' = absPhase
      BY <2>1 DEF absPhase, TookEffect, InInstance, InShared
    <2>4. absReply' = absReply
      BY <2>1, <2>2 DEF absReply, TookEffect, InInstance, InShared
    <2> QED BY <2>2, <2>3, <2>4 DEF Table!vars
  <1>11. CASE UNCHANGED vars
    BY <1>11 DEF vars, registry, locals, Table!vars, absPhase, absReply
  <1>12. ASSUME NEW t \in Threads, Acquire(t) \/ Run(t)
         PROVE  \/ Table!Refuse(t) \/ Table!Load(t) \/ Table!Parse(t) \/ Table!Free(t)
                \/ Table!Return(t) \/ UNCHANGED Table!vars
    BY <1>2, <1>3, <1>4, <1>5, <1>6, <1>7, <1>8, <1>9, <1>10, <1>12 DEF Acquire, Run
  <1> QED
    BY <1>1, <1>11, <1>12, ZenonT(60) DEF Next, Table!Next

\* Every behaviour of the library is a behaviour of the lock-free table.
THEOREM Implements == Spec => Linearizable
  <1>1. ASSUME Init PROVE Table!Init
    <2>1. DOMAIN loaded = {} /\ 1 .. objs = {}
      BY <1>1 DEF Init
    <2>2. \A t \in Threads : pc[t] = "idle" /\ reply[t] = NoReply /\ req[t] = NoRequest
      BY <1>1 DEF Init
    <2>3. absPhase = [t \in Threads |-> "idle"]
      BY <2>2 DEF absPhase, TookEffect, InInstance, InShared
    <2>4. absReply = [t \in Threads |-> NoReply]
      BY <2>2 DEF absReply, InInstance, InShared
    <2>5. req = [t \in Threads |-> NoRequest]
      BY <1>1 DEF Init
    <2> QED BY <2>1, <2>3, <2>4, <2>5, SameVocabulary DEF Table!Init
  <1> QED BY <1>1, StepRefines, Inductive, PTL DEF Spec, Linearizable, Table!Spec

=============================================================================
