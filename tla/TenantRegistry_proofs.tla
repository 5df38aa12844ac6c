------------------------ MODULE TenantRegistry_proofs ------------------------
(* Theorems about TenantRegistry: types, the attach lock and what it       *)
(* protects, for any number of workers, tenants and handlers and under     *)
(* every fault.                                                            *)
EXTENDS TenantRegistry, TLAPS

LEMMA InitRegistryInv == Init => RegistryInv
<1> SUFFICES ASSUME Init PROVE RegistryInv
    OBVIOUS
<1> USE RegistryAssumption DEF Init, IdleCall, IdleMaint, IdleCtl, IdleDrain, NoDetach
<1>1. TypeOK
    BY DEF TypeOK, Holders, Entries, CallPcs, ActivePcs, LockedPcs, DetachPcs, StopPcs,
       CallState, MaintState, CtlState, DrainState, DetachState, StopState
<1>2. \A c \in Calls : call[c].pc \notin ActivePcs
    BY DEF ActivePcs, LockedPcs
<1>3. AttachSafe
    BY <1>2 DEF AttachSafe, AttachExclusive, NothingToOverwrite, ActivePcs
<1>4. ActiveHere /\ EntryInHand
    BY <1>2 DEF ActiveHere, EntryInHand
<1> QED
    BY <1>1, <1>3, <1>4 DEF RegistryInv

-----------------------------------------------------------------------------
(* Steps that leave the handlers and the table of entries alone.           *)
LEMMA FrameSafe ==
    AttachSafe /\ ActiveHere /\ UNCHANGED <<call, attached>> => AttachSafe' /\ ActiveHere'
BY DEF AttachSafe, AttachExclusive, NothingToOverwrite, ActiveHere

(* Entries are removed, handlers stay or leave the lock.                   *)
LEMMA ShrinkSafe ==
    ASSUME TypeOK, AttachSafe, ActiveHere,
           \A w \in Workers, t \in Tenants : attached'[w][t] \in {attached[w][t], None},
           \A c \in Calls : \/ call'[c] = call[c]
                            \/ call'[c].pc \notin ActivePcs
                            \/ /\ call'[c].pc \in ActivePcs \ LockedPcs
                               /\ call'[c].worker \in Workers
    PROVE  AttachSafe' /\ ActiveHere'
BY RegistryAssumption DEF TypeOK, AttachSafe, AttachExclusive, NothingToOverwrite,
   ActiveHere, ActivePcs

(* One handler moves on, with or without the lock it has: no entry appears *)
(* in its way.                                                             *)
HasLock(c) == call[c].pc \in LockedPcs
MayCommit(c) == call[c].pc \in LockedPcs \ {"beat", "slipped"}
LEMMA MoveSafe ==
    ASSUME TypeOK, AttachSafe, ActiveHere, NEW c \in Calls,
           call[c].pc \in ActivePcs,
           \A w \in Workers, t \in Tenants : attached'[w][t] \in {attached[w][t], None},
           \A d \in Calls \ {c} : call'[d] = call[d],
           call'[c].worker = call[c].worker,
           HasLock(c)' => HasLock(c),
           MayCommit(c)' =>
               MayCommit(c) \/ attached'[call[c].worker][TenantOf[c]] = None
    PROVE  AttachSafe' /\ ActiveHere'
<1> USE RegistryAssumption DEF HasLock, MayCommit
<1>1. AttachExclusive'
    BY DEF AttachSafe, AttachExclusive
<1>2. ActiveHere'
    BY DEF ActiveHere
<1>3. ASSUME NEW d \in Calls, MayCommit(d)'
      PROVE  attached'[call'[d].worker][TenantOf[d]] = None
    <2>1. call'[d].worker = call[d].worker /\ call[d].worker \in Workers
        BY <1>3 DEF ActiveHere, ActivePcs
    <2>2. TenantOf[d] \in Tenants
        OBVIOUS
    <2>3. \/ MayCommit(d)
          \/ attached'[call[d].worker][TenantOf[d]] = None
        BY <1>3
    <2> QED
        BY <2>1, <2>2, <2>3 DEF AttachSafe, NothingToOverwrite
<1> QED
    BY <1>1, <1>2, <1>3 DEF AttachSafe, NothingToOverwrite

-----------------------------------------------------------------------------
(* ensure_attached                                                         *)
LEMMA GotoType ==
    ASSUME TypeOK, NEW c \in Calls, NEW p \in CallPcs, Goto(c, p)
    PROVE  call' \in [Calls -> CallState]
<1>1. call[c] \in CallState
    BY DEF TypeOK
<1> QED
    BY <1>1 DEF Goto, TypeOK, CallState

LEMMA EnsureAttachedTypes ==
    ASSUME RegistryInv, NEW c \in Calls, EnsureAttached(c)
    PROVE  TypeOK'
<1> USE DEF TypeOK, loopVars
<1>1. call[c].pc \in ActivePcs
    BY DEF EnsureAttached, Enter, Beat, Slip, Acquire, Lookup, Check, ReleaseGet,
       ReleaseDel, AttachProfile, AttachRaises, Commit, ActivePcs, LockedPcs
<1>2. call[c].worker \in Workers /\ TenantOf[c] \in Tenants
    BY <1>1, RegistryAssumption DEF RegistryInv, ActiveHere
<1>3. TypeOK /\ call[c] \in CallState
    BY DEF RegistryInv
<1>4. CASE Enter(c)
    <2>1. attached[call[c].worker][TenantOf[c]] \in Entries
        BY <1>4, <1>2, <1>3
    <2>2. call' \in [Calls -> CallState]
        BY <1>4, <1>3, <2>1 DEF Enter, CallState, CallPcs, ActivePcs, LockedPcs
    <2> QED
        BY <1>4, <1>3, <2>1, <2>2 DEF Enter
<1>5. CASE Beat(c)
    <2>1. call' \in [Calls -> CallState]
        BY <1>5, <1>3, GotoType DEF Beat, CallPcs, ActivePcs, LockedPcs
    <2> QED
        BY <1>5, <1>3, <2>1 DEF Beat
<1>6. CASE Check(c)
    <2>1. call' \in [Calls -> CallState]
        BY <1>6, <1>3, GotoType DEF Check, CallPcs, ActivePcs, LockedPcs
    <2> QED
        BY <1>6, <1>3, <2>1 DEF Check
<1>7. CASE ReleaseGet(c)
    <2>1. call' \in [Calls -> CallState]
        BY <1>7, <1>3, GotoType DEF ReleaseGet, CallPcs, ActivePcs, LockedPcs
    <2> QED
        BY <1>7, <1>3, <2>1 DEF ReleaseGet
<1>8. CASE Slip(c)
    <2>1. call' \in [Calls -> CallState]
        BY <1>8, <1>3 DEF Slip, CallState, Entries, CallPcs, ActivePcs, LockedPcs
    <2>2. attached' \in [Workers -> [Tenants -> Entries]]
        BY <1>8, <1>2, <1>3 DEF Slip, Pop, Entries
    <2> QED
        BY <1>8, <1>3, <2>1, <2>2 DEF Slip
<1>9. CASE Acquire(c)
    <2>1. call' \in [Calls -> CallState]
        BY <1>9, <1>3, GotoType DEF Acquire, CallPcs, ActivePcs, LockedPcs
    <2>2. lease' \in [Tenants -> Holders]
        BY <1>9, <1>2, <1>3 DEF Acquire, Holders
    <2> QED
        BY <1>9, <1>3, <2>1, <2>2 DEF Acquire
<1>10. CASE Lookup(c)
    <2>1. lease[TenantOf[c]] \in Holders
        BY <1>2, <1>3
    <2>2. CASE lease[TenantOf[c]] = call[c].worker
        <3>1. call' \in [Calls -> CallState]
            BY <1>10, <1>3, <2>2, GotoType DEF Lookup, CallPcs, ActivePcs, LockedPcs
        <3> QED
            BY <1>10, <1>3, <3>1 DEF Lookup
    <2>3. CASE lease[TenantOf[c]] # call[c].worker
        <3>1. call' = [call EXCEPT ![c].pc = "rejected", ![c].holder = lease[TenantOf[c]]]
            BY <1>10, <2>3 DEF Lookup
        <3>2. call' \in [Calls -> CallState]
            BY <1>3, <2>1, <3>1 DEF CallState, CallPcs, ActivePcs
        <3> QED
            BY <1>10, <1>3, <3>2 DEF Lookup
    <2> QED
        BY <2>2, <2>3
<1>11. CASE ReleaseDel(c)
    <2>1. call' \in [Calls -> CallState]
        BY <1>11, <1>3, GotoType DEF ReleaseDel, CallPcs, ActivePcs, LockedPcs
    <2>2. lease' \in [Tenants -> Holders]
        BY <1>11, <1>2, <1>3 DEF ReleaseDel, Holders
    <2> QED
        BY <1>11, <1>3, <2>1, <2>2 DEF ReleaseDel
<1>12. CASE AttachProfile(c)
    <2>1. call' \in [Calls -> CallState]
        BY <1>12, <1>3, GotoType DEF AttachProfile, CallPcs, ActivePcs, LockedPcs
    <2>2. profile' \in [Workers -> SUBSET Tenants]
        BY <1>12, <1>2, <1>3 DEF AttachProfile
    <2> QED
        BY <1>12, <1>3, <2>1, <2>2 DEF AttachProfile
<1>13. CASE AttachRaises(c)
    <2>1. call' \in [Calls -> CallState]
        BY <1>13, <1>3, GotoType DEF AttachRaises, CallPcs, ActivePcs, LockedPcs
    <2>2. [profile EXCEPT ![call[c].worker] = @ \cup {TenantOf[c]}] \in [Workers -> SUBSET Tenants]
        BY <1>13, <1>2, <1>3
    <2>3. profile' \in [Workers -> SUBSET Tenants]
        BY <1>13, <1>3, <2>2 DEF AttachRaises
    <2> QED
        BY <1>13, <1>3, <2>1, <2>2, <2>3 DEF AttachRaises
<1>14. CASE Commit(c)
    <2>1. call' \in [Calls -> CallState]
        BY <1>14, <1>3 DEF Commit, CallState, Entries, CallPcs, ActivePcs, LockedPcs
    <2>2. attached' \in [Workers -> [Tenants -> Entries]]
        BY <1>14, <1>2, <1>3 DEF Commit, Entries
    <2>3. registered' \subseteq Workers
        BY <1>14, <1>2, <1>3 DEF Commit
    <2> QED
        BY <1>14, <1>3, <2>1, <2>2, <2>3 DEF Commit
<1> QED
    BY <1>4, <1>5, <1>6, <1>7, <1>8, <1>9, <1>10, <1>11, <1>12, <1>13, <1>14 DEF EnsureAttached

LEMMA EnsureAttachedSafe ==
    ASSUME RegistryInv, NEW c \in Calls, EnsureAttached(c)
    PROVE  AttachSafe' /\ ActiveHere'
<1> USE RegistryAssumption DEF RegistryInv
<1>1. call[c].pc \in ActivePcs
    BY DEF EnsureAttached, Enter, Beat, Slip, Acquire, Lookup, Check, ReleaseGet,
       ReleaseDel, AttachProfile, AttachRaises, Commit, ActivePcs, LockedPcs
<1>2. call[c].worker \in Workers /\ TenantOf[c] \in Tenants
    BY <1>1 DEF ActiveHere
<1>3. CASE Enter(c)
    <2>1. attached' = attached /\ \A d \in Calls \ {c} : call'[d] = call[d]
        BY <1>3 DEF Enter, TypeOK
    <2>2. /\ call'[c].worker = call[c].worker
          /\ call'[c].pc = IF attached[call[c].worker][TenantOf[c]] = None
                           THEN "acquire" ELSE "beat"
        BY <1>3 DEF Enter, TypeOK, CallState
    <2>3. \A d \in Calls : HasLock(d) /\ call[d].worker = call[c].worker
                           => TenantOf[d] # TenantOf[c]
        BY <1>3 DEF Enter, LockTaken, HasLock
    <2>4. AttachExclusive'
        BY <2>1, <2>2, <2>3 DEF HasLock, AttachSafe, AttachExclusive
    <2>5. NothingToOverwrite'
        BY <2>1, <2>2 DEF AttachSafe, NothingToOverwrite
    <2>6. ActiveHere'
        BY <1>2, <2>1, <2>2 DEF ActiveHere
    <2> QED
        BY <2>4, <2>5, <2>6 DEF AttachSafe
<1>4. CASE Commit(c)
    <2>1. \A d \in Calls \ {c} : call'[d] = call[d]
        BY <1>4 DEF Commit, TypeOK
    <2>2. call'[c].worker = call[c].worker /\ call'[c].pc = "ready"
        BY <1>4 DEF Commit, TypeOK, CallState
    <2>3. HasLock(c) /\ ~HasLock(c)'
        BY <1>4, <2>2 DEF Commit, HasLock, LockedPcs
    <2>4. AttachExclusive'
        BY <2>1, <2>3 DEF HasLock, AttachSafe, AttachExclusive
    <2>5. ASSUME NEW d \in Calls, MayCommit(d)'
          PROVE  attached'[call'[d].worker][TenantOf[d]] = None
        <3>1. d # c /\ call'[d] = call[d]
            BY <2>1, <2>3, <2>5 DEF HasLock, MayCommit
        <3>2. HasLock(d) /\ MayCommit(d)
            BY <2>5, <3>1 DEF HasLock, MayCommit
        <3>3. attached[call[d].worker][TenantOf[d]] = None
            BY <3>2 DEF MayCommit, AttachSafe, NothingToOverwrite
        <3>4. call[d].worker # call[c].worker \/ TenantOf[d] # TenantOf[c]
            BY <2>3, <3>1, <3>2 DEF HasLock, AttachSafe, AttachExclusive
        <3>5. call[d].worker \in Workers
            BY <3>2 DEF HasLock, ActiveHere, ActivePcs
        <3> QED
            BY <1>4, <1>2, <3>1, <3>3, <3>4, <3>5 DEF Commit, TypeOK
    <2>6. ActiveHere'
        BY <1>2, <2>1, <2>2 DEF ActiveHere
    <2> QED
        BY <2>4, <2>5, <2>6 DEF AttachSafe, NothingToOverwrite, MayCommit
<1>5. ASSUME Beat(c) \/ Slip(c) \/ Acquire(c) \/ Lookup(c) \/ Check(c) \/ ReleaseGet(c)
              \/ ReleaseDel(c) \/ AttachProfile(c) \/ AttachRaises(c)
      PROVE  AttachSafe' /\ ActiveHere'
    <2>1. /\ \A d \in Calls \ {c} : call'[d] = call[d]
          /\ call'[c].worker = call[c].worker
        BY <1>5 DEF Goto, Beat, Slip, Acquire, Lookup, Check, ReleaseGet, ReleaseDel,
           AttachProfile, AttachRaises, TypeOK, CallState
    <2>2. HasLock(c)
        BY <1>5 DEF HasLock, LockedPcs, Beat, Slip, Acquire, Lookup, Check, ReleaseGet,
           ReleaseDel, AttachProfile, AttachRaises
    <2>3. \A w \in Workers, t \in Tenants : attached'[w][t] \in {attached[w][t], None}
        <3>1. CASE Slip(c)
            BY <3>1 DEF Slip, Pop, TypeOK
        <3>2. CASE ~Slip(c)
            <4>1. attached' = attached
                BY <1>5, <3>2 DEF Beat, Acquire, Lookup, Check, ReleaseGet, ReleaseDel,
                   AttachProfile, AttachRaises
            <4> QED
                BY <4>1
        <3> QED
            BY <3>1, <3>2
    <2>4. MayCommit(c)' =>
              MayCommit(c) \/ attached'[call[c].worker][TenantOf[c]] = None
        <3>1. CASE Beat(c)
            BY <3>1 DEF Beat, Goto, MayCommit, TypeOK, CallState, LockedPcs
        <3>2. CASE Slip(c)
            BY <3>2, <1>2 DEF Slip, Pop, TypeOK
        <3>3. CASE Acquire(c) \/ Lookup(c) \/ Check(c) \/ ReleaseGet(c) \/ ReleaseDel(c)
                   \/ AttachProfile(c) \/ AttachRaises(c)
            BY <3>3 DEF MayCommit, LockedPcs, Acquire, Lookup, Check, ReleaseGet, ReleaseDel,
               AttachProfile, AttachRaises
        <3> QED
            BY <1>5, <3>1, <3>2, <3>3
    <2> QED
        BY <1>1, <2>1, <2>2, <2>3, <2>4, MoveSafe
<1> QED
    BY <1>3, <1>4, <1>5 DEF EnsureAttached

LEMMA EnsureAttachedInv ==
    ASSUME RegistryInv, NEW c \in Calls, EnsureAttached(c)
    PROVE  RegistryInv'
<1>1. EntryInHand'
    BY DEF RegistryInv, EntryInHand, EnsureAttached, loopVars, Enter, Beat, Slip, Acquire,
       Lookup, Check, ReleaseGet, ReleaseDel, AttachProfile, AttachRaises, Commit
<1> QED
    BY <1>1, EnsureAttachedTypes, EnsureAttachedSafe DEF RegistryInv

-----------------------------------------------------------------------------
(* Handlers outside the lock                                               *)

rest == <<lease, registered, up, attached, profile, loopVars, nudges, stop>>

(* A handler is set to a state without the lock, nothing else changes.     *)
LEMMA OutsideInv ==
    ASSUME RegistryInv, NEW c \in Calls, NEW r \in CallState,
           call' = [call EXCEPT ![c] = r], r.pc \notin LockedPcs,
           r.pc \in ActivePcs => r.worker \in Workers,
           UNCHANGED rest
    PROVE  RegistryInv'
<1> USE DEF RegistryInv
<1>1. TypeOK'
    BY DEF TypeOK, rest, loopVars
<1>2. EntryInHand'
    BY DEF EntryInHand, rest, loopVars
<1>3. \A d \in Calls : call'[d] = IF d = c THEN r ELSE call[d]
    BY DEF TypeOK
<1>4. attached' = attached
    BY DEF rest
<1>5. AttachSafe' /\ ActiveHere'
    BY <1>3, <1>4 DEF AttachSafe, AttachExclusive, NothingToOverwrite, ActiveHere
<1> QED
    BY <1>1, <1>2, <1>5

LEMMA HandlerStepInv ==
    ASSUME RegistryInv, NEW c \in Calls, HandlerStep(c)
    PROVE  RegistryInv'
<1>1. PICK p \in {"run", "leaked", "post", "done"} : Goto(c, p) /\ UNCHANGED rest
    BY DEF HandlerStep, RunStart, RunStartRaises, RunEnd, PostEnd, WarmReturn, GiveUp, rest
<1>2. call[c].pc \in {"ready", "run", "post", "rejected"}
    BY DEF HandlerStep, RunStart, RunStartRaises, RunEnd, PostEnd, WarmReturn, GiveUp
<1>3. call[c] \in CallState /\ call[c].worker \in Workers
    BY <1>2 DEF RegistryInv, TypeOK, ActiveHere, ActivePcs
<1> DEFINE r == [call[c] EXCEPT !.pc = p]
<1>4. r \in CallState /\ r.pc = p /\ r.worker = call[c].worker
    BY <1>3 DEF CallState, CallPcs, ActivePcs
<1>5. p \notin LockedPcs
    BY DEF LockedPcs
<1>6. call' = [call EXCEPT ![c] = r]
    BY <1>1 DEF Goto
<1> QED
    BY <1>1, <1>3, <1>4, <1>5, <1>6, OutsideInv

LEMMA StartHandlerInv ==
    ASSUME RegistryInv, NEW c \in Calls, NEW w \in Workers, StartHandler(c, w)
    PROVE  RegistryInv'
<1> DEFINE r == [IdleCall EXCEPT !.pc = "lock", !.worker = w]
<1>1. r \in CallState /\ r.pc = "lock" /\ r.worker = w
    BY DEF IdleCall, CallState, CallPcs, ActivePcs, Holders, Entries
<1>2. "lock" \notin LockedPcs
    BY DEF LockedPcs
<1> QED
    BY <1>1, <1>2, OutsideInv DEF StartHandler, rest

-----------------------------------------------------------------------------
(* The loops                                                               *)

LEMMA StartDetachTypes ==
    ASSUME TypeOK, NEW w \in Workers, NEW l \in Loops, NEW t \in Tenants,
           StartDetach(w, l, t)
    PROVE  /\ attached' \in [Workers -> [Tenants -> Entries]]
           /\ detaching' \in [Workers -> [Loops -> DetachState]]
           /\ \A v \in Workers, u \in Tenants : attached'[v][u] \in {attached[v][u], None}
<1>1. NoDetach \in DetachState /\ [pc |-> "unprofile", tenant |-> t] \in DetachState
    BY DEF NoDetach, DetachState, DetachPcs
<1>2. attached' \in [Workers -> [Tenants -> Entries]]
    BY DEF StartDetach, Pop, TypeOK, Entries
<1>3. \A v \in Workers, u \in Tenants : attached'[v][u] \in {attached[v][u], None}
    BY DEF StartDetach, Pop, TypeOK
<1>4. PICK d \in DetachState : detaching' = [detaching EXCEPT ![w][l] = d]
    BY <1>1 DEF StartDetach
<1>5. detaching' \in [Workers -> [Loops -> DetachState]]
    BY <1>4 DEF TypeOK
<1> QED
    BY <1>2, <1>3, <1>5

LEMMA DetachStepInv ==
    ASSUME RegistryInv, NEW w \in Workers, NEW l \in Loops, DetachStep(w, l)
    PROVE  RegistryInv'
<1> USE DEF RegistryInv
<1>1. UNCHANGED <<call, attached, maint, ctl>>
    BY DEF DetachStep, Unprofile, DetachRelGet, DetachRelDel
<1>2. AttachSafe' /\ ActiveHere' /\ EntryInHand'
    BY <1>1, FrameSafe DEF EntryInHand
<1>3. detaching[w][l] \in DetachState
    BY DEF TypeOK
<1>4. PICK d \in DetachState : detaching' = [detaching EXCEPT ![w][l] = d]
    BY <1>3 DEF DetachStep, Unprofile, DetachRelGet, DetachRelDel, DetachState,
       DetachPcs, NoDetach
<1>5. detaching' \in [Workers -> [Loops -> DetachState]]
    BY <1>4 DEF TypeOK
<1>6. profile' \in [Workers -> SUBSET Tenants]
    <2>1. profile' = [profile EXCEPT ![w] = @ \ {detaching[w][l].tenant}] \/ profile' = profile
        BY DEF DetachStep, Unprofile, DetachRelGet, DetachRelDel
    <2> QED
        BY <2>1 DEF TypeOK
<1>7. lease' \in [Tenants -> Holders]
    <2>1. lease' = [lease EXCEPT ![detaching[w][l].tenant] = None] \/ lease' = lease
        BY DEF DetachStep, Unprofile, DetachRelGet, DetachRelDel
    <2> QED
        BY <2>1 DEF TypeOK, Holders
<1>8. registered' \in {registered, registered \cup {w}}
    BY DEF DetachStep, Unprofile, DetachRelGet, DetachRelDel
<1>9. UNCHANGED <<up, drain, nudges, stop>>
    BY DEF DetachStep, Unprofile, DetachRelGet, DetachRelDel
<1> QED
    BY <1>1, <1>2, <1>5, <1>6, <1>7, <1>8, <1>9 DEF TypeOK

LEMMA MaintenanceInv ==
    ASSUME RegistryInv, NEW w \in Workers, Maintenance(w)
    PROVE  RegistryInv'
<1> USE DEF RegistryInv
<1>1. /\ UNCHANGED <<lease, up, profile, call, ctl, drain, nudges, stop>>
      /\ registered' \in {registered, registered \cup {w}}
    BY DEF Maintenance, MaintTick, MaintBeat, MaintLost, MaintReap, MaintKeep, MaintSleep
<1>2. maint[w] \in MaintState
    BY DEF TypeOK
<1>3. PICK m \in MaintState : /\ maint' = [maint EXCEPT ![w] = m]
                              /\ m.pc = "decide" => m.entry \in Calls
    <2>1. CASE MaintTick(w)
        <3> DEFINE m == [maint[w] EXCEPT !.pc = "next", !.todo = Snapshot(w)]
        <3>1. Snapshot(w) \subseteq Calls
            BY DEF Snapshot, TypeOK, Entries
        <3>2. m \in MaintState /\ m.pc = "next"
            BY <1>2, <3>1 DEF MaintState
        <3>3. maint' = [maint EXCEPT ![w] = m]
            BY <2>1 DEF MaintTick, TypeOK
        <3> QED
            BY <3>2, <3>3
    <2>2. CASE MaintBeat(w)
        <3>1. PICK e \in maint[w].todo :
                 maint' = [maint EXCEPT ![w] =
                     [pc |-> "decide", todo |-> maint[w].todo \ {e}, entry |-> e,
                      ok |-> Heartbeat(w, TenantOf[e])]]
            BY <2>2 DEF MaintBeat, TypeOK
        <3> DEFINE m == [pc |-> "decide", todo |-> maint[w].todo \ {e}, entry |-> e,
                         ok |-> Heartbeat(w, TenantOf[e])]
        <3>2. e \in Calls /\ maint[w].todo \ {e} \in SUBSET Calls
            BY <1>2 DEF MaintState
        <3>3. Heartbeat(w, TenantOf[e]) \in BOOLEAN
            BY DEF Heartbeat
        <3>4. m \in MaintState /\ m.entry \in Calls
            BY <3>2, <3>3 DEF MaintState, Entries
        <3> QED
            BY <3>1, <3>4
    <2>3. CASE MaintLost(w) \/ MaintReap(w) \/ MaintKeep(w)
        <3> DEFINE m == [maint[w] EXCEPT !.pc = "next", !.entry = None]
        <3>1. m \in MaintState /\ m.pc = "next"
            BY <1>2 DEF MaintState, Entries
        <3>2. maint' = [maint EXCEPT ![w] = m]
            BY <2>3 DEF MaintLost, MaintReap, MaintKeep, TypeOK
        <3> QED
            BY <3>1, <3>2
    <2>4. CASE MaintSleep(w)
        <3>1. IdleMaint \in MaintState /\ IdleMaint.pc = "wait"
            BY DEF IdleMaint, MaintState, Entries
        <3> QED
            BY <2>4, <3>1 DEF MaintSleep
    <2> QED
        BY <2>1, <2>2, <2>3, <2>4 DEF Maintenance
<1>4. maint' \in [Workers -> MaintState] /\ EntryInHand'
    <2>1. \A v \in Workers : maint'[v] = IF v = w THEN m ELSE maint[v]
        BY <1>3 DEF TypeOK
    <2>2. maint' \in [Workers -> MaintState]
        BY <1>3 DEF TypeOK
    <2>3. ctl' = ctl
        BY <1>1
    <2> QED
        BY <1>3, <2>1, <2>2, <2>3 DEF EntryInHand
<1>5. /\ attached' \in [Workers -> [Tenants -> Entries]]
      /\ detaching' \in [Workers -> [Loops -> DetachState]]
      /\ \A v \in Workers, u \in Tenants : attached'[v][u] \in {attached[v][u], None}
    <2>1. CASE UNCHANGED <<attached, detaching>>
        BY <2>1 DEF TypeOK
    <2>2. CASE MaintLost(w)
        <3>1. TenantOf[maint[w].entry] \in Tenants
            BY <2>2, RegistryAssumption DEF MaintLost, MaintReady, EntryInHand
        <3>2. attached' = [attached EXCEPT ![w][TenantOf[maint[w].entry]] = None]
            BY <2>2 DEF MaintLost, Pop
        <3>3. [pc |-> "drop", tenant |-> TenantOf[maint[w].entry]] \in DetachState
            BY <3>1 DEF DetachState, DetachPcs
        <3>4. "maint" \in Loops
            BY DEF Loops
        <3>5. detaching' \in [Workers -> [Loops -> DetachState]]
            BY <2>2, <3>3, <3>4 DEF MaintLost, TypeOK
        <3> QED
            BY <3>1, <3>2, <3>5 DEF TypeOK, Entries
    <2>3. CASE MaintReap(w)
        <3>1. TenantOf[maint[w].entry] \in Tenants /\ "maint" \in Loops
            BY <2>3, RegistryAssumption DEF MaintReap, MaintReady, EntryInHand, Loops
        <3> QED
            BY <2>3, <3>1, StartDetachTypes DEF MaintReap
    <2> QED
        BY <2>1, <2>2, <2>3 DEF Maintenance, MaintTick, MaintBeat, MaintKeep, MaintSleep
<1>6. AttachSafe' /\ ActiveHere'
    BY <1>1, <1>5, ShrinkSafe
<1> QED
    BY <1>1, <1>4, <1>5, <1>6 DEF TypeOK

LEMMA ControlInv ==
    ASSUME RegistryInv, NEW w \in Workers, Control(w)
    PROVE  RegistryInv'
<1> USE DEF RegistryInv
<1>1. UNCHANGED <<lease, registered, up, profile, call, maint, drain, stop>>
    BY DEF Control, CtlTake, CtlDetach
<1>2. "ctl" \in Loops
    BY DEF Loops
<1>3. /\ attached' \in [Workers -> [Tenants -> Entries]]
      /\ detaching' \in [Workers -> [Loops -> DetachState]]
      /\ \A v \in Workers, u \in Tenants : attached'[v][u] \in {attached[v][u], None}
    <2>1. CASE UNCHANGED <<attached, detaching>>
        BY <2>1 DEF TypeOK
    <2>2. ASSUME NEW t \in Tenants, StartDetach(w, "ctl", t) PROVE <1>3!:
        BY <1>2, <2>2, StartDetachTypes
    <2>3. CASE CtlTake(w) /\ StartDetach(w, "ctl", Head(nudges[w]))
        BY <2>2, <2>3 DEF CtlTake, TypeOK
    <2>4. CASE CtlDetach(w)
        <3>1. TenantOf[ctl[w].entry] \in Tenants
            BY <2>4, RegistryAssumption DEF CtlDetach, CtlReady, EntryInHand
        <3> QED
            BY <2>2, <2>4, <3>1 DEF CtlDetach
    <2> QED
        BY <2>1, <2>3, <2>4 DEF Control, CtlTake
<1>4. PICK k \in CtlState : /\ ctl' = [ctl EXCEPT ![w] = k]
                            /\ k.pc = "poll" => k.entry \in Calls
    <2>1. ctl[w] \in CtlState /\ (ctl[w].pc = "poll" => ctl[w].entry \in Calls)
        BY DEF TypeOK, EntryInHand
    <2>2. CASE UNCHANGED ctl
        BY <2>1, <2>2 DEF TypeOK
    <2>3. CASE ctl' = [ctl EXCEPT ![w] = IdleCtl]
        <3>1. IdleCtl \in CtlState /\ IdleCtl.pc = "wait"
            BY DEF IdleCtl, CtlState, Entries
        <3> QED
            BY <2>3, <3>1
    <2>4. CASE CtlTake(w) /\ ~UNCHANGED ctl
        <3> DEFINE e == attached[w][Head(nudges[w])]
        <3>1. e # None /\ ctl' = [ctl EXCEPT ![w] = [pc |-> "poll", entry |-> e]]
            BY <2>4 DEF CtlTake
        <3>2. e \in Entries
            BY <2>4 DEF CtlTake, TypeOK
        <3> DEFINE k == [pc |-> "poll", entry |-> e]
        <3>3. k \in CtlState /\ k.entry \in Calls
            BY <3>1, <3>2 DEF Entries, CtlState
        <3> HIDE DEF e
        <3> QED
            BY <3>1, <3>3
    <2> QED
        BY <2>2, <2>3, <2>4 DEF Control, CtlDetach
<1>5. ctl' \in [Workers -> CtlState] /\ EntryInHand'
    <2>1. \A v \in Workers : ctl'[v] = IF v = w THEN k ELSE ctl[v]
        BY <1>4 DEF TypeOK
    <2>2. ctl' \in [Workers -> CtlState]
        BY <1>4 DEF TypeOK
    <2> QED
        BY <1>1, <1>4, <2>1, <2>2 DEF EntryInHand
<1>6. nudges' \in [Workers -> Seq(Tenants)]
    <2>1. nudges' = nudges \/ (nudges[w] # <<>> /\ nudges' = [nudges EXCEPT ![w] = Tail(@)])
        BY DEF Control, CtlTake, CtlDetach
    <2>2. CASE nudges[w] # <<>> /\ nudges' = [nudges EXCEPT ![w] = Tail(@)]
        <3>1. nudges[w] \in Seq(Tenants)
            BY DEF TypeOK
        <3>2. Tail(nudges[w]) \in Seq(Tenants)
            BY <2>2, <3>1
        <3> QED
            BY <2>2, <3>2 DEF TypeOK
    <2> QED
        BY <2>1, <2>2 DEF TypeOK
<1>7. AttachSafe' /\ ActiveHere'
    BY <1>1, <1>3, ShrinkSafe
<1> QED
    BY <1>1, <1>3, <1>5, <1>6, <1>7 DEF TypeOK

-----------------------------------------------------------------------------
(* Draining, dying, restarting, expiring                                   *)

LEMMA NullStates ==
    /\ IdleMaint \in MaintState /\ IdleMaint.pc = "wait"
    /\ IdleCtl \in CtlState /\ IdleCtl.pc = "wait"
    /\ IdleDrain \in DrainState
    /\ NoDetach \in DetachState
BY DEF IdleMaint, IdleCtl, IdleDrain, NoDetach, MaintState, CtlState, DrainState,
   DetachState, DetachPcs, Entries

(* The loops of w are cancelled; some of its handlers are lost.            *)
LEMMA CancelInv ==
    ASSUME RegistryInv, NEW w \in Workers, NEW L \in SUBSET Calls,
           call' = [c \in Calls |-> IF c \in L THEN [call[c] EXCEPT !.pc = "lost"] ELSE call[c]],
           maint' = [maint EXCEPT ![w] = IdleMaint],
           ctl' = [ctl EXCEPT ![w] = IdleCtl],
           detaching' = [detaching EXCEPT ![w] = [l \in Loops |-> NoDetach]],
           nudges' = [nudges EXCEPT ![w] = <<>>],
           \/ UNCHANGED attached
           \/ attached' = [attached EXCEPT ![w] = [t \in Tenants |-> None]]
    PROVE  /\ call' \in [Calls -> CallState]
           /\ maint' \in [Workers -> MaintState]
           /\ ctl' \in [Workers -> CtlState]
           /\ detaching' \in [Workers -> [Loops -> DetachState]]
           /\ nudges' \in [Workers -> Seq(Tenants)]
           /\ attached' \in [Workers -> [Tenants -> Entries]]
           /\ AttachSafe' /\ ActiveHere' /\ EntryInHand'
<1> USE DEF RegistryInv
<1>1. \A c \in Calls : /\ call[c] \in CallState
                       /\ [call[c] EXCEPT !.pc = "lost"] \in CallState
                       /\ [call[c] EXCEPT !.pc = "lost"].pc = "lost"
    <2>1. ASSUME NEW c \in Calls PROVE call[c] \in CallState
        BY DEF TypeOK
    <2> QED
        BY <2>1 DEF CallState, CallPcs
<1>2. call' \in [Calls -> CallState]
    BY <1>1
<1>3. \A c \in Calls : call'[c] = call[c] \/ call'[c].pc \notin ActivePcs
    BY <1>1 DEF ActivePcs, LockedPcs
<1>4. maint' \in [Workers -> MaintState] /\ ctl' \in [Workers -> CtlState]
    BY NullStates DEF TypeOK
<1>5. detaching' \in [Workers -> [Loops -> DetachState]]
    BY NullStates DEF TypeOK
<1>6. nudges' \in [Workers -> Seq(Tenants)]
    BY DEF TypeOK
<1>7. /\ attached' \in [Workers -> [Tenants -> Entries]]
      /\ \A v \in Workers, u \in Tenants : attached'[v][u] \in {attached[v][u], None}
    <2>1. CASE UNCHANGED attached
        BY <2>1 DEF TypeOK
    <2>2. CASE attached' = [attached EXCEPT ![w] = [t \in Tenants |-> None]]
        BY <2>2 DEF TypeOK, Entries
    <2> QED
        BY <2>1, <2>2
<1>8. AttachSafe' /\ ActiveHere'
    BY <1>3, <1>7, ShrinkSafe
<1>9. EntryInHand'
    <2>1. \A v \in Workers : /\ maint'[v] = IF v = w THEN IdleMaint ELSE maint[v]
                             /\ ctl'[v] = IF v = w THEN IdleCtl ELSE ctl[v]
        BY DEF TypeOK
    <2> QED
        BY <2>1, NullStates DEF EntryInHand
<1> QED
    BY <1>2, <1>4, <1>5, <1>6, <1>7, <1>8, <1>9

LEMMA DrainStartInv ==
    ASSUME RegistryInv, NEW w \in Workers, DrainStart(w)
    PROVE  RegistryInv'
<1>0. PICK unborn \in SUBSET {c \in Calls : call[c].pc = "lock"} :
          call' = [c \in Calls |->
                      IF /\ call[c].worker = w /\ call[c].pc \in ActivePcs
                         /\ c \in Warm \cup unborn
                      THEN [call[c] EXCEPT !.pc = "lost"] ELSE call[c]]
    BY DEF DrainStart
<1> DEFINE L == {c \in Calls : /\ call[c].worker = w /\ call[c].pc \in ActivePcs
                               /\ c \in Warm \cup unborn}
<1>1. call' = [c \in Calls |-> IF c \in L THEN [call[c] EXCEPT !.pc = "lost"] ELSE call[c]]
    BY <1>0
<1>2. drain' \in [Workers -> DrainState]
    BY DEF DrainStart, RegistryInv, TypeOK, DrainState
<1>3. L \in SUBSET Calls
    OBVIOUS
<1> HIDE DEF L
<1> QED
    BY <1>1, <1>2, <1>3, CancelInv DEF DrainStart, RegistryInv, TypeOK

LEMMA DownInv ==
    ASSUME RegistryInv, NEW w \in Workers, Down(w), registered' \subseteq Workers
    PROVE  RegistryInv'
<1> DEFINE L == {c \in Calls :
                    call[c].worker = w /\ call[c].pc \in ActivePcs \cup {"leaked"}}
<1>1. call' = [c \in Calls |-> IF c \in L THEN [call[c] EXCEPT !.pc = "lost"] ELSE call[c]]
    BY DEF Down
<1>2. /\ drain' \in [Workers -> DrainState]
      /\ profile' \in [Workers -> SUBSET Tenants]
      /\ up' \subseteq Workers
    BY NullStates DEF Down, RegistryInv, TypeOK
<1>3. L \in SUBSET Calls
    OBVIOUS
<1> HIDE DEF L
<1> QED
    BY <1>1, <1>2, <1>3, CancelInv DEF Down, RegistryInv, TypeOK

LEMMA DrainNextInv ==
    ASSUME RegistryInv, NEW w \in Workers, DrainNext(w)
    PROVE  RegistryInv'
<1> USE DEF RegistryInv
<1>1. PICK t \in drain[w].todo :
          /\ StartDetach(w, "drain", t)
          /\ drain' = [drain EXCEPT ![w].todo = @ \ {t}]
    BY DEF DrainNext
<1>2. t \in Tenants /\ drain[w] \in DrainState /\ "drain" \in Loops
    BY DEF TypeOK, DrainState, Loops
<1>3. drain' \in [Workers -> DrainState]
    BY <1>1, <1>2 DEF TypeOK, DrainState
<1>4. UNCHANGED <<lease, registered, up, profile, call, maint, ctl, nudges, stop>>
    BY DEF DrainNext
<1>5. AttachSafe' /\ ActiveHere'
    BY <1>1, <1>2, <1>4, StartDetachTypes, ShrinkSafe
<1> QED
    BY <1>1, <1>2, <1>3, <1>4, <1>5, StartDetachTypes DEF TypeOK, EntryInHand

(* Only leases, registrations and processes come and go.                   *)
LEMMA PlainInv ==
    ASSUME RegistryInv, UNCHANGED <<attached, profile, call, loopVars>>,
           lease' \in [Tenants -> Holders], registered' \subseteq Workers,
           up' \subseteq Workers, nudges' \in [Workers -> Seq(Tenants)],
           stop' \in [Stops -> StopState]
    PROVE  RegistryInv'
BY FrameSafe DEF RegistryInv, TypeOK, EntryInHand, loopVars

LEMMA StopStepInv ==
    ASSUME RegistryInv, NEW s \in Stops, StopStep(s)
    PROVE  RegistryInv'
<1> USE DEF RegistryInv
<1>1. UNCHANGED <<attached, profile, call, loopVars, registered, up>>
    BY DEF StopStep, StopHolder, StopNudge, StopNoHolder, StopStale, StopRelGet, StopRelDel
<1>2. TenantOf[s] \in Tenants /\ stop[s] \in StopState
    BY RegistryAssumption DEF TypeOK
<1>3. lease' \in [Tenants -> Holders]
    <2>1. lease' = lease \/ lease' = [lease EXCEPT ![TenantOf[s]] = None]
        BY DEF StopStep, StopHolder, StopNudge, StopNoHolder, StopStale, StopRelGet, StopRelDel
    <2> QED
        BY <2>1 DEF TypeOK, Holders
<1>4. nudges' \in [Workers -> Seq(Tenants)]
    <2>1. \/ nudges' = nudges
          \/ /\ stop[s].token \in registered
             /\ nudges' = [nudges EXCEPT ![stop[s].token] = Append(@, TenantOf[s])]
        BY DEF StopStep, StopHolder, StopNudge, StopNoHolder, StopStale, StopRelGet, StopRelDel
    <2>2. CASE nudges' = nudges
        BY <2>2 DEF TypeOK
    <2>3. CASE /\ stop[s].token \in registered
               /\ nudges' = [nudges EXCEPT ![stop[s].token] = Append(@, TenantOf[s])]
        <3>1. \A q \in Seq(Tenants) : Append(q, TenantOf[s]) \in Seq(Tenants)
            BY <1>2
        <3> QED
            BY <2>3, <3>1 DEF TypeOK
    <2> QED
        BY <2>1, <2>2, <2>3
<1>5. stop' \in [Stops -> StopState]
    <2>1. lease[TenantOf[s]] \in Holders
        BY <1>2 DEF TypeOK
    <2>2. PICK r \in StopState : stop' = [stop EXCEPT ![s] = r]
        <3>1. ASSUME NEW p \in StopPcs, StopGoto(s, p)
              PROVE  \E r \in StopState : stop' = [stop EXCEPT ![s] = r]
            <4> DEFINE r == [stop[s] EXCEPT !.pc = p]
            <4>1. r \in StopState
                BY <1>2 DEF StopState
            <4>2. stop' = [stop EXCEPT ![s] = r]
                BY <3>1 DEF StopGoto
            <4> QED
                BY <4>1, <4>2
        <3>2. CASE StopHolder(s) \/ StopStale(s)
            BY <2>1, <3>2 DEF StopHolder, StopStale, StopState, StopPcs
        <3>3. CASE StopNudge(s) \/ StopNoHolder(s) \/ StopRelGet(s) \/ StopRelDel(s)
            BY <3>1, <3>3 DEF StopNudge, StopNoHolder, StopRelGet, StopRelDel, StopPcs
        <3> QED
            BY <3>2, <3>3 DEF StopStep
    <2> QED
        BY <2>2 DEF TypeOK
<1> QED
    BY <1>1, <1>3, <1>4, <1>5, PlainInv DEF TypeOK

LEMMA LeaseExpireInv ==
    ASSUME RegistryInv, NEW t \in Tenants, LeaseExpire(t)
    PROVE  RegistryInv'
<1>1. lease' \in [Tenants -> Holders]
    BY DEF LeaseExpire, RegistryInv, TypeOK, Holders
<1> QED
    BY <1>1, PlainInv DEF LeaseExpire, RegistryInv, TypeOK

-----------------------------------------------------------------------------
(* Every step of the registry, for TurnDispatch as well                    *)
LEMMA RegistryStepInv ==
    ASSUME RegistryInv, RegistryStep
    PROVE  RegistryInv'
<1>1. ASSUME NEW w \in Workers, DrainEnd(w) PROVE RegistryInv'
    <2>1. Down(w) /\ registered' \subseteq Workers
        BY <1>1 DEF DrainEnd, RegistryInv, TypeOK
    <2> QED
        BY <2>1, DownInv
<1>2. ASSUME NEW w \in Workers, Crash(w) PROVE RegistryInv'
    <2>1. Down(w) /\ registered' \subseteq Workers
        BY <1>2 DEF Crash, RegistryInv, TypeOK
    <2> QED
        BY <2>1, DownInv
<1>3. ASSUME NEW w \in Workers, Restart(w) \/ RegExpire(w) PROVE RegistryInv'
    BY <1>3, PlainInv DEF Restart, RegExpire, RegistryInv, TypeOK
<1>4. ASSUME NEW w \in Workers, WorkerStep(w) PROVE RegistryInv'
    BY <1>1, <1>3, <1>4, MaintenanceInv, ControlInv, DetachStepInv, DrainNextInv
    DEF WorkerStep
<1> QED
    BY <1>2, <1>3, <1>4, EnsureAttachedInv, DrainStartInv, StopStepInv, LeaseExpireInv
    DEF RegistryStep

LEMMA NextRegistryInv == RegistryInv /\ [Next]_vars => RegistryInv'
<1> SUFFICES ASSUME RegistryInv, [Next]_vars PROVE RegistryInv'
    OBVIOUS
<1>1. CASE Next
    BY <1>1, RegistryStepInv, HandlerStepInv, StartHandlerInv DEF Next, Begin
<1>2. CASE UNCHANGED vars
    BY <1>2, PlainInv DEF vars, loopVars, RegistryInv, TypeOK
<1> QED
    BY <1>1, <1>2

LEMMA RegistryInvariance == Spec => []RegistryInv
BY InitRegistryInv, NextRegistryInv, PTL DEF Spec

(* All state of workers, API and Redis keeps its type, for any number of   *)
(* workers, tenants and handlers and under every fault.                    *)
THEOREM TypeCorrect == Spec => []TypeOK
<1>1. RegistryInv => TypeOK
    BY DEF RegistryInv
<1> QED
    BY <1>1, RegistryInvariance, PTL

(* The attach lock works: one handler of a worker attaches a tenant at a   *)
(* time, and finds no entry to overwrite (tenants.py:159-166, 204).        *)
THEOREM AttachSafeAlways == Spec => []AttachSafe
<1>1. RegistryInv => AttachSafe
    BY DEF RegistryInv
<1> QED
    BY <1>1, RegistryInvariance, PTL

-----------------------------------------------------------------------------
(* No step overwrites an entry                                             *)
LEMMA PopKeeps ==
    ASSUME TypeOK, NEW w, NEW t, Pop(w, t)
    PROVE  EntryNotReplaced
BY DEF TypeOK, Pop, EntryNotReplaced

LEMMA SameKeeps ==
    ASSUME UNCHANGED attached
    PROVE  EntryNotReplaced
BY DEF EntryNotReplaced

LEMMA CommitKeeps ==
    ASSUME RegistryInv, NEW c \in Calls, Commit(c)
    PROVE  EntryNotReplaced
<1>1. call[c].pc \in LockedPcs \ {"beat", "slipped"}
    BY DEF Commit, LockedPcs
<1>2. attached[call[c].worker][TenantOf[c]] = None
    BY <1>1 DEF RegistryInv, AttachSafe, NothingToOverwrite
<1> QED
    BY <1>2 DEF Commit, EntryNotReplaced, RegistryInv, TypeOK

LEMMA RegistryStepKeeps ==
    ASSUME RegistryInv, RegistryStep
    PROVE  EntryNotReplaced
<1> TypeOK
    BY DEF RegistryInv
<1>1. ASSUME NEW c \in Calls, EnsureAttached(c) PROVE EntryNotReplaced
    <2>1. CASE Slip(c)
        BY <2>1, PopKeeps DEF Slip
    <2>2. CASE Commit(c)
        BY <2>2, CommitKeeps
    <2>3. CASE ~Slip(c) /\ ~Commit(c)
        BY <1>1, <2>3, SameKeeps DEF EnsureAttached, Enter, Beat, Acquire, Lookup, Check,
           ReleaseGet, ReleaseDel, AttachProfile, AttachRaises
    <2> QED
        BY <2>1, <2>2, <2>3
<1>2. ASSUME NEW w \in Workers, Maintenance(w) PROVE EntryNotReplaced
    BY <1>2, PopKeeps, SameKeeps DEF Maintenance, MaintTick, MaintBeat, MaintLost,
       MaintReap, MaintKeep, MaintSleep, StartDetach
<1>3. ASSUME NEW w \in Workers, Control(w) \/ DrainNext(w) PROVE EntryNotReplaced
    BY <1>3, PopKeeps, SameKeeps DEF Control, CtlTake, CtlDetach, DrainNext, StartDetach
<1>4. ASSUME NEW w \in Workers, NEW l \in Loops, DetachStep(w, l) PROVE EntryNotReplaced
    BY <1>4, SameKeeps DEF DetachStep, Unprofile, DetachRelGet, DetachRelDel
<1>5. ASSUME NEW w \in Workers, DrainEnd(w) \/ Crash(w) PROVE EntryNotReplaced
    <2>1. attached' = [attached EXCEPT ![w] = [t \in Tenants |-> None]]
        BY <1>5 DEF DrainEnd, Crash, Down
    <2> QED
        BY <2>1 DEF TypeOK, EntryNotReplaced
<1>6. ASSUME NEW w \in Workers, Restart(w) \/ DrainStart(w) \/ RegExpire(w)
      PROVE  EntryNotReplaced
    BY <1>6, SameKeeps DEF Restart, DrainStart, RegExpire
<1>7. ASSUME NEW s \in Stops, StopStep(s) PROVE EntryNotReplaced
    BY <1>7, SameKeeps DEF StopStep, StopHolder, StopNudge, StopNoHolder, StopStale,
       StopRelGet, StopRelDel
<1>8. ASSUME NEW t \in Tenants, LeaseExpire(t) PROVE EntryNotReplaced
    BY <1>8, SameKeeps DEF LeaseExpire
<1> QED
    BY <1>1, <1>2, <1>3, <1>4, <1>5, <1>6, <1>7, <1>8 DEF RegistryStep, WorkerStep

(* A live AttachedTenant, and the count of the runs that use it, is never  *)
(* overwritten by a second attach of its tenant (tenants.py:204).          *)
THEOREM NoEntryReplacedAlways == Spec => NoEntryReplaced
<1>1. RegistryInv /\ [Next]_vars => [EntryNotReplaced]_vars
    <2> SUFFICES ASSUME RegistryInv, Next PROVE EntryNotReplaced
        OBVIOUS
    <2>1. CASE RegistryStep
        BY <2>1, RegistryStepKeeps
    <2>2. CASE UNCHANGED attached
        BY <2>2, SameKeeps
    <2> QED
        BY <2>1, <2>2 DEF Next, HandlerStep, RunStart, RunStartRaises, RunEnd, PostEnd,
           WarmReturn, GiveUp, Begin, StartHandler
<1> QED
    BY <1>1, RegistryInvariance, PTL DEF Spec, NoEntryReplaced
=============================================================================
