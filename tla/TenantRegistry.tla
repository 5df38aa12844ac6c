--------------------------- MODULE TenantRegistry ---------------------------
(***************************************************************************)
(* The pool worker plane of verxio-api: worker/tenants.py attaches tenants *)
(* to workers under Redis leases (infra/redis.py), the API stops them      *)
(* (runtime_orch/pool.py).                                                 *)
(*                                                                         *)
(* Every worker is one asyncio process: a step below is what one coroutine *)
(* does between two awaits, so coroutines of a worker, other workers and   *)
(* the API interleave exactly at the awaits.  A redis GET followed by a    *)
(* redis DEL is two steps.                                                 *)
(***************************************************************************)
EXTENDS Naturals, FiniteSets, Sequences

CONSTANTS
    Workers,      \* agent workers (VERXIO_WORKER_ID)
    Tenants,      \* "{workspace}:{agent}" names
    Calls,        \* calls of ensure_attached, one per delivered message
    Warm,         \* the calls made by handle_attach (no turn follows)
    Stops,        \* calls of PoolRuntimeManager.stop
    TenantOf,     \* the tenant each call and each stop is about
    MaxTenants,   \* VERXIO_WORKER_MAX_TENANTS
    MaxRuns,      \* VERXIO_WORKER_MAX_CONCURRENT_RUNS
    Faults,       \* what the environment may do, see FaultKinds
    None

(* "expire"    a lease may expire although its holder is alive (paused)    *)
(* "regexpire" a live worker may miss its 45 s registration                *)
(* "crash"     a worker process may die and be restarted                   *)
(* "drain"     a worker may get SIGTERM and be restarted                   *)
(* "raise"     a database, sidecar or heartbeat call may raise             *)
(* "longrun"   a run may outlast the 120 s that the control loop waits     *)
(* "apicrash"  the API may die between a receipt and its stream entry      *)
FaultKinds ==
    {"expire", "regexpire", "crash", "drain", "raise", "longrun", "apicrash"}

ASSUME RegistryAssumption ==
    /\ Warm \subseteq Calls
    /\ TenantOf \in [Calls \cup Stops -> Tenants]
    /\ MaxTenants \in Nat \ {0}
    /\ MaxRuns \in Nat \ {0}
    /\ Faults \subseteq FaultKinds
    /\ None \notin Workers \cup Calls \cup Tenants

VARIABLES
    lease,       \* lease[t]: worker id stored at verxio:lease:tenant:{t}
    registered,  \* workers whose registration key has not expired
    up,          \* workers whose process runs
    attached,    \* attached[w][t]: entry of TenantRegistry._tenants
    profile,     \* profile[w]: profiles the sidecar of w knows
    call,        \* call[c]: progress of a handler and its ensure_attached
    maint,       \* maint[w]: maintenance_loop
    ctl,         \* ctl[w]: control_loop
    drain,       \* drain[w]: detach_all after SIGTERM
    detaching,   \* detaching[w][l]: a detach in progress in loop l of w
    nudges,      \* nudges[w]: published "detach" messages not yet served
    stop         \* stop[s]: progress of PoolRuntimeManager.stop

loopVars == <<maint, ctl, drain, detaching>>
vars == <<lease, registered, up, attached, profile, call, maint, ctl, drain,
          detaching, nudges, stop>>

(***************************************************************************)
(* An AttachedTenant object is named by the call that created it: a call   *)
(* creates at most one.                                                    *)
(***************************************************************************)
Entries == Calls \cup {None}
Holders == Workers \cup {None}
Loops == {"maint", "ctl", "drain"}

(* The program counter of a call names the await it is at.                 *)
LockedPcs == {"beat", "slipped", "acquire", "lookup", "check", "fullGet",
              "fullDel", "restore", "failGet", "failDel", "commit"}
ActivePcs == LockedPcs \cup {"lock", "ready", "rejected", "run", "post"}
CallPcs == ActivePcs \cup {"idle", "leaked", "done", "lost"}
DetachPcs == {"none", "unprofile", "relGet", "relDel", "drop"}
StopPcs == {"idle", "info", "stale", "relGet", "relDel", "done"}

CallState == [pc: CallPcs, worker: Holders, entry: Entries, holder: Holders]
MaintState == [pc: {"wait", "next", "decide"}, todo: SUBSET Calls, entry: Entries,
               ok: BOOLEAN]
CtlState == [pc: {"wait", "poll"}, entry: Entries]
DrainState == [on: BOOLEAN, todo: SUBSET Tenants]
DetachState == [pc: DetachPcs, tenant: Tenants \cup {None}]
StopState == [pc: StopPcs, token: Holders]

TypeOK ==
    /\ lease \in [Tenants -> Holders]
    /\ registered \subseteq Workers
    /\ up \subseteq Workers
    /\ attached \in [Workers -> [Tenants -> Entries]]
    /\ profile \in [Workers -> SUBSET Tenants]
    /\ call \in [Calls -> CallState]
    /\ maint \in [Workers -> MaintState]
    /\ ctl \in [Workers -> CtlState]
    /\ drain \in [Workers -> DrainState]
    /\ detaching \in [Workers -> [Loops -> DetachState]]
    /\ nudges \in [Workers -> Seq(Tenants)]
    /\ stop \in [Stops -> StopState]

IdleCall == [pc |-> "idle", worker |-> None, entry |-> None, holder |-> None]
IdleMaint == [pc |-> "wait", todo |-> {}, entry |-> None, ok |-> FALSE]
IdleCtl == [pc |-> "wait", entry |-> None]
IdleDrain == [on |-> FALSE, todo |-> {}]
NoDetach == [pc |-> "none", tenant |-> None]

Init ==
    /\ lease = [t \in Tenants |-> None]
    /\ registered = Workers
    /\ up = Workers
    /\ attached = [w \in Workers |-> [t \in Tenants |-> None]]
    /\ profile = [w \in Workers |-> {}]
    /\ call = [c \in Calls |-> IdleCall]
    /\ maint = [w \in Workers |-> IdleMaint]
    /\ ctl = [w \in Workers |-> IdleCtl]
    /\ drain = [w \in Workers |-> IdleDrain]
    /\ detaching = [w \in Workers |-> [l \in Loops |-> NoDetach]]
    /\ nudges = [w \in Workers |-> <<>>]
    /\ stop = [s \in Stops |-> [pc |-> "idle", token |-> None]]

-----------------------------------------------------------------------------
(* len(self._tenants) of worker w                                          *)
EntryCount(w) == Cardinality({t \in Tenants : attached[w][t] # None})

(* BUG variant: active_runs is never decremented                           *)
BusyForEver(e) ==
    \E c \in Calls : call[c].entry = e /\ call[c].pc \in {"run", "leaked", "post", "done"}

(* active_runs of the AttachedTenant e is not zero                         *)
Busy(e) == \E c \in Calls : call[c].entry = e /\ call[c].pc \in {"run", "leaked"}

(* the handlers of w that hold one of its _slots()                         *)
InSlot(w) == {c \in Calls : call[c].worker = w /\ call[c].pc \in {"run", "post"}}

(* BUG variants of the lock: never taken; not released on the way out      *)
LockForgotten(w, t) == FALSE
LockKept(w, t) ==
    \E c \in Calls : /\ call[c].worker = w /\ TenantOf[c] = t
                     /\ call[c].pc \in LockedPcs \cup {"done"}

(* the per-tenant asyncio lock of ensure_attached is taken                 *)
LockTaken(w, t) ==
    \E c \in Calls : /\ call[c].worker = w
                     /\ TenantOf[c] = t
                     /\ call[c].pc \in LockedPcs

(* lookup_tenant_holder: the token, unless its registration expired        *)
LiveHolder(t) == IF lease[t] \in registered THEN lease[t] ELSE None

(* BUG variant: any token will do                                          *)
HeartbeatAny(w, t) == lease[t] # None

(* heartbeat_lease: the key still carries the worker's token               *)
Heartbeat(w, t) == lease[t] = w

Goto(c, pc) == call' = [call EXCEPT ![c].pc = pc]

(* self._tenants.pop(name, None)                                           *)
Pop(w, t) == attached' = [attached EXCEPT ![w][t] = None]

-----------------------------------------------------------------------------
(* ensure_attached, from the delivered message to its outcome              *)

(* A consumer of w has read a message and starts its handler.              *)
StartHandler(c, w) ==
    /\ w \in up
    /\ ~drain[w].on
    /\ call' = [call EXCEPT ![c] = [IdleCall EXCEPT !.pc = "lock", !.worker = w]]
    /\ UNCHANGED <<lease, registered, up, attached, profile, loopVars, nudges, stop>>

(* The message of the call is delivered once.                              *)
Begin(c, w) == call[c].pc = "idle" /\ StartHandler(c, w)

(* Turns run as concurrent tasks, the attach messages that a worker has    *)
(* read are handled one by one.                                            *)
ItsTurn(c) ==
    c \in Warm =>
        ~\E d \in Warm : /\ call[d].worker = call[c].worker
                         /\ call[d].pc \in ActivePcs \ {"lock"}

(* async with self._attach_lock(name), then self._tenants.get(name)        *)
Enter(c) ==
    LET w == call[c].worker
        e == attached[w][TenantOf[c]]
    IN  /\ call[c].pc = "lock"
        /\ ItsTurn(c)
        /\ ~LockTaken(w, TenantOf[c])
        /\ call' = [call EXCEPT ![c].pc = IF e = None THEN "acquire" ELSE "beat",
                                ![c].entry = e]
        /\ UNCHANGED <<lease, registered, up, attached, profile, loopVars, nudges, stop>>

(* heartbeat_lease of the current entry: reuse it, or it slipped away      *)
Beat(c) ==
    /\ call[c].pc = "beat"
    /\ Goto(c, IF Heartbeat(call[c].worker, TenantOf[c]) THEN "ready" ELSE "slipped")
    /\ UNCHANGED <<lease, registered, up, attached, profile, loopVars, nudges, stop>>

(* "Lease slipped away": pop the name and fall through                     *)
Slip(c) ==
    /\ call[c].pc = "slipped"
    /\ call' = [call EXCEPT ![c].pc = "acquire", ![c].entry = None]
    /\ Pop(call[c].worker, TenantOf[c])
    /\ UNCHANGED <<lease, registered, up, profile, loopVars, nudges, stop>>

(* The runtime row is read (every producer resolves it first, and nothing  *)
(* deletes it), then SET NX EX with the worker id                          *)
Acquire(c) ==
    LET t == TenantOf[c]
    IN  /\ call[c].pc = "acquire"
        /\ IF lease[t] = None
           THEN /\ lease' = [lease EXCEPT ![t] = call[c].worker]
                /\ Goto(c, "check")
           ELSE Goto(c, "lookup") /\ UNCHANGED lease
        /\ UNCHANGED <<registered, up, attached, profile, loopVars, nudges, stop>>

(* lookup_holder: a lease that carries our own id is ours to use           *)
Lookup(c) ==
    LET h == lease[TenantOf[c]]
    IN  /\ call[c].pc = "lookup"
        /\ IF h = call[c].worker
           THEN Goto(c, "check")
           ELSE call' = [call EXCEPT ![c].pc = "rejected", ![c].holder = h]
        /\ UNCHANGED <<lease, registered, up, attached, profile, loopVars, nudges, stop>>

(* len(self._tenants) >= max_tenants(), read before the awaits that follow *)
Check(c) ==
    /\ call[c].pc = "check"
    /\ Goto(c, IF EntryCount(call[c].worker) >= MaxTenants THEN "fullGet" ELSE "restore")
    /\ UNCHANGED <<lease, registered, up, attached, profile, loopVars, nudges, stop>>

(* release_lease is GET, compare, DEL: two round trips                     *)
ReleaseGet(c) ==
    LET mine == lease[TenantOf[c]] = call[c].worker
    IN  /\ \/ /\ call[c].pc = "fullGet"
              /\ Goto(c, IF mine THEN "fullDel" ELSE "rejected")
           \/ /\ call[c].pc = "failGet"
              /\ Goto(c, IF mine THEN "failDel" ELSE "done")
        /\ UNCHANGED <<lease, registered, up, attached, profile, loopVars, nudges, stop>>

ReleaseDel(c) ==
    /\ \/ call[c].pc = "fullDel" /\ Goto(c, "rejected")
       \/ call[c].pc = "failDel" /\ Goto(c, "done")
    /\ lease' = [lease EXCEPT ![TenantOf[c]] = None]
    /\ UNCHANGED <<registered, up, attached, profile, loopVars, nudges, stop>>

(* restore_home, hydrate, .env, then hermes_client.attach_profile          *)
AttachProfile(c) ==
    /\ call[c].pc = "restore"
    /\ profile' = [profile EXCEPT ![call[c].worker] = @ \cup {TenantOf[c]}]
    /\ Goto(c, "commit")
    /\ UNCHANGED <<lease, registered, up, attached, loopVars, nudges, stop>>

(* One of those calls raises, attach_profile possibly after it took effect *)
AttachRaises(c) ==
    /\ "raise" \in Faults
    /\ call[c].pc = "restore"
    /\ \/ UNCHANGED profile
       \/ profile' = [profile EXCEPT ![call[c].worker] = @ \cup {TenantOf[c]}]
    /\ Goto(c, "failGet")
    /\ UNCHANGED <<lease, registered, up, attached, loopVars, nudges, stop>>

(* self._tenants[name] = tenant; self.register(); the lock is released     *)
Commit(c) ==
    LET w == call[c].worker
    IN  /\ call[c].pc = "commit"
        /\ attached' = [attached EXCEPT ![w][TenantOf[c]] = c]
        /\ registered' = registered \cup {w}
        /\ call' = [call EXCEPT ![c].pc = "ready", ![c].entry = c]
        /\ UNCHANGED <<lease, up, profile, loopVars, nudges, stop>>

EnsureAttached(c) ==
    \/ Enter(c) \/ Beat(c) \/ Slip(c) \/ Acquire(c) \/ Lookup(c) \/ Check(c)
    \/ ReleaseGet(c) \/ ReleaseDel(c)
    \/ AttachProfile(c) \/ AttachRaises(c) \/ Commit(c)

-----------------------------------------------------------------------------
(* What the handler does with the outcome                                  *)

(* async with _slots(): active_runs += 1 on the entry that was returned    *)
RunStart(c) ==
    /\ call[c].pc = "ready" /\ c \notin Warm
    /\ Cardinality(InSlot(call[c].worker)) < MaxRuns
    /\ Goto(c, "run")
    /\ UNCHANGED <<lease, registered, up, attached, profile, loopVars, nudges, stop>>

(* mark_job or publish raises between active_runs += 1 and the try block   *)
RunStartRaises(c) ==
    /\ "raise" \in Faults
    /\ call[c].pc = "ready" /\ c \notin Warm
    /\ Cardinality(InSlot(call[c].worker)) < MaxRuns
    /\ Goto(c, "leaked")
    /\ UNCHANGED <<lease, registered, up, attached, profile, loopVars, nudges, stop>>

(* finally: active_runs -= 1                                               *)
RunEnd(c) ==
    /\ call[c].pc = "run"
    /\ Goto(c, "post")
    /\ UNCHANGED <<lease, registered, up, attached, profile, loopVars, nudges, stop>>

(* _post_turn is over, the slot is free, the message is acknowledged       *)
PostEnd(c) ==
    /\ call[c].pc = "post"
    /\ Goto(c, "done")
    /\ UNCHANGED <<lease, registered, up, attached, profile, loopVars, nudges, stop>>

(* handle_attach returns when the tenant is attached                       *)
WarmReturn(c) ==
    /\ call[c].pc = "ready" /\ c \in Warm
    /\ Goto(c, "done")
    /\ UNCHANGED <<lease, registered, up, attached, profile, loopVars, nudges, stop>>

(* handle_attach logs AttachRejected and acknowledges the message          *)
GiveUp(c) ==
    /\ call[c].pc = "rejected"
    /\ Goto(c, "done")
    /\ UNCHANGED <<lease, registered, up, attached, profile, loopVars, nudges, stop>>

-----------------------------------------------------------------------------
(* detach(name): pop, final sync, detach_profile, release_lease            *)

StartDetach(w, l, t) ==
    /\ Pop(w, t)
    /\ detaching' = [detaching EXCEPT ![w][l] =
           IF attached[w][t] = None THEN NoDetach
                                    ELSE [pc |-> "unprofile", tenant |-> t]]

(* hermes_client.detach_profile; a failure is logged and ignored.  "drop"  *)
(* is the same call in the lost-lease branch of the maintenance loop.      *)
Unprofile(w, l) ==
    LET d == detaching[w][l]
    IN  /\ d.pc \in {"unprofile", "drop"}
        /\ \/ profile' = [profile EXCEPT ![w] = @ \ {d.tenant}]
           \/ "raise" \in Faults /\ UNCHANGED profile
        /\ detaching' = [detaching EXCEPT ![w][l] =
               IF d.pc = "drop" THEN NoDetach ELSE [d EXCEPT !.pc = "relGet"]]
        /\ UNCHANGED <<lease, registered, up, attached, call, maint, ctl, drain, nudges, stop>>

DetachRelGet(w, l) ==
    LET d == detaching[w][l]
        mine == lease[d.tenant] = w
    IN  /\ d.pc = "relGet"
        /\ detaching' = [detaching EXCEPT ![w][l] =
               IF mine THEN [d EXCEPT !.pc = "relDel"] ELSE NoDetach]
        /\ registered' = IF mine THEN registered ELSE registered \cup {w}
        /\ UNCHANGED <<lease, up, attached, profile, call, maint, ctl, drain, nudges, stop>>

DetachRelDel(w, l) ==
    LET d == detaching[w][l]
    IN  /\ d.pc = "relDel"
        /\ lease' = [lease EXCEPT ![d.tenant] = None]
        /\ detaching' = [detaching EXCEPT ![w][l] = NoDetach]
        /\ registered' = registered \cup {w}
        /\ UNCHANGED <<up, attached, profile, call, maint, ctl, drain, nudges, stop>>

DetachStep(w, l) == Unprofile(w, l) \/ DetachRelGet(w, l) \/ DetachRelDel(w, l)

-----------------------------------------------------------------------------
(* maintenance_loop: one tick walks a snapshot of the attached entries     *)

MaintReady(w, pc) ==
    /\ w \in up /\ ~drain[w].on
    /\ maint[w].pc = pc
    /\ detaching[w]["maint"].pc = "none"

(* self.all()                                                              *)
Snapshot(w) == {attached[w][t] : t \in Tenants} \ {None}

MaintTick(w) ==
    /\ MaintReady(w, "wait")
    /\ registered' = registered \cup {w}
    /\ maint' = [maint EXCEPT ![w].pc = "next",
                              ![w].todo = Snapshot(w)]
    /\ UNCHANGED <<lease, up, attached, profile, call, ctl, drain, detaching, nudges, stop>>

(* heartbeat_lease of one snapshot entry; its answer is used after an await *)
MaintBeat(w) ==
    /\ MaintReady(w, "next")
    /\ \E e \in maint[w].todo :
          maint' = [maint EXCEPT ![w] = [pc |-> "decide", todo |-> @.todo \ {e},
                                         entry |-> e, ok |-> Heartbeat(w, TenantOf[e])]]
    /\ UNCHANGED <<lease, registered, up, attached, profile, call, ctl, drain,
                   detaching, nudges, stop>>

(* lease lost and no active run: pop the name, detach the profile, leave   *)
(* the lease alone                                                         *)
MaintLost(w) ==
    LET t == TenantOf[maint[w].entry]
    IN  /\ MaintReady(w, "decide")
        /\ ~maint[w].ok /\ ~Busy(maint[w].entry)
        /\ Pop(w, t)
        /\ detaching' = [detaching EXCEPT ![w]["maint"] = [pc |-> "drop", tenant |-> t]]
        /\ maint' = [maint EXCEPT ![w].pc = "next", ![w].entry = None]
        /\ UNCHANGED <<lease, registered, up, profile, call, ctl, drain, nudges, stop>>

(* idle for VERXIO_TENANT_IDLE_SECONDS: detach by name                     *)
MaintReap(w) ==
    /\ MaintReady(w, "decide")
    /\ maint[w].ok /\ ~Busy(maint[w].entry)
    /\ StartDetach(w, "maint", TenantOf[maint[w].entry])
    /\ maint' = [maint EXCEPT ![w].pc = "next", ![w].entry = None]
    /\ UNCHANGED <<lease, registered, up, profile, call, ctl, drain, nudges, stop>>

(* not idle, or busy: keep the entry (sync_if_due, session pruning)        *)
MaintKeep(w) ==
    /\ MaintReady(w, "decide")
    /\ maint[w].ok \/ Busy(maint[w].entry)
    /\ maint' = [maint EXCEPT ![w].pc = "next", ![w].entry = None]
    /\ UNCHANGED <<lease, registered, up, attached, profile, call, ctl, drain,
                   detaching, nudges, stop>>

(* The tick is over, or a call of it raised: wait for the next one         *)
MaintSleep(w) ==
    /\ MaintReady(w, "next")
    /\ maint[w].todo = {} \/ "raise" \in Faults
    /\ maint' = [maint EXCEPT ![w] = IdleMaint]
    /\ UNCHANGED <<lease, registered, up, attached, profile, call, ctl, drain,
                   detaching, nudges, stop>>

Maintenance(w) ==
    \/ MaintTick(w) \/ MaintBeat(w) \/ MaintLost(w)
    \/ MaintReap(w) \/ MaintKeep(w) \/ MaintSleep(w)

-----------------------------------------------------------------------------
(* control_loop: one nudge at a time                                       *)

CtlReady(w, pc) ==
    /\ w \in up /\ ~drain[w].on
    /\ ctl[w].pc = pc
    /\ detaching[w]["ctl"].pc = "none"

(* The entry of the name is detached at once if no run is active on it,    *)
(* else it is polled; without an entry there is nothing to do.             *)
CtlTake(w) ==
    LET t == Head(nudges[w])
        e == attached[w][t]
    IN  /\ CtlReady(w, "wait")
        /\ nudges[w] # <<>>
        /\ nudges' = [nudges EXCEPT ![w] = Tail(@)]
        /\ \/ /\ e = None \/ ~Busy(e)
              /\ StartDetach(w, "ctl", t)
              /\ UNCHANGED ctl
           \/ /\ e # None /\ Busy(e)
              /\ ctl' = [ctl EXCEPT ![w] = [pc |-> "poll", entry |-> e]]
              /\ UNCHANGED <<attached, detaching>>
        /\ UNCHANGED <<lease, registered, up, profile, call, maint, drain, stop>>

(* its runs ended, or 120 polls passed: detach whatever has the name now   *)
CtlDetach(w) ==
    /\ CtlReady(w, "poll")
    /\ ~Busy(ctl[w].entry) \/ "longrun" \in Faults
    /\ StartDetach(w, "ctl", TenantOf[ctl[w].entry])
    /\ ctl' = [ctl EXCEPT ![w] = IdleCtl]
    /\ UNCHANGED <<lease, registered, up, profile, call, maint, drain, nudges, stop>>

Control(w) == CtlTake(w) \/ CtlDetach(w)

-----------------------------------------------------------------------------
(* SIGTERM: the consumers and loops are cancelled wherever they are, then  *)
(* detach_all.  Turn tasks that already run go on until the process ends;  *)
(* a message whose task was not created yet is lost with its consumer.     *)

DrainStart(w) ==
    /\ "drain" \in Faults
    /\ w \in up /\ ~drain[w].on
    /\ drain' = [drain EXCEPT ![w] = [on |-> TRUE,
                     todo |-> {t \in Tenants : attached[w][t] # None}]]
    /\ maint' = [maint EXCEPT ![w] = IdleMaint]
    /\ ctl' = [ctl EXCEPT ![w] = IdleCtl]
    /\ detaching' = [detaching EXCEPT ![w] = [l \in Loops |-> NoDetach]]
    /\ \E unborn \in SUBSET {c \in Calls : call[c].pc = "lock"} :
          call' = [c \in Calls |->
                      IF /\ call[c].worker = w /\ call[c].pc \in ActivePcs
                         /\ c \in Warm \cup unborn
                      THEN [call[c] EXCEPT !.pc = "lost"] ELSE call[c]]
    /\ nudges' = [nudges EXCEPT ![w] = <<>>]
    /\ UNCHANGED <<lease, registered, up, attached, profile, stop>>

DrainNext(w) ==
    /\ drain[w].on
    /\ detaching[w]["drain"].pc = "none"
    /\ \E t \in drain[w].todo :
          /\ StartDetach(w, "drain", t)
          /\ drain' = [drain EXCEPT ![w].todo = @ \ {t}]
    /\ UNCHANGED <<lease, registered, up, profile, call, maint, ctl, nudges, stop>>

(* The process is gone: its memory, its tasks, its sidecar.                *)
Down(w) ==
    /\ up' = up \ {w}
    /\ attached' = [attached EXCEPT ![w] = [t \in Tenants |-> None]]
    /\ profile' = [profile EXCEPT ![w] = {}]
    /\ call' = [c \in Calls |->
                   IF call[c].worker = w /\ call[c].pc \in ActivePcs \cup {"leaked"}
                   THEN [call[c] EXCEPT !.pc = "lost"] ELSE call[c]]
    /\ maint' = [maint EXCEPT ![w] = IdleMaint]
    /\ ctl' = [ctl EXCEPT ![w] = IdleCtl]
    /\ drain' = [drain EXCEPT ![w] = IdleDrain]
    /\ detaching' = [detaching EXCEPT ![w] = [l \in Loops |-> NoDetach]]
    /\ nudges' = [nudges EXCEPT ![w] = <<>>]
    /\ UNCHANGED <<lease, stop>>

(* detach_all is over: unregister_worker, and asyncio.run cancels the rest *)
DrainEnd(w) ==
    /\ drain[w].on
    /\ drain[w].todo = {}
    /\ detaching[w]["drain"].pc = "none"
    /\ registered' = registered \ {w}
    /\ Down(w)

Crash(w) ==
    /\ "crash" \in Faults
    /\ w \in up
    /\ Down(w)
    /\ UNCHANGED registered

(* run_worker of the replacement: same id, REGISTRY.register()             *)
Restart(w) ==
    /\ w \notin up
    /\ up' = up \cup {w}
    /\ registered' = registered \cup {w}
    /\ UNCHANGED <<lease, attached, profile, call, loopVars, nudges, stop>>

WorkerStep(w) ==
    \/ Maintenance(w) \/ Control(w)
    \/ \E l \in Loops : DetachStep(w, l)
    \/ DrainNext(w) \/ DrainEnd(w) \/ Restart(w)

-----------------------------------------------------------------------------
(* PoolRuntimeManager.stop                                                 *)

StopGoto(s, pc) == stop' = [stop EXCEPT ![s].pc = pc]

(* self.holder: GET the lease, then GET the worker's registration          *)
StopHolder(s) ==
    LET h == lease[TenantOf[s]]
    IN  /\ stop[s].pc = "idle"
        /\ stop' = [stop EXCEPT ![s] = [pc |-> IF h = None THEN "stale" ELSE "info",
                                        token |-> h]]
        /\ UNCHANGED <<lease, registered, up, attached, profile, call, loopVars, nudges>>

(* A live holder is asked to detach; pub/sub reaches only a running worker *)
StopNudge(s) ==
    LET h == stop[s].token
    IN  /\ stop[s].pc = "info" /\ h \in registered
        /\ nudges' = IF h \in up /\ ~drain[h].on
                     THEN [nudges EXCEPT ![h] = Append(@, TenantOf[s])] ELSE nudges
        /\ StopGoto(s, "done")
        /\ UNCHANGED <<lease, registered, up, attached, profile, call, loopVars>>

StopNoHolder(s) ==
    /\ stop[s].pc = "info" /\ stop[s].token \notin registered
    /\ StopGoto(s, "stale")
    /\ UNCHANGED <<lease, registered, up, attached, profile, call, loopVars, nudges>>

(* "Orphaned lease (worker died)": read the token again and release it     *)
StopStale(s) ==
    LET h == lease[TenantOf[s]]
    IN  /\ stop[s].pc = "stale"
        /\ stop' = [stop EXCEPT ![s] = [pc |-> IF h = None THEN "done" ELSE "relGet",
                                        token |-> h]]
        /\ UNCHANGED <<lease, registered, up, attached, profile, call, loopVars, nudges>>

StopRelGet(s) ==
    /\ stop[s].pc = "relGet"
    /\ StopGoto(s, IF lease[TenantOf[s]] = stop[s].token THEN "relDel" ELSE "done")
    /\ UNCHANGED <<lease, registered, up, attached, profile, call, loopVars, nudges>>

StopRelDel(s) ==
    /\ stop[s].pc = "relDel"
    /\ lease' = [lease EXCEPT ![TenantOf[s]] = None]
    /\ StopGoto(s, "done")
    /\ UNCHANGED <<registered, up, attached, profile, call, loopVars, nudges>>

StopStep(s) ==
    \/ StopHolder(s) \/ StopNudge(s) \/ StopNoHolder(s)
    \/ StopStale(s) \/ StopRelGet(s) \/ StopRelDel(s)

-----------------------------------------------------------------------------
(* The TTLs: 90 s for a lease, 45 s for a registration                     *)

(* The holder neither has an entry for the tenant, nor is attaching or     *)
(* detaching it: it heartbeats the lease no more.                          *)
Abandoned(t) ==
    LET w == lease[t]
    IN  \/ w \notin up
        \/ /\ attached[w][t] = None /\ ~LockTaken(w, t)
           /\ \A l \in Loops : detaching[w][l].tenant # t

LeaseExpire(t) ==
    /\ lease[t] # None
    /\ "expire" \in Faults \/ Abandoned(t)
    /\ lease' = [lease EXCEPT ![t] = None]
    /\ UNCHANGED <<registered, up, attached, profile, call, loopVars, nudges, stop>>

RegExpire(w) ==
    /\ w \in registered
    /\ "regexpire" \in Faults \/ w \notin up
    /\ registered' = registered \ {w}
    /\ UNCHANGED <<lease, up, attached, profile, call, loopVars, nudges, stop>>

(* Steps that neither start nor end a handler: shared with TurnDispatch    *)
RegistryStep ==
    \/ \E c \in Calls : EnsureAttached(c)
    \/ \E w \in Workers : WorkerStep(w) \/ DrainStart(w) \/ Crash(w) \/ RegExpire(w)
    \/ \E s \in Stops : StopStep(s)
    \/ \E t \in Tenants : LeaseExpire(t)

HandlerStep(c) ==
    \/ RunStart(c) \/ RunStartRaises(c) \/ RunEnd(c) \/ PostEnd(c)
    \/ WarmReturn(c) \/ GiveUp(c)

Next ==
    \/ RegistryStep
    \/ \E c \in Calls : HandlerStep(c) \/ (\E w \in Workers : Begin(c, w))

(* The loops keep ticking and their requests are answered; a worker that   *)
(* is down is restarted; an unattended TTL runs out.                       *)
LoopFairness ==
    /\ \A w \in Workers :
          /\ WF_vars(Maintenance(w))
          /\ WF_vars(Control(w))
          /\ \A l \in Loops : WF_vars(DetachStep(w, l))
          /\ WF_vars(DrainNext(w) \/ DrainEnd(w)) /\ WF_vars(Restart(w))
    /\ \A s \in Stops : WF_vars(StopStep(s))
    /\ \A t \in Tenants : WF_vars(LeaseExpire(t) /\ Abandoned(t))

(* A tenant that stays idle is found idle (SF: a tick may read the clock   *)
(* before the idle period ends any number of times, but not for ever).     *)
IdleFairness == \A w \in Workers : SF_vars(MaintReap(w))

(* A started handler keeps being scheduled and its requests are answered.  *)
Fairness ==
    /\ LoopFairness
    /\ \A c \in Calls : WF_vars(EnsureAttached(c) \/ HandlerStep(c))

Spec == Init /\ [][Next]_vars /\ Fairness

-----------------------------------------------------------------------------
(* Properties                                                              *)

(* An AttachedTenant object is never overwritten by another one: its       *)
(* active_runs would be forgotten while its runs still use the profile.    *)
(* The per-tenant lock of ensure_attached is what prevents it.             *)
EntryNotReplaced ==
    \A w \in Workers, t \in Tenants :
        attached[w][t] # None => attached'[w][t] \in {attached[w][t], None}
NoEntryReplaced == [][EntryNotReplaced]_vars

(* At most one coroutine of a worker attaches a tenant, and from the       *)
(* moment it decided to attach there is no entry it could overwrite.       *)
AttachExclusive ==
    \A c, d \in Calls :
        /\ call[c].pc \in LockedPcs /\ call[d].pc \in LockedPcs
        /\ call[c].worker = call[d].worker /\ TenantOf[c] = TenantOf[d]
        => c = d
NothingToOverwrite ==
    \A c \in Calls :
        call[c].pc \in LockedPcs \ {"beat", "slipped"} => attached[call[c].worker][TenantOf[c]] = None
AttachSafe == AttachExclusive /\ NothingToOverwrite

(* The strengthening that makes these inductive: a handler at work belongs *)
(* to a worker, a loop that decides about an entry has one in hand.        *)
ActiveHere == \A c \in Calls : call[c].pc \in ActivePcs => call[c].worker \in Workers
EntryInHand ==
    \A w \in Workers :
        /\ maint[w].pc = "decide" => maint[w].entry \in Calls
        /\ ctl[w].pc = "poll" => ctl[w].entry \in Calls
RegistryInv == TypeOK /\ AttachSafe /\ ActiveHere /\ EntryInHand

(* A worker that lost the lease of a tenant stops serving it, or has the   *)
(* lease again: the maintenance loop notices, however the loss came about, *)
(* and however busy or idle the tenant is.                                 *)
StaleEntryDropped ==
    \A w \in Workers, t \in Tenants :
        (attached[w][t] # None /\ lease[t] # w) ~> (attached[w][t] = None \/ lease[t] = w)

(* Every ensure_attached and the handler around it come to an end: nobody  *)
(* waits for ever on the attach lock or on a run slot.                     *)
HandlersEnd ==
    \A c \in Calls : call[c].pc \in ActivePcs ~> call[c].pc \notin ActivePcs

(* "detach after an idle period so the worker's capacity is reclaimed"     *)
(* (worker/tenants.py:6), provided that tenants do become idle             *)
CapacityReclaimed ==
    IdleFairness => \A w \in Workers : []<>(EntryCount(w) = 0)

(* "A tenant is attached when this worker holds tenant:{ws}:{agent} ...    *)
(* and the Hermes sidecar knows the profile" (worker/tenants.py:3)         *)
AttachedIsServed ==
    \A w \in Workers, t \in Tenants :
        attached[w][t] # None => lease[t] = w /\ t \in profile[w]

=============================================================================
