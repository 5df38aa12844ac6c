--------------------------- MODULE CronScheduler ---------------------------
(***************************************************************************)
(* Scheduled jobs of one agent: the leader-elected scheduler process       *)
(* (scheduler.py) whose cron loop fires due rows of tenant_cron_jobs in a  *)
(* thread, the Cron screen that edits and triggers them, and the           *)
(* publication of an agent's job list (cron_store.py).                     *)
(*                                                                         *)
(* Times are numbers; a timestamp in the past that a trigger writes is a   *)
(* negative one, so that every occurrence has its own.                     *)
(***************************************************************************)
EXTENDS Integers

CONSTANTS Schedulers,  \* scheduler processes
          Threads,     \* calls of enqueue_due_cron_jobs in progress
          Handlers,    \* calls of upsert_cron_jobs in progress
          Jobs,        \* row ids; a name is not used again under the same id
          Schedules,   \* see ScheduleType
          Named,       \* next runs an agent may name in the list it publishes
          Api,         \* runs the tick of a trigger
          None,
          MaxTime, MaxMoves, MaxOut, MaxFaults,
          Faults       \* expire, raise, silent, crash, stop

(* An interval counts from the tick; once and cron are sets of times       *)
ScheduleType == [every : Nat, at : SUBSET Nat]
Row  == [sched : Schedules, on : BOOLEAN, next : Int \cup {None},
         status : {"", "running", "done"}]
Snap == [sched : Schedules, next : Int]
(* A job of a published list                                               *)
Entry == [sched : Schedules, on : BOOLEAN, next : Named \cup {None}]

ASSUME CronAssumption ==
    /\ Schedules \subseteq ScheduleType
    /\ None \notin Int \cup Row \cup Snap \cup Entry \cup Jobs \cup Schedulers \cup {Api}
    /\ Api \notin Schedulers
    /\ Named \subseteq Nat
    /\ MaxTime \in Nat /\ MaxMoves \in Nat /\ MaxOut \in Nat /\ MaxFaults \in Nat

VARIABLES
    now,
    lease,    \* verxio:lease:scheduler-leader
    role,     \* role[s]: where run_scheduler is
    beating,  \* schedulers whose leader-heartbeat task is alive
    tick,     \* tick[t]: a call of enqueue_due_cron_jobs
    sync,     \* sync[h]: a call of upsert_cron_jobs
    row,      \* tenant_cron_jobs, None where there is no row
    gone,     \* ids of rows that were deleted
    out,      \* turns of each job on their way
    asks,     \* triggers so far
    moves, faults,
    fired,    \* history: the occurrences of each job that were enqueued
    twice,    \* history: jobs of which an occurrence was enqueued twice
    unheard,  \* history: jobs whose last turn to end left no result in a saved row
    crossed   \* history: per job, the races it took part in

leadership == <<lease, role, beating>>
history    == <<fired, twice, unheard>>
counters   == <<asks, moves, faults>>
vars == <<now, leadership, tick, sync, row, gone, out, counters, history, crossed>>

NoSnaps == [j \in Jobs |-> None]
NoTick  == [pc |-> "idle", by |-> None, only |-> None, awaited |-> FALSE, now |-> 0,
            seen |-> NoSnaps, cur |-> None, stale |-> {}]
NoSync  == [pc |-> "idle", job |-> None, todo |-> {}, names |-> {}, content |-> NoSnaps,
            seen |-> None, stale |-> FALSE, screen |-> FALSE]

(* next_run_at(schedule, after=t); the set has one element                 *)
NextRuns(s, t) ==
    IF s.every > 0 THEN {t + s.every}
    ELSE LET later == {x \in s.at : x > t} IN
         IF later = {} THEN {None} ELSE {x \in later : \A y \in later : x <= y}

(* Jobs stored before the schedulers start                                 *)
Stored == UNION {{[sched |-> s, on |-> TRUE, next |-> n, status |-> ""] :
                     n \in NextRuns(s, 0)} : s \in Schedules}

Init ==
    /\ now = 1 /\ lease = None
    /\ role = [s \in Schedulers |-> "waiting"] /\ beating = {}
    /\ tick = [t \in Threads |-> NoTick]
    /\ sync = [h \in Handlers |-> NoSync]
    /\ row \in [Jobs -> Stored \cup {None}] /\ gone = {}
    /\ out = [j \in Jobs |-> 0]
    /\ asks = 0 /\ moves = 0 /\ faults = 0
    /\ fired = [j \in Jobs |-> {}] /\ twice = {} /\ unheard = {}
    /\ crossed = [j \in Jobs |-> {}]

Fault(f) == f \in Faults /\ faults < MaxFaults /\ faults' = faults + 1
Move     == moves < MaxMoves /\ moves' = moves + 1

Holds(t, j) == tick[t].seen[j] # None

Due(j) == row[j] # None /\ row[j].on /\ row[j].next # None /\ row[j].next <= now

Cross(js, kind) ==
    crossed' = [j \in Jobs |-> IF j \in js THEN crossed[j] \cup {kind} ELSE crossed[j]]

(* What others read of row j before this write is stale                    *)
Outdated(j) ==
    [t \in Threads |-> IF Holds(t, j) THEN [tick[t] EXCEPT !.stale = @ \cup {j}] ELSE tick[t]]
OutdatedSync(j) ==
    [h \in Handlers |-> IF sync[h].pc = "write" /\ sync[h].job = j
                        THEN [sync[h] EXCEPT !.stale = TRUE] ELSE sync[h]]

Clock ==
    /\ now < MaxTime /\ now' = now + 1
    /\ UNCHANGED <<leadership, tick, sync, row, gone, out, counters, history, crossed>>

-----------------------------------------------------------------------------
(* Leadership                                                              *)
Acquire(s) ==
    /\ role[s] = "waiting" /\ lease = None
    /\ lease' = s /\ role' = [role EXCEPT ![s] = "leading"] /\ beating' = beating \cup {s}
    /\ UNCHANGED <<now, tick, sync, row, gone, out, counters, history, crossed>>

(* The loops are cancelled; the thread of a tick goes on unawaited         *)
Abandon(s) ==
    tick' = [t \in Threads |-> IF tick[t].by = s THEN [tick[t] EXCEPT !.awaited = FALSE]
                               ELSE tick[t]]

(* Mutant: the heartbeat ends without stopping the loops                   *)
BeatBlind(s) ==
    /\ role[s] = "leading" /\ s \in beating /\ lease # s
    /\ beating' = beating \ {s}
    /\ UNCHANGED <<now, lease, role, tick, sync, row, gone, out, counters, history, crossed>>

(* heartbeat_lease finds another token: back to waiting.  release_lease    *)
(* finds it too and leaves it alone.                                       *)
BeatLost(s) ==
    /\ role[s] = "leading" /\ s \in beating /\ lease # s
    /\ role' = [role EXCEPT ![s] = "waiting"] /\ beating' = beating \ {s}
    /\ Abandon(s)
    /\ UNCHANGED <<now, lease, sync, row, gone, out, counters, history, crossed>>

(* heartbeat_lease raises: the task ends and nobody looks at it            *)
BeatRaises(s) ==
    /\ Fault("silent")
    /\ role[s] = "leading" /\ s \in beating
    /\ beating' = beating \ {s}
    /\ UNCHANGED <<now, lease, role, tick, sync, row, gone, out, asks, moves, history, crossed>>

(* The TTL of a lease runs out: nobody extends it, or its holder is late   *)
Lapse ==
    /\ lease # None /\ lease \notin beating
    /\ lease' = None
    /\ UNCHANGED <<now, role, beating, tick, sync, row, gone, out, counters, history, crossed>>

Expire ==
    /\ Fault("expire")
    /\ lease \in beating
    /\ lease' = None
    /\ UNCHANGED <<now, role, beating, tick, sync, row, gone, out, asks, moves, history, crossed>>

(* SIGTERM.  The error of a heartbeat that raised comes up when its task   *)
(* is awaited: nothing is released                                         *)
Stop(s) ==
    /\ Fault("stop")
    /\ role[s] \in {"waiting", "leading"}
    /\ role' = [role EXCEPT ![s] = IF s \in beating THEN "releasing" ELSE "down"]
    /\ beating' = beating \ {s}
    /\ Abandon(s)
    /\ UNCHANGED <<now, lease, sync, row, gone, out, asks, moves, history, crossed>>

(* release_lease: GET, then DEL                                            *)
ReleaseGet(s) ==
    /\ role[s] = "releasing"
    /\ role' = [role EXCEPT ![s] = IF lease = s THEN "deleting" ELSE "down"]
    /\ UNCHANGED <<now, lease, beating, tick, sync, row, gone, out, counters, history, crossed>>

ReleaseDel(s) ==
    /\ role[s] = "deleting"
    /\ lease' = None /\ role' = [role EXCEPT ![s] = "down"]
    /\ UNCHANGED <<now, beating, tick, sync, row, gone, out, counters, history, crossed>>

(* A process dies: its ticks go with it, a fired row may not be saved      *)
Vanish(ts) == /\ tick' = [t \in Threads |-> IF t \in ts THEN NoTick ELSE tick[t]]
              /\ Cross({tick[t].cur : t \in ts}, "unsaved")

Crash(s) ==
    /\ Fault("crash")
    /\ role' = [role EXCEPT ![s] = "down"] /\ beating' = beating \ {s}
    /\ Vanish({t \in Threads : tick[t].by = s})
    /\ UNCHANGED <<now, lease, sync, row, gone, out, asks, moves, history>>

(* A replica of the API runs one of these functions at a time              *)
CrashTick(t) ==
    /\ Fault("crash")
    /\ tick[t].by = Api
    /\ Vanish({t})
    /\ UNCHANGED <<now, leadership, sync, row, gone, out, asks, moves, history>>

CrashSync(h) ==
    /\ Fault("crash")
    /\ sync[h].pc # "idle"
    /\ sync' = [sync EXCEPT ![h] = NoSync]
    /\ UNCHANGED <<now, leadership, tick, row, gone, out, asks, moves, history, crossed>>

(* asyncio.run waits for the threads before the process ends               *)
Start(s) ==
    /\ role[s] = "down" /\ \A t \in Threads : tick[t].by # s
    /\ role' = [role EXCEPT ![s] = "waiting"]
    /\ UNCHANGED <<now, lease, beating, tick, sync, row, gone, out, counters, history, crossed>>

-----------------------------------------------------------------------------
(* enqueue_due_cron_jobs                                                   *)

(* The cron loop of a leader, in a thread it awaits                        *)
Tick(s, t) ==
    /\ role[s] = "leading" /\ tick[t].pc = "idle"
    /\ \A u \in Threads : ~(tick[u].by = s /\ tick[u].awaited)
    /\ tick' = [tick EXCEPT ![t] = [NoTick EXCEPT !.pc = "select", !.by = s, !.awaited = TRUE]]
    /\ UNCHANGED <<now, leadership, sync, row, gone, out, counters, history, crossed>>

Select(t) ==
    LET chosen == {j \in Jobs : Due(j) /\ tick[t].only \in {None, j}} IN
    /\ tick[t].pc = "select"
    /\ tick' = [tick EXCEPT ![t].pc = "fire", ![t].now = now,
                            ![t].seen = [j \in Jobs |->
                               IF j \in chosen THEN [sched |-> row[j].sched, next |-> row[j].next]
                               ELSE None]]
    /\ Cross({j \in chosen : \E u \in Threads \ {t} :
                 Holds(u, j) /\ tick[u].seen[j].next = row[j].next}, "overlap")
    /\ UNCHANGED <<now, leadership, sync, row, gone, out, counters, history>>

(* ORDER BY next_run_at                                                    *)
First(t, j) == /\ tick[t].pc = "fire" /\ Holds(t, j)
               /\ \A k \in Jobs : Holds(t, k) => tick[t].seen[j].next <= tick[t].seen[k].next

Dropped(t, j) == [tick EXCEPT ![t].pc = "fire", ![t].cur = None, ![t].seen[j] = None,
                              ![t].stale = @ \ {j}]

(* enqueue_turn                                                            *)
Fire(t, j) ==
    LET due == tick[t].seen[j].next IN
    /\ First(t, j) /\ out[j] < MaxOut
    /\ out' = [out EXCEPT ![j] = @ + 1]
    /\ fired' = [fired EXCEPT ![j] = @ \cup {due}]
    /\ twice' = IF due \in fired[j] THEN twice \cup {j} ELSE twice
    /\ tick' = [tick EXCEPT ![t].pc = "save", ![t].cur = j]
    /\ UNCHANGED <<now, leadership, sync, row, gone, counters, unheard, crossed>>

(* Mutant: the row moves on although the turn was not enqueued             *)
FireSkips(t, j) ==
    /\ Fault("raise")
    /\ First(t, j)
    /\ \E n \in NextRuns(tick[t].seen[j].sched, tick[t].now) :
         row' = [row EXCEPT ![j] = [@ EXCEPT !.next = n, !.on = n # None]]
    /\ tick' = Dropped(t, j)
    /\ UNCHANGED <<now, leadership, sync, gone, out, asks, moves, history, crossed>>

FireRaises(t, j) ==
    /\ Fault("raise")
    /\ First(t, j)
    /\ tick' = Dropped(t, j)
    /\ UNCHANGED <<now, leadership, sync, row, gone, out, asks, moves, history, crossed>>

(* The UPDATE of next_run_at, enabled and last_status                      *)
Save(t) ==
    LET j == tick[t].cur
        snap == tick[t].seen[j] IN
    /\ tick[t].pc = "save"
    /\ \E n \in NextRuns(snap.sched, tick[t].now) :
         row' = IF row[j] = None THEN row
                ELSE [row EXCEPT ![j] = [@ EXCEPT !.next = n, !.on = n # None,
                                                  !.status = "running"]]
    /\ tick' = [Outdated(j) EXCEPT ![t] = Dropped(t, j)[t]]
    /\ sync' = OutdatedSync(j)
    /\ Cross(IF j \in tick[t].stale THEN {j} ELSE {}, "stale")
    /\ UNCHANGED <<now, leadership, gone, out, counters, history>>

SaveRaises(t) ==
    LET j == tick[t].cur IN
    /\ Fault("raise")
    /\ tick[t].pc = "save"
    /\ tick' = Dropped(t, j)
    /\ Cross({j}, "unsaved")
    /\ UNCHANGED <<now, leadership, sync, row, gone, out, asks, moves, history>>

Finish(t) ==
    /\ tick[t].pc = "fire" /\ \A j \in Jobs : ~Holds(t, j)
    /\ tick' = [tick EXCEPT ![t] = NoTick]
    /\ UNCHANGED <<now, leadership, sync, row, gone, out, counters, history, crossed>>

(* A result that comes before the tick has saved the row is written over   *)
Heard(j) == unheard' = IF \E t \in Threads : tick[t].cur = j THEN unheard \cup {j}
                       ELSE unheard \ {j}

(* Mutant: the result of a paused job is dropped                           *)
PostEnabled(j) ==
    /\ out[j] > 0
    /\ out' = [out EXCEPT ![j] = @ - 1]
    /\ row' = IF row[j] = None \/ ~row[j].on THEN row ELSE [row EXCEPT ![j].status = "done"]
    /\ Heard(j)
    /\ UNCHANGED <<now, leadership, tick, sync, gone, counters, fired, twice, crossed>>

(* Mutant: a result is posted of a turn that never was                     *)
PostAnyway(j) ==
    /\ out' = [out EXCEPT ![j] = @ - 1]
    /\ UNCHANGED <<now, leadership, tick, sync, row, gone, counters, history, crossed>>

(* record_cron_result, after the turn                                      *)
Post(j) ==
    /\ out[j] > 0
    /\ out' = [out EXCEPT ![j] = @ - 1]
    /\ row' = IF row[j] = None THEN row ELSE [row EXCEPT ![j].status = "done"]
    /\ Heard(j)
    /\ UNCHANGED <<now, leadership, tick, sync, gone, counters, fired, twice, crossed>>

(* A turn that ends without one: refused for the second time, without      *)
(* text, its attach raised, or its worker died                             *)
Lose(j) ==
    /\ out[j] > 0
    /\ out' = [out EXCEPT ![j] = @ - 1]
    /\ unheard' = unheard \cup {j}
    /\ UNCHANGED <<now, leadership, tick, sync, row, gone, counters, fired, twice, crossed>>

-----------------------------------------------------------------------------
(* The Cron screen: dispatch_cron_dashboard                                *)
Write(j, r) == /\ row' = [row EXCEPT ![j] = r]
               /\ tick' = Outdated(j) /\ sync' = OutdatedSync(j)

Pause(j) ==
    /\ Move /\ row[j] # None
    /\ Write(j, [row[j] EXCEPT !.on = FALSE])
    /\ UNCHANGED <<now, leadership, gone, out, asks, faults, history, crossed>>

Resume(j) ==
    /\ Move /\ row[j] # None
    /\ Write(j, [row[j] EXCEPT !.on = TRUE])
    /\ UNCHANGED <<now, leadership, gone, out, asks, faults, history, crossed>>

Edit(j, s) ==
    /\ Move /\ row[j] # None
    /\ \E n \in NextRuns(s, now) : Write(j, [row[j] EXCEPT !.sched = s, !.next = n])
    /\ UNCHANGED <<now, leadership, gone, out, asks, faults, history, crossed>>

Delete(j) ==
    /\ Move /\ row[j] # None
    /\ row' = [row EXCEPT ![j] = None] /\ gone' = gone \cup {j}
    /\ UNCHANGED <<now, leadership, tick, sync, out, asks, faults, history, crossed>>

(* A timestamp one second ago, then a tick for this row only               *)
Trigger(j, t) ==
    /\ Move /\ row[j] # None /\ tick[t].pc = "idle"
    /\ row' = [row EXCEPT ![j] = [@ EXCEPT !.on = TRUE, !.next = -(asks + 1)]]
    /\ asks' = asks + 1
    /\ tick' = [Outdated(j) EXCEPT ![t] = [NoTick EXCEPT !.pc = "select", !.by = Api, !.only = j]]
    /\ sync' = OutdatedSync(j)
    /\ UNCHANGED <<now, leadership, gone, out, faults, history, crossed>>

-----------------------------------------------------------------------------
(* upsert_cron_jobs                                                        *)
Begun(h, names, content, screen) ==
    sync' = [sync EXCEPT ![h] = [NoSync EXCEPT !.pc = "read", !.todo = names, !.names = names,
                                               !.content = content, !.screen = screen]]

(* An agent publishes its list: POST /api/runtime/cron                     *)
Publish(h, content) ==
    LET names == {j \in Jobs : content[j] # None} IN
    /\ Move /\ sync[h].pc = "idle"
    /\ names \cap gone = {}
    /\ Begun(h, names, content, FALSE)
    /\ UNCHANGED <<now, leadership, tick, row, gone, out, asks, faults, history, crossed>>

(* The Cron screen creates a job through the same function                 *)
Create(h, j, s) ==
    /\ Move /\ sync[h].pc = "idle" /\ j \notin gone
    /\ Begun(h, {j}, [NoSnaps EXCEPT ![j] = [sched |-> s, on |-> TRUE, next |-> None]], TRUE)
    /\ UNCHANGED <<now, leadership, tick, row, gone, out, asks, faults, history, crossed>>

SyncRead(h, j) ==
    /\ sync[h].pc = "read" /\ j \in sync[h].todo
    /\ sync' = [sync EXCEPT ![h].pc = "write", ![h].job = j, ![h].stale = FALSE,
                            ![h].seen = IF row[j] = None THEN None
                                        ELSE [sched |-> row[j].sched, next |-> row[j].next]]
    /\ UNCHANGED <<now, leadership, tick, row, gone, out, counters, history, crossed>>

(* The schedule did not change                                             *)
Same(seen, c) == seen # None /\ seen.sched = c.sched /\ seen.next # None

(* Mutant: the cursor is computed anew at every publication                *)
FreshCursors(seen, c) == NextRuns(c.sched, now)

(* Mutant: the next run of the agent's list goes before the stored cursor  *)
NamedFirst(seen, c) ==
    IF c.next # None THEN {c.next}
    ELSE IF Same(seen, c) THEN {seen.next} ELSE NextRuns(c.sched, now)

(* The cursor is kept unless the schedule changed                          *)
Cursors(seen, c) ==
    IF Same(seen, c) THEN {seen.next}
    ELSE IF c.next # None THEN {c.next} ELSE NextRuns(c.sched, now)

SyncWrite(h) ==
    LET j == sync[h].job
        c == sync[h].content[j]
        seen == sync[h].seen IN
    /\ sync[h].pc = "write" /\ (seen = None => row[j] = None)
    /\ \E n \in Cursors(seen, c) :
         /\ row' = IF row[j] = None /\ (seen # None \/ j \in gone) THEN row
                   ELSE [row EXCEPT ![j] =
                           [sched |-> c.sched, on |-> c.on, next |-> n,
                            status |-> IF row[j] = None THEN "" ELSE row[j].status]]
         /\ IF sync[h].stale THEN Cross({j}, "resync")
            ELSE Cross(IF n \in fired[j] /\ ~Same(seen, c) THEN {j} ELSE {}, "named")
    /\ sync' = [OutdatedSync(j) EXCEPT
                  ![h] = [sync[h] EXCEPT !.pc = "read", !.job = None, !.seen = None,
                                         !.stale = FALSE, !.todo = @ \ {j}]]
    /\ tick' = Outdated(j)
    /\ UNCHANGED <<now, leadership, gone, out, counters, history>>

(* The INSERT meets the row another handler inserted                       *)
SyncRaises(h) ==
    /\ sync[h].pc = "write" /\ sync[h].seen = None /\ row[sync[h].job] # None
    /\ sync' = [sync EXCEPT ![h] = NoSync]
    /\ UNCHANGED <<now, leadership, tick, row, gone, out, counters, history, crossed>>

(* DELETE ... name NOT IN (names)                                          *)
SyncDelete(h) ==
    LET rest == {j \in Jobs \ sync[h].names : row[j] # None} IN
    /\ sync[h].pc = "read" /\ sync[h].todo = {}
    /\ row' = [j \in Jobs |-> IF j \in rest THEN None ELSE row[j]]
    /\ gone' = gone \cup rest
    /\ sync' = [sync EXCEPT ![h] = NoSync]
    /\ UNCHANGED <<now, leadership, tick, out, counters, history, crossed>>

-----------------------------------------------------------------------------
Content == [Jobs -> Entry \cup {None}]

LeaderStep == \E s \in Schedulers :
    \/ Acquire(s) \/ BeatLost(s) \/ BeatRaises(s) \/ Stop(s) \/ ReleaseGet(s) \/ ReleaseDel(s)
    \/ Crash(s) \/ Start(s)

TickStep == \E t \in Threads :
    \/ Select(t) \/ Save(t) \/ SaveRaises(t) \/ Finish(t) \/ CrashTick(t)
    \/ \E j \in Jobs : Fire(t, j) \/ FireRaises(t, j)
    \/ \E s \in Schedulers : Tick(s, t)

ScreenStep == \E j \in Jobs :
    \/ Pause(j) \/ Resume(j) \/ Delete(j)
    \/ \E s \in Schedules : Edit(j, s)
    \/ \E t \in Threads : Trigger(j, t)

SyncStep == \E h \in Handlers :
    \/ \E content \in Content : Publish(h, content)
    \/ \E j \in Jobs : SyncRead(h, j) \/ \E s \in Schedules : Create(h, j, s)
    \/ SyncWrite(h) \/ SyncRaises(h) \/ SyncDelete(h) \/ CrashSync(h)

Next == \/ Clock \/ Lapse \/ Expire \/ LeaderStep \/ TickStep \/ ScreenStep \/ SyncStep
        \/ \E j \in Jobs : Post(j) \/ Lose(j)

Spec == Init /\ [][Next]_vars

(* Loops and threads run, leases lapse, processes are restarted, turns end *)
LeaderRuns(s) ==
    Acquire(s) \/ BeatLost(s) \/ ReleaseGet(s) \/ ReleaseDel(s) \/ Start(s)

ThreadRuns(t) ==
    Select(t) \/ Save(t) \/ Finish(t) \/ \E j \in Jobs : Fire(t, j)

Fairness ==
    /\ WF_vars(Lapse)
    /\ \A s \in Schedulers : WF_vars(LeaderRuns(s)) /\ WF_vars(\E t \in Threads : Tick(s, t))
    /\ \A t \in Threads : WF_vars(ThreadRuns(t))
    /\ \A j \in Jobs : WF_vars(Post(j) \/ Lose(j))

FairSpec == Spec /\ Fairness

-----------------------------------------------------------------------------
Processes == Schedulers \cup {Api}
Dues == -MaxMoves .. MaxTime
Kinds == {"overlap", "unsaved", "stale", "resync", "named"}

TickRec == [pc : {"idle", "select", "fire", "save"}, by : Processes \cup {None},
            only : Jobs \cup {None}, awaited : BOOLEAN, now : Nat,
            seen : [Jobs -> Snap \cup {None}], cur : Jobs \cup {None}, stale : SUBSET Jobs]

SyncRec == [pc : {"idle", "read", "write"}, job : Jobs \cup {None}, todo : SUBSET Jobs,
            names : SUBSET Jobs, content : Content,
            seen : [sched : Schedules, next : Int \cup {None}] \cup {None},
            stale : BOOLEAN, screen : BOOLEAN]

TypeOK ==
    /\ now \in Nat
    /\ lease \in Schedulers \cup {None} /\ beating \subseteq Schedulers
    /\ role \in [Schedulers -> {"waiting", "leading", "releasing", "deleting", "down"}]
    /\ tick \in [Threads -> TickRec] /\ sync \in [Handlers -> SyncRec]
    /\ row \in [Jobs -> Row \cup {None}] /\ gone \subseteq Jobs
    /\ out \in [Jobs -> Nat]
    /\ asks \in Nat /\ moves \in Nat /\ faults \in Nat
    /\ fired \in [Jobs -> SUBSET Int] /\ twice \subseteq Jobs
    /\ unheard \subseteq Jobs
    /\ crossed \in [Jobs -> SUBSET Kinds]

(* An occurrence of a job is enqueued once (enqueue_due_cron_jobs), unless *)
(* two ticks read the row at the same time, the row could not be saved     *)
(* after it fired, a tick or a publication wrote back what it had read     *)
(* before somebody else changed the row, or the agent named it again.      *)
FiresOnce == \A j \in Jobs : j \in twice => crossed[j] # {}

(* A job of which no turn is under way is shown as running (last_status)   *)
(* only if the turn that ended last left no result in its row: it was      *)
(* dropped, or its worker died, or the result came before the tick had     *)
(* saved the row.  The next result to be recorded takes it back, also of a *)
(* job that was paused, edited or published again in the meantime.         *)
StatusTruth ==
    \A j \in Jobs : row[j] # None /\ row[j].status = "running" /\ out[j] = 0
                    => j \in unheard

(* The cursor of a due job moves past an occurrence only when it was       *)
(* enqueued: no tick and no publication skips one (cron_store.py:171).     *)
NoneSkipped == [][\A j \in Jobs :
    /\ Due(j) /\ moves' = moves
    /\ row'[j] # None /\ row'[j].sched = row[j].sched /\ row'[j].next # row[j].next
    => row[j].next \in fired[j] \/ crossed'[j] # {}]_vars

(* A due occurrence of a job nobody touches is enqueued, whatever becomes  *)
(* of the leaders and of the calls that raise (scheduler.py, _cron_loop).  *)
DueFires == \A j \in Jobs, d \in Dues :
    (Due(j) /\ row[j].next = d /\ moves = 0) ~> (d \in fired[j] \/ moves > 0)

(* A scheduler that lost its lease to nobody or to another one stops its   *)
(* loops (_hold_leadership).                                               *)
UsurpedStepsDown == \A s \in Schedulers :
    (role[s] = "leading" /\ lease # s) ~> role[s] # "leading"
=============================================================================
