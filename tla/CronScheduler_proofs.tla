------------------------ MODULE CronScheduler_proofs ------------------------
(* Theorems about CronScheduler, for any number of schedulers, ticks,      *)
(* publications and jobs, and under every fault: an occurrence is enqueued *)
(* once unless its job met one of the races of the code.                   *)
EXTENDS CronScheduler, TLAPS

(* What a call of enqueue_due_cron_jobs holds agrees with where it is      *)
TickOK ==
    \A t \in Threads :
        /\ tick[t].pc \in {"idle", "select"} => \A j \in Jobs : ~Holds(t, j)
        /\ IF tick[t].pc = "save" THEN tick[t].cur \in Jobs /\ Holds(t, tick[t].cur)
           ELSE tick[t].cur = None

(* The same of upsert_cron_jobs.  The row it read is the row it writes     *)
(* back, unless the race is on record                                      *)
SyncOK ==
    \A h \in Handlers :
        /\ sync[h].pc # "idle" => /\ sync[h].todo \subseteq sync[h].names
                                  /\ \A j \in sync[h].names : sync[h].content[j] # None
        /\ sync[h].pc = "write" => sync[h].job \in sync[h].names
        /\ sync[h].pc = "write" /\ ~sync[h].stale /\ sync[h].seen # None
              /\ row[sync[h].job] # None => row[sync[h].job].next = sync[h].seen.next

(* Triggers take every timestamp once, downwards; what was enqueued, or is *)
(* about to be, was due                                                    *)
Bounds ==
    /\ \A j \in Jobs : /\ row[j] # None /\ row[j].next # None => row[j].next >= -asks
                       /\ \A d \in fired[j] : -asks <= d /\ d <= now
    /\ \A h \in Handlers : sync[h].seen # None /\ sync[h].seen.next # None
                              => sync[h].seen.next >= -asks
    /\ \A t \in Threads :
          /\ tick[t].now <= now
          /\ \A j \in Jobs : Holds(t, j) => /\ tick[t].seen[j].next >= -asks
                                            /\ tick[t].seen[j].next <= tick[t].now

Saving(t, j, d) == tick[t].pc = "save" /\ tick[t].cur = j /\ tick[t].seen[j].next = d

Clean(j) == crossed[j] = {}

(* While a job met no race: the row shows an occurrence that was enqueued  *)
(* only until the tick that enqueued it has saved the row; no occurrence   *)
(* still to be enqueued was enqueued before, or is held by two ticks; and  *)
(* a tick whose snapshot is current would not move the row back before     *)
(* something enqueued by another                                           *)
OnceEach(j) ==
    /\ j \notin twice
    /\ row[j] # None => \A d \in fired[j] : row[j].next = d => \E u \in Threads : Saving(u, j, d)
    /\ \A t \in Threads : Holds(t, j) /\ tick[t].cur # j => tick[t].seen[j].next \notin fired[j]
    /\ \A t, u \in Threads : t # u /\ Holds(t, j) /\ Holds(u, j)
                                => tick[t].seen[j].next # tick[u].seen[j].next
    /\ \A t \in Threads : Holds(t, j) /\ j \notin tick[t].stale =>
          \A d \in fired[j] : d <= tick[t].now \/ \E u \in Threads : Saving(u, j, d)

CleanOnce == \A j \in Jobs : Clean(j) => OnceEach(j)

IInv == TypeOK /\ TickOK /\ SyncOK /\ Bounds /\ CleanOnce

-----------------------------------------------------------------------------
(* The next run lies after the moment it is computed for                   *)
LEMMA NextRunsOK ==
    ASSUME NEW s \in Schedules, NEW t \in Nat, NEW n \in NextRuns(s, t)
    PROVE  n = None \/ (n \in Nat /\ n > t)
<1>1. s.every \in Nat /\ s.at \subseteq Nat
  BY CronAssumption DEF ScheduleType
<1>2. CASE s.every > 0
  BY <1>1, <1>2 DEF NextRuns
<1>3. CASE ~(s.every > 0)
  BY <1>1, <1>3 DEF NextRuns
<1> QED BY <1>2, <1>3

(* A snapshot, a row and None are different things                         *)
LEMMA NoneIsNothing ==
    /\ None \notin Int /\ None \notin Row /\ None \notin Snap /\ None \notin Jobs
    /\ None \notin Entry
    /\ None \notin Schedulers /\ Api # None /\ Api \notin Schedulers
BY CronAssumption

(* A write changes of the ticks only what of their snapshots is current    *)
LEMMA OutdatedOK ==
    ASSUME tick \in [Threads -> TickRec], NEW j \in Jobs
    PROVE  /\ Outdated(j) \in [Threads -> TickRec]
           /\ \A t \in Threads :
                 /\ Outdated(j)[t].pc = tick[t].pc /\ Outdated(j)[t].cur = tick[t].cur
                 /\ Outdated(j)[t].now = tick[t].now /\ Outdated(j)[t].seen = tick[t].seen
                 /\ tick[t].stale \subseteq Outdated(j)[t].stale
                 /\ Outdated(j)[t].stale \subseteq tick[t].stale \cup {j}
                 /\ Holds(t, j) => j \in Outdated(j)[t].stale
BY DEF Outdated, TickRec

(* A record of a publication that is marked stale                          *)
LEMMA StaleOK ==
    ASSUME NEW r \in SyncRec, NEW b \in BOOLEAN, NEW q, q = [r EXCEPT !.stale = b]
    PROVE  /\ q \in SyncRec /\ q.pc = r.pc /\ q.job = r.job /\ q.todo = r.todo
           /\ q.names = r.names /\ q.content = r.content /\ q.seen = r.seen
<1> DEFINE Seen == [sched : Schedules, next : Int \cup {None}] \cup {None}
<1>1. r \in [pc : {"idle", "read", "write"}, job : Jobs \cup {None}, todo : SUBSET Jobs,
             names : SUBSET Jobs, content : Content, seen : Seen, stale : BOOLEAN,
             screen : BOOLEAN]
    BY DEF SyncRec
<1> HIDE DEF Seen
<1>2. q \in [pc : {"idle", "read", "write"}, job : Jobs \cup {None}, todo : SUBSET Jobs,
             names : SUBSET Jobs, content : Content, seen : Seen, stale : BOOLEAN,
             screen : BOOLEAN]
    BY <1>1
<1>3. q \in SyncRec
    BY <1>2 DEF SyncRec, Seen
<1> QED
    BY <1>1, <1>3

LEMMA OutdatedSyncOK ==
    ASSUME sync \in [Handlers -> SyncRec], NEW j \in Jobs
    PROVE  /\ OutdatedSync(j) \in [Handlers -> SyncRec]
           /\ \A h \in Handlers :
                 /\ OutdatedSync(j)[h].pc = sync[h].pc /\ OutdatedSync(j)[h].job = sync[h].job
                 /\ OutdatedSync(j)[h].todo = sync[h].todo
                 /\ OutdatedSync(j)[h].names = sync[h].names
                 /\ OutdatedSync(j)[h].content = sync[h].content
                 /\ OutdatedSync(j)[h].seen = sync[h].seen
                 /\ sync[h].stale => OutdatedSync(j)[h].stale
                 /\ sync[h].pc = "write" /\ sync[h].job = j => OutdatedSync(j)[h].stale
<1>1. ASSUME NEW h \in Handlers
      PROVE  /\ sync[h] \in SyncRec
             /\ OutdatedSync(j)[h] = [sync[h] EXCEPT !.stale = OutdatedSync(j)[h].stale]
             /\ OutdatedSync(j)[h].stale \in BOOLEAN
             /\ sync[h].stale => OutdatedSync(j)[h].stale
             /\ sync[h].pc = "write" /\ sync[h].job = j => OutdatedSync(j)[h].stale
    BY DEF OutdatedSync, SyncRec
<1>2. OutdatedSync(j) = [h \in Handlers |-> OutdatedSync(j)[h]]
    BY DEF OutdatedSync
<1>3. ASSUME NEW h \in Handlers
      PROVE  /\ OutdatedSync(j)[h] \in SyncRec
             /\ OutdatedSync(j)[h].pc = sync[h].pc /\ OutdatedSync(j)[h].job = sync[h].job
             /\ OutdatedSync(j)[h].todo = sync[h].todo
             /\ OutdatedSync(j)[h].names = sync[h].names
             /\ OutdatedSync(j)[h].content = sync[h].content
             /\ OutdatedSync(j)[h].seen = sync[h].seen
    <2> DEFINE r == sync[h]
               b == OutdatedSync(j)[h].stale
               q == OutdatedSync(j)[h]
    <2>1. r \in SyncRec /\ b \in BOOLEAN /\ q = [r EXCEPT !.stale = b]
        BY <1>1, <1>3
    <2> HIDE DEF r, b, q
    <2>2. /\ q \in SyncRec /\ q.pc = r.pc /\ q.job = r.job /\ q.todo = r.todo
          /\ q.names = r.names /\ q.content = r.content /\ q.seen = r.seen
        BY <2>1, StaleOK
    <2> QED
        BY <2>2 DEF q, r
<1>4. OutdatedSync(j) \in [Handlers -> SyncRec]
    BY <1>2, <1>3
<1> QED
    BY <1>1, <1>3, <1>4

(* The record of races only grows                                          *)
LEMMA CrossOK ==
    ASSUME crossed \in [Jobs -> SUBSET Kinds], NEW js, NEW kind \in Kinds, Cross(js, kind)
    PROVE  /\ crossed' \in [Jobs -> SUBSET Kinds]
           /\ \A j \in Jobs : Clean(j)' => Clean(j)
           /\ \A j \in Jobs \cap js : ~Clean(j)'
BY DEF Cross, Clean

(* What follows for the ticks from a step that moves none of them, and     *)
(* shows in no row an occurrence that was enqueued and was not shown       *)
LEMMA TicksKept ==
    ASSUME IInv, tick' \in [Threads -> TickRec], fired' = fired, twice' = twice,
           \A t \in Threads :
              /\ tick'[t].pc = tick[t].pc /\ tick'[t].cur = tick[t].cur
              /\ tick'[t].now = tick[t].now /\ tick'[t].seen = tick[t].seen
              /\ tick[t].stale \subseteq tick'[t].stale,
           \A j \in Jobs : Clean(j)' => Clean(j),
           \A j \in Jobs : Clean(j)' /\ row'[j] # None => \A d \in fired[j] :
              row'[j].next = d => row[j] # None /\ row[j].next = d
    PROVE  TickOK' /\ CleanOnce'
<1>1. \A t \in Threads, j \in Jobs : Holds(t, j)' <=> Holds(t, j)
  BY DEF Holds
<1>2. \A t \in Threads, j \in Jobs : \A d : Saving(t, j, d)' <=> Saving(t, j, d)
  BY DEF Saving
<1>3. TickOK'
  <2> SUFFICES ASSUME NEW t \in Threads
               PROVE  /\ tick'[t].pc \in {"idle", "select"} => \A j \in Jobs : ~Holds(t, j)'
                      /\ IF tick'[t].pc = "save" THEN tick'[t].cur \in Jobs /\ Holds(t, tick[t].cur)'
                         ELSE tick'[t].cur = None
    BY DEF TickOK, Holds
  <2> QED BY <1>1 DEF IInv, TickOK
<1>4. CleanOnce'
  <2> SUFFICES ASSUME NEW j \in Jobs, Clean(j)' PROVE OnceEach(j)'
    BY DEF CleanOnce
  <2>1. OnceEach(j)
    BY DEF IInv, CleanOnce
  <2>2. j \notin twice'
    BY <2>1 DEF OnceEach
  <2>3. ASSUME row'[j] # None, NEW d \in fired[j], row'[j].next = d
        PROVE  \E u \in Threads : Saving(u, j, d)'
    BY <2>1, <2>3, <1>2 DEF OnceEach
  <2>4. ASSUME NEW t \in Threads, Holds(t, j)', tick'[t].cur # j
        PROVE  tick'[t].seen[j].next \notin fired'[j]
    BY <2>1, <2>4, <1>1 DEF OnceEach
  <2>5. ASSUME NEW t \in Threads, NEW u \in Threads, t # u, Holds(t, j)', Holds(u, j)'
        PROVE  tick'[t].seen[j].next # tick'[u].seen[j].next
    BY <2>1, <2>5, <1>1 DEF OnceEach
  <2>6. ASSUME NEW t \in Threads, Holds(t, j)', j \notin tick'[t].stale, NEW d \in fired[j]
        PROVE  d <= tick'[t].now \/ \E u \in Threads : Saving(u, j, d)'
    BY <2>1, <2>6, <1>1, <1>2 DEF OnceEach
  <2> QED BY <2>2, <2>3, <2>4, <2>5, <2>6 DEF OnceEach
<1> QED BY <1>3, <1>4

(* The same for the publications: what one read and may still write back   *)
(* is in the row                                                           *)
LEMMA SyncKept ==
    ASSUME IInv, sync' \in [Handlers -> SyncRec],
           \A h \in Handlers :
              /\ sync'[h].pc = sync[h].pc /\ sync'[h].job = sync[h].job
              /\ sync'[h].todo = sync[h].todo /\ sync'[h].names = sync[h].names
              /\ sync'[h].content = sync[h].content /\ sync'[h].seen = sync[h].seen
              /\ sync[h].stale => sync'[h].stale,
           \A h \in Handlers :
              sync[h].pc = "write" /\ ~sync'[h].stale /\ row'[sync[h].job] # None
                 => row[sync[h].job] # None /\ row'[sync[h].job].next = row[sync[h].job].next
    PROVE  SyncOK'
BY DEF IInv, SyncOK

(* Steps that touch neither rows nor ticks nor publications                *)
LEMMA QuietOK ==
    ASSUME IInv, TypeOK', UNCHANGED <<tick, sync, row, asks, fired, twice, crossed>>, now <= now'
    PROVE  IInv'
<1>1. TickOK' /\ CleanOnce'
  BY TicksKept DEF IInv, TypeOK, Clean
<1>2. SyncOK'
  BY DEF IInv, SyncOK
<1>3. Bounds'
  <2>1. \A j \in Jobs : \A d \in fired[j] : -asks <= d /\ d <= now'
    BY DEF IInv, Bounds, TypeOK
  <2>2. \A t \in Threads : tick[t].now <= now'
    BY DEF IInv, Bounds, TypeOK, TickRec
  <2> QED BY <2>1, <2>2 DEF IInv, Bounds, Holds
<1> QED BY <1>1, <1>2, <1>3 DEF IInv

(* The bounds after a step that enqueues nothing and gives no tick a new   *)
(* snapshot                                                                *)
LEMMA BoundsKept ==
    ASSUME IInv, TypeOK', now' = now, fired' = fired, asks <= asks',
           \A t \in Threads :
              /\ tick'[t].now <= now
              /\ \A j \in Jobs : tick'[t].seen[j] # None =>
                    tick'[t].seen[j] = tick[t].seen[j] /\ tick'[t].now = tick[t].now,
           \A h \in Handlers : sync'[h].seen # None /\ sync'[h].seen.next # None
                                  => sync'[h].seen.next >= -asks',
           \A j \in Jobs : row'[j] # None /\ row'[j].next # None => row'[j].next >= -asks'
    PROVE  Bounds'
<1>1. asks \in Nat /\ asks' \in Nat /\ now \in Nat
  BY DEF IInv, TypeOK
<1>2. \A j \in Jobs : \A d \in fired[j] : -asks' <= d /\ d <= now
  <2> SUFFICES ASSUME NEW j \in Jobs, NEW d \in fired[j] PROVE -asks' <= d /\ d <= now
    OBVIOUS
  <2>1. d \in Int /\ -asks <= d /\ d <= now
    BY DEF IInv, TypeOK, Bounds
  <2> QED BY <1>1, <2>1
<1>3. \A t \in Threads, j \in Jobs : tick'[t].seen[j] # None =>
         tick'[t].seen[j].next >= -asks' /\ tick'[t].seen[j].next <= tick'[t].now
  <2> SUFFICES ASSUME NEW t \in Threads, NEW j \in Jobs, tick'[t].seen[j] # None
               PROVE  tick'[t].seen[j].next >= -asks' /\ tick'[t].seen[j].next <= tick'[t].now
    OBVIOUS
  <2>1. tick'[t].seen[j] = tick[t].seen[j] /\ tick'[t].now = tick[t].now
    OBVIOUS
  <2>2. tick[t].seen[j].next >= -asks /\ tick[t].seen[j].next <= tick[t].now
    BY <2>1 DEF IInv, Bounds, Holds
  <2>3. tick[t].seen[j].next \in Int
    BY <2>1 DEF IInv, TypeOK, TickRec, Snap
  <2> QED BY <1>1, <2>1, <2>2, <2>3
<1> QED BY <1>1, <1>2, <1>3 DEF Bounds, Holds

-----------------------------------------------------------------------------
(* Leadership                                                              *)
LEMMA ClockOK == ASSUME IInv, Clock PROVE IInv'
<1>1. TypeOK'
  BY DEF IInv, TypeOK, Clock, leadership, counters, history
<1>2. now <= now'
  BY DEF IInv, TypeOK, Clock
<1> QED BY <1>1, <1>2, QuietOK DEF Clock, counters, history

LEMMA AcquireOK == ASSUME IInv, NEW s \in Schedulers, Acquire(s) PROVE IInv'
<1>1. TypeOK'
  BY DEF IInv, TypeOK, Acquire, counters, history
<1> QED BY <1>1, QuietOK DEF Acquire, counters, history, IInv, TypeOK

LEMMA BeatRaisesOK == ASSUME IInv, NEW s \in Schedulers, BeatRaises(s) PROVE IInv'
<1>1. TypeOK'
  BY DEF IInv, TypeOK, BeatRaises, Fault, history
<1> QED BY <1>1, QuietOK DEF BeatRaises, history, IInv, TypeOK

LEMMA LapseOK == ASSUME IInv, Lapse PROVE IInv'
<1>1. TypeOK'
  BY DEF IInv, TypeOK, Lapse, counters, history
<1> QED BY <1>1, QuietOK DEF Lapse, counters, history, IInv, TypeOK

LEMMA ExpireOK == ASSUME IInv, Expire PROVE IInv'
<1>1. TypeOK'
  BY DEF IInv, TypeOK, Expire, Fault, history
<1> QED BY <1>1, QuietOK DEF Expire, history, IInv, TypeOK

LEMMA ReleaseOK ==
    ASSUME IInv, NEW s \in Schedulers, ReleaseGet(s) \/ ReleaseDel(s) PROVE IInv'
<1>1. TypeOK'
  BY DEF IInv, TypeOK, ReleaseGet, ReleaseDel, counters, history
<1> QED BY <1>1, QuietOK DEF ReleaseGet, ReleaseDel, counters, history, IInv, TypeOK

LEMMA StartOK == ASSUME IInv, NEW s \in Schedulers, Start(s) PROVE IInv'
<1>1. TypeOK'
  BY DEF IInv, TypeOK, Start, counters, history
<1> QED BY <1>1, QuietOK DEF Start, counters, history, IInv, TypeOK

LEMMA AbandonOK ==
    ASSUME tick \in [Threads -> TickRec], NEW s, Abandon(s)
    PROVE  /\ tick' \in [Threads -> TickRec]
           /\ \A t \in Threads :
                 /\ tick'[t].pc = tick[t].pc /\ tick'[t].cur = tick[t].cur
                 /\ tick'[t].now = tick[t].now /\ tick'[t].seen = tick[t].seen
                 /\ tick'[t].stale = tick[t].stale
<1>1. ASSUME NEW t \in Threads
      PROVE  /\ tick'[t] \in TickRec
             /\ tick'[t].pc = tick[t].pc /\ tick'[t].cur = tick[t].cur
             /\ tick'[t].now = tick[t].now /\ tick'[t].seen = tick[t].seen
             /\ tick'[t].stale = tick[t].stale
  <2>1. tick'[t] = IF tick[t].by = s THEN [tick[t] EXCEPT !.awaited = FALSE] ELSE tick[t]
    BY DEF Abandon
  <2>2. tick[t] \in TickRec
    OBVIOUS
  <2> QED BY <2>1, <2>2 DEF TickRec
<1>2. tick' = [t \in Threads |-> tick'[t]]
  BY DEF Abandon
<1> QED BY <1>1, <1>2

(* Losing the lease and being stopped: the ticks go on                     *)
LEMMA LeaveOK ==
    ASSUME IInv, TypeOK', NEW s, Abandon(s), now' = now,
           UNCHANGED <<sync, row, asks, fired, twice, crossed>>
    PROVE  IInv'
<1>1. \A t \in Threads :
         /\ tick'[t].pc = tick[t].pc /\ tick'[t].cur = tick[t].cur
         /\ tick'[t].now = tick[t].now /\ tick'[t].seen = tick[t].seen
         /\ tick'[t].stale = tick[t].stale
  BY AbandonOK DEF IInv, TypeOK
<1>2. TickOK' /\ CleanOnce'
  BY <1>1, TicksKept DEF TypeOK, Clean
<1>3. SyncOK'
  BY DEF IInv, SyncOK
<1>4. Bounds'
  <2>1. \A t \in Threads : tick'[t].now <= now
    BY <1>1 DEF IInv, Bounds
  <2> QED BY <1>1, <2>1, BoundsKept DEF IInv, Bounds, TypeOK
<1> QED BY <1>2, <1>3, <1>4 DEF IInv

LEMMA BeatLostOK == ASSUME IInv, NEW s \in Schedulers, BeatLost(s) PROVE IInv'
<1>1. tick' \in [Threads -> TickRec]
  BY AbandonOK DEF IInv, TypeOK, BeatLost
<1>2. TypeOK'
  BY <1>1 DEF IInv, TypeOK, BeatLost, counters, history
<1> QED BY <1>2, LeaveOK DEF BeatLost, counters, history

LEMMA StopOK == ASSUME IInv, NEW s \in Schedulers, Stop(s) PROVE IInv'
<1>1. tick' \in [Threads -> TickRec]
  BY AbandonOK DEF IInv, TypeOK, Stop
<1>2. TypeOK'
  BY <1>1 DEF IInv, TypeOK, Stop, Fault, history
<1> QED BY <1>2, LeaveOK DEF Stop, history

-----------------------------------------------------------------------------
(* Ticks.  A step that enqueues nothing and gives no tick a new snapshot   *)
LEMMA OnceKept ==
    ASSUME IInv, fired' = fired, twice' = twice,
           \A j \in Jobs : Clean(j)' => Clean(j),
           \A t \in Threads, j \in Jobs : Holds(t, j)' =>
              /\ tick'[t].seen[j] = tick[t].seen[j] /\ tick'[t].now = tick[t].now
              /\ tick'[t].cur # j => tick[t].cur # j
              /\ j \in tick[t].stale => j \in tick'[t].stale,
           \A j \in Jobs : Clean(j)' =>
              \/ \A u \in Threads : \A d : Saving(u, j, d) => Saving(u, j, d)'
              \/ \A t \in Threads : Holds(t, j)' => j \in tick'[t].stale,
           \A j \in Jobs : Clean(j)' /\ row'[j] # None => \A d \in fired[j] :
              row'[j].next = d => \E u \in Threads : Saving(u, j, d)'
    PROVE  CleanOnce'
<1> SUFFICES ASSUME NEW j \in Jobs, Clean(j)' PROVE OnceEach(j)'
  BY DEF CleanOnce
<1>1. OnceEach(j)
  BY DEF IInv, CleanOnce
<1>2. \A t \in Threads : Holds(t, j)' => Holds(t, j)
  BY DEF Holds
<1>3. j \notin twice'
  BY <1>1 DEF OnceEach
<1>4. ASSUME NEW t \in Threads, Holds(t, j)', tick'[t].cur # j
      PROVE  tick'[t].seen[j].next \notin fired'[j]
  BY <1>1, <1>2, <1>4 DEF OnceEach
<1>5. ASSUME NEW t \in Threads, NEW u \in Threads, t # u, Holds(t, j)', Holds(u, j)'
      PROVE  tick'[t].seen[j].next # tick'[u].seen[j].next
  BY SMTT(30), <1>1, <1>2, <1>5 DEF OnceEach
<1>6. ASSUME NEW t \in Threads, Holds(t, j)', j \notin tick'[t].stale, NEW d \in fired[j]
      PROVE  d <= tick'[t].now \/ \E u \in Threads : Saving(u, j, d)'
  <2>1. d <= tick[t].now \/ \E u \in Threads : Saving(u, j, d)
    BY <1>1, <1>2, <1>6 DEF OnceEach
  <2>2. \A u \in Threads : Saving(u, j, d) => Saving(u, j, d)'
    BY <1>6
  <2> QED BY <2>1, <2>2, <1>6
<1> QED BY <1>3, <1>4, <1>5, <1>6 DEF OnceEach

(* The same when the rows stay as well: no tick that is saving is lost     *)
LEMMA OnceKeptRows ==
    ASSUME IInv, row' = row, fired' = fired, twice' = twice,
           \A j \in Jobs : Clean(j)' => Clean(j),
           \A t \in Threads, j \in Jobs : Holds(t, j)' =>
              /\ tick'[t].seen[j] = tick[t].seen[j] /\ tick'[t].now = tick[t].now
              /\ tick'[t].cur # j => tick[t].cur # j
              /\ j \in tick[t].stale => j \in tick'[t].stale,
           \A j \in Jobs : Clean(j)' =>
              \A u \in Threads : \A d : Saving(u, j, d) => Saving(u, j, d)'
    PROVE  CleanOnce'
<1>1. ASSUME NEW j \in Jobs, Clean(j)', row'[j] # None, NEW d \in fired[j], row'[j].next = d
      PROVE  \E u \in Threads : Saving(u, j, d)'
  <2>1. \E u \in Threads : Saving(u, j, d)
    BY <1>1 DEF IInv, CleanOnce, OnceEach
  <2> QED BY <2>1, <1>1
<1> QED BY <1>1, OnceKept

LEMMA NoTickOK == NoTick \in TickRec /\ \A j \in Jobs : NoTick.seen[j] = None
BY DEF NoTick, TickRec, NoSnaps

LEMMA TickActOK ==
    ASSUME IInv, NEW s \in Schedulers, NEW t \in Threads, Tick(s, t) PROVE IInv'
<1> DEFINE new == [NoTick EXCEPT !.pc = "select", !.by = s, !.awaited = TRUE]
<1>1. /\ new \in TickRec /\ new.pc = "select" /\ new.cur = None /\ new.now = 0
      /\ \A j \in Jobs : new.seen[j] = None
  BY DEF NoTick, TickRec, NoSnaps, Processes
<1>2. /\ tick' = [tick EXCEPT ![t] = new] /\ tick[t].pc = "idle"
      /\ UNCHANGED <<now, sync, row, asks, fired, twice, crossed>>
  BY DEF Tick, counters, history
<1> HIDE DEF new
<1>3. tick \in [Threads -> TickRec]
  BY DEF IInv, TypeOK
<1>4. tick'[t] = new /\ \A u \in Threads \ {t} : tick'[u] = tick[u]
  BY <1>2, <1>3
<1>5. tick' \in [Threads -> TickRec]
  BY <1>1, <1>2, <1>3
<1>6. TypeOK'
  BY <1>5 DEF IInv, TypeOK, Tick, leadership, counters, history
<1>7. TickOK'
  BY <1>1, <1>4 DEF IInv, TickOK, Holds
<1>8. SyncOK'
  BY <1>2 DEF IInv, SyncOK
<1>9. Bounds'
  <2>1. \A u \in Threads : tick'[u].now <= now
    BY <1>1, <1>4 DEF IInv, Bounds, TypeOK
  <2>2. \A u \in Threads, j \in Jobs : tick'[u].seen[j] # None => u # t
    BY <1>1, <1>4
  <2> QED BY <1>2, <1>4, <1>6, <2>1, <2>2, BoundsKept DEF IInv, Bounds, TypeOK
<1>10. CleanOnce'
  <2>1. \A u \in Threads, j \in Jobs : Holds(u, j)' => u # t
    BY <1>1, <1>4 DEF Holds
  <2>2. \A u \in Threads, j \in Jobs : \A d : Saving(u, j, d) => Saving(u, j, d)'
    BY <1>2, <1>4 DEF Saving
  <2>3. \A j \in Jobs : Clean(j)' => Clean(j)
    BY <1>2 DEF Clean
  <2> QED BY <1>2, <1>4, <2>1, <2>2, <2>3, OnceKeptRows
<1> QED BY <1>6, <1>7, <1>8, <1>9, <1>10 DEF IInv

(* A tick is done with job j, and what others hold may become stale        *)
Dropping(t, j) ==
    /\ tick[t].pc \in {"fire", "save"} /\ tick[t].cur \in {None, j}
    /\ \A u \in Threads \ {t} :
          /\ tick'[u].pc = tick[u].pc /\ tick'[u].cur = tick[u].cur
          /\ tick'[u].now = tick[u].now /\ tick'[u].seen = tick[u].seen
          /\ tick[u].stale \subseteq tick'[u].stale
    /\ tick'[t].pc = "fire" /\ tick'[t].cur = None /\ tick'[t].now = tick[t].now
    /\ tick'[t].seen[j] = None
    /\ \A k \in Jobs \ {j} : /\ tick'[t].seen[k] = tick[t].seen[k]
                             /\ k \in tick[t].stale => k \in tick'[t].stale

LEMMA DroppedIs ==
    ASSUME tick \in [Threads -> TickRec], NEW t \in Threads, NEW j \in Jobs
    PROVE  /\ Dropped(t, j) \in [Threads -> TickRec]
           /\ \A u \in Threads \ {t} : Dropped(t, j)[u] = tick[u]
           /\ Dropped(t, j)[t].pc = "fire" /\ Dropped(t, j)[t].cur = None
           /\ Dropped(t, j)[t].now = tick[t].now /\ Dropped(t, j)[t].seen[j] = None
           /\ \A k \in Jobs \ {j} : Dropped(t, j)[t].seen[k] = tick[t].seen[k]
           /\ \A k \in Jobs \ {j} : k \in tick[t].stale => k \in Dropped(t, j)[t].stale
<1> DEFINE new == [tick[t] EXCEPT !.pc = "fire", !.cur = None, !.seen[j] = None, !.stale = @ \ {j}]
<1>1. tick[t] \in TickRec
  OBVIOUS
<1>2. tick[t].seen \in [Jobs -> Snap \cup {None}] /\ tick[t].stale \subseteq Jobs
  BY <1>1 DEF TickRec
<1>3. new = [tick[t] EXCEPT !.pc = "fire", !.cur = None,
                            !.seen = [tick[t].seen EXCEPT ![j] = None],
                            !.stale = tick[t].stale \ {j}]
  OBVIOUS
<1>4. /\ new \in TickRec /\ new.pc = "fire" /\ new.cur = None /\ new.now = tick[t].now
      /\ new.seen = [tick[t].seen EXCEPT ![j] = None] /\ new.stale = tick[t].stale \ {j}
  <2> HIDE DEF new
  <2> QED BY <1>1, <1>2, <1>3 DEF TickRec
<1>5. Dropped(t, j) = [tick EXCEPT ![t] = new]
  BY DEF Dropped
<1> HIDE DEF new
<1> QED BY <1>2, <1>4, <1>5

LEMMA DropOK ==
    ASSUME IInv, TypeOK', NEW t \in Threads, NEW j \in Jobs, Dropping(t, j)
    PROVE  /\ TickOK'
           /\ \A u \in Threads, k \in Jobs : Holds(u, k)' =>
                /\ tick'[u].seen[k] = tick[u].seen[k] /\ tick'[u].now = tick[u].now
                /\ tick'[u].cur # k => tick[u].cur # k
                /\ k \in tick[u].stale => k \in tick'[u].stale
           /\ \A u \in Threads, k \in Jobs : \A d :
                 Saving(u, k, d) /\ ~(u = t /\ k = j) => Saving(u, k, d)'
           /\ \A u \in Threads : tick'[u].now = tick[u].now
<1>1. \A u \in Threads, k \in Jobs : Holds(u, k)' =>
         /\ ~(u = t /\ k = j)
         /\ tick'[u].seen[k] = tick[u].seen[k] /\ tick'[u].now = tick[u].now
         /\ tick'[u].cur # k => tick[u].cur # k
         /\ k \in tick[u].stale => k \in tick'[u].stale
  <2> SUFFICES ASSUME NEW u \in Threads, NEW k \in Jobs, tick'[u].seen[k] # None
               PROVE  /\ ~(u = t /\ k = j)
                      /\ tick'[u].seen[k] = tick[u].seen[k] /\ tick'[u].now = tick[u].now
                      /\ tick'[u].cur # k => tick[u].cur # k
                      /\ k \in tick[u].stale => k \in tick'[u].stale
    BY DEF Holds
  <2>1. CASE u # t
    BY <2>1 DEF Dropping
  <2>2. CASE u = t
    BY <2>2, NoneIsNothing DEF Dropping
  <2> QED BY <2>1, <2>2
<1>2. ASSUME NEW u \in Threads, NEW k \in Jobs, NEW d, Saving(u, k, d), ~(u = t /\ k = j)
      PROVE  Saving(u, k, d)'
  <2>1. u # t
    BY <1>2, NoneIsNothing DEF Dropping, Saving
  <2> QED BY <1>2, <2>1 DEF Dropping, Saving
<1>3. TickOK'
  <2> SUFFICES ASSUME NEW u \in Threads
               PROVE  /\ tick'[u].pc \in {"idle", "select"} =>
                            \A k \in Jobs : tick'[u].seen[k] = None
                      /\ IF tick'[u].pc = "save"
                         THEN tick'[u].cur \in Jobs /\ tick'[u].seen[tick'[u].cur] # None
                         ELSE tick'[u].cur = None
    BY DEF TickOK, Holds
  <2>1. CASE u # t
    BY <2>1 DEF Dropping, IInv, TickOK, Holds
  <2>2. CASE u = t
    BY <2>2 DEF Dropping
  <2> QED BY <2>1, <2>2
<1>4. \A u \in Threads : tick'[u].now = tick[u].now
  BY DEF Dropping
<1> QED BY <1>1, <1>2, <1>3, <1>4

(* The call that raises: nothing was enqueued, or the race is on record    *)
LEMMA DropQuietOK ==
    ASSUME IInv, TypeOK', NEW t \in Threads, NEW j \in Jobs, Dropping(t, j),
           UNCHANGED <<now, sync, row, asks, fired, twice>>,
           \A k \in Jobs : Clean(k)' => Clean(k),
           tick[t].pc = "save" => ~Clean(j)'
    PROVE  IInv'
<1>1. TickOK'
  BY DropOK
<1>2. SyncOK'
  BY DEF IInv, SyncOK
<1>3. Bounds'
  <2>1. \A u \in Threads : tick'[u].now <= now
    BY DropOK DEF IInv, Bounds
  <2>2. \A u \in Threads, k \in Jobs : tick'[u].seen[k] # None =>
           tick'[u].seen[k] = tick[u].seen[k] /\ tick'[u].now = tick[u].now
    BY DropOK DEF Holds
  <2> QED BY <2>1, <2>2, BoundsKept DEF IInv, Bounds, TypeOK
<1>4. CleanOnce'
  <2>1. ASSUME NEW k \in Jobs, Clean(k)', NEW u \in Threads, NEW d, Saving(u, k, d)
        PROVE  Saving(u, k, d)'
    <3>1. ~(u = t /\ k = j)
      BY <2>1 DEF Saving
    <3> QED BY <2>1, <3>1, DropOK
  <2>2. \A u \in Threads, k \in Jobs : Holds(u, k)' =>
           /\ tick'[u].seen[k] = tick[u].seen[k] /\ tick'[u].now = tick[u].now
           /\ tick'[u].cur # k => tick[u].cur # k
           /\ k \in tick[u].stale => k \in tick'[u].stale
    BY DropOK
  <2> QED BY <2>1, <2>2, OnceKeptRows
<1> QED BY <1>1, <1>2, <1>3, <1>4 DEF IInv

LEMMA FireRaisesOK ==
    ASSUME IInv, NEW t \in Threads, NEW j \in Jobs, FireRaises(t, j) PROVE IInv'
<1>1. tick \in [Threads -> TickRec] /\ tick' = Dropped(t, j) /\ tick[t].pc = "fire"
  BY DEF IInv, TypeOK, FireRaises, First
<1>2. TypeOK'
  BY <1>1, DroppedIs DEF IInv, TypeOK, FireRaises, Fault, leadership, history
<1>3. Dropping(t, j)
  BY <1>1, DroppedIs DEF Dropping, IInv, TickOK
<1> QED BY <1>1, <1>2, <1>3, DropQuietOK DEF FireRaises, Fault, history, Clean

LEMMA SaveRaisesOK == ASSUME IInv, NEW t \in Threads, SaveRaises(t) PROVE IInv'
<1>1. tick \in [Threads -> TickRec] /\ tick[t].pc = "save"
  BY DEF IInv, TypeOK, SaveRaises
<1>2. PICK j \in Jobs : j = tick[t].cur
  BY <1>1 DEF IInv, TickOK
<1>3. tick' = Dropped(t, j) /\ Cross({j}, "unsaved")
  BY <1>2 DEF SaveRaises
<1>4. /\ crossed' \in [Jobs -> SUBSET Kinds] /\ ~Clean(j)'
      /\ \A k \in Jobs : Clean(k)' => Clean(k)
  <2>1. "unsaved" \in Kinds /\ crossed \in [Jobs -> SUBSET Kinds]
    BY DEF IInv, TypeOK, Kinds
  <2> QED BY <1>3, <2>1, CrossOK
<1>5. TypeOK'
  BY <1>1, <1>3, <1>4, DroppedIs DEF IInv, TypeOK, SaveRaises, Fault, leadership, history
<1>6. Dropping(t, j)
  BY <1>1, <1>2, <1>3, DroppedIs DEF Dropping
<1> QED BY <1>4, <1>5, <1>6, DropQuietOK DEF SaveRaises, Fault, history

(* Selecting: what is due, and is held by no other tick unless the race is *)
(* on record, was not enqueued before                                      *)
LEMMA SelectOK == ASSUME IInv, NEW t \in Threads, Select(t) PROVE IInv'
<1> DEFINE chosen == {j \in Jobs : Due(j) /\ tick[t].only \in {None, j}}
           snaps == [j \in Jobs |-> IF j \in chosen
                                    THEN [sched |-> row[j].sched, next |-> row[j].next] ELSE None]
           over == {j \in chosen : \E u \in Threads \ {t} :
                       Holds(u, j) /\ tick[u].seen[j].next = row[j].next}
           new == [tick[t] EXCEPT !.pc = "fire", !.now = now, !.seen = snaps]
<1>1. /\ tick[t].pc = "select" /\ tick' = [tick EXCEPT ![t] = new] /\ Cross(over, "overlap")
      /\ UNCHANGED <<now, leadership, sync, row, gone, out, counters, history>>
  BY DEF Select
<1>2. /\ tick \in [Threads -> TickRec] /\ tick[t] \in TickRec /\ now \in Nat
      /\ row \in [Jobs -> Row \cup {None}] /\ tick[t].cur = None
  BY <1>1 DEF IInv, TypeOK, TickOK
<1>3. \A j \in chosen : /\ row[j] \in Row /\ row[j].next \in Int /\ row[j].next <= now
                        /\ row[j] # None /\ row[j].next # None
                        /\ snaps[j] \in Snap /\ snaps[j] # None /\ snaps[j].next = row[j].next
  <2> SUFFICES ASSUME NEW j \in chosen
               PROVE  /\ row[j] \in Row /\ row[j].next \in Int /\ row[j].next <= now
                      /\ row[j] # None /\ row[j].next # None
                      /\ snaps[j] \in Snap /\ snaps[j] # None /\ snaps[j].next = row[j].next
    OBVIOUS
  <2>1. j \in Jobs /\ row[j] # None /\ row[j].next # None /\ row[j].next <= now
    BY DEF Due
  <2>2. row[j] \in Row
    BY <2>1, <1>2
  <2>3. row[j].next \in Int /\ row[j].sched \in Schedules
    BY <2>1, <2>2 DEF Row
  <2>4. snaps[j] = [sched |-> row[j].sched, next |-> row[j].next]
    BY <2>1
  <2>5. snaps[j] \in Snap /\ snaps[j].next = row[j].next
    <3> HIDE DEF snaps
    <3> QED BY <2>3, <2>4 DEF Snap
  <2>6. snaps[j] # None
    <3> HIDE DEF snaps
    <3> QED BY <2>5, NoneIsNothing
  <2> HIDE DEF snaps, chosen
  <2> QED BY <2>1, <2>2, <2>3, <2>5, <2>6
<1>4. snaps \in [Jobs -> Snap \cup {None}] /\ \A j \in Jobs : snaps[j] # None => j \in chosen
  BY <1>3
<1>5. /\ new \in TickRec /\ new.pc = "fire" /\ new.now = now /\ new.seen = snaps
      /\ new.cur = None /\ new.stale = tick[t].stale
  <2> HIDE DEF snaps
  <2> QED BY <1>2, <1>4 DEF TickRec
<1> HIDE DEF new, snaps
<1>6. /\ tick' \in [Threads -> TickRec] /\ tick'[t] = new
      /\ \A u \in Threads \ {t} : tick'[u] = tick[u]
  BY <1>1, <1>2, <1>5
<1>7. /\ crossed' \in [Jobs -> SUBSET Kinds] /\ \A j \in over : ~Clean(j)'
      /\ \A j \in Jobs : Clean(j)' => Clean(j)
  <2>1. "overlap" \in Kinds /\ crossed \in [Jobs -> SUBSET Kinds] /\ over \subseteq Jobs
    BY DEF IInv, TypeOK, Kinds
  <2> HIDE DEF over
  <2> QED BY <1>1, <2>1, CrossOK
<1>8. TypeOK'
  <2> HIDE DEF over, chosen
  <2> QED BY <1>1, <1>6, <1>7 DEF IInv, TypeOK, leadership, counters, history
<1>9. TickOK'
  <2> SUFFICES ASSUME NEW u \in Threads
               PROVE  /\ tick'[u].pc \in {"idle", "select"} =>
                            \A k \in Jobs : tick'[u].seen[k] = None
                      /\ IF tick'[u].pc = "save"
                         THEN tick'[u].cur \in Jobs /\ tick'[u].seen[tick'[u].cur] # None
                         ELSE tick'[u].cur = None
    BY DEF TickOK, Holds
  <2>1. CASE u = t
    BY <2>1, <1>5, <1>6
  <2>2. CASE u # t
    BY <2>2, <1>6 DEF IInv, TickOK, Holds
  <2> QED BY <2>1, <2>2
<1>10. SyncOK'
  BY <1>1 DEF IInv, SyncOK
<1>11. Bounds'
  <2>1. \A u \in Threads :
          /\ tick'[u].now <= now
          /\ \A j \in Jobs : tick'[u].seen[j] # None =>
                tick'[u].seen[j].next >= -asks /\ tick'[u].seen[j].next <= tick'[u].now
    <3>1. now <= now
      BY <1>2
    <3>2. \A j \in chosen : row[j].next >= -asks
      BY <1>3 DEF IInv, Bounds
    <3>3. \A j \in Jobs : snaps[j] # None => snaps[j].next >= -asks /\ snaps[j].next <= now
      BY <1>3, <1>4, <3>2
    <3> SUFFICES ASSUME NEW u \in Threads
                 PROVE  /\ tick'[u].now <= now
                        /\ \A j \in Jobs : tick'[u].seen[j] # None =>
                              tick'[u].seen[j].next >= -asks /\ tick'[u].seen[j].next <= tick'[u].now
      OBVIOUS
    <3>4. CASE u = t
      BY <3>1, <3>3, <3>4, <1>5, <1>6
    <3>5. CASE u # t
      BY <3>5, <1>6 DEF IInv, Bounds, Holds
    <3> QED BY <3>4, <3>5
  <2> QED BY <1>1, <2>1 DEF IInv, Bounds, Holds, counters, history
<1>12. CleanOnce'
  <2> SUFFICES ASSUME NEW j \in Jobs, Clean(j)' PROVE OnceEach(j)'
    BY DEF CleanOnce
  <2>1. OnceEach(j) /\ fired' = fired /\ twice' = twice /\ row' = row
    BY <1>1, <1>7 DEF IInv, CleanOnce, history
  <2>2. \A u \in Threads : \A d : Saving(u, j, d) => u # t /\ Saving(u, j, d)'
    BY <1>1, <1>6 DEF Saving
  <2>3. snaps[j] # None =>
          /\ snaps[j].next = row[j].next
          /\ snaps[j].next \notin fired[j]
          /\ \A u \in Threads \ {t} : Holds(u, j) => tick[u].seen[j].next # snaps[j].next
    <3> SUFFICES ASSUME snaps[j] # None
                 PROVE  /\ snaps[j].next = row[j].next /\ snaps[j].next \notin fired[j]
                        /\ \A u \in Threads \ {t} : Holds(u, j) =>
                              tick[u].seen[j].next # snaps[j].next
      OBVIOUS
    <3>1. j \in chosen /\ snaps[j].next = row[j].next /\ row[j] # None
      BY <1>3, <1>4
    <3>2. \A u \in Threads \ {t} : Holds(u, j) => tick[u].seen[j].next # snaps[j].next
      BY <3>1, <1>7
    <3>3. snaps[j].next \notin fired[j]
      <4> SUFFICES ASSUME row[j].next \in fired[j] PROVE FALSE
        BY <3>1
      <4>1. PICK u \in Threads : Saving(u, j, row[j].next)
        BY <2>1, <3>1 DEF OnceEach
      <4>2. u # t /\ Holds(u, j)
        BY <4>1, <2>2 DEF IInv, TickOK, Saving
      <4> QED BY <3>1, <3>2, <4>1, <4>2 DEF Saving
    <3> QED BY <3>1, <3>2, <3>3
  <2>4. \A u \in Threads : Holds(u, j)' => IF u = t THEN snaps[j] # None ELSE Holds(u, j)
    BY <1>5, <1>6 DEF Holds
  <2>5. j \notin twice'
    BY <2>1 DEF OnceEach
  <2>6. ASSUME row'[j] # None, NEW d \in fired[j], row'[j].next = d
        PROVE  \E u \in Threads : Saving(u, j, d)'
    BY <2>1, <2>2, <2>6 DEF OnceEach
  <2>7. ASSUME NEW u \in Threads, Holds(u, j)', tick'[u].cur # j
        PROVE  tick'[u].seen[j].next \notin fired'[j]
    <3>1. CASE u = t
      BY <3>1, <2>1, <2>3, <2>4, <2>7, <1>5, <1>6
    <3>2. CASE u # t
      BY <3>2, <2>1, <2>4, <2>7, <1>6 DEF OnceEach
    <3> QED BY <3>1, <3>2
  <2>8. ASSUME NEW u \in Threads, NEW v \in Threads, u # v, Holds(u, j)', Holds(v, j)'
        PROVE  tick'[u].seen[j].next # tick'[v].seen[j].next
    <3>1. CASE u = t
      BY <3>1, <2>3, <2>4, <2>8, <1>5, <1>6
    <3>2. CASE v = t
      BY <3>2, <2>3, <2>4, <2>8, <1>5, <1>6
    <3>3. CASE u # t /\ v # t
      BY <3>3, <2>1, <2>4, <2>8, <1>6 DEF OnceEach
    <3> QED BY <3>1, <3>2, <3>3
  <2>9. ASSUME NEW u \in Threads, Holds(u, j)', j \notin tick'[u].stale, NEW d \in fired[j]
        PROVE  d <= tick'[u].now \/ \E v \in Threads : Saving(v, j, d)'
    <3>1. CASE u = t
      <4>1. d <= now
        BY DEF IInv, Bounds
      <4> QED BY <3>1, <4>1, <1>5, <1>6
    <3>2. CASE u # t
      <4>1. Holds(u, j) /\ j \notin tick[u].stale /\ tick'[u].now = tick[u].now
        BY <3>2, <2>4, <2>9, <1>6
      <4>2. d <= tick[u].now \/ \E v \in Threads : Saving(v, j, d)
        BY <4>1, <2>1 DEF OnceEach
      <4> QED BY <4>1, <4>2, <2>2
    <3> QED BY <3>1, <3>2
  <2> QED BY <2>1, <2>5, <2>6, <2>7, <2>8, <2>9 DEF OnceEach
<1> QED BY <1>8, <1>9, <1>10, <1>11, <1>12 DEF IInv

(* Enqueuing: what is enqueued was not enqueued before, and the tick is    *)
(* the one that is about to save the row                                   *)
LEMMA FireOK ==
    ASSUME IInv, NEW t \in Threads, NEW j \in Jobs, Fire(t, j) PROVE IInv'
<1> DEFINE new == [tick[t] EXCEPT !.pc = "save", !.cur = j]
<1>0. PICK due : due = tick[t].seen[j].next
  OBVIOUS
<1>1. /\ tick[t].pc = "fire" /\ Holds(t, j) /\ tick' = [tick EXCEPT ![t] = new]
      /\ fired' = [fired EXCEPT ![j] = @ \cup {due}]
      /\ twice' = IF due \in fired[j] THEN twice \cup {j} ELSE twice
      /\ out' = [out EXCEPT ![j] = @ + 1]
      /\ UNCHANGED <<now, leadership, sync, row, gone, counters, unheard, crossed>>
  BY <1>0 DEF Fire, First
<1>2. tick \in [Threads -> TickRec] /\ tick[t] \in TickRec /\ tick[t].cur = None
  BY <1>1 DEF IInv, TypeOK, TickOK
<1>3. /\ new \in TickRec /\ new.pc = "save" /\ new.cur = j /\ new.now = tick[t].now
      /\ new.seen = tick[t].seen /\ new.stale = tick[t].stale
  BY <1>2 DEF TickRec
<1> HIDE DEF new
<1>4. /\ tick' \in [Threads -> TickRec] /\ tick'[t] = new
      /\ \A u \in Threads \ {t} : tick'[u] = tick[u]
  BY <1>1, <1>2, <1>3
<1>5. due \in Int /\ tick[t].seen[j] # None
  <2>1. tick[t].seen[j] \in Snap
    BY <1>1, <1>2 DEF Holds, TickRec
  <2> QED BY <2>1, <1>0, <1>1 DEF Snap, Holds
<1>6. \A u \in Threads, k \in Jobs : Holds(u, k)' <=> Holds(u, k)
  <2>1. \A u \in Threads : tick'[u].seen = tick[u].seen
    BY <1>3, <1>4
  <2> QED BY <2>1 DEF Holds
<1>7. TypeOK'
  <2>1. fired' \in [Jobs -> SUBSET Int] /\ twice' \subseteq Jobs /\ out' \in [Jobs -> Nat]
    BY <1>1, <1>5 DEF IInv, TypeOK
  <2> QED BY <1>1, <1>4, <2>1 DEF IInv, TypeOK, leadership, counters
<1>8. TickOK'
  <2> SUFFICES ASSUME NEW u \in Threads
               PROVE  /\ tick'[u].pc \in {"idle", "select"} => \A k \in Jobs : ~Holds(u, k)'
                      /\ IF tick'[u].pc = "save"
                         THEN tick'[u].cur \in Jobs /\ tick'[u].seen[tick'[u].cur] # None
                         ELSE tick'[u].cur = None
    BY DEF TickOK, Holds
  <2>1. CASE u = t
    BY <2>1, <1>3, <1>4, <1>5
  <2>2. CASE u # t
    BY <2>2, <1>4, <1>6 DEF IInv, TickOK, Holds
  <2> QED BY <2>1, <2>2
<1>9. SyncOK'
  BY <1>1 DEF IInv, SyncOK
<1>10. Bounds'
  <2>1. -asks <= due /\ due <= now
    <3>1. /\ -asks <= due /\ due <= tick[t].now /\ tick[t].now <= now
          /\ tick[t].now \in Int /\ now \in Int
      BY <1>0, <1>1, <1>2 DEF IInv, Bounds, TypeOK, TickRec
    <3> QED BY <3>1, <1>5
  <2>2. \A k \in Jobs : \A d \in fired'[k] : -asks <= d /\ d <= now
    BY <2>1, <1>1 DEF IInv, Bounds, TypeOK
  <2>3. \A u \in Threads : tick'[u].now = tick[u].now /\ tick'[u].seen = tick[u].seen
    BY <1>3, <1>4
  <2> QED BY <1>1, <1>6, <2>2, <2>3 DEF IInv, Bounds, counters
<1>11. CleanOnce'
  <2> SUFFICES ASSUME NEW k \in Jobs, Clean(k)' PROVE OnceEach(k)'
    BY DEF CleanOnce
  <2>1. OnceEach(k) /\ row' = row
    BY <1>1 DEF IInv, CleanOnce, Clean
  <2>2. \A u \in Threads : \A d : Saving(u, k, d) => Saving(u, k, d)'
    BY <1>1, <1>4 DEF Saving
  <2>3. \A u \in Threads : /\ tick'[u].seen = tick[u].seen /\ tick'[u].now = tick[u].now
                           /\ tick'[u].stale = tick[u].stale
    BY <1>3, <1>4
  <2>4. CASE k # j
    <3>1. fired'[k] = fired[k] /\ (k \in twice' <=> k \in twice)
      BY <2>4, <1>1 DEF IInv, TypeOK
    <3>2. \A u \in Threads : tick'[u].cur # k => tick[u].cur # k
      BY <1>2, <1>4, NoneIsNothing
    <3>3. k \notin twice'
      BY <2>1, <3>1 DEF OnceEach
    <3>4. ASSUME row'[k] # None, NEW d \in fired'[k], row'[k].next = d
          PROVE  \E u \in Threads : Saving(u, k, d)'
      BY <2>1, <2>2, <3>1, <3>4 DEF OnceEach
    <3>5. ASSUME NEW u \in Threads, Holds(u, k)', tick'[u].cur # k
          PROVE  tick'[u].seen[k].next \notin fired'[k]
      BY <2>1, <2>3, <3>1, <3>2, <3>5, <1>6 DEF OnceEach
    <3>6. ASSUME NEW u \in Threads, NEW v \in Threads, u # v, Holds(u, k)', Holds(v, k)'
          PROVE  tick'[u].seen[k].next # tick'[v].seen[k].next
      BY <2>1, <2>3, <3>6, <1>6 DEF OnceEach
    <3>7. ASSUME NEW u \in Threads, Holds(u, k)', k \notin tick'[u].stale, NEW d \in fired'[k]
          PROVE  d <= tick'[u].now \/ \E v \in Threads : Saving(v, k, d)'
      BY <2>1, <2>2, <2>3, <3>1, <3>7, <1>6 DEF OnceEach
    <3> QED BY <3>3, <3>4, <3>5, <3>6, <3>7 DEF OnceEach
  <2>5. CASE k = j
    <3>1. due \notin fired[j]
      BY <2>1, <2>5, <1>0, <1>1, <1>2, NoneIsNothing DEF OnceEach
    <3>2. fired'[k] = fired[k] \cup {due} /\ k \notin twice'
      BY <2>1, <2>5, <3>1, <1>1 DEF OnceEach, IInv, TypeOK
    <3>3. Saving(t, k, due)'
      BY <2>5, <1>0, <1>3, <1>4 DEF Saving
    <3>4. ASSUME row'[k] # None, NEW d \in fired'[k], row'[k].next = d
          PROVE  \E u \in Threads : Saving(u, k, d)'
      <4>1. CASE d = due
        BY <4>1, <3>3
      <4>2. CASE d \in fired[k]
        BY <4>2, <2>1, <2>2, <3>4 DEF OnceEach
      <4> QED BY <4>1, <4>2, <3>2
    <3>5. ASSUME NEW u \in Threads, Holds(u, k)', tick'[u].cur # k
          PROVE  tick'[u].seen[k].next \notin fired'[k]
      <4>1. u # t /\ tick[u].cur # k /\ Holds(u, k)
        BY <3>5, <2>5, <1>3, <1>4, <1>6
      <4>2. tick[u].seen[k].next \notin fired[k]
        BY <4>1, <2>1 DEF OnceEach
      <4>3. tick[u].seen[k].next # due
        BY <4>1, <2>1, <2>5, <1>0, <1>1 DEF OnceEach
      <4> QED BY <4>2, <4>3, <3>2, <2>3
    <3>6. ASSUME NEW u \in Threads, NEW v \in Threads, u # v, Holds(u, k)', Holds(v, k)'
          PROVE  tick'[u].seen[k].next # tick'[v].seen[k].next
      BY <2>1, <2>3, <3>6, <1>6 DEF OnceEach
    <3>7. ASSUME NEW u \in Threads, Holds(u, k)', k \notin tick'[u].stale, NEW d \in fired'[k]
          PROVE  d <= tick'[u].now \/ \E v \in Threads : Saving(v, k, d)'
      <4>1. CASE d = due
        BY <4>1, <3>3
      <4>2. CASE d \in fired[k]
        BY <4>2, <2>1, <2>2, <2>3, <3>7, <1>6 DEF OnceEach
      <4> QED BY <4>1, <4>2, <3>2
    <3> QED BY <3>2, <3>4, <3>5, <3>6, <3>7 DEF OnceEach
  <2> QED BY <2>4, <2>5
<1> QED BY <1>7, <1>8, <1>9, <1>10, <1>11 DEF IInv

(* A write of a row: the row that is stored is a row, what it says of the  *)
(* next run is not older than the triggers, and what others read of it is  *)
(* stale                                                                   *)
LEMMA SaveOK == ASSUME IInv, NEW t \in Threads, Save(t) PROVE IInv'
<1>1. /\ tick \in [Threads -> TickRec] /\ sync \in [Handlers -> SyncRec]
      /\ row \in [Jobs -> Row \cup {None}] /\ tick[t].pc = "save" /\ now \in Nat /\ asks \in Nat
  BY DEF IInv, TypeOK, Save
<1>2. PICK j \in Jobs : j = tick[t].cur /\ Holds(t, j)
  BY <1>1 DEF IInv, TickOK
<1>3. tick[t].seen[j] \in Snap /\ tick[t].seen[j].sched \in Schedules /\ tick[t].now \in Nat
  BY <1>1, <1>2 DEF Holds, TickRec, Snap
<1>4. PICK n \in NextRuns(tick[t].seen[j].sched, tick[t].now) :
         row' = IF row[j] = None THEN row
                ELSE [row EXCEPT ![j] = [@ EXCEPT !.next = n, !.on = n # None,
                                                  !.status = "running"]]
  BY <1>2 DEF Save
<1>5. /\ tick' = [Outdated(j) EXCEPT ![t] = Dropped(t, j)[t]] /\ sync' = OutdatedSync(j)
      /\ Cross(IF j \in tick[t].stale THEN {j} ELSE {}, "stale")
      /\ UNCHANGED <<now, leadership, gone, out, counters, history>>
  BY <1>2 DEF Save
<1>6. n = None \/ (n \in Nat /\ n > tick[t].now)
  BY <1>3, NextRunsOK
<1>7. /\ row' \in [Jobs -> Row \cup {None}] /\ \A k \in Jobs \ {j} : row'[k] = row[k]
      /\ row'[j] # None => row[j] # None /\ row'[j].next = n
  <2>1. CASE row[j] = None
    BY <2>1, <1>1, <1>4
  <2>2. CASE row[j] # None
    <3>0. PICK on \in BOOLEAN : on = (n # None)
      OBVIOUS
    <3> DEFINE r == [row[j] EXCEPT !.next = n, !.on = on, !.status = "running"]
    <3>1. row[j] \in Row
      BY <2>2, <1>1
    <3>2. r \in Row /\ r.next = n
      <4>1. n \in Int \cup {None}
        BY <1>6
      <4> QED BY <3>1, <4>1 DEF Row
    <3>3. row' = [row EXCEPT ![j] = r]
      BY <2>2, <1>4, <3>0
    <3> HIDE DEF r
    <3> QED BY <3>2, <3>3, <2>2, <1>1
  <2> QED BY <2>1, <2>2
<1>8. /\ tick' \in [Threads -> TickRec] /\ Dropping(t, j)
      /\ \A u \in Threads \ {t} : Holds(u, j) => j \in tick'[u].stale
  <2>1. /\ Outdated(j) \in [Threads -> TickRec] /\ Dropped(t, j) \in [Threads -> TickRec]
        /\ \A u \in Threads \ {t} : tick'[u] = Outdated(j)[u]
        /\ tick'[t] = Dropped(t, j)[t]
    BY <1>1, <1>5, OutdatedOK, DroppedIs
  <2>2. tick' \in [Threads -> TickRec]
    BY <2>1, <1>5
  <2>3. \A u \in Threads \ {t} :
          /\ tick'[u].pc = tick[u].pc /\ tick'[u].cur = tick[u].cur
          /\ tick'[u].now = tick[u].now /\ tick'[u].seen = tick[u].seen
          /\ tick[u].stale \subseteq tick'[u].stale
          /\ Holds(u, j) => j \in tick'[u].stale
    BY <2>1, <1>1, OutdatedOK
  <2> QED BY <2>1, <2>2, <2>3, <1>1, <1>2, DroppedIs DEF Dropping
<1>9. /\ crossed' \in [Jobs -> SUBSET Kinds]
      /\ j \in tick[t].stale => ~Clean(j)'
      /\ \A k \in Jobs : Clean(k)' => Clean(k)
  <2>1. "stale" \in Kinds /\ crossed \in [Jobs -> SUBSET Kinds]
    BY DEF IInv, TypeOK, Kinds
  <2> QED BY <1>5, <2>1, CrossOK
<1>10. TypeOK'
  BY <1>1, <1>5, <1>7, <1>8, <1>9, OutdatedSyncOK
     DEF IInv, TypeOK, leadership, counters, history
<1>11. TickOK'
  BY <1>8, <1>10, DropOK
<1>12. SyncOK'
  <2>1. \A h \in Handlers : sync[h].pc = "write" /\ ~sync'[h].stale => sync[h].job # j
    BY <1>1, <1>5, OutdatedSyncOK
  <2>2. ASSUME NEW h \in Handlers, sync[h].pc = "write", ~sync'[h].stale, row'[sync[h].job] # None
        PROVE  row[sync[h].job] # None /\ row'[sync[h].job].next = row[sync[h].job].next
    <3>1. sync[h].job # j /\ sync[h].job \in Jobs
      BY <2>1, <2>2, <1>1 DEF IInv, SyncOK, SyncRec
    <3> QED BY <3>1, <2>2, <1>7
  <2> QED BY <2>2, <1>1, <1>5, OutdatedSyncOK, SyncKept
<1>13. Bounds'
  <2>1. \A u \in Threads : tick'[u].now <= now
    BY <1>8, <1>10, DropOK DEF IInv, Bounds
  <2>2. \A u \in Threads, k \in Jobs : tick'[u].seen[k] # None =>
           tick'[u].seen[k] = tick[u].seen[k] /\ tick'[u].now = tick[u].now
    BY <1>8, <1>10, DropOK DEF Holds
  <2>3. \A h \in Handlers : sync'[h].seen # None /\ sync'[h].seen.next # None
                               => sync'[h].seen.next >= -asks
    BY <1>1, <1>5, OutdatedSyncOK DEF IInv, Bounds
  <2>4. n # None => n >= -asks
    BY <1>1, <1>3, <1>6
  <2>5. \A k \in Jobs : row'[k] # None /\ row'[k].next # None => row'[k].next >= -asks
    BY <2>4, <1>7 DEF IInv, Bounds
  <2>6. fired' = fired /\ now' = now /\ asks' = asks
    BY <1>5 DEF counters, history
  <2>7. asks <= asks'
    BY <2>6, <1>1
  <2> QED BY <2>1, <2>2, <2>3, <2>5, <2>6, <2>7, <1>10, BoundsKept
<1>14. CleanOnce'
  <2>1. \A u \in Threads, k \in Jobs : Holds(u, k)' =>
           /\ tick'[u].seen[k] = tick[u].seen[k] /\ tick'[u].now = tick[u].now
           /\ tick'[u].cur # k => tick[u].cur # k
           /\ k \in tick[u].stale => k \in tick'[u].stale
    BY <1>8, <1>10, DropOK
  <2>2. \A u \in Threads, k \in Jobs : \A d :
           Saving(u, k, d) /\ ~(u = t /\ k = j) => Saving(u, k, d)'
    BY <1>8, <1>10, DropOK
  <2>3. \A u \in Threads : Holds(u, j)' => j \in tick'[u].stale
    <3>1. \A u \in Threads : Holds(u, j)' => u # t /\ Holds(u, j)
      BY <1>8, <2>1 DEF Holds, Dropping
    <3> QED BY <3>1, <1>8
  <2>4. \A k \in Jobs : Clean(k)' =>
           \/ \A u \in Threads : \A d : Saving(u, k, d) => Saving(u, k, d)'
           \/ \A u \in Threads : Holds(u, k)' => k \in tick'[u].stale
    BY <2>2, <2>3
  <2>5. ASSUME NEW k \in Jobs, Clean(k)', row'[k] # None, NEW d \in fired[k], row'[k].next = d
        PROVE  \E u \in Threads : Saving(u, k, d)'
    <3>1. OnceEach(k) /\ d \in Int
      BY <2>5, <1>9 DEF IInv, CleanOnce, TypeOK
    <3>2. CASE k # j
      <4>1. \E u \in Threads : Saving(u, k, d)
        BY <3>1, <3>2, <2>5, <1>7 DEF OnceEach
      <4> QED BY <4>1, <3>2, <2>2
    <3>3. CASE k = j
      <4>1. d = n /\ n \in Nat /\ n > tick[t].now
        BY <3>1, <3>3, <2>5, <1>6, <1>7, NoneIsNothing
      <4>2. j \notin tick[t].stale
        BY <3>3, <2>5, <1>9
      <4>3. ~(d <= tick[t].now)
        BY <4>1, <1>3
      <4>4. PICK u \in Threads : Saving(u, j, d)
        BY <4>2, <4>3, <3>1, <3>3, <2>5, <1>2 DEF OnceEach
      <4>5. u # t
        <5>1. tick[t].seen[j].next <= tick[t].now
          BY <1>2 DEF IInv, Bounds
        <5> QED BY <5>1, <4>3, <4>4 DEF Saving
      <4> QED BY <4>4, <4>5, <3>3, <2>2
    <3> QED BY <3>2, <3>3
  <2>6. fired' = fired /\ twice' = twice
    BY <1>5 DEF history
  <2> QED BY <2>1, <2>4, <2>5, <2>6, <1>9, OnceKept
<1> QED BY <1>10, <1>11, <1>12, <1>13, <1>14 DEF IInv

(* Ticks that end: only one that holds nothing, or with its process        *)
LEMMA GoneOK ==
    ASSUME IInv, TypeOK', NEW ts \in SUBSET Threads,
           tick' = [t \in Threads |-> IF t \in ts THEN NoTick ELSE tick[t]],
           UNCHANGED <<now, sync, row, asks, fired, twice>>,
           \A j \in Jobs : Clean(j)' => Clean(j),
           \A j \in Jobs : Clean(j)' => \A t \in ts : tick[t].cur # j
    PROVE  IInv'
<1>1. /\ \A t \in ts : tick'[t] = NoTick
      /\ \A t \in Threads \ ts : tick'[t] = tick[t]
  OBVIOUS
<1>2. /\ NoTick.pc = "idle" /\ NoTick.cur = None /\ NoTick.now = 0
      /\ \A j \in Jobs : NoTick.seen[j] = None
  BY DEF NoTick, NoSnaps
<1>3. \A t \in Threads, j \in Jobs : tick'[t].seen[j] # None => t \notin ts
  BY <1>1, <1>2
<1>4. TickOK'
  <2> SUFFICES ASSUME NEW u \in Threads
               PROVE  /\ tick'[u].pc \in {"idle", "select"} =>
                            \A k \in Jobs : tick'[u].seen[k] = None
                      /\ IF tick'[u].pc = "save"
                         THEN tick'[u].cur \in Jobs /\ tick'[u].seen[tick'[u].cur] # None
                         ELSE tick'[u].cur = None
    BY DEF TickOK, Holds
  <2>1. CASE u \in ts
    BY <2>1, <1>1, <1>2
  <2>2. CASE u \notin ts
    BY <2>2, <1>1 DEF IInv, TickOK, Holds
  <2> QED BY <2>1, <2>2
<1>5. SyncOK'
  BY DEF IInv, SyncOK
<1>6. Bounds'
  <2>1. \A t \in Threads : tick'[t].now <= now
    BY <1>1, <1>2 DEF IInv, Bounds, TypeOK
  <2> QED BY <2>1, <1>1, <1>3, BoundsKept DEF IInv, Bounds, TypeOK
<1>7. CleanOnce'
  <2>1. \A t \in Threads, j \in Jobs : Holds(t, j)' => t \notin ts
    BY <1>3 DEF Holds
  <2>2. ASSUME NEW j \in Jobs, Clean(j)', NEW u \in Threads, NEW d, Saving(u, j, d)
        PROVE  Saving(u, j, d)'
    <3>1. u \notin ts
      BY <2>2 DEF Saving
    <3> QED BY <3>1, <2>2, <1>1 DEF Saving
  <2> QED BY <2>1, <2>2, <1>1, OnceKeptRows
<1> QED BY <1>4, <1>5, <1>6, <1>7 DEF IInv

LEMMA FinishOK == ASSUME IInv, NEW t \in Threads, Finish(t) PROVE IInv'
<1>1. /\ tick' = [tick EXCEPT ![t] = NoTick] /\ tick[t].pc = "fire"
      /\ UNCHANGED <<now, leadership, sync, row, gone, out, counters, history, crossed>>
  BY DEF Finish
<1>2. tick \in [Threads -> TickRec] /\ tick[t].cur = None
  BY <1>1 DEF IInv, TypeOK, TickOK
<1>3. PICK ts \in SUBSET Threads : ts = {t}
  OBVIOUS
<1>8. tick' = [u \in Threads |-> IF u \in ts THEN NoTick ELSE tick[u]]
  BY <1>1, <1>2, <1>3
<1>4. tick' \in [Threads -> TickRec]
  BY <1>2, <1>8, NoTickOK
<1>5. TypeOK'
  BY <1>1, <1>4 DEF IInv, TypeOK, leadership, counters, history
<1>6. /\ UNCHANGED <<now, sync, row, asks, fired, twice>>
      /\ \A j \in Jobs : Clean(j)' => Clean(j)
  BY <1>1 DEF counters, history, Clean
<1>7. \A j \in Jobs : \A u \in ts : tick[u].cur # j
  BY <1>2, <1>3, NoneIsNothing
<1> QED BY <1>5, <1>6, <1>7, <1>8, GoneOK

LEMMA VanishOK ==
    ASSUME IInv, NEW ts \in SUBSET Threads, Vanish(ts)
    PROVE  /\ tick' = [t \in Threads |-> IF t \in ts THEN NoTick ELSE tick[t]]
           /\ tick' \in [Threads -> TickRec] /\ crossed' \in [Jobs -> SUBSET Kinds]
           /\ \A j \in Jobs : Clean(j)' => Clean(j)
           /\ \A j \in Jobs : Clean(j)' => \A t \in ts : tick[t].cur # j
<1>1. "unsaved" \in Kinds /\ crossed \in [Jobs -> SUBSET Kinds] /\ tick \in [Threads -> TickRec]
  BY DEF IInv, TypeOK, Kinds
<1>2. /\ Cross({tick[t].cur : t \in ts}, "unsaved")
      /\ tick' = [t \in Threads |-> IF t \in ts THEN NoTick ELSE tick[t]]
  BY DEF Vanish
<1>3. /\ crossed' \in [Jobs -> SUBSET Kinds] /\ \A j \in Jobs : Clean(j)' => Clean(j)
      /\ \A j \in Jobs : j \in {tick[t].cur : t \in ts} => ~Clean(j)'
  BY <1>1, <1>2, CrossOK
<1>4. tick' \in [Threads -> TickRec]
  BY <1>1, <1>2, NoTickOK
<1> QED BY <1>2, <1>3, <1>4

LEMMA CrashOK == ASSUME IInv, NEW s \in Schedulers, Crash(s) PROVE IInv'
<1> DEFINE ts == {t \in Threads : tick[t].by = s}
<1>1. Vanish(ts) /\ ts \in SUBSET Threads
  BY DEF Crash
<1> HIDE DEF ts
<1>2. TypeOK'
  BY <1>1, VanishOK DEF IInv, TypeOK, Crash, Fault, history
<1> QED BY <1>1, <1>2, VanishOK, GoneOK DEF Crash, history

LEMMA CrashTickOK == ASSUME IInv, NEW t \in Threads, CrashTick(t) PROVE IInv'
<1>1. Vanish({t})
  BY DEF CrashTick
<1>2. TypeOK'
  BY <1>1, VanishOK DEF IInv, TypeOK, CrashTick, Fault, leadership, history
<1> QED BY <1>1, <1>2, VanishOK, GoneOK DEF CrashTick, history

-----------------------------------------------------------------------------
(* Rows.  A step that writes row j (or deletes others) and starts at most  *)
(* a tick that holds nothing yet: what it writes as next run is what the   *)
(* row said, or was not enqueued                                           *)
LEMMA RowOK ==
    ASSUME IInv, TypeOK', NEW j \in Jobs,
           now' = now, fired' = fired, twice' = twice, asks <= asks',
           \A k \in Jobs : Clean(k)' => Clean(k),
           \A t \in Threads :
              \/ /\ tick'[t].pc = tick[t].pc /\ tick'[t].cur = tick[t].cur
                 /\ tick'[t].now = tick[t].now /\ tick'[t].seen = tick[t].seen
                 /\ tick[t].stale \subseteq tick'[t].stale
              \/ /\ tick[t].pc = "idle" /\ tick'[t].pc = "select" /\ tick'[t].cur = None
                 /\ tick'[t].now = 0 /\ \A k \in Jobs : tick'[t].seen[k] = None,
           \A k \in Jobs \ {j} : row'[k] = row[k] \/ row'[k] = None,
           Clean(j)' /\ row'[j] # None => \/ row[j] # None /\ row'[j].next = row[j].next
                                          \/ row'[j].next \notin fired[j],
           row'[j] # None /\ row'[j].next # None => row'[j].next >= -asks',
           \A h \in Handlers : sync'[h].seen # None /\ sync'[h].seen.next # None
                                  => sync'[h].seen.next >= -asks'
    PROVE  TickOK' /\ Bounds' /\ CleanOnce'
<1>1. /\ now \in Nat /\ asks \in Nat /\ asks' \in Nat /\ 0 <= now
      /\ \A t \in Threads : tick[t].now <= now
  BY DEF IInv, TypeOK, Bounds
<1>2. \A t \in Threads : tick'[t].now <= now
  BY <1>1
<1>3. \A t \in Threads, k \in Jobs : tick'[t].seen[k] # None =>
         /\ tick'[t].seen[k] = tick[t].seen[k] /\ tick'[t].now = tick[t].now
         /\ tick'[t].cur = tick[t].cur
         /\ k \in tick[t].stale => k \in tick'[t].stale
  OBVIOUS
<1>4. TickOK'
  <2> SUFFICES ASSUME NEW u \in Threads
               PROVE  /\ tick'[u].pc \in {"idle", "select"} =>
                            \A k \in Jobs : tick'[u].seen[k] = None
                      /\ IF tick'[u].pc = "save"
                         THEN tick'[u].cur \in Jobs /\ tick'[u].seen[tick'[u].cur] # None
                         ELSE tick'[u].cur = None
    BY DEF TickOK, Holds
  <2> QED BY DEF IInv, TickOK, Holds
<1>5. \A k \in Jobs : row'[k] # None /\ row'[k].next # None => row'[k].next >= -asks'
  <2> SUFFICES ASSUME NEW k \in Jobs, row'[k] # None, row'[k].next # None
               PROVE  row'[k].next >= -asks'
    OBVIOUS
  <2>1. CASE k = j
    BY <2>1
  <2>2. CASE k # j
    <3>1. row'[k] = row[k] /\ row[k].next >= -asks
      BY <2>2 DEF IInv, Bounds
    <3>2. row[k].next \in Int
      BY <3>1 DEF IInv, TypeOK, Row
    <3> QED BY <3>1, <3>2, <1>1
  <2> QED BY <2>1, <2>2
<1>6. Bounds'
  BY <1>2, <1>3, <1>5, BoundsKept
<1>7. CleanOnce'
  <2>1. \A t \in Threads, k \in Jobs : Holds(t, k)' =>
           /\ tick'[t].seen[k] = tick[t].seen[k] /\ tick'[t].now = tick[t].now
           /\ tick'[t].cur # k => tick[t].cur # k
           /\ k \in tick[t].stale => k \in tick'[t].stale
    BY <1>3 DEF Holds
  <2>2. \A u \in Threads, k \in Jobs : \A d : Saving(u, k, d) => Saving(u, k, d)'
    BY DEF Saving
  <2>3. ASSUME NEW k \in Jobs, Clean(k)', row'[k] # None, NEW d \in fired[k], row'[k].next = d
        PROVE  \E u \in Threads : Saving(u, k, d)'
    <3>1. row[k] # None /\ row'[k].next = row[k].next
      BY <2>3
    <3>2. \E u \in Threads : Saving(u, k, d)
      BY <3>1, <2>3 DEF IInv, CleanOnce, OnceEach
    <3> QED BY <3>2, <2>2
  <2> QED BY <2>1, <2>2, <2>3, OnceKept
<1> QED BY <1>4, <1>6, <1>7

(* A write by the Cron screen                                              *)
LEMMA WriteIs ==
    ASSUME IInv, NEW j \in Jobs, NEW r \in Row, Write(j, r)
    PROVE  /\ row' \in [Jobs -> Row \cup {None}] /\ tick' \in [Threads -> TickRec]
           /\ sync' \in [Handlers -> SyncRec]
           /\ row'[j] = r /\ \A k \in Jobs \ {j} : row'[k] = row[k]
           /\ \A t \in Threads :
                 /\ tick'[t].pc = tick[t].pc /\ tick'[t].cur = tick[t].cur
                 /\ tick'[t].now = tick[t].now /\ tick'[t].seen = tick[t].seen
                 /\ tick[t].stale \subseteq tick'[t].stale
BY OutdatedOK, OutdatedSyncOK DEF Write, IInv, TypeOK

LEMMA SyncStale ==
    ASSUME IInv, NEW j \in Jobs, sync' = OutdatedSync(j),
           \A k \in Jobs \ {j} : row'[k] = row[k] \/ row'[k] = None
    PROVE  /\ SyncOK'
           /\ \A h \in Handlers : sync'[h].seen = sync[h].seen
<1>1. sync \in [Handlers -> SyncRec]
  BY DEF IInv, TypeOK
<1>2. ASSUME NEW h \in Handlers, sync[h].pc = "write", ~sync'[h].stale, row'[sync[h].job] # None
      PROVE  row[sync[h].job] # None /\ row'[sync[h].job].next = row[sync[h].job].next
  <2>1. sync[h].job # j /\ sync[h].job \in Jobs
    BY <1>1, <1>2, OutdatedSyncOK DEF IInv, SyncOK, SyncRec
  <2> QED BY <2>1, <1>2
<1> QED BY <1>1, <1>2, OutdatedSyncOK, SyncKept

LEMMA WriteOK ==
    ASSUME IInv, NEW j \in Jobs, NEW r \in Row, Write(j, r), TypeOK',
           UNCHANGED <<now, asks, fired, twice, crossed>>,
           \/ row[j] # None /\ r.next = row[j].next
           \/ r.next \notin fired[j] /\ (r.next # None => r.next >= -asks)
    PROVE  IInv'
<1>1. SyncOK' /\ \A h \in Handlers : sync'[h].seen = sync[h].seen
  BY WriteIs, SyncStale DEF Write
<1>2. r.next # None => r.next >= -asks
  BY DEF IInv, Bounds
<1>3. TickOK' /\ Bounds' /\ CleanOnce'
  <2>1. asks <= asks'
    BY DEF IInv, TypeOK
  <2>2. \A k \in Jobs : Clean(k)' => Clean(k)
    BY DEF Clean
  <2>3. \A h \in Handlers : sync'[h].seen # None /\ sync'[h].seen.next # None
                               => sync'[h].seen.next >= -asks'
    BY <1>1 DEF IInv, Bounds
  <2> QED BY <1>2, <2>1, <2>2, <2>3, WriteIs, RowOK
<1> QED BY <1>1, <1>3 DEF IInv

LEMMA PauseOK == ASSUME IInv, NEW j \in Jobs, Pause(j) \/ Resume(j) PROVE IInv'
<1>1. PICK on \in BOOLEAN : Write(j, [row[j] EXCEPT !.on = on])
  BY DEF Pause, Resume
<1> DEFINE r == [row[j] EXCEPT !.on = on]
<1>2. row[j] \in Row /\ row[j] # None
  BY DEF IInv, TypeOK, Pause, Resume
<1>3. r \in Row /\ r.next = row[j].next
  BY <1>2 DEF Row
<1>4. Write(j, r)
  BY <1>1
<1> HIDE DEF r
<1>5. TypeOK'
  BY <1>3, <1>4, WriteIs DEF IInv, TypeOK, Pause, Resume, Move, leadership, history
<1> QED BY <1>2, <1>3, <1>4, <1>5, WriteOK DEF Pause, Resume, history

LEMMA EditOK ==
    ASSUME IInv, NEW j \in Jobs, NEW s \in Schedules, Edit(j, s) PROVE IInv'
<1>1. now \in Nat /\ asks \in Nat /\ row[j] \in Row /\ row[j] # None
  BY DEF IInv, TypeOK, Edit
<1>2. PICK n \in NextRuns(s, now) : Write(j, [row[j] EXCEPT !.sched = s, !.next = n])
  BY DEF Edit
<1> DEFINE r == [row[j] EXCEPT !.sched = s, !.next = n]
<1>3. n = None \/ (n \in Nat /\ n > now)
  BY <1>1, NextRunsOK
<1>4. r \in Row /\ r.next = n
  <2>1. n \in Int \cup {None}
    BY <1>3
  <2> QED BY <2>1, <1>1 DEF Row
<1>5. Write(j, r)
  BY <1>2
<1> HIDE DEF r
<1>6. TypeOK'
  BY <1>4, <1>5, WriteIs DEF IInv, TypeOK, Edit, Move, leadership, history
<1>7. n \notin fired[j] /\ (n # None => n >= -asks)
  <2>1. \A d \in fired[j] : d \in Int /\ d <= now
    BY DEF IInv, TypeOK, Bounds
  <2>2. n \notin fired[j]
    BY <2>1, <1>1, <1>3, NoneIsNothing
  <2> QED BY <2>2, <1>1, <1>3
<1> QED BY <1>4, <1>5, <1>6, <1>7, WriteOK DEF Edit, history

(* Steps that leave the ticks and every next run they do not delete        *)
LEMMA StillOK ==
    ASSUME IInv, TypeOK', UNCHANGED <<tick, now, asks, fired, twice>>,
           \A k \in Jobs : Clean(k)' => Clean(k),
           \A k \in Jobs : row'[k] # None => row[k] # None /\ row'[k].next = row[k].next,
           \A h \in Handlers : sync'[h].seen # None /\ sync'[h].seen.next # None
                                  => sync'[h].seen.next >= -asks
    PROVE  TickOK' /\ Bounds' /\ CleanOnce'
<1>1. TickOK' /\ CleanOnce'
  BY TicksKept DEF TypeOK
<1>2. Bounds'
  BY BoundsKept DEF IInv, Bounds, TypeOK
<1> QED BY <1>1, <1>2

LEMMA SyncSame ==
    ASSUME IInv, sync' = sync,
           \A k \in Jobs : row'[k] # None => row[k] # None /\ row'[k].next = row[k].next
    PROVE  /\ SyncOK'
           /\ \A h \in Handlers : sync'[h].seen # None /\ sync'[h].seen.next # None
                                     => sync'[h].seen.next >= -asks
<1>1. \A h \in Handlers : sync[h].pc = "write" => sync[h].job \in Jobs
  BY DEF IInv, TypeOK, SyncOK, SyncRec
<1> QED BY <1>1, SyncKept DEF IInv, TypeOK, Bounds

LEMMA DeleteOK == ASSUME IInv, NEW j \in Jobs, Delete(j) PROVE IInv'
<1>1. /\ row' = [row EXCEPT ![j] = None] /\ gone' = gone \cup {j}
      /\ UNCHANGED <<now, leadership, tick, sync, out, asks, faults, history, crossed>>
      /\ row \in [Jobs -> Row \cup {None}]
  BY DEF Delete, IInv, TypeOK
<1>2. /\ row' \in [Jobs -> Row \cup {None}]
      /\ \A k \in Jobs : row'[k] # None => row[k] # None /\ row'[k].next = row[k].next
  BY <1>1
<1>3. TypeOK'
  BY <1>1, <1>2 DEF IInv, TypeOK, Delete, Move, leadership, history
<1>4. SyncOK' /\ TickOK' /\ Bounds' /\ CleanOnce'
  BY <1>1, <1>2, <1>3, SyncSame, StillOK DEF history, Clean
<1> QED BY <1>3, <1>4 DEF IInv

LEMMA PostOK == ASSUME IInv, NEW j \in Jobs, Post(j) PROVE IInv'
<1>1. /\ row' = IF row[j] = None THEN row ELSE [row EXCEPT ![j].status = "done"]
      /\ UNCHANGED <<now, leadership, tick, sync, gone, counters, fired, twice, crossed>>
      /\ out[j] > 0 /\ out' = [out EXCEPT ![j] = @ - 1]
      /\ row \in [Jobs -> Row \cup {None}] /\ out \in [Jobs -> Nat]
  BY DEF Post, IInv, TypeOK
<1>2. /\ row' \in [Jobs -> Row \cup {None}]
      /\ \A k \in Jobs : row'[k] # None => row[k] # None /\ row'[k].next = row[k].next
  <2>1. CASE row[j] = None
    BY <2>1, <1>1
  <2>2. CASE row[j] # None
    <3> DEFINE r == [row[j] EXCEPT !.status = "done"]
    <3>1. row[j] \in Row
      BY <2>2, <1>1
    <3>2. r \in Row /\ r.next = row[j].next
      BY <3>1 DEF Row
    <3>3. row' = [row EXCEPT ![j] = r]
      BY <2>2, <1>1
    <3> HIDE DEF r
    <3> QED BY <2>2, <3>2, <3>3, <1>1
  <2> QED BY <2>1, <2>2
<1>3. unheard' \subseteq Jobs
  BY DEF Post, Heard, IInv, TypeOK
<1>4. out' \in [Jobs -> Nat]
  BY <1>1
<1>5. TypeOK'
  BY <1>1, <1>2, <1>3, <1>4 DEF IInv, TypeOK, leadership, counters
<1>6. SyncOK' /\ TickOK' /\ Bounds' /\ CleanOnce'
  BY <1>1, <1>2, <1>3, <1>5, SyncSame, StillOK DEF counters, Clean
<1> QED BY <1>5, <1>6 DEF IInv

(* A turn that ends without a result touches no row                        *)
LEMMA LoseOK == ASSUME IInv, NEW j \in Jobs, Lose(j) PROVE IInv'
<1>1. /\ UNCHANGED <<now, leadership, tick, sync, row, gone, counters, fired, twice, crossed>>
      /\ out[j] > 0 /\ out' = [out EXCEPT ![j] = @ - 1] /\ out \in [Jobs -> Nat]
      /\ unheard' \subseteq Jobs
  BY DEF Lose, IInv, TypeOK
<1>2. out' \in [Jobs -> Nat]
  BY <1>1
<1>3. TypeOK'
  BY <1>1, <1>2 DEF IInv, TypeOK, leadership, counters
<1> QED BY <1>1, <1>3, QuietOK DEF counters, IInv, TypeOK

(* A trigger's timestamp is one that no trigger took before                *)
LEMMA TriggerOK ==
    ASSUME IInv, NEW j \in Jobs, NEW t \in Threads, Trigger(j, t) PROVE IInv'
<1> DEFINE r == [row[j] EXCEPT !.on = TRUE, !.next = -(asks + 1)]
           new == [NoTick EXCEPT !.pc = "select", !.by = Api, !.only = j]
<1>1. /\ row \in [Jobs -> Row \cup {None}] /\ tick \in [Threads -> TickRec]
      /\ sync \in [Handlers -> SyncRec] /\ asks \in Nat /\ row[j] \in Row
  BY DEF IInv, TypeOK, Trigger
<1>2. r \in Row /\ r.next = -(asks + 1)
  <2>1. -(asks + 1) \in Int \cup {None}
    BY <1>1
  <2> QED BY <2>1, <1>1 DEF Row
<1>3. /\ new \in TickRec /\ new.pc = "select" /\ new.cur = None /\ new.now = 0
      /\ \A k \in Jobs : new.seen[k] = None
  BY DEF NoTick, TickRec, NoSnaps, Processes
<1>4. /\ row' = [row EXCEPT ![j] = r] /\ tick' = [Outdated(j) EXCEPT ![t] = new]
      /\ sync' = OutdatedSync(j) /\ asks' = asks + 1 /\ tick[t].pc = "idle"
      /\ UNCHANGED <<now, leadership, gone, out, faults, history, crossed>>
  BY DEF Trigger
<1> HIDE DEF r, new
<1>5. /\ row' \in [Jobs -> Row \cup {None}] /\ row'[j] = r
      /\ \A k \in Jobs \ {j} : row'[k] = row[k]
  BY <1>1, <1>2, <1>4
<1>6. /\ tick' \in [Threads -> TickRec] /\ tick'[t] = new
      /\ \A u \in Threads \ {t} :
            /\ tick'[u].pc = tick[u].pc /\ tick'[u].cur = tick[u].cur
            /\ tick'[u].now = tick[u].now /\ tick'[u].seen = tick[u].seen
            /\ tick[u].stale \subseteq tick'[u].stale
  <2>1. /\ Outdated(j) \in [Threads -> TickRec] /\ tick'[t] = new
        /\ \A u \in Threads \ {t} : tick'[u] = Outdated(j)[u]
    BY <1>1, <1>4, OutdatedOK
  <2>2. tick' \in [Threads -> TickRec]
    BY <2>1, <1>3, <1>4
  <2> QED BY <2>1, <2>2, <1>1, OutdatedOK
<1>7. TypeOK'
  <2>1. sync' \in [Handlers -> SyncRec] /\ asks' \in Nat
    BY <1>1, <1>4, OutdatedSyncOK
  <2>2. moves' \in Nat
    BY DEF Trigger, Move, IInv, TypeOK
  <2> QED BY <2>1, <2>2, <1>4, <1>5, <1>6 DEF IInv, TypeOK, leadership, history
<1>8. SyncOK' /\ \A h \in Handlers : sync'[h].seen = sync[h].seen
  BY <1>4, <1>5, SyncStale
<1>9. \A h \in Handlers : sync'[h].seen # None /\ sync'[h].seen.next # None
                             => sync'[h].seen.next >= -asks'
  <2> SUFFICES ASSUME NEW h \in Handlers, sync[h].seen # None, sync[h].seen.next # None
               PROVE  sync[h].seen.next >= -asks'
    BY <1>8
  <2>1. sync[h].seen.next >= -asks
    BY DEF IInv, Bounds
  <2>2. sync[h].seen.next \in Int
    BY <1>1 DEF SyncRec
  <2> QED BY <2>1, <2>2, <1>1, <1>4
<1>10. r.next \notin fired[j] /\ r.next >= -asks' /\ asks <= asks'
  <2>1. \A d \in fired[j] : d \in Int /\ -asks <= d
    BY DEF IInv, TypeOK, Bounds
  <2> QED BY <2>1, <1>1, <1>2, <1>4
<1>11. TickOK' /\ Bounds' /\ CleanOnce'
  <2>1. now' = now /\ fired' = fired /\ twice' = twice /\ \A k \in Jobs : Clean(k)' => Clean(k)
    BY <1>4 DEF history, Clean
  <2>2. \A u \in Threads :
          \/ /\ tick'[u].pc = tick[u].pc /\ tick'[u].cur = tick[u].cur
             /\ tick'[u].now = tick[u].now /\ tick'[u].seen = tick[u].seen
             /\ tick[u].stale \subseteq tick'[u].stale
          \/ /\ tick[u].pc = "idle" /\ tick'[u].pc = "select" /\ tick'[u].cur = None
             /\ tick'[u].now = 0 /\ \A k \in Jobs : tick'[u].seen[k] = None
    BY <1>3, <1>4, <1>6
  <2> QED BY <1>5, <1>7, <1>9, <1>10, <2>1, <2>2, RowOK
<1> QED BY <1>7, <1>8, <1>11 DEF IInv

-----------------------------------------------------------------------------
(* Publications                                                            *)

(* One publication moves, and has read nothing that it may write back      *)
LEMMA SyncMoved ==
    ASSUME IInv, NEW h \in Handlers, NEW new \in SyncRec, sync' = [sync EXCEPT ![h] = new],
           new.pc # "idle" => /\ new.todo \subseteq new.names
                              /\ \A j \in new.names : new.content[j] # None,
           new.pc # "write", new.seen = None,
           \A k \in Jobs : row'[k] # None => row[k] # None /\ row'[k].next = row[k].next
    PROVE  /\ SyncOK' /\ sync' \in [Handlers -> SyncRec]
           /\ \A i \in Handlers : sync'[i].seen # None /\ sync'[i].seen.next # None
                                     => sync'[i].seen.next >= -asks
<1>1. sync \in [Handlers -> SyncRec]
  BY DEF IInv, TypeOK
<1>2. sync'[h] = new /\ \A i \in Handlers \ {h} : sync'[i] = sync[i]
  BY <1>1
<1>3. \A i \in Handlers : sync[i].pc = "write" => sync[i].job \in Jobs
  BY <1>1 DEF IInv, SyncOK, SyncRec
<1>4. ASSUME NEW i \in Handlers
      PROVE  /\ sync'[i].pc # "idle" => /\ sync'[i].todo \subseteq sync'[i].names
                                        /\ \A j \in sync'[i].names : sync'[i].content[j] # None
             /\ sync'[i].pc = "write" => sync'[i].job \in sync'[i].names
             /\ sync'[i].pc = "write" /\ ~sync'[i].stale /\ sync'[i].seen # None
                   /\ row'[sync'[i].job] # None
                   => row'[sync'[i].job].next = sync'[i].seen.next
  <2>1. CASE i = h
    BY <2>1, <1>2
  <2>2. CASE i # h
    BY <2>2, <1>2, <1>3 DEF IInv, SyncOK
  <2> QED BY <2>1, <2>2
<1>5. SyncOK'
  BY <1>4 DEF SyncOK
<1>6. \A i \in Handlers : sync'[i].seen # None /\ sync'[i].seen.next # None
                             => sync'[i].seen.next >= -asks
  BY <1>2 DEF IInv, Bounds
<1> QED BY <1>1, <1>5, <1>6

LEMMA NoSyncOK == NoSync \in SyncRec /\ NoSync.pc = "idle" /\ NoSync.seen = None
BY DEF NoSync, SyncRec, NoSnaps, Content

LEMMA BegunOK ==
    ASSUME IInv, NEW h \in Handlers, NEW names \in SUBSET Jobs, NEW content \in Content,
           NEW screen \in BOOLEAN, Begun(h, names, content, screen),
           \A j \in names : content[j] # None, row' = row
    PROVE  /\ SyncOK' /\ sync' \in [Handlers -> SyncRec]
           /\ \A i \in Handlers : sync'[i].seen # None /\ sync'[i].seen.next # None
                                     => sync'[i].seen.next >= -asks
<1> DEFINE new == [NoSync EXCEPT !.pc = "read", !.todo = names, !.names = names,
                                 !.content = content, !.screen = screen]
<1>1. /\ new \in SyncRec /\ new.pc = "read" /\ new.todo = names /\ new.names = names
      /\ new.content = content /\ new.seen = None
  BY DEF NoSync, SyncRec
<1>2. sync' = [sync EXCEPT ![h] = new]
  BY DEF Begun
<1> HIDE DEF new
<1> QED BY <1>1, <1>2, SyncMoved

LEMMA PublishOK ==
    ASSUME IInv, NEW h \in Handlers, NEW content \in Content, Publish(h, content) PROVE IInv'
<1> DEFINE names == {j \in Jobs : content[j] # None}
<1>0. moves' \in Nat
  BY DEF Publish, Move, IInv, TypeOK
<1>1. /\ Begun(h, names, content, FALSE)
      /\ UNCHANGED <<now, leadership, tick, row, gone, out, asks, faults, history, crossed>>
  BY DEF Publish
<1>2. names \in SUBSET Jobs /\ \A j \in names : content[j] # None
  OBVIOUS
<1> HIDE DEF names
<1>3. /\ SyncOK' /\ sync' \in [Handlers -> SyncRec]
      /\ \A i \in Handlers : sync'[i].seen # None /\ sync'[i].seen.next # None
                                => sync'[i].seen.next >= -asks
  BY <1>1, <1>2, BegunOK
<1>4. TypeOK'
  BY <1>0, <1>1, <1>3 DEF IInv, TypeOK, leadership, history
<1>5. TickOK' /\ Bounds' /\ CleanOnce'
  BY <1>1, <1>3, <1>4, StillOK DEF history, Clean
<1> QED BY <1>3, <1>4, <1>5 DEF IInv

LEMMA CreateOK ==
    ASSUME IInv, NEW h \in Handlers, NEW j \in Jobs, NEW s \in Schedules, Create(h, j, s)
    PROVE  IInv'
<1> DEFINE c == [sched |-> s, on |-> TRUE, next |-> None]
           content == [NoSnaps EXCEPT ![j] = c]
<1>0. moves' \in Nat
  BY DEF Create, Move, IInv, TypeOK
<1>1. /\ Begun(h, {j}, content, TRUE)
      /\ UNCHANGED <<now, leadership, tick, row, gone, out, asks, faults, history, crossed>>
  BY DEF Create
<1>2. c \in Entry
  BY DEF Entry
<1> HIDE DEF c
<1>3. content \in Content /\ content[j] # None
  BY <1>2, NoneIsNothing DEF Content, NoSnaps
<1> HIDE DEF content
<1>4. /\ SyncOK' /\ sync' \in [Handlers -> SyncRec]
      /\ \A i \in Handlers : sync'[i].seen # None /\ sync'[i].seen.next # None
                                => sync'[i].seen.next >= -asks
  <2>1. {j} \in SUBSET Jobs /\ \A k \in {j} : content[k] # None
    BY <1>3
  <2> QED BY <1>1, <1>3, <2>1, BegunOK
<1>5. TypeOK'
  BY <1>0, <1>1, <1>4 DEF IInv, TypeOK, leadership, history
<1>6. TickOK' /\ Bounds' /\ CleanOnce'
  BY <1>1, <1>4, <1>5, StillOK DEF history, Clean
<1> QED BY <1>4, <1>5, <1>6 DEF IInv

LEMMA EndsOK ==
    ASSUME IInv, NEW h \in Handlers, sync' = [sync EXCEPT ![h] = NoSync], row' = row
    PROVE  /\ SyncOK' /\ sync' \in [Handlers -> SyncRec]
           /\ \A i \in Handlers : sync'[i].seen # None /\ sync'[i].seen.next # None
                                     => sync'[i].seen.next >= -asks
BY NoSyncOK, SyncMoved

LEMMA SyncRaisesOK == ASSUME IInv, NEW h \in Handlers, SyncRaises(h) PROVE IInv'
<1>1. /\ SyncOK' /\ sync' \in [Handlers -> SyncRec]
      /\ \A i \in Handlers : sync'[i].seen # None /\ sync'[i].seen.next # None
                                => sync'[i].seen.next >= -asks
  BY EndsOK DEF SyncRaises
<1>2. TypeOK'
  BY <1>1 DEF IInv, TypeOK, SyncRaises, leadership, counters, history
<1>3. TickOK' /\ Bounds' /\ CleanOnce'
  BY <1>1, <1>2, StillOK DEF SyncRaises, counters, history, Clean
<1> QED BY <1>1, <1>2, <1>3 DEF IInv

LEMMA CrashSyncOK == ASSUME IInv, NEW h \in Handlers, CrashSync(h) PROVE IInv'
<1>1. /\ SyncOK' /\ sync' \in [Handlers -> SyncRec]
      /\ \A i \in Handlers : sync'[i].seen # None /\ sync'[i].seen.next # None
                                => sync'[i].seen.next >= -asks
  BY EndsOK DEF CrashSync
<1>2. TypeOK'
  BY <1>1 DEF IInv, TypeOK, CrashSync, Fault, leadership, history
<1>3. TickOK' /\ Bounds' /\ CleanOnce'
  BY <1>1, <1>2, StillOK DEF CrashSync, history, Clean
<1> QED BY <1>1, <1>2, <1>3 DEF IInv

LEMMA SyncDeleteOK == ASSUME IInv, NEW h \in Handlers, SyncDelete(h) PROVE IInv'
<1>1. PICK rest \in SUBSET Jobs :
         /\ row' = [j \in Jobs |-> IF j \in rest THEN None ELSE row[j]]
         /\ gone' = gone \cup rest /\ sync' = [sync EXCEPT ![h] = NoSync]
         /\ UNCHANGED <<now, leadership, tick, out, counters, history, crossed>>
  BY DEF SyncDelete
<1>2. /\ row' \in [Jobs -> Row \cup {None}] /\ gone' \subseteq Jobs
      /\ \A k \in Jobs : row'[k] # None => row[k] # None /\ row'[k].next = row[k].next
  BY <1>1 DEF IInv, TypeOK
<1>3. /\ SyncOK' /\ sync' \in [Handlers -> SyncRec]
      /\ \A i \in Handlers : sync'[i].seen # None /\ sync'[i].seen.next # None
                                => sync'[i].seen.next >= -asks
  BY <1>1, <1>2, NoSyncOK, SyncMoved
<1>4. TypeOK'
  BY <1>1, <1>2, <1>3 DEF IInv, TypeOK, leadership, counters, history
<1>5. TickOK' /\ Bounds' /\ CleanOnce'
  BY <1>1, <1>2, <1>3, <1>4, StillOK DEF counters, history, Clean
<1> QED BY <1>3, <1>4, <1>5 DEF IInv

LEMMA SyncReadOK ==
    ASSUME IInv, NEW h \in Handlers, NEW j \in Jobs, SyncRead(h, j) PROVE IInv'
<1>1. /\ sync \in [Handlers -> SyncRec] /\ sync[h] \in SyncRec
      /\ sync[h].pc = "read" /\ j \in sync[h].todo
      /\ row \in [Jobs -> Row \cup {None}]
      /\ UNCHANGED <<now, leadership, tick, row, gone, out, counters, history, crossed>>
  BY DEF SyncRead, IInv, TypeOK
<1> DEFINE seen == IF row[j] = None THEN None ELSE [sched |-> row[j].sched, next |-> row[j].next]
           new == [sync[h] EXCEPT !.pc = "write", !.job = j, !.stale = FALSE, !.seen = seen]
<1>2. /\ seen \in [sched : Schedules, next : Int \cup {None}] \cup {None}
      /\ seen # None => row[j] # None /\ seen.next = row[j].next
  <2>1. row[j] # None => row[j].sched \in Schedules /\ row[j].next \in Int \cup {None}
    BY <1>1 DEF Row
  <2> QED BY <2>1
<1>3. sync' = [sync EXCEPT ![h] = new]
  BY DEF SyncRead
<1> HIDE DEF seen
<1>4. /\ new \in SyncRec /\ new.pc = "write" /\ new.job = j /\ new.seen = seen
      /\ new.todo = sync[h].todo /\ new.names = sync[h].names /\ new.content = sync[h].content
  BY <1>1, <1>2 DEF SyncRec
<1> HIDE DEF new
<1>5. /\ sync' \in [Handlers -> SyncRec] /\ sync'[h] = new
      /\ \A i \in Handlers \ {h} : sync'[i] = sync[i]
  BY <1>1, <1>3, <1>4
<1>6. TypeOK'
  BY <1>1, <1>5 DEF IInv, TypeOK, leadership, counters, history
<1>7. ASSUME NEW i \in Handlers
      PROVE  /\ sync'[i].pc # "idle" => /\ sync'[i].todo \subseteq sync'[i].names
                                        /\ \A k \in sync'[i].names : sync'[i].content[k] # None
             /\ sync'[i].pc = "write" => sync'[i].job \in sync'[i].names
             /\ sync'[i].pc = "write" /\ ~sync'[i].stale /\ sync'[i].seen # None
                   /\ row'[sync'[i].job] # None
                   => row'[sync'[i].job].next = sync'[i].seen.next
  <2>1. CASE i = h
    BY <2>1, <1>1, <1>2, <1>4, <1>5 DEF IInv, SyncOK
  <2>2. CASE i # h
    BY <2>2, <1>1, <1>5 DEF IInv, SyncOK
  <2> QED BY <2>1, <2>2
<1>8. \A i \in Handlers : sync'[i].seen # None /\ sync'[i].seen.next # None
                             => sync'[i].seen.next >= -asks
  BY <1>2, <1>4, <1>5 DEF IInv, Bounds
<1>9. TickOK' /\ Bounds' /\ CleanOnce'
  BY <1>1, <1>6, <1>8, StillOK DEF counters, history, Clean
<1> QED BY <1>6, <1>7, <1>9 DEF IInv, SyncOK

(* Writing back: what was read and is current, a moment that is still to   *)
(* come, or what the agent names                                           *)
LEMMA SyncWriteOK == ASSUME IInv, NEW h \in Handlers, SyncWrite(h) PROVE IInv'
<1>1. /\ sync \in [Handlers -> SyncRec] /\ sync[h] \in SyncRec /\ sync[h].pc = "write"
      /\ tick \in [Threads -> TickRec] /\ row \in [Jobs -> Row \cup {None}]
      /\ now \in Nat /\ asks \in Nat /\ crossed \in [Jobs -> SUBSET Kinds]
  BY DEF SyncWrite, IInv, TypeOK
<1>2. PICK j \in Jobs : j = sync[h].job /\ j \in sync[h].names
  BY <1>1 DEF IInv, SyncOK, SyncRec
<1>3. PICK c \in Entry : c = sync[h].content[j]
  <2>1. sync[h].content \in [Jobs -> Entry \cup {None}] /\ sync[h].content[j] # None
    BY <1>1, <1>2 DEF IInv, SyncOK, SyncRec, Content
  <2> QED BY <2>1
<1>4. PICK seen \in [sched : Schedules, next : Int \cup {None}] \cup {None} : seen = sync[h].seen
  BY <1>1 DEF SyncRec
<1> DEFINE kept == row[j] = None /\ (seen # None \/ j \in gone)
           was == IF row[j] = None THEN "" ELSE row[j].status
           new == [sync[h] EXCEPT !.pc = "read", !.job = None, !.seen = None,
                                  !.stale = FALSE, !.todo = @ \ {j}]
<1>5. PICK n \in Cursors(seen, c) :
         /\ row' = IF kept THEN row
                   ELSE [row EXCEPT ![j] =
                           [sched |-> c.sched, on |-> c.on, next |-> n, status |-> was]]
         /\ IF sync[h].stale THEN Cross({j}, "resync")
            ELSE Cross(IF n \in fired[j] /\ ~Same(seen, c) THEN {j} ELSE {}, "named")
  BY <1>2, <1>3, <1>4 DEF SyncWrite
<1>6. /\ sync' = [OutdatedSync(j) EXCEPT ![h] = new] /\ tick' = Outdated(j)
      /\ UNCHANGED <<now, leadership, gone, out, counters, history>>
  BY <1>2 DEF SyncWrite
<1>7. /\ Same(seen, c) => seen # None /\ n = seen.next /\ n \in Int
      /\ ~Same(seen, c) => n = None \/ n \in Nat
  <2>1. Same(seen, c) => seen # None /\ n = seen.next /\ n \in Int
    BY <1>4, <1>5 DEF Cursors, Same
  <2>2. ~Same(seen, c) => n = None \/ n \in Nat
    <3>1. c.sched \in Schedules /\ c.next \in Nat \cup {None}
      BY CronAssumption DEF Entry
    <3>2. CASE ~Same(seen, c) /\ c.next # None
      BY <3>1, <3>2, <1>5 DEF Cursors
    <3>3. CASE ~Same(seen, c) /\ c.next = None
      <4>1. n \in NextRuns(c.sched, now)
        BY <3>3, <1>5 DEF Cursors
      <4> QED BY <4>1, <3>1, <1>1, NextRunsOK
    <3> QED BY <3>2, <3>3
  <2> QED BY <2>1, <2>2
<1>8. /\ row' \in [Jobs -> Row \cup {None}] /\ \A k \in Jobs \ {j} : row'[k] = row[k]
      /\ row'[j] # None => ~kept /\ row'[j].next = n
  <2>1. CASE kept
    BY <2>1, <1>1, <1>5
  <2>2. CASE ~kept
    <3> DEFINE r == [sched |-> c.sched, on |-> c.on, next |-> n, status |-> was]
    <3>1. row[j] = None \/ row[j] \in Row
      BY <1>1
    <3>2. was \in {"", "running", "done"}
      BY <3>1 DEF Row
    <3>3. r \in Row /\ r.next = n
      <4>1. c.sched \in Schedules /\ c.on \in BOOLEAN /\ n \in Int \cup {None}
        BY <1>7 DEF Entry
      <4> HIDE DEF was
      <4> QED BY <3>2, <4>1 DEF Row
    <3>4. row' = [row EXCEPT ![j] = r]
      BY <2>2, <1>5
    <3> HIDE DEF r, kept
    <3> QED BY <2>2, <3>3, <3>4, <1>1
  <2> QED BY <2>1, <2>2
<1>9. /\ new \in SyncRec /\ new.pc = "read" /\ new.seen = None
      /\ new.todo \subseteq sync[h].todo /\ new.names = sync[h].names
      /\ new.content = sync[h].content
  BY <1>1 DEF SyncRec
<1> HIDE DEF new
<1>10. /\ sync' \in [Handlers -> SyncRec] /\ sync'[h] = new
       /\ \A i \in Handlers \ {h} : sync'[i] = OutdatedSync(j)[i]
  BY <1>1, <1>6, <1>9, OutdatedSyncOK
<1>11. /\ crossed' \in [Jobs -> SUBSET Kinds] /\ \A k \in Jobs : Clean(k)' => Clean(k)
       /\ Clean(j)' => ~sync[h].stale /\ (n \in fired[j] => Same(seen, c))
  <2>1. "resync" \in Kinds /\ "named" \in Kinds
    BY DEF Kinds
  <2>2. CASE sync[h].stale
    <3>1. Cross({j}, "resync")
      BY <2>2, <1>5
    <3> QED BY <2>1, <2>2, <3>1, <1>1, CrossOK
  <2>3. CASE ~sync[h].stale
    <3>1. PICK js : /\ Cross(js, "named")
                    /\ js = IF n \in fired[j] /\ ~Same(seen, c) THEN {j} ELSE {}
      BY <2>3, <1>5
    <3> QED BY <2>1, <2>3, <3>1, <1>1, CrossOK
  <2> QED BY <2>2, <2>3
<1>12. /\ tick' \in [Threads -> TickRec]
       /\ \A t \in Threads :
             /\ tick'[t].pc = tick[t].pc /\ tick'[t].cur = tick[t].cur
             /\ tick'[t].now = tick[t].now /\ tick'[t].seen = tick[t].seen
             /\ tick[t].stale \subseteq tick'[t].stale
  BY <1>1, <1>6, OutdatedOK
<1>13. TypeOK'
  BY <1>6, <1>8, <1>10, <1>11, <1>12 DEF IInv, TypeOK, leadership, counters, history
<1>14. SyncOK'
  <2> SUFFICES ASSUME NEW i \in Handlers
               PROVE  /\ sync'[i].pc # "idle" =>
                            /\ sync'[i].todo \subseteq sync'[i].names
                            /\ \A k \in sync'[i].names : sync'[i].content[k] # None
                      /\ sync'[i].pc = "write" => sync'[i].job \in sync'[i].names
                      /\ sync'[i].pc = "write" /\ ~sync'[i].stale /\ sync'[i].seen # None
                            /\ row'[sync'[i].job] # None
                            => row'[sync'[i].job].next = sync'[i].seen.next
    BY DEF SyncOK
  <2>1. CASE i = h
    BY <2>1, <1>1, <1>9, <1>10 DEF IInv, SyncOK
  <2>2. CASE i # h
    <3>1. /\ sync'[i].pc = sync[i].pc /\ sync'[i].job = sync[i].job
          /\ sync'[i].todo = sync[i].todo /\ sync'[i].names = sync[i].names
          /\ sync'[i].content = sync[i].content /\ sync'[i].seen = sync[i].seen
          /\ sync[i].stale => sync'[i].stale
          /\ sync[i].pc = "write" /\ sync[i].job = j => sync'[i].stale
      BY <2>2, <1>1, <1>10, OutdatedSyncOK
    <3>2. sync[i].pc = "write" => sync[i].job \in Jobs
      BY <1>1 DEF IInv, SyncOK, SyncRec
    <3> QED BY <3>1, <3>2, <1>8 DEF IInv, SyncOK
  <2> QED BY <2>1, <2>2
<1>15. \A i \in Handlers : sync'[i].seen # None /\ sync'[i].seen.next # None
                              => sync'[i].seen.next >= -asks
  <2> SUFFICES ASSUME NEW i \in Handlers, sync'[i].seen # None, sync'[i].seen.next # None
               PROVE  sync'[i].seen.next >= -asks
    OBVIOUS
  <2>1. i # h
    BY <1>9, <1>10
  <2>2. sync'[i].seen = sync[i].seen
    BY <2>1, <1>1, <1>10, OutdatedSyncOK
  <2> QED BY <2>2 DEF IInv, Bounds
<1>16. TickOK' /\ Bounds' /\ CleanOnce'
  <2>1. now' = now /\ fired' = fired /\ twice' = twice /\ asks' = asks /\ asks <= asks'
    BY <1>1, <1>6 DEF counters, history
  <2>2. ASSUME Clean(j)', row'[j] # None
        PROVE  \/ row[j] # None /\ row'[j].next = row[j].next
               \/ row'[j].next \notin fired[j]
    <3>1. CASE n \notin fired[j]
      BY <3>1, <2>2, <1>8
    <3>2. CASE n \in fired[j]
      <4>1. seen # None /\ n = seen.next /\ ~sync[h].stale
        BY <3>2, <2>2, <1>7, <1>11
      <4>2. row[j] # None
        BY <4>1, <2>2, <1>8
      <4>3. row[j].next = seen.next
        BY <4>1, <4>2, <1>1, <1>2, <1>4 DEF IInv, SyncOK
      <4> QED BY <4>1, <4>2, <4>3, <2>2, <1>8
    <3> QED BY <3>1, <3>2
  <2>3. n # None => n >= -asks
    <3>1. CASE Same(seen, c)
      BY <3>1, <1>4, <1>7 DEF IInv, Bounds
    <3>2. CASE ~Same(seen, c)
      BY <3>2, <1>1, <1>7
    <3> QED BY <3>1, <3>2
  <2>4. row'[j] # None /\ row'[j].next # None => row'[j].next >= -asks'
    BY <2>1, <2>3, <1>8
  <2> QED BY <2>1, <2>2, <2>4, <1>8, <1>11, <1>12, <1>13, <1>15, RowOK
<1> QED BY <1>13, <1>14, <1>16 DEF IInv

-----------------------------------------------------------------------------
(* Before the schedulers start nothing was enqueued                        *)
LEMMA StoredIs ==
    ASSUME NEW r \in Stored
    PROVE  \E s \in Schedules : \E n \in NextRuns(s, 0) :
              r = [sched |-> s, on |-> TRUE, next |-> n, status |-> ""]
<1> DEFINE Of(s) == {[sched |-> s, on |-> TRUE, next |-> n, status |-> ""] :
                        n \in NextRuns(s, 0)}
<1>1. Stored = UNION {Of(s) : s \in Schedules}
  BY DEF Stored
<1> HIDE DEF Of
<1>2. PICK s \in Schedules : r \in Of(s)
  BY <1>1
<1> QED BY <1>2 DEF Of

LEMMA InitIInv == Init => IInv
<1> SUFFICES ASSUME Init PROVE IInv
  OBVIOUS
<1>0. \A r \in Stored : \E s \in Schedules : \E n \in NextRuns(s, 0) :
         r = [sched |-> s, on |-> TRUE, next |-> n, status |-> ""]
  BY StoredIs
<1>1. Stored \subseteq Row /\ \A r \in Stored : r.next # None => r.next >= 0
  <2> SUFFICES ASSUME NEW r \in Stored PROVE r \in Row /\ (r.next # None => r.next >= 0)
    OBVIOUS
  <2>0. PICK s \in Schedules : \E n \in NextRuns(s, 0) :
           r = [sched |-> s, on |-> TRUE, next |-> n, status |-> ""]
    BY <1>0
  <2>1. PICK n \in NextRuns(s, 0) : r = [sched |-> s, on |-> TRUE, next |-> n, status |-> ""]
    BY <2>0
  <2>2. n = None \/ (n \in Nat /\ n > 0)
    BY NextRunsOK
  <2>3. r.next = n
    BY <2>1
  <2>5. n \in Int \cup {None}
    BY <2>2
  <2>4. r \in Row
    <3>1. [sched |-> s, on |-> TRUE, next |-> n, status |-> ""] \in Row
      BY <2>5 DEF Row
    <3> QED BY <2>1, <3>1
  <2> QED BY <2>2, <2>3, <2>4
<1>3. TypeOK
  BY <1>1, NoTickOK, NoSyncOK DEF Init, TypeOK
<1>4. \A t \in Threads : tick[t] = NoTick
  BY DEF Init
<1>5. NoTick.pc = "idle" /\ NoTick.cur = None /\ NoTick.now = 0 /\ \A j \in Jobs : NoTick.seen[j] = None
  BY DEF NoTick, NoSnaps
<1>6. TickOK
  BY <1>4, <1>5 DEF TickOK, Holds
<1>7. \A h \in Handlers : sync[h].pc = "idle" /\ sync[h].seen = None
  BY NoSyncOK DEF Init
<1>8. SyncOK
  BY <1>7 DEF SyncOK
<1>9. Bounds
  <2>1. asks = 0 /\ now = 1 /\ \A j \in Jobs : fired[j] = {}
    BY DEF Init
  <2>2. \A j \in Jobs : row[j] # None => row[j] \in Stored
    BY DEF Init
  <2> QED BY <1>1, <1>4, <1>5, <1>7, <2>1, <2>2 DEF Bounds, Holds
<1>10. CleanOnce
  BY <1>4, <1>5 DEF Init, CleanOnce, OnceEach, Holds
<1> QED BY <1>3, <1>6, <1>8, <1>9, <1>10 DEF IInv

LEMMA StutterOK == ASSUME IInv, UNCHANGED vars PROVE IInv'
<1>1. TypeOK'
  BY DEF IInv, TypeOK, vars, leadership, counters, history
<1> QED BY <1>1, QuietOK DEF IInv, TypeOK, vars, counters, history

LEMMA NextIInv == IInv /\ [Next]_vars => IInv'
<1> SUFFICES ASSUME IInv, [Next]_vars PROVE IInv'
  OBVIOUS
<1>1. CASE LeaderStep
  BY <1>1, AcquireOK, BeatLostOK, BeatRaisesOK, StopOK, ReleaseOK, CrashOK, StartOK
     DEF LeaderStep
<1>2. CASE TickStep
  BY <1>2, SelectOK, SaveOK, SaveRaisesOK, FinishOK, CrashTickOK, FireOK, FireRaisesOK,
     TickActOK DEF TickStep
<1>3. CASE ScreenStep
  BY <1>3, PauseOK, DeleteOK, EditOK, TriggerOK DEF ScreenStep
<1>4. CASE SyncStep
  BY <1>4, PublishOK, SyncReadOK, CreateOK, SyncWriteOK, SyncRaisesOK, SyncDeleteOK,
     CrashSyncOK DEF SyncStep
<1>5. CASE Clock \/ Lapse \/ Expire \/ \E j \in Jobs : Post(j) \/ Lose(j)
  BY <1>5, ClockOK, LapseOK, ExpireOK, PostOK, LoseOK
<1>6. CASE UNCHANGED vars
  BY <1>6, StutterOK
<1> QED BY <1>1, <1>2, <1>3, <1>4, <1>5, <1>6 DEF Next

THEOREM Invariant == Spec => []IInv
BY InitIInv, NextIInv, PTL DEF Spec

(* Every variable keeps its type, whatever crashes, is stopped or raises   *)
THEOREM TypeCorrect == Spec => []TypeOK
<1>1. IInv => TypeOK
  BY DEF IInv
<1> QED BY <1>1, Invariant, PTL

(* enqueue_due_cron_jobs enqueues an occurrence of a job once, unless the  *)
(* job met one of the races that crossed names                             *)
THEOREM FiresOnceAlways == Spec => []FiresOnce
<1>1. IInv => FiresOnce
  <2> SUFFICES ASSUME IInv, NEW j \in Jobs, j \in twice, crossed[j] = {} PROVE FALSE
    BY DEF FiresOnce
  <2>1. Clean(j)
    BY DEF Clean
  <2> QED BY <2>1 DEF IInv, CleanOnce, OnceEach
<1> QED BY <1>1, Invariant, PTL

-----------------------------------------------------------------------------
(* What the rows say                                                       *)

(* A snapshot that is current shows the row; what is being saved was       *)
(* enqueued, and its turn is on its way unless it ended first              *)
Current ==
    /\ \A t \in Threads, j \in Jobs :
          tick[t].seen[j] # None /\ j \notin tick[t].stale /\ row[j] # None
             => row[j].next = tick[t].seen[j].next
    /\ \A t \in Threads, j \in Jobs :
          tick[t].pc = "save" /\ tick[t].cur = j =>
             /\ tick[t].seen[j].next \in fired[j]
             /\ out[j] = 0 => j \in unheard
    /\ \A h \in Handlers :
          sync[h].pc = "write" /\ ~sync[h].stale /\ sync[h].seen # None
             /\ row[sync[h].job] # None => row[sync[h].job].sched = sync[h].seen.sched
    /\ StatusTruth

(* Steps that enqueue nothing, read nothing and end no turn; what is       *)
(* written over makes the snapshots of others stale                        *)
LEMMA CurrentKept ==
    ASSUME IInv, Current, TypeOK', fired' = fired, out' = out, unheard' = unheard,
           \A t \in Threads :
              /\ tick'[t].pc = "save" => /\ tick[t].pc = "save" /\ tick'[t].cur = tick[t].cur
                                         /\ tick'[t].seen = tick[t].seen
              /\ \A j \in Jobs : tick'[t].seen[j] # None =>
                    /\ tick'[t].seen[j] = tick[t].seen[j]
                    /\ j \in tick[t].stale => j \in tick'[t].stale,
           \A h \in Handlers : sync'[h].pc = "write" =>
              /\ sync[h].pc = "write" /\ sync'[h].job = sync[h].job
              /\ sync'[h].seen = sync[h].seen
              /\ sync[h].stale => sync'[h].stale,
           \A j \in Jobs : row'[j] # None =>
              \/ /\ row[j] # None /\ row'[j].next = row[j].next /\ row'[j].sched = row[j].sched
                 /\ row'[j].status = row[j].status
              \/ /\ row'[j].status = "running" => row[j] # None /\ row[j].status = "running"
                 /\ \A t \in Threads : tick'[t].seen[j] # None => j \in tick'[t].stale
                 /\ \A h \in Handlers : sync'[h].pc = "write" /\ sync'[h].job = j
                                           => sync'[h].stale
    PROVE  Current'
<1>1. ASSUME NEW t \in Threads, NEW j \in Jobs,
             tick'[t].seen[j] # None, j \notin tick'[t].stale, row'[j] # None
      PROVE  row'[j].next = tick'[t].seen[j].next
  BY <1>1 DEF Current
<1>2. ASSUME NEW t \in Threads, NEW j \in Jobs, tick'[t].pc = "save", tick'[t].cur = j
      PROVE  /\ tick'[t].seen[j].next \in fired'[j]
             /\ out'[j] = 0 => j \in unheard'
  BY <1>2 DEF Current
<1>3. ASSUME NEW h \in Handlers, sync'[h].pc = "write", ~sync'[h].stale, sync'[h].seen # None,
             row'[sync'[h].job] # None
      PROVE  row'[sync'[h].job].sched = sync'[h].seen.sched
  <2>1. sync[h].job \in Jobs
    BY <1>3 DEF IInv, SyncOK, TypeOK, SyncRec
  <2> QED BY <2>1, <1>3 DEF Current
<1>4. ASSUME NEW j \in Jobs, row'[j] # None, row'[j].status = "running", out'[j] = 0
      PROVE  j \in unheard'
  BY <1>4 DEF Current, StatusTruth
<1>5. StatusTruth'
  BY <1>4 DEF StatusTruth
<1> QED BY <1>1, <1>2, <1>3, <1>5 DEF Current

LEMMA CurrentQuiet ==
    ASSUME IInv, Current, UNCHANGED <<tick, sync, row, out, fired, unheard>>
    PROVE  Current'
BY DEF Current, StatusTruth

LEMMA CurrentLeader == ASSUME IInv, Current, TypeOK', LeaderStep PROVE Current'
<1>1. PICK s \in Schedulers : Acquire(s) \/ BeatLost(s) \/ BeatRaises(s) \/ Stop(s)
                              \/ ReleaseGet(s) \/ ReleaseDel(s) \/ Crash(s) \/ Start(s)
  BY DEF LeaderStep
<1>2. CASE Acquire(s) \/ BeatRaises(s) \/ ReleaseGet(s) \/ ReleaseDel(s) \/ Start(s)
  <2>1. UNCHANGED <<tick, sync, row, out, fired, unheard>>
    BY <1>2 DEF Acquire, BeatRaises, ReleaseGet, ReleaseDel, Start, history
  <2> QED BY <2>1, CurrentQuiet
<1>3. CASE BeatLost(s) \/ Stop(s)
  <2>1. Abandon(s) /\ UNCHANGED <<sync, row, out, fired, unheard>>
    BY <1>3 DEF BeatLost, Stop, history
  <2>2. \A t \in Threads :
           /\ tick'[t].pc = tick[t].pc /\ tick'[t].cur = tick[t].cur
           /\ tick'[t].seen = tick[t].seen /\ tick'[t].stale = tick[t].stale
    BY <2>1, AbandonOK DEF IInv, TypeOK
  <2> QED BY <2>1, <2>2, CurrentKept
<1>4. CASE Crash(s)
  <2>1. PICK ts \in SUBSET Threads : Vanish(ts)
    BY <1>4 DEF Crash
  <2>2. UNCHANGED <<sync, row, out, fired>>
    BY <1>4 DEF Crash, history
  <2>3. unheard' = unheard
    BY <1>4 DEF Crash, history
  <2>4. \A t \in Threads :
          \/ tick'[t] = tick[t]
          \/ tick'[t].pc = "idle" /\ \A j \in Jobs : tick'[t].seen[j] = None
    BY <2>1 DEF Vanish, NoTick, NoSnaps
  <2> QED BY <2>2, <2>3, <2>4, CurrentKept
<1> QED BY <1>1, <1>2, <1>3, <1>4

LEMMA CurrentSelect ==
    ASSUME IInv, Current, TypeOK', NEW t \in Threads, Select(t) PROVE Current'
<1> DEFINE chosen == {j \in Jobs : Due(j) /\ tick[t].only \in {None, j}}
           snaps == [j \in Jobs |-> IF j \in chosen
                                    THEN [sched |-> row[j].sched, next |-> row[j].next] ELSE None]
           new == [tick[t] EXCEPT !.pc = "fire", !.now = now, !.seen = snaps]
<1>1. /\ tick' = [tick EXCEPT ![t] = new] /\ UNCHANGED <<sync, row, out, fired>>
      /\ tick \in [Threads -> TickRec] /\ tick[t] \in TickRec
  BY DEF Select, history, IInv, TypeOK
<1>2. \A j \in Jobs : snaps[j] # None => snaps[j].next = row[j].next
  OBVIOUS
<1> HIDE DEF snaps
<1>3. new.pc = "fire" /\ new.seen = snaps
  BY <1>1 DEF TickRec
<1> HIDE DEF new
<1>4. tick'[t] = new /\ \A u \in Threads \ {t} : tick'[u] = tick[u]
  BY <1>1
<1>5. unheard' = unheard
  BY DEF Select, history
<1>6. ASSUME NEW u \in Threads, NEW j \in Jobs,
             tick'[u].seen[j] # None, j \notin tick'[u].stale, row'[j] # None
      PROVE  row'[j].next = tick'[u].seen[j].next
  <2>1. CASE u = t
    BY <2>1, <1>1, <1>2, <1>3, <1>4, <1>6
  <2>2. CASE u # t
    BY <2>2, <1>1, <1>4, <1>6 DEF Current
  <2> QED BY <2>1, <2>2
<1>7. ASSUME NEW u \in Threads, NEW j \in Jobs, tick'[u].pc = "save", tick'[u].cur = j
      PROVE  /\ tick'[u].seen[j].next \in fired'[j]
             /\ out'[j] = 0 => j \in unheard'
  <2>1. u # t
    BY <1>3, <1>4, <1>7
  <2> QED BY <2>1, <1>1, <1>4, <1>5, <1>7 DEF Current
<1>8. StatusTruth'
  BY <1>1, <1>5 DEF Current, StatusTruth
<1> QED BY <1>1, <1>6, <1>7, <1>8 DEF Current

LEMMA CurrentFire ==
    ASSUME IInv, Current, TypeOK', NEW t \in Threads, NEW j \in Jobs, Fire(t, j) PROVE Current'
<1> DEFINE new == [tick[t] EXCEPT !.pc = "save", !.cur = j]
<1>1. /\ tick' = [tick EXCEPT ![t] = new] /\ UNCHANGED <<sync, row, unheard>>
      /\ fired' = [fired EXCEPT ![j] = @ \cup {tick[t].seen[j].next}]
      /\ out' = [out EXCEPT ![j] = @ + 1] /\ out \in [Jobs -> Nat]
      /\ tick \in [Threads -> TickRec] /\ tick[t] \in TickRec /\ fired \in [Jobs -> SUBSET Int]
  BY DEF Fire, IInv, TypeOK
<1>2. /\ new.pc = "save" /\ new.cur = j /\ new.seen = tick[t].seen
      /\ new.stale = tick[t].stale
  BY <1>1 DEF TickRec
<1> HIDE DEF new
<1>3. tick'[t] = new /\ \A u \in Threads \ {t} : tick'[u] = tick[u]
  BY <1>1
<1>4. /\ \A k \in Jobs : fired[k] \subseteq fired'[k] /\ (out'[k] = 0 => out[k] = 0)
      /\ tick[t].seen[j].next \in fired'[j] /\ out'[j] # 0
  BY <1>1
<1>5. \A u \in Threads, k \in Jobs :
         tick'[u].seen[k] # None /\ k \notin tick'[u].stale /\ row'[k] # None
            => row'[k].next = tick'[u].seen[k].next
  BY <1>1, <1>2, <1>3 DEF Current
<1>6. ASSUME NEW u \in Threads, NEW k \in Jobs, tick'[u].pc = "save", tick'[u].cur = k
      PROVE  /\ tick'[u].seen[k].next \in fired'[k]
             /\ out'[k] = 0 => k \in unheard'
  <2>1. CASE u = t
    BY <2>1, <1>2, <1>3, <1>4, <1>6
  <2>2. CASE u # t
    BY <2>2, <1>1, <1>3, <1>4, <1>6 DEF Current
  <2> QED BY <2>1, <2>2
<1>7. StatusTruth'
  BY <1>1, <1>4 DEF Current, StatusTruth
<1> QED BY <1>1, <1>5, <1>6, <1>7 DEF Current

LEMMA CurrentSave ==
    ASSUME IInv, Current, TypeOK', NEW t \in Threads, Save(t) PROVE Current'
<1>1. /\ tick \in [Threads -> TickRec] /\ sync \in [Handlers -> SyncRec]
      /\ row \in [Jobs -> Row \cup {None}] /\ tick[t].pc = "save"
  BY DEF IInv, TypeOK, Save
<1>2. PICK j \in Jobs : j = tick[t].cur
  BY <1>1 DEF IInv, TickOK
<1>3. /\ tick' = [Outdated(j) EXCEPT ![t] = Dropped(t, j)[t]] /\ sync' = OutdatedSync(j)
      /\ UNCHANGED <<out, fired>>
      /\ \A k \in Jobs \ {j} : row'[k] = row[k]
      /\ row'[j] # None => row[j] # None
  BY <1>1, <1>2 DEF Save, history
<1>4. unheard' = unheard
  BY DEF Save, history
<1>5. /\ \A u \in Threads \ {t} : tick'[u] = Outdated(j)[u]
      /\ tick'[t] = Dropped(t, j)[t]
  BY <1>1, <1>3, OutdatedOK
<1>6. ASSUME NEW u \in Threads, NEW k \in Jobs,
             tick'[u].seen[k] # None, k \notin tick'[u].stale, row'[k] # None
      PROVE  row'[k].next = tick'[u].seen[k].next
  <2>1. CASE u = t
    <3>1. k # j /\ tick'[t].seen[k] = tick[t].seen[k] /\ k \notin tick[t].stale
      BY <2>1, <1>1, <1>5, <1>6, DroppedIs
    <3> QED BY <2>1, <3>1, <1>3, <1>6 DEF Current
  <2>2. CASE u # t
    <3>1. k # j /\ tick'[u].seen[k] = tick[u].seen[k] /\ k \notin tick[u].stale
      BY <2>2, <1>1, <1>5, <1>6, OutdatedOK DEF Holds
    <3> QED BY <3>1, <1>3, <1>6 DEF Current
  <2> QED BY <2>1, <2>2
<1>7. ASSUME NEW u \in Threads, NEW k \in Jobs, tick'[u].pc = "save", tick'[u].cur = k
      PROVE  /\ tick'[u].seen[k].next \in fired'[k]
             /\ out'[k] = 0 => k \in unheard'
  <2>1. u # t
    BY <1>1, <1>5, <1>7, DroppedIs
  <2>2. tick[u].pc = "save" /\ tick[u].cur = k /\ tick'[u].seen = tick[u].seen
    BY <2>1, <1>1, <1>5, <1>7, OutdatedOK
  <2> QED BY <2>2, <1>3, <1>4 DEF Current
<1>8. ASSUME NEW h \in Handlers, sync'[h].pc = "write", ~sync'[h].stale, sync'[h].seen # None,
             row'[sync'[h].job] # None
      PROVE  row'[sync'[h].job].sched = sync'[h].seen.sched
  <2>1. /\ sync[h].pc = "write" /\ ~sync[h].stale /\ sync'[h].seen = sync[h].seen
        /\ sync'[h].job = sync[h].job /\ sync[h].job # j
    BY <1>1, <1>3, <1>8, OutdatedSyncOK
  <2>2. sync[h].job \in Jobs
    BY <2>1, <1>1 DEF IInv, SyncOK, SyncRec
  <2> QED BY <2>1, <2>2, <1>3, <1>8 DEF Current
<1>9. ASSUME NEW k \in Jobs, row'[k] # None, row'[k].status = "running", out'[k] = 0
      PROVE  k \in unheard'
  <2>1. CASE k = j
    BY <2>1, <1>1, <1>2, <1>3, <1>4, <1>9 DEF Current
  <2>2. CASE k # j
    BY <2>2, <1>3, <1>4, <1>9 DEF Current, StatusTruth
  <2> QED BY <2>1, <2>2
<1>10. StatusTruth'
  BY <1>9 DEF StatusTruth
<1> QED BY <1>6, <1>7, <1>8, <1>10 DEF Current

LEMMA CurrentPost ==
    ASSUME IInv, Current, TypeOK', NEW j \in Jobs, Post(j) PROVE Current'
<1>1. /\ row \in [Jobs -> Row \cup {None}] /\ out \in [Jobs -> Nat]
      /\ row' = (IF row[j] = None THEN row ELSE [row EXCEPT ![j].status = "done"])
      /\ UNCHANGED <<tick, sync, fired>>
      /\ out[j] > 0 /\ out' = [out EXCEPT ![j] = @ - 1]
      /\ Heard(j)
  BY DEF Post, IInv, TypeOK
<1>2. /\ \A k \in Jobs \ {j} : row'[k] = row[k] /\ out'[k] = out[k]
      /\ row'[j] # None => /\ row[j] # None /\ row'[j].next = row[j].next
                           /\ row'[j].sched = row[j].sched /\ row'[j].status = "done"
  <2>1. CASE row[j] = None
    BY <2>1, <1>1
  <2>2. CASE row[j] # None
    <3> DEFINE r == [row[j] EXCEPT !.status = "done"]
    <3>1. row[j] \in Row
      BY <2>2, <1>1
    <3>2. r.next = row[j].next /\ r.sched = row[j].sched /\ r.status = "done"
      BY <3>1 DEF Row
    <3>3. row' = [row EXCEPT ![j] = r]
      BY <2>2, <1>1
    <3> HIDE DEF r
    <3> QED BY <2>2, <3>2, <3>3, <1>1
  <2> QED BY <2>1, <2>2
<1>3. /\ \A k \in Jobs \ {j} : k \in unheard => k \in unheard'
      /\ (\E t \in Threads : tick[t].cur = j) => j \in unheard'
  BY <1>1 DEF Heard
<1>4. ASSUME NEW t \in Threads, NEW k \in Jobs,
             tick[t].seen[k] # None, k \notin tick[t].stale, row'[k] # None
      PROVE  row'[k].next = tick[t].seen[k].next
  BY <1>2, <1>4 DEF Current
<1>5. ASSUME NEW t \in Threads, NEW k \in Jobs, tick[t].pc = "save", tick[t].cur = k
      PROVE  /\ tick[t].seen[k].next \in fired[k]
             /\ out'[k] = 0 => k \in unheard'
  <2>1. CASE k = j
    BY <2>1, <1>3, <1>5 DEF Current
  <2>2. CASE k # j
    BY <2>2, <1>2, <1>3, <1>5 DEF Current
  <2> QED BY <2>1, <2>2
<1>6. ASSUME NEW h \in Handlers, sync[h].pc = "write", ~sync[h].stale, sync[h].seen # None,
             row'[sync[h].job] # None
      PROVE  row'[sync[h].job].sched = sync[h].seen.sched
  <2>1. sync[h].job \in Jobs
    BY <1>6 DEF IInv, SyncOK, TypeOK, SyncRec
  <2>2. row[sync[h].job] # None /\ row'[sync[h].job].sched = row[sync[h].job].sched
    BY <2>1, <1>2, <1>6
  <2> QED BY <2>2, <1>6 DEF Current
<1>7. ASSUME NEW k \in Jobs, row'[k] # None, row'[k].status = "running", out'[k] = 0
      PROVE  k \in unheard'
  <2>1. k # j
    BY <1>2, <1>7
  <2> QED BY <2>1, <1>2, <1>3, <1>7 DEF Current, StatusTruth
<1>8. StatusTruth'
  BY <1>7 DEF StatusTruth
<1> QED BY <1>1, <1>4, <1>5, <1>6, <1>8 DEF Current

LEMMA CurrentLose ==
    ASSUME IInv, Current, TypeOK', NEW j \in Jobs, Lose(j) PROVE Current'
<1>1. /\ UNCHANGED <<tick, sync, row, fired>> /\ out \in [Jobs -> Nat]
      /\ out' = [out EXCEPT ![j] = @ - 1] /\ unheard' = unheard \cup {j}
  BY DEF Lose, IInv, TypeOK
<1>2. ASSUME NEW k \in Jobs, out'[k] = 0 PROVE k \in unheard' \/ (out[k] = 0 /\ unheard \subseteq unheard')
  BY <1>1, <1>2
<1> QED BY <1>1, <1>2 DEF Current, StatusTruth

(* Ticks that begin, end or give up a job                                  *)
LEMMA CurrentDropped ==
    ASSUME IInv, Current, TypeOK', NEW t \in Threads, NEW j \in Jobs, tick' = Dropped(t, j),
           UNCHANGED <<sync, row, out, fired>>, unheard' = unheard
    PROVE  Current'
<1>1. tick \in [Threads -> TickRec]
  BY DEF IInv, TypeOK
<1>2. ASSUME NEW u \in Threads
      PROVE  /\ tick'[u].pc = "save" => /\ tick[u].pc = "save" /\ tick'[u].cur = tick[u].cur
                                        /\ tick'[u].seen = tick[u].seen
             /\ \A k \in Jobs : tick'[u].seen[k] # None =>
                   /\ tick'[u].seen[k] = tick[u].seen[k]
                   /\ k \in tick[u].stale => k \in tick'[u].stale
  <2>1. CASE u = t
    BY <2>1, <1>1, DroppedIs
  <2>2. CASE u # t
    BY <2>2, <1>1, DroppedIs
  <2> QED BY <2>1, <2>2
<1> QED BY <1>2, CurrentKept

LEMMA CurrentFresh ==
    ASSUME IInv, Current, TypeOK', NEW ts \in SUBSET Threads,
           \A t \in ts : tick'[t].pc \in {"idle", "select"} /\ \A j \in Jobs : tick'[t].seen[j] = None,
           \A t \in Threads \ ts : tick'[t] = tick[t],
           UNCHANGED <<sync, row, out, fired>>, unheard' = unheard
    PROVE  Current'
<1>1. ASSUME NEW u \in Threads
      PROVE  /\ tick'[u].pc = "save" => /\ tick[u].pc = "save" /\ tick'[u].cur = tick[u].cur
                                        /\ tick'[u].seen = tick[u].seen
             /\ \A k \in Jobs : tick'[u].seen[k] # None =>
                   /\ tick'[u].seen[k] = tick[u].seen[k]
                   /\ k \in tick[u].stale => k \in tick'[u].stale
  <2>1. CASE u \in ts
    BY <2>1
  <2>2. CASE u \notin ts
    BY <2>2
  <2> QED BY <2>1, <2>2
<1> QED BY <1>1, CurrentKept

LEMMA CurrentTick == ASSUME IInv, Current, TypeOK', TickStep PROVE Current'
<1>0. tick \in [Threads -> TickRec]
  BY DEF IInv, TypeOK
<1>1. PICK t \in Threads :
         \/ Select(t) \/ Save(t) \/ SaveRaises(t) \/ Finish(t) \/ CrashTick(t)
         \/ \E j \in Jobs : Fire(t, j) \/ FireRaises(t, j)
         \/ \E s \in Schedulers : Tick(s, t)
  BY DEF TickStep
<1>2. CASE SaveRaises(t)
  <2>1. PICK j \in Jobs : j = tick[t].cur
    BY <1>2 DEF SaveRaises, IInv, TickOK
  <2>2. tick' = Dropped(t, j) /\ UNCHANGED <<sync, row, out, fired>>
    BY <1>2, <2>1 DEF SaveRaises, history
  <2>3. unheard' = unheard
    BY <1>2 DEF SaveRaises, history
  <2> QED BY <2>2, <2>3, CurrentDropped
<1>3. CASE Finish(t)
  <2>1. tick' = [tick EXCEPT ![t] = NoTick] /\ UNCHANGED <<sync, row, out, fired, unheard>>
    BY <1>3 DEF Finish, history
  <2>2. PICK ts \in SUBSET Threads : ts = {t}
    OBVIOUS
  <2>3. NoTick.pc = "idle" /\ \A j \in Jobs : NoTick.seen[j] = None
    BY DEF NoTick, NoSnaps
  <2>4. tick'[t] = NoTick /\ \A u \in Threads \ ts : tick'[u] = tick[u]
    BY <1>0, <2>1, <2>2
  <2> QED BY <2>1, <2>2, <2>3, <2>4, CurrentFresh
<1>4. CASE CrashTick(t)
  <2>1. PICK ts \in SUBSET Threads : Vanish(ts)
    <3>1. {t} \in SUBSET Threads
      OBVIOUS
    <3> QED BY <1>4, <3>1 DEF CrashTick
  <2>2. UNCHANGED <<sync, row, out, fired>>
    BY <1>4 DEF CrashTick, history
  <2>3. unheard' = unheard
    BY <1>4 DEF CrashTick, history
  <2>4. NoTick.pc = "idle" /\ \A j \in Jobs : NoTick.seen[j] = None
    BY DEF NoTick, NoSnaps
  <2>5. /\ \A u \in ts : tick'[u] = NoTick
        /\ \A u \in Threads \ ts : tick'[u] = tick[u]
    BY <2>1 DEF Vanish
  <2> QED BY <2>2, <2>3, <2>4, <2>5, CurrentFresh
<1>5. CASE \E j \in Jobs : FireRaises(t, j)
  <2>1. PICK j \in Jobs : FireRaises(t, j)
    BY <1>5
  <2>2. tick' = Dropped(t, j) /\ UNCHANGED <<sync, row, out, fired, unheard>>
    BY <2>1 DEF FireRaises, history
  <2> QED BY <2>2, CurrentDropped
<1>6. CASE \E s \in Schedulers : Tick(s, t)
  <2>1. PICK s \in Schedulers : Tick(s, t)
    BY <1>6
  <2> DEFINE new == [NoTick EXCEPT !.pc = "select", !.by = s, !.awaited = TRUE]
  <2>2. tick' = [tick EXCEPT ![t] = new] /\ UNCHANGED <<sync, row, out, fired, unheard>>
    BY <2>1 DEF Tick, history
  <2>3. new.pc = "select" /\ \A j \in Jobs : new.seen[j] = None
    BY DEF NoTick, NoSnaps
  <2> HIDE DEF new
  <2>4. PICK ts \in SUBSET Threads : ts = {t}
    OBVIOUS
  <2>5. tick'[t] = new /\ \A u \in Threads \ ts : tick'[u] = tick[u]
    BY <1>0, <2>2, <2>4
  <2> QED BY <2>2, <2>3, <2>4, <2>5, CurrentFresh
<1> QED BY <1>1, <1>2, <1>3, <1>4, <1>5, <1>6, CurrentSelect, CurrentFire, CurrentSave

(* Writes of the Cron screen                                               *)
LEMMA CurrentWrite ==
    ASSUME IInv, Current, TypeOK', NEW j \in Jobs, NEW r \in Row, row[j] # None,
           r.status = row[j].status,
           row'[j] = r, \A k \in Jobs \ {j} : row'[k] = row[k],
           sync' = OutdatedSync(j), UNCHANGED <<out, fired, unheard>>,
           \A t \in Threads :
              \/ tick'[t] = Outdated(j)[t]
              \/ tick'[t].pc = "select" /\ \A k \in Jobs : tick'[t].seen[k] = None
    PROVE  Current'
<1>1. tick \in [Threads -> TickRec] /\ sync \in [Handlers -> SyncRec]
  BY DEF IInv, TypeOK
<1>2. ASSUME NEW t \in Threads
      PROVE  /\ tick'[t].pc = "save" => /\ tick[t].pc = "save" /\ tick'[t].cur = tick[t].cur
                                        /\ tick'[t].seen = tick[t].seen
             /\ \A k \in Jobs : tick'[t].seen[k] # None =>
                   /\ tick'[t].seen[k] = tick[t].seen[k]
                   /\ k \in tick[t].stale => k \in tick'[t].stale
             /\ tick'[t].seen[j] # None => j \in tick'[t].stale
  <2>1. CASE tick'[t] = Outdated(j)[t]
    BY <2>1, <1>1, OutdatedOK DEF Holds
  <2>2. CASE tick'[t].pc = "select" /\ \A k \in Jobs : tick'[t].seen[k] = None
    BY <2>2
  <2> QED BY <2>1, <2>2
<1>3. \A h \in Handlers :
         /\ sync'[h].pc = sync[h].pc /\ sync'[h].job = sync[h].job
         /\ sync'[h].seen = sync[h].seen /\ (sync[h].stale => sync'[h].stale)
         /\ sync'[h].pc = "write" /\ sync'[h].job = j => sync'[h].stale
  BY <1>1, OutdatedSyncOK
<1>4. ASSUME NEW k \in Jobs, row'[k] # None
      PROVE  \/ /\ row[k] # None /\ row'[k].next = row[k].next /\ row'[k].sched = row[k].sched
                /\ row'[k].status = row[k].status
             \/ /\ row'[k].status = "running" => row[k] # None /\ row[k].status = "running"
                /\ \A t \in Threads : tick'[t].seen[k] # None => k \in tick'[t].stale
                /\ \A h \in Handlers : sync'[h].pc = "write" /\ sync'[h].job = k
                                          => sync'[h].stale
  <2>1. CASE k = j
    BY <2>1, <1>2, <1>3
  <2>2. CASE k # j
    BY <2>2, <1>4
  <2> QED BY <2>1, <2>2
<1> QED BY <1>2, <1>3, <1>4, CurrentKept

LEMMA CurrentScreen == ASSUME IInv, Current, TypeOK', ScreenStep PROVE Current'
<1>0. tick \in [Threads -> TickRec] /\ row \in [Jobs -> Row \cup {None}] /\ now \in Nat /\ asks \in Nat
  BY DEF IInv, TypeOK
<1>1. PICK j \in Jobs : \/ Pause(j) \/ Resume(j) \/ Delete(j)
                        \/ \E s \in Schedules : Edit(j, s)
                        \/ \E t \in Threads : Trigger(j, t)
  BY DEF ScreenStep
<1>2. CASE Pause(j) \/ Resume(j)
  <2>1. PICK on \in BOOLEAN : Write(j, [row[j] EXCEPT !.on = on])
    BY <1>2 DEF Pause, Resume
  <2>2. row[j] \in Row /\ row[j] # None /\ UNCHANGED <<out, fired, unheard>>
    BY <1>0, <1>2 DEF Pause, Resume, history
  <2> DEFINE r == [row[j] EXCEPT !.on = on]
  <2>3. r \in Row /\ r.status = row[j].status
    BY <2>2 DEF Row
  <2>4. Write(j, r)
    BY <2>1
  <2> HIDE DEF r
  <2>5. row'[j] = r /\ \A k \in Jobs \ {j} : row'[k] = row[k]
    BY <2>3, <2>4, WriteIs
  <2> QED BY <2>2, <2>3, <2>4, <2>5, CurrentWrite DEF Write
<1>3. CASE \E s \in Schedules : Edit(j, s)
  <2>1. PICK s \in Schedules : Edit(j, s)
    BY <1>3
  <2>2. PICK n \in NextRuns(s, now) : Write(j, [row[j] EXCEPT !.sched = s, !.next = n])
    BY <2>1 DEF Edit
  <2>3. row[j] \in Row /\ row[j] # None /\ UNCHANGED <<out, fired, unheard>>
    BY <1>0, <2>1 DEF Edit, history
  <2> DEFINE r == [row[j] EXCEPT !.sched = s, !.next = n]
  <2>4. n \in Int \cup {None}
    BY <1>0, NextRunsOK
  <2>5. r \in Row /\ r.status = row[j].status
    BY <2>3, <2>4 DEF Row
  <2>6. Write(j, r)
    BY <2>2
  <2> HIDE DEF r
  <2>7. row'[j] = r /\ \A k \in Jobs \ {j} : row'[k] = row[k]
    BY <2>5, <2>6, WriteIs
  <2> QED BY <2>3, <2>5, <2>6, <2>7, CurrentWrite DEF Write
<1>4. CASE \E t \in Threads : Trigger(j, t)
  <2>1. PICK t \in Threads : Trigger(j, t)
    BY <1>4
  <2> DEFINE r == [row[j] EXCEPT !.on = TRUE, !.next = -(asks + 1)]
             new == [NoTick EXCEPT !.pc = "select", !.by = Api, !.only = j]
  <2>2. row[j] \in Row /\ row[j] # None /\ UNCHANGED <<out, fired, unheard>>
    BY <1>0, <2>1 DEF Trigger, history
  <2>3. r \in Row /\ r.status = row[j].status
    <3>1. -(asks + 1) \in Int \cup {None}
      BY <1>0
    <3> QED BY <3>1, <2>2 DEF Row
  <2>4. new.pc = "select" /\ \A k \in Jobs : new.seen[k] = None
    BY DEF NoTick, NoSnaps
  <2>5. /\ row' = [row EXCEPT ![j] = r] /\ tick' = [Outdated(j) EXCEPT ![t] = new]
        /\ sync' = OutdatedSync(j)
    BY <2>1 DEF Trigger
  <2> HIDE DEF r, new
  <2>6. row'[j] = r /\ \A k \in Jobs \ {j} : row'[k] = row[k]
    BY <1>0, <2>5
  <2>7. tick'[t] = new /\ \A u \in Threads \ {t} : tick'[u] = Outdated(j)[u]
    BY <1>0, <2>5, OutdatedOK
  <2> QED BY <2>2, <2>3, <2>4, <2>5, <2>6, <2>7, CurrentWrite
<1>5. CASE Delete(j)
  <2>1. /\ row' = [row EXCEPT ![j] = None] /\ UNCHANGED <<tick, sync, out, fired, unheard>>
    BY <1>5 DEF Delete, history
  <2>2. \A k \in Jobs : row'[k] # None => row[k] # None /\ row'[k] = row[k]
    BY <1>0, <2>1
  <2> QED BY <2>1, <2>2, CurrentKept
<1> QED BY <1>1, <1>2, <1>3, <1>4, <1>5

(* Publications that begin, end, or read                                   *)
LEMMA CurrentMoved ==
    ASSUME IInv, Current, TypeOK', NEW h \in Handlers, NEW new, new.pc # "write",
           sync' = [sync EXCEPT ![h] = new], UNCHANGED <<tick, out, fired, unheard>>,
           \A k \in Jobs : row'[k] # None => row[k] # None /\ row'[k] = row[k]
    PROVE  Current'
<1>1. sync \in [Handlers -> SyncRec]
  BY DEF IInv, TypeOK
<1>2. sync'[h] = new /\ \A i \in Handlers \ {h} : sync'[i] = sync[i]
  BY <1>1
<1>3. ASSUME NEW i \in Handlers, sync'[i].pc = "write"
      PROVE  sync'[i] = sync[i]
  BY <1>2, <1>3
<1> QED BY <1>3, CurrentKept

LEMMA CurrentRead ==
    ASSUME IInv, Current, TypeOK', NEW h \in Handlers, NEW j \in Jobs, SyncRead(h, j)
    PROVE  Current'
<1> DEFINE seen == IF row[j] = None THEN None ELSE [sched |-> row[j].sched, next |-> row[j].next]
           new == [sync[h] EXCEPT !.pc = "write", !.job = j, !.stale = FALSE, !.seen = seen]
<1>1. /\ sync \in [Handlers -> SyncRec] /\ sync[h] \in SyncRec
      /\ sync' = [sync EXCEPT ![h] = new]
      /\ UNCHANGED <<tick, row, out, fired, unheard>>
  BY DEF SyncRead, IInv, TypeOK, history
<1>2. seen # None => row[j] # None /\ seen.sched = row[j].sched
  OBVIOUS
<1> HIDE DEF seen
<1>3. new.job = j /\ new.seen = seen
  BY <1>1 DEF SyncRec
<1> HIDE DEF new
<1>4. sync'[h] = new /\ \A i \in Handlers \ {h} : sync'[i] = sync[i]
  BY <1>1
<1>5. ASSUME NEW i \in Handlers, sync'[i].pc = "write", ~sync'[i].stale, sync'[i].seen # None,
             row[sync'[i].job] # None
      PROVE  row[sync'[i].job].sched = sync'[i].seen.sched
  <2>1. CASE i = h
    BY <2>1, <1>2, <1>3, <1>4, <1>5
  <2>2. CASE i # h
    BY SMTT(30), <2>2, <1>4, <1>5 DEF Current
  <2> QED BY <2>1, <2>2
<1> QED BY <1>1, <1>5 DEF Current, StatusTruth

(* What a publication writes back                                          *)
LEMMA WritesBack ==
    ASSUME IInv, NEW h \in Handlers, NEW j \in Jobs, j = sync[h].job, SyncWrite(h)
    PROVE  /\ \A k \in Jobs \ {j} : row'[k] = row[k]
           /\ row'[j] # None =>
                 /\ \/ row'[j].status = ""
                    \/ row[j] # None /\ row'[j].status = row[j].status
                 /\ row'[j].sched = sync[h].content[j].sched
                 /\ row'[j].next \in Cursors(sync[h].seen, sync[h].content[j])
           /\ tick' = Outdated(j)
           /\ \A i \in Handlers : sync'[i].pc = "write" =>
                 sync'[i] = OutdatedSync(j)[i]
           /\ sync[h].stale => "resync" \in crossed'[j]
<1> DEFINE c == sync[h].content[j]
           seen == sync[h].seen
           kept == row[j] = None /\ (seen # None \/ j \in gone)
           was == IF row[j] = None THEN "" ELSE row[j].status
           new == [sync[h] EXCEPT !.pc = "read", !.job = None, !.seen = None,
                                  !.stale = FALSE, !.todo = @ \ {j}]
<1>1. /\ sync \in [Handlers -> SyncRec] /\ sync[h] \in SyncRec
      /\ row \in [Jobs -> Row \cup {None}] /\ crossed \in [Jobs -> SUBSET Kinds]
  BY DEF IInv, TypeOK
<1>2. PICK n \in Cursors(seen, c) :
         /\ row' = IF kept THEN row
                   ELSE [row EXCEPT ![j] =
                           [sched |-> c.sched, on |-> c.on, next |-> n, status |-> was]]
         /\ IF sync[h].stale THEN Cross({j}, "resync")
            ELSE Cross(IF n \in fired[j] /\ ~Same(seen, c) THEN {j} ELSE {}, "named")
  BY DEF SyncWrite
<1>3. sync' = [OutdatedSync(j) EXCEPT ![h] = new] /\ tick' = Outdated(j)
  BY DEF SyncWrite
<1>4. new.pc = "read"
  BY <1>1 DEF SyncRec
<1> HIDE DEF new
<1>5. /\ sync'[h].pc = "read" /\ \A i \in Handlers \ {h} : sync'[i] = OutdatedSync(j)[i]
  BY <1>1, <1>3, <1>4, OutdatedSyncOK
<1>6. /\ \A k \in Jobs \ {j} : row'[k] = row[k]
      /\ row'[j] # None => row'[j].status = was /\ row'[j].sched = c.sched /\ row'[j].next = n
  <2>1. CASE kept
    BY <2>1, <1>1, <1>2
  <2>2. CASE ~kept
    <3> HIDE DEF kept, was, c, seen
    <3> QED BY <2>2, <1>1, <1>2
  <2> QED BY <2>1, <2>2
<1>7. sync[h].stale => "resync" \in crossed'[j]
  <2>1. PICK js, kind : Cross(js, kind) /\ (sync[h].stale => js = {j} /\ kind = "resync")
    BY <1>2
  <2> QED BY <2>1 DEF Cross
<1> QED BY <1>2, <1>3, <1>5, <1>6, <1>7

LEMMA CurrentSync == ASSUME IInv, Current, TypeOK', SyncStep PROVE Current'
<1>0. /\ tick \in [Threads -> TickRec] /\ sync \in [Handlers -> SyncRec]
      /\ row \in [Jobs -> Row \cup {None}]
  BY DEF IInv, TypeOK
<1>1. PICK h \in Handlers :
         \/ \E content \in Content : Publish(h, content)
         \/ \E j \in Jobs : SyncRead(h, j) \/ \E s \in Schedules : Create(h, j, s)
         \/ SyncWrite(h) \/ SyncRaises(h) \/ SyncDelete(h) \/ CrashSync(h)
  BY DEF SyncStep
<1>2. CASE \/ \E content \in Content : Publish(h, content)
           \/ \E j \in Jobs, s \in Schedules : Create(h, j, s)
  <2>1. PICK names, content, screen : Begun(h, names, content, screen)
    BY <1>2 DEF Publish, Create
  <2>2. UNCHANGED <<tick, row, out, fired, unheard>>
    BY <1>2 DEF Publish, Create, history
  <2> DEFINE new == [NoSync EXCEPT !.pc = "read", !.todo = names, !.names = names,
                                   !.content = content, !.screen = screen]
  <2>3. new.pc = "read"
    BY DEF NoSync
  <2>4. sync' = [sync EXCEPT ![h] = new]
    BY <2>1 DEF Begun
  <2> HIDE DEF new
  <2> QED BY <2>2, <2>3, <2>4, CurrentMoved
<1>3. CASE SyncRaises(h) \/ CrashSync(h)
  <2>1. sync' = [sync EXCEPT ![h] = NoSync] /\ UNCHANGED <<tick, row, out, fired, unheard>>
    BY <1>3 DEF SyncRaises, CrashSync, history
  <2> QED BY <2>1, NoSyncOK, CurrentMoved
<1>4. CASE SyncDelete(h)
  <2>1. PICK rest \in SUBSET Jobs :
           /\ row' = [j \in Jobs |-> IF j \in rest THEN None ELSE row[j]]
           /\ sync' = [sync EXCEPT ![h] = NoSync] /\ UNCHANGED <<tick, out, fired, unheard>>
    BY <1>4 DEF SyncDelete, history
  <2>2. \A k \in Jobs : row'[k] # None => row[k] # None /\ row'[k] = row[k]
    BY <2>1
  <2> QED BY <2>1, <2>2, NoSyncOK, CurrentMoved
<1>5. CASE SyncWrite(h)
  <2>1. PICK j \in Jobs : j = sync[h].job
    BY <1>0, <1>5 DEF SyncWrite, IInv, SyncOK, SyncRec
  <2>2. /\ \A k \in Jobs \ {j} : row'[k] = row[k]
        /\ row'[j] # None => row'[j].status = "" \/ (row[j] # None /\ row'[j].status = row[j].status)
        /\ tick' = Outdated(j)
        /\ \A i \in Handlers : sync'[i].pc = "write" => sync'[i] = OutdatedSync(j)[i]
    BY <1>5, <2>1, WritesBack
  <2>3. UNCHANGED <<out, fired, unheard>>
    BY <1>5 DEF SyncWrite, history
  <2>4. ASSUME NEW t \in Threads
        PROVE  /\ tick'[t].pc = tick[t].pc /\ tick'[t].cur = tick[t].cur
               /\ tick'[t].seen = tick[t].seen
               /\ tick[t].stale \subseteq tick'[t].stale
               /\ tick'[t].seen[j] # None => j \in tick'[t].stale
    <3>1. /\ Outdated(j)[t].pc = tick[t].pc /\ Outdated(j)[t].cur = tick[t].cur
          /\ Outdated(j)[t].seen = tick[t].seen /\ tick[t].stale \subseteq Outdated(j)[t].stale
          /\ tick[t].seen[j] # None => j \in Outdated(j)[t].stale
      BY <1>0, OutdatedOK DEF Holds
    <3>2. tick'[t] = Outdated(j)[t]
      BY <2>2
    <3> QED BY <3>1, <3>2
  <2>5. ASSUME NEW i \in Handlers, sync'[i].pc = "write"
        PROVE  /\ sync[i].pc = "write" /\ sync'[i].job = sync[i].job
               /\ sync'[i].seen = sync[i].seen
               /\ sync[i].stale => sync'[i].stale
               /\ sync'[i].job = j => sync'[i].stale
    <3>1. /\ OutdatedSync(j)[i].pc = sync[i].pc /\ OutdatedSync(j)[i].job = sync[i].job
          /\ OutdatedSync(j)[i].seen = sync[i].seen
          /\ sync[i].stale => OutdatedSync(j)[i].stale
          /\ sync[i].pc = "write" /\ sync[i].job = j => OutdatedSync(j)[i].stale
      BY <1>0, OutdatedSyncOK
    <3>2. sync'[i] = OutdatedSync(j)[i]
      BY <2>2, <2>5
    <3> QED BY <3>1, <3>2, <2>5
  <2>6. ASSUME NEW k \in Jobs, row'[k] # None
        PROVE  \/ /\ row[k] # None /\ row'[k].next = row[k].next
                  /\ row'[k].sched = row[k].sched /\ row'[k].status = row[k].status
               \/ /\ row'[k].status = "running" => row[k] # None /\ row[k].status = "running"
                  /\ \A t \in Threads : tick'[t].seen[k] # None => k \in tick'[t].stale
                  /\ \A i \in Handlers : sync'[i].pc = "write" /\ sync'[i].job = k
                                            => sync'[i].stale
    <3>1. CASE k = j
      BY <3>1, <2>2, <2>4, <2>5, <2>6
    <3>2. CASE k # j
      BY <3>2, <2>2, <2>6
    <3> QED BY <3>1, <3>2
  <2> QED BY <2>2, <2>3, <2>4, <2>5, <2>6, CurrentKept
<1> QED BY <1>1, <1>2, <1>3, <1>4, <1>5, CurrentRead

LEMMA CurrentInit == Init => Current
<1> SUFFICES ASSUME Init PROVE Current
  OBVIOUS
<1>1. /\ \A t \in Threads : tick[t].pc = "idle" /\ \A j \in Jobs : tick[t].seen[j] = None
      /\ \A h \in Handlers : sync[h].pc = "idle"
  BY DEF Init, NoTick, NoSnaps, NoSync
<1>2. ASSUME NEW j \in Jobs, row[j] # None PROVE row[j].status = ""
  <2>1. PICK r \in Stored : r = row[j]
    BY <1>2 DEF Init
  <2>2. PICK s \in Schedules : \E n \in NextRuns(s, 0) :
           r = [sched |-> s, on |-> TRUE, next |-> n, status |-> ""]
    BY StoredIs
  <2>3. PICK n \in NextRuns(s, 0) : r = [sched |-> s, on |-> TRUE, next |-> n, status |-> ""]
    BY <2>2
  <2>4. r.status = ""
    <3> DEFINE R == [sched |-> s, on |-> TRUE, next |-> n, status |-> ""]
    <3>1. R.status = ""
      OBVIOUS
    <3>2. r = R
      BY <2>3
    <3> HIDE DEF R
    <3> QED BY <3>1, <3>2
  <2> QED BY <2>1, <2>4
<1> QED BY <1>1, <1>2 DEF Current, StatusTruth

LEMMA NextCurrent == IInv /\ Current /\ [Next]_vars => Current'
<1> SUFFICES ASSUME IInv, Current, [Next]_vars PROVE Current'
  OBVIOUS
<1>1. TypeOK'
  BY NextIInv DEF IInv
<1>2. CASE Clock \/ Lapse \/ Expire \/ UNCHANGED vars
  <2>1. UNCHANGED <<tick, sync, row, out, fired, unheard>>
    BY <1>2 DEF Clock, Lapse, Expire, vars, history
  <2> QED BY <2>1, CurrentQuiet
<1> QED BY <1>1, <1>2, CurrentLeader, CurrentTick, CurrentScreen, CurrentSync, CurrentPost,
        CurrentLose
        DEF Next

THEOREM CurrentAlways == Spec => [](IInv /\ Current)
BY InitIInv, NextIInv, CurrentInit, NextCurrent, PTL DEF Spec

(* No row shows a turn that is running when none is, unless the turn that  *)
(* ended last left no result in its row: it was lost on the worker, or its *)
(* result came before its tick had saved the row (last_status)             *)
THEOREM StatusTruthAlways == Spec => []StatusTruth
<1>1. Current => StatusTruth
  BY DEF Current
<1> QED BY <1>1, CurrentAlways, PTL

-----------------------------------------------------------------------------
(* Steps that change no next run, and moves of users and agents            *)
LEMMA NextRunsStay ==
    ASSUME IInv, [Next]_vars, moves' = moves, NEW j \in Jobs, row[j] # None, row'[j] # None
    PROVE  \/ row'[j].next = row[j].next
           \/ \E t \in Threads : Save(t) /\ j = tick[t].cur
           \/ \E h \in Handlers : SyncWrite(h) /\ j = sync[h].job
<1>0. moves \in Nat /\ row \in [Jobs -> Row \cup {None}] /\ row[j] \in Row
  BY DEF IInv, TypeOK
<1>1. moves' # moves + 1
  BY <1>0
<1>2. CASE LeaderStep \/ Clock \/ Lapse \/ Expire \/ (\E k \in Jobs : Lose(k)) \/ UNCHANGED vars
  <2>1. row' = row
    BY <1>2 DEF Lose, LeaderStep, Acquire, BeatLost, BeatRaises, Stop, ReleaseGet, ReleaseDel, Crash,
                Start, Clock, Lapse, Expire, vars
  <2> QED BY <2>1
<1>3. CASE TickStep
  <2>1. PICK t \in Threads :
           \/ Select(t) \/ Save(t) \/ SaveRaises(t) \/ Finish(t) \/ CrashTick(t)
           \/ \E k \in Jobs : Fire(t, k) \/ FireRaises(t, k)
           \/ \E s \in Schedulers : Tick(s, t)
    BY <1>3 DEF TickStep
  <2>2. CASE Save(t)
    <3>1. j # tick[t].cur => row'[j] = row[j]
      BY <2>2, <1>0 DEF Save
    <3> QED BY <2>2, <3>1
  <2>3. CASE ~Save(t)
    <3>1. row' = row
      BY ZenonT(40), <2>1, <2>3 DEF Select, SaveRaises, Finish, CrashTick, Fire, FireRaises, Tick
    <3> QED BY SMTT(30), <3>1
  <2> QED BY <2>2, <2>3
<1>4. ~ScreenStep
  BY <1>1 DEF ScreenStep, Pause, Resume, Delete, Edit, Trigger, Move
<1>5. CASE SyncStep
  <2>1. PICK h \in Handlers :
           \/ \E content \in Content : Publish(h, content)
           \/ \E k \in Jobs : SyncRead(h, k) \/ \E s \in Schedules : Create(h, k, s)
           \/ SyncWrite(h) \/ SyncRaises(h) \/ SyncDelete(h) \/ CrashSync(h)
    BY <1>5 DEF SyncStep
  <2>2. CASE SyncWrite(h)
    <3>1. PICK k \in Jobs : k = sync[h].job
      BY <2>2 DEF SyncWrite, IInv, SyncOK, TypeOK, SyncRec
    <3>2. \A i \in Jobs \ {k} : row'[i] = row[i]
      BY <2>2, <3>1, WritesBack
    <3> QED BY <2>2, <3>1, <3>2
  <2>3. CASE SyncDelete(h)
    <3>1. row'[j] = row[j]
      BY <2>3 DEF SyncDelete
    <3> QED BY <3>1
  <2>4. CASE ~SyncWrite(h) /\ ~SyncDelete(h)
    <3>1. row' = row
      BY <1>1, <2>1, <2>4 DEF SyncRead, SyncRaises, CrashSync, Publish, Create, Move
    <3> QED BY <3>1
  <2> QED BY <2>2, <2>3, <2>4
<1>6. CASE \E k \in Jobs : Post(k)
  <2>1. PICK k \in Jobs : Post(k)
    BY <1>6
  <2>2. row' = row \/ (row[k] # None /\ row' = [row EXCEPT ![k] = [row[k] EXCEPT !.status = "done"]])
    BY <2>1 DEF Post
  <2> DEFINE r == [row[k] EXCEPT !.status = "done"]
  <2>3. row[k] # None => r.next = row[k].next
    <3>1. row[k] # None => row[k] \in Row
      BY <1>0
    <3> QED BY <3>1 DEF Row
  <2>4. row' = row \/ (row[k] # None /\ row' = [row EXCEPT ![k] = r])
    BY <2>2
  <2> HIDE DEF r
  <2> QED BY <1>0, <2>3, <2>4
<1> QED BY <1>2, <1>3, <1>4, <1>5, <1>6 DEF Next

LEMMA StepSkips ==
    ASSUME IInv, Current, [Next]_vars, NEW j \in Jobs, Due(j), moves' = moves, row'[j] # None,
           row'[j].sched = row[j].sched, row'[j].next # row[j].next
    PROVE  row[j].next \in fired[j] \/ crossed'[j] # {}
<1>0. row[j] # None /\ row[j].next # None
  BY DEF Due
<1>1. CASE \E t \in Threads : Save(t) /\ j = tick[t].cur
  <2>1. PICK t \in Threads : Save(t) /\ j = tick[t].cur
    BY <1>1
  <2>2. tick[t].seen[j] # None /\ tick[t].pc = "save"
    BY <2>1 DEF Save, IInv, TickOK, Holds
  <2>3. CASE j \in tick[t].stale
    <3>1. "stale" \in crossed'[j]
      BY <2>1, <2>3 DEF Save, Cross
    <3> QED BY <3>1
  <2>4. CASE j \notin tick[t].stale
    BY <2>1, <2>2, <2>4, <1>0 DEF Current
  <2> QED BY <2>3, <2>4
<1>2. CASE \E h \in Handlers : SyncWrite(h) /\ j = sync[h].job
  <2>1. PICK h \in Handlers : SyncWrite(h) /\ j = sync[h].job
    BY <1>2
  <2>2. /\ row'[j].sched = sync[h].content[j].sched
        /\ row'[j].next \in Cursors(sync[h].seen, sync[h].content[j])
        /\ sync[h].stale => crossed'[j] # {}
    BY <2>1, WritesBack
  <2>3. sync[h].pc = "write" /\ sync[h].seen # None
    BY <2>1, <1>0 DEF SyncWrite
  <2>4. ASSUME ~sync[h].stale PROVE FALSE
    <3>1. row[j].next = sync[h].seen.next /\ row[j].sched = sync[h].seen.sched
      BY <2>1, <2>3, <2>4, <1>0 DEF IInv, SyncOK, Current
    <3> QED BY <3>1, <2>2, <2>3, <1>0 DEF Cursors, Same
  <2> QED BY <2>2, <2>4
<1> QED BY <1>0, <1>1, <1>2, NextRunsStay

(* Neither a tick nor a publication moves the cursor of a due job past an  *)
(* occurrence that was not enqueued (upsert_cron_jobs,                     *)
(* enqueue_due_cron_jobs), unless the job met one of the races             *)
THEOREM NoneSkippedAlways == Spec => NoneSkipped
<1>1. IInv /\ Current /\ [Next]_vars =>
         [\A j \in Jobs :
             /\ Due(j) /\ moves' = moves
             /\ row'[j] # None /\ row'[j].sched = row[j].sched /\ row'[j].next # row[j].next
             => row[j].next \in fired[j] \/ crossed'[j] # {}]_vars
  BY StepSkips
<1> QED BY <1>1, CurrentAlways, PTL DEF Spec, NoneSkipped
=============================================================================
