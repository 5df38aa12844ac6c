# Verification of the Verxio agent platform

TLA+ models of the concurrent core of this repository, model-checked with TLC
and, where it matters most, proved with TLAPS.  There are three cores.  The *pool
plane* of `verxio-api`: API replicas, agent workers and Redis, which together
decide which worker serves which tenant and what becomes of every turn.  And the
*chat* of `verxio-web`: the socket to the agent server, the stream of a turn, the
submit, queue and stop of prompts, and the way from one chat to another.  And the
*scheduler*: who leads, and when a scheduled job fires.

1. [The system](#1-the-system)
2. [Modules and their code](#2-modules-and-their-code)
3. [Runs](#3-runs)
4. [Fairness](#4-fairness)
5. [Proofs](#5-proofs)
6. [Abstractions](#6-abstractions)
7. [What is not modelled](#7-what-is-not-modelled)
8. [Plan](#8-plan)

## 1. The system

A *tenant* is one agent of one workspace.  Its Hermes home lives in object
storage; while somebody talks to the agent, one *worker* of a pool has the home
on its disk and its Hermes sidecar knows the tenant's profile.

| part | state it keeps | operations | talks to |
|---|---|---|---|
| API, `runtime_orch/pool.py` | rows of `runtime_instances` | start (request an attach), stop, restart, drain | Redis: lease, registration, `verxio:attach` stream, control channel |
| turn producers, `jobs.py` | receipts `platform_jobs` | persist a receipt, route the turn to the holder's stream or the shared one | DB, then Redis stream |
| agent worker, `worker/runner.py` | run slots, tasks in flight | handle a turn (attach, run, mark, reply), handle an attach, hand off, requeue | Redis streams, registry, sidecar, DB |
| tenant registry, `worker/tenants.py` | `_tenants`, a lock per tenant, `active_runs` | ensure_attached, detach, maintenance tick, control nudges, detach_all | Redis leases, home store, sidecar |
| Redis helpers, `infra/redis.py` | leases, registrations, streams, lists, pub/sub | SET NX, heartbeat, release, XADD, XREADGROUP, XACK | all of the above |
| start leases, `runtime_orch/leases.py` | `runtime_start_leases` | try_acquire, release | `wake_runtime` |
| homes, `homes.py`, `artifacts_store.py` | local home, snapshot | restore, sync | registry |
| lifecycle, `runtime_orch/lifecycle.py`, `watchdog.py`, `wake_queue.py` | runtime rows, wake queue, failure counts | wake, drain, reap, reconcile, heal | start leases, a runtime manager |
| scheduler and cron, `scheduler.py`, `cron_store.py` | leader lease, `tenant_cron_jobs` | lead, tick, edit and trigger a job, publish a list, record a result | turn producers, Cron screen, agents |
| channels, `messaging_*.py` | delivery lists | webhook intake, pop a delivery | turn producers, workers |
| agent state, `agent_sync.py`, desktop `agent-sync.cjs` | `agent_state_files` | put, list, merge | desktop, homes |
| dashboard proxy, `dashboard_proxy.py` | read cache, limiter | coalesced reads, invalidation | worker dashboards |
| web gateway client, `json-rpc-gateway.ts`, `gateway-link.ts`, `use-gateway-boot.ts`, `use-gateway-request.ts` | socket, pending calls, reconnect timer, grace timer | connect, request, boot, reconnect loop, recovery of a request | agent server |
| web stream, `use-message-stream.ts`, `chat-messages.ts` | session state of each runtime, queued deltas | gateway events, delta flush, reload of the saved transcript | gateway client, screen |
| web submit, `use-prompt-actions.ts`, composer | submit epoch, prompt queue, `$busy` and its copies | submit, busy retry, stop, steer, drain, restore | gateway client, stream |
| web sessions, `use-session-actions.ts`, `use-route-resume.ts` | selected chat, active runtime, route, runtime cache | open, resume, draft, create, remove, rebind | submit, agent server |

The interaction to understand first: a turn is persisted, put on a stream, read
by one worker, which must hold the tenant's lease and have it attached before it
runs the turn.  Leases have a TTL of 90 s and are heartbeated every 15 s by a
maintenance loop of the worker; the API may ask a worker to detach; idle tenants
are detached; workers die, drain and come back with the same id.

In the web client one event loop runs React effects, coroutines, timers and
frames.  A prompt becomes an optimistic row, a session on the agent server if the
chat has none, uploaded attachments, and `prompt.submit`; the turn comes back as
frames; and at each await the user may have stopped it, sent another prompt, or
opened another chat.  What is shown (`$messages`, `$busy`) is a copy of the cached
state of one runtime, painted once per animation frame.

**Hard behaviours.**  Every worker is one asyncio process, so its coroutines
interleave at each `await`; state is read before an await and used after it;
Redis GET and DEL are separate round trips; a lease can expire while its holder
is alive; messages are consumed once whatever becomes of their handler; a crash
can fall between any two steps.  `PROJECT.json` lists every hazard at its line.

**What makes each part correct.**

* registry: one attach of a tenant at a time per worker, no entry overwritten
  while its runs go on, a lost lease noticed, waiting handlers released,
  capacity given back;
* dispatch: a turn runs at most once, exists in one place, its receipt tells the
  truth and only moves forward, and without faults it settles;
* start leases: one holder; no race that everybody loses, unless the database fails in it;
* gateway client: after any faults it is open again, no call is left on a socket
  that was let go, every call ends, the composer tells the truth about the link;
* stream: the screen shows what the server stored, once, in order, unless a load
  fails or meets a newer turn; no spinner is left; an answer that is stopped after
  its `message.start` arrived stays as it was;
* submit: a stop stops, a queued prompt is neither lost nor sent twice, the view
  becomes free again;
* sessions: transcript, runtime and prompt belong to the selected chat;
* homes (planned): the newest version survives; lifecycle (planned): one start
  at a time, a stopped runtime stays stopped;
* cron: an occurrence of a job is enqueued, and once; no cursor skips one; a row
  that says "running" without a turn has lost a result; who lost the lease stops leading.

## 2. Modules and their code

| module | models | extends / instantiates |
|---|---|---|
| `TenantRegistry` | `worker/tenants.py`, leases of `infra/redis.py`, `PoolRuntimeManager.stop`, process life of `worker/runner.py` | - |
| `TurnDispatch` | `worker/runner.py`, `jobs.py`, `PoolRuntimeManager.start` as far as it requests an attach | extends `TenantRegistry`: both run together, on one state |
| `StartLease` | what `LeaseStore` promises, read off `InMemoryLeaseStore` | - |
| `SqliteLeaseStore` | `SqliteLeaseStore` statement by statement | `INSTANCE StartLease WITH` a refinement mapping |
| `GatewayClient` | the socket of `json-rpc-gateway.ts` under the boot, the reconnect loop and the requests; the link's grace | - |
| `Transcript` | session state of one chat and the pure functions on it: `mutateStream`, `completeAssistantMessage`, `preserveLocalAssistantErrors` ... | - |
| `MessageStream` | frames, delta timer, reloads, stop and restore of one chat | extends `Transcript` |
| `PromptSubmit` | `submitPromptText`, `withSessionBusyRetry`, `cancelRun`, the queue and the busy flags of one chat | - |
| `SessionSwitch` | `resumeSession`, the route effect, `createBackendSessionForSend`, `removeSession`, with submits in flight | - |
| `CronScheduler` | `scheduler.py` (leadership, `_cron_loop`), `cron_store.py`, the lease of `infra/redis.py` | - |
| `MC...` | constants a `.cfg` cannot write, symmetry | the module it is named after |
| `..._proofs` | theorems | the module it is named after |

**TenantRegistry.**  A step is what one coroutine does between two awaits.
`call[c]` is a handler's progress through `ensure_attached` and through the run
that follows; its `pc` names the await it is at:

| pc | at |
|---|---|
| lock | waiting for `_attach_lock(name)` |
| beat, slipped | `heartbeat_lease` of the current entry; it failed |
| acquire, lookup, check | row and `try_acquire_lease`; `lookup_holder`; before the capacity check |
| fullGet, fullDel | `release_lease` of a worker at capacity |
| restore, commit | `restore_home` to `attach_profile`; `set_phase(READY)` |
| failGet, failDel | `release_lease` after an exception |
| ready, run, post | waiting for a slot; `run_turn`; `_post_turn` |
| rejected | `AttachRejected` was raised |
| leaked | raised after `active_runs += 1`, before the `try` |
| done, lost | over; its process died |

An `AttachedTenant` object is named by the call that created it (a call creates
at most one), so `active_runs` is the number of calls that hold the entry and
are at `run` or `leaked`, and an entry that was popped can still have runs.
`maint`, `ctl` and `drain` are the three loops; `detaching[w][l]` is the detach a
loop is in.  `stop[s]` is one call of the API's `stop`.  The flags in `Faults`
say what the environment may do; a run names the ones it allows.

**TurnDispatch.**  A turn's deliveries are calls of `TenantRegistry`: reading a
stream entry (`Read`) begins the call, requeueing puts it back to `idle`.
`pending[s][m]` counts unread entries; XREADGROUP with `>` takes one away for
good, so an acknowledgement changes nothing and is not a variable.  `hops` is the
`_hops` field of the message in hand, `receipt` is `platform_jobs.status`, `ran`
and `replies` are history the properties are about.

**SqliteLeaseStore.**  One key; an attempt is a call of `try_acquire` and its
uuid.  Each SQL statement is an action; `start[a]` is the `now` the attempt read
once and compares with throughout.  The mapping: `owner <- row.token`, the
deadline of an attempt is the `expires_at` it would write, its phase follows
from its `pc`.

**GatewayClient.**  `phase[k]` is the k-th WebSocket, `settled[k]` the promise of
the `connect()` that made it, `socket` the one the client holds.  `boot`, `loop`
and `ensure` are the three coroutines that connect (`boot`, `attemptReconnect`,
`ensureGatewayOpen`), with the await they are at; `timer` is `reconnectTimer`.
`call[c]` is one `requestGateway`: sent, recovering, waiting for `ensureGatewayOpen`
or parked in `waitForGatewayOpen`, sent again.  State handlers run inside
`setState`, so `link` and `timer` change in the step that changes `state`.

**Transcript, MessageStream.**  `chat` is `ClientSessionState`, `screen` is
`$messages`: every step paints it (`Paint`) with the rows of the state and the
error rows that only the screen has.  A row carries the set of turns whose text
it holds, so that a mixed answer is a set of two.  `reads` are the
`hydrateFromStoredSession` calls in progress; any of them may give up before it is done
(`GiveUp`: a fetch that fails, or the last retry).  Two variables are history: `unread`
says that this happened to a load that had no answer to look for, `muted` that
a stop came when no `message.start` was on its way and nothing was sent since.  `filter` is `Where`, a function of the
places that stay, and `toChatMessages` is computed by index: neither is recursive,
so that theorems can be stated over them.  The server side (`run`, `inbox`,
`stored`, `halt`) is external: modelled from how `use-message-stream.ts` uses it.  A
prompt that was submitted is put behind the history of the moment it is accepted;
only one that goes back (`cut`) has told the server how many prompts to keep
(`truncate_before_user_ordinal`, `use-prompt-actions.ts:1348`).

**PromptSubmit.**  `sub[p].pc` is the await `submitPromptText` is at: `create`
(session), `sync` (attachments), `wait` (the answer), `sleep` (busy retry),
`returning` (to `runDrain`).  `cur` is the submit that holds the newest
`submitEpoch`.  `busy` (view and `busyRef`), `cached` (session state), `dirty`
(frame requested) and `seen` (what the drain effect saw last) are the copies of
one flag that the hazards are about.  `up` and `down` are the socket, in order.

**SessionSwitch.**  `resume` is the newest `resumeSession` with its await, `late`
those outdated at their last one; `submit[p]` is a submit with the chat it was
typed in; `runtimeOf` and `cached` are the maps of the session cache; `of`, `live`,
`turns` are the agent server's runtimes.  `crossed` is history: the six steps
that the code takes without asking whether they still fit (section 3).

**CronScheduler.**  `role[s]` is where `run_scheduler` of process `s` is, `beating`
the heartbeat tasks that are alive, `lease` the Redis key.  `tick[t]` is one call of
`enqueue_due_cron_jobs`, in a thread of a scheduler or in the API (a trigger): it
selects (`seen`), enqueues the turn of a row (`fire`), saves the row (`save`).
`sync[h]` is one call of `upsert_cron_jobs`, which reads and writes row by row, then
deletes the others.  `row` is the table, `out` the turns on their way to a result.
`stale` marks what a tick or a publication read and somebody wrote since; `crossed`,
`fired` and `twice` are history: `crossed[j]` collects the races job `j` took part in.
A turn ends with a result (`Post`, `record_cron_result`) or without one (`Lose`); `unheard`
is history too, the jobs whose last turn left no result in the row.

Operators commented "Mutant" or "BUG variant" are not part of any specification.  They are
plausible mistakes (a lock not taken, a guard dropped) that show each property
able to fail: `PROJECT.json` pairs them with the properties.

## 3. Runs

Sizes are as measured with two TLC workers.

| run | asks | bounds and faults | result |
|---|---|---|---|
| `registry_safety` | is the attach lock enough: is a table entry ever overwritten by another? | 2 workers, 1 tenant, a turn and an attach request, one API stop; leases expire at any time, workers crash, calls raise, runs outlast the stop poll | holds, 581 K states |
| `registry_liveness` | does a worker that lost a lease notice; do handlers end; does capacity come back? | the same workers and handlers, no stop; leases expire at any time, workers are drained and restarted | holds, 69 K states |
| `turn_safety` | at most once, one place, true and monotone receipts? | 2 workers, 2 turns; leases and registrations expire, calls raise, workers crash, drain and restart, the API dies between receipt and entry | holds, 775 K states |
| `turn_liveness` | does every accepted turn settle when nothing fails? | 1 worker with room for 1 tenant and 1 run, 2 turns of 2 tenants, one empty, an attach request | holds, 44 K states |
| `sqlite_lease` | one holder, and the refinement of `StartLease` | 3 attempts, TTL 2, clock to 5; the INSERT may raise | holds, 44 K states |
| `gateway` | does the client come back, does every call end, is no call orphaned? | 2 calls, 2 faults (failed lookup, refused, half-open or dropped socket) | holds, 14 K states |
| `stream` | does the screen show the history; what do stops, reloads and restores leave? | 2 prompts, each with a text, a tool or compaction, any end; loads may fail at any read; 1 stop or restore | holds, 1.7 M states |
| `chat` | does a stop stop, is a prompt run once, does the queue keep prompts, does every submit end, is nothing left busy? | 2 prompts in every role, 1 stop, 2 tries | holds, 35 K states |
| `sessions` | do transcript, runtime and prompt belong to the selected chat, does the view become free? | 2 stored chats (one not listed), 1 new, 1 prompt, 2 moves of the user or restarts; every call may fail; a turn may run when the window loads | holds, 460 K states |
| `cron_safety` | is an occurrence enqueued once, is none skipped, is "running" true until a result is lost? | 1 scheduler, 2 ticks, 2 publications, a one-shot whose agent may name the next run, 2 moves, clock to 2; a lease expires, a call or the heartbeat raises, a process dies, a turn ends without a result | holds, 1.2 M states |
| `cron_liveness` | does a due job fire, does a leader without lease stop its loops? | 2 schedulers; crashes, stops, expiries, calls that raise | holds, 62 K states |
| `attached_not_served` | "attached" means lease held and profile known (`worker/tenants.py:3`) | 2 workers, no fault | violated |

The violated run is a divergence between the code and what the repository says
of it, listed under `findings` with the quoted line:

* **attached_not_served.**  `detach` pops the name, then syncs, then removes the
  profile, then deletes the lease, none of it under the attach lock.  An attach
  in between finds the lease with the worker's own id, takes it for its own and
  commits; the detach then removes profile and lease from under it.  The next
  heartbeat repairs it, but turns run in the meantime.

Five more divergences were found with runs of their own, which are not kept: the
properties above set them aside by name (`crossed`, `muted`), so that whatever
else went wrong would show.

* *A prompt in the wrong chat.*  An opened chat is painted from its saved transcript
  before its runtime is bound.  The composer is shown, `activeSessionId` is still
  null, and a prompt sent then creates a new session although a stored chat is
  selected; the window moves to the new chat, whose agent knows nothing of the
  transcript the prompt was typed under.  TLC finds it as a violation of
  `PromptInItsChat` in the bounds of `sessions`, without any fault.
* *A second firing* (`cron_store.py:171`, "so re-syncs don't double fire").
  `upsert_cron_jobs` keeps the cursor by writing back the one
  it read.  A tick that fires and saves the job between the two statements is
  undone, the row is due again, and the occurrence is enqueued a second time.
* *A job that goes when another is created.*  The Cron screen creates a job with the function that replaces
  an agent's list, and its list has one job: the others are deleted.
* *A stopped answer that grows.*  "After a stop, drop any late deltas / tool events for the
  cancelled turn" (`use-message-stream.ts:247`).  A stop that overtakes the
  `message.start` of its turn is undone by it: the frame clears `interrupted` (923-929),
  and the text that was on its way opens a row under the cancelled prompt.
  `StoppedFrozen` therefore speaks of a stop behind `message.start`.
* *Two leaders.*  `heartbeat_lease` raises when Redis does not answer,
  `_hold_leadership` does not catch it, and nobody awaits its task before the
  process is stopped: the loops go on without the lease, next to a new leader's.

`CronScheduler` records five races in `crossed`, and `FiresOnce` and `NoneSkipped` say
that there is no other way: *overlap* (two ticks read the same
occurrence: a trigger or an abandoned thread), *unsaved* (crash or error between
enqueue and UPDATE), *stale* and *resync* (a tick, a publication writes back what it
read before somebody else wrote), *named* (an agent's list names an occurrence that
was enqueued).

A row says "running" for ever when no result comes: a cron turn that is dropped at its second
refusal (`worker/runner.py:118`), is empty (136), whose attach raises (396) or whose
worker dies calls `record_cron_result` at no point, and a one-shot has no next turn.
A result that is recorded before its tick has saved the row is overwritten by "running"
too.  TLC reaches both.  `StatusTruth` says that there is no third way, and that the next
result to be recorded, if there is one, takes the row back.

`SessionSwitch` has six such steps, recorded in `crossed`: *create* (above),
*paint* (a memory-cache hit is painted before `isCurrentResume` is asked), *snapshot*
(a resume keeps the rows it found on the screen, `localSnapshot`, and paints them
when it could not read the saved transcript and `session.resume` answers), *map*
(`seedOptimistic` and `dropOptimistic` bind a runtime to whatever chat is selected
by then), *recover* (an unknown runtime is replaced by that of the chat selected
by then) and *restore* (a failed removal brings its chat back over another).  The
properties of `sessions` say that nothing else puts a transcript, a runtime or a
prompt into the wrong chat, each naming the steps it sets aside.

*snapshot* was found by the proof, not by a run: `ScreenIsSelected` could not be made
inductive without it, and TLC then showed the behaviour with two prompts and four
moves.  A chat is opened and removed; a prompt in the draft creates another; the
outdated resume of the removed one takes the rows it finds for its own; the removal
fails and restores the chat without a resume of its own, so that the same resume
is current again; both reads of the transcript fail, and the other chat's rows are
painted under it.  The comment above `preferredMessages`
(`use-session-actions.ts:744`) says that this is what must never happen.

`ScreenIsHistory` has the same shape: `crossed` there is a snapshot applied over a
newer turn, a restore to a prompt behind a failed one or to the failed one itself (the
server never stored the prompt that `visibleUserOrdinal` counts), and a restore to a
prompt that only the screen still shows; `unread` is a load that gave up although it
had no answer to look for.  A turn that ends silently is on the screen by such a load
only: when its reads fail (`desktop-controller.tsx:567`) the stored answer stays off the
screen until the chat is loaded again.

Other divergences that TLC reaches on these modules and that no run states, since
each needs only a weaker reading of a comment to vanish: the maintenance loop acts
by name on a newer entry (`worker/tenants.py:294`); `stop` releases a lease written
after it looked for a holder (`runtime_orch/pool.py:172`); `_hops` is lost when a
turn is requeued (`worker/runner.py:118`); a full worker consumes an attach request
(`worker/runner.py:93`); a turn read by a worker that dies is never read again
(`jobs.py:1`); a submit waiting out a busy session is dropped by the next one
(`use-prompt-actions.ts:98`).

**Why the bounds are enough.**  The registry's hazards are between two activities
on one tenant of one worker (two handlers, a handler and a loop, two loops)
plus another party that takes the lease: two workers, two calls and a stop have
them all, and each loop may act any number of times.  A worker with room for one
tenant and two tenants is the smallest one that is ever full.  Two turns give
every order of two messages on two streams.  In the lease store one attempt can
be refused by a second that is itself displaced by a third; TTL 2 and a clock to
5 let two leases run out and a slow attempt compare with a stale time.  The
safety results that matter are proved for all sizes (section 5), which is the
real answer to the question.

`sqlite_lease` switches deadlock checking off: when the clock is at its bound and
every attempt is over, the model stops.  The registry and turn runs check it: the
maintenance loops never stop.

In `gateway` two faults are the first number at which a socket drops and the
attempt that follows fails too, under one coroutine while another waits; two calls
share one recovery or need two.  The invariant of the proof was also checked with
three.  In `stream` two turns are needed for late frames of the first to meet the
second; a window of two frames holds the end of one turn and the start of the
next; two restores were checked with a window of one (4.6 M states).  In `chat` a
second prompt queues behind the first, is drained, outdated and sent again; the
inductive invariant was also checked with three prompts and two stops (the first
8.5 M states).  In `sessions` two moves outdate a resume or a submit once and do
something else besides; the safety properties were also checked with three moves
(the first 8.4 M states) and with two prompts (6.9 M states).

In `cron_safety` two ticks, or a tick and two publications, are what a race takes;
two moves are an edit and a publication, or two publications; a clock to 2 lets a
one-shot pass and one named later come due.  `FiresOnce` and `StatusTruth` were also
checked with an interval job (1.7 M states).

The web runs switch deadlock checking off: when every prompt, fault and move is
used up and everything settled, the model stops.

The bounds of the state space that are not of the code: `MaxFaults`, `MaxActs`,
`MaxStops`, `MaxMoves`, `MaxOut` (turns of a job under way) and `MaxReads`, the numbers of prompts and calls, `MaxTries`
(the deadline of the busy retry in calls), `Window` (frames under way), `MaxTime` (the clock),
the number of calls (each message is handled once), and the number of API stops.

## 4. Fairness

`LoopFairness` is weak fairness of each background loop, of each detach in
progress, of the drain and of the restart of a worker, of each API stop, and of
the TTL of a lease nobody heartbeats (`Abandoned`).  The code justifies it: the
loops are `while` loops around a timeout, HTTP and Redis calls have timeouts, the
deployment restarts a worker that exits, and Redis expires keys.  Expiry of a
lease that *is* heartbeated is never fair: it may happen, nothing relies on it.

A started handler is weakly fair (`EnsureAttached`, `HandlerStep`, `TurnStep`):
the event loop keeps running it and `run_turn` has a read timeout.  No fairness
is assumed of a message being sent; `RouteTurn` is fair because it follows the
receipt in the same request, and reading is fair because `_consume` polls.

`IdleFairness` is strong fairness of `MaintReap`: the idle clock is not modelled,
so a tick may find a tenant not idle yet any number of times, but a tenant
without runs is found idle in the end.  Weak fairness would not do, since the
tick leaves the state in which it could reap.  It is a premise of
`CapacityReclaimed` and part of `TurnSpec`; `Spec` does not assume it, since
tenants may be in use for ever.  So `StaleEntryDropped` rests on the heartbeat and not on the reaper.

`RunStart` waits for a slot of an `asyncio.Semaphore`, which is FIFO; with
finitely many calls weak fairness suffices.

In the web client everything that is due runs: effects, promise callbacks, timers
and frames.  Effects and callbacks come before the next task (`Calm`), so a task is
enabled again and again rather than always, which is why `ViewFlush`, `OnFrame` and
the steps of a submit (`PromptSubmit`) and the loop, the recovery and the close
event (`GatewayClient`) are strongly fair.  A connecting socket opens, fails or
times out (`OnOpen` weakly fair; its alternatives are faults and bounded).  The
external server answers what it is sent and ends every turn.  Nothing the user
does is fair.  In `SessionSwitch` one weak condition on all continuations is
enough, since each resume and submit has finitely many awaits.

In `CronScheduler` the loops, the threads, a waiting process, the release and the
restart are weakly fair, as is the TTL of a lease that no heartbeat renews; turns
end, with a result or without (`Post \/ Lose`).  Faults, edits and publications are not: `DueFires` therefore speaks of
a job that nobody touches.  `cron_liveness` leaves out the heartbeat that raises:
with it `UsurpedStepsDown` fails (two leaders, section 3).

## 5. Proofs

All theorems hold for every set of workers, tenants, calls and stops, every
capacity and every set of faults, for every number of calls, prompts, stops and
socket faults, from the assumptions `RegistryAssumption`, `DispatchAssumption`,
`StoreAssumption`, `GatewayAssumption`, `SubmitAssumption`, `SessionAssumption`,
`StreamAssumption` and `CronAssumption`, which say only that the constants have their types, that the null
value is none of the named ones, and, of `SessionSwitch`, that the chats still to be
made and the prompts are finitely many.

**TenantRegistry_proofs** proves `TypeOK`, `AttachSafe` and `NoEntryReplaced`.
`AttachSafe` says that two handlers of a worker are never both inside the lock
of one tenant, and that from the moment a handler decided to attach there is no
entry under the name.  It is not inductive alone: a loop could insert an entry
or a handler could be inside the lock of no worker.  `RegistryInv` adds
`ActiveHere` (a handler at work belongs to a worker) and `EntryInHand` (a loop that
decides has an entry in hand), which is what the types of the successor states
need.  The proof has a lemma for each group of actions: `MoveSafe` for
a handler that moves within or into the lock, `OutsideInv` for steps outside it,
`CancelInv` for the mass cancellations of drain and crash.  `NoEntryReplaced`
then follows from `NothingToOverwrite`: only `Commit` writes an entry.

**TurnDispatch_proofs** builds on it (the registry steps are reused through
`RegistryStepInv`, not proved again) and proves `TurnTypeOK`, `OnePlace`,
`AtMostOnce`, `ReceiptTruth` and the action property `ReceiptForward`.  The
invariant is `TurnInv`: besides the properties it has `UnpostedIdle` (no handler
before the message was posted) and `TurnPhase`, which ties receipt, run count and
reply count to the handler's `pc`.  Without `TurnPhase` the count could be 1 at a
handler that has yet to run.  `OnePlace` is needed for `AtMostOnce`: a second
entry of a turn would be a second run.

**SqliteLeaseStore_proofs** proves `TypeOK`, `OneHolder`, `SomebodyWins` and the
refinement `Spec => Promise!LeaseSpec`.  The invariant `IInv` says that a row was
written by its token's attempt, which has not given it up (`RowIsWritten`); that
no attempt read a clock of the future (`StartIsPast`); that a holder whose time is
not over still has its row (`HolderOwnsRow`: a purge or an update compares with a
time that is past); and that whoever finds no row can still win, unless an INSERT raised
(`SomebodyIsLeft`).  `SomebodyWins` has that exception because the code has it:
`except Exception` (`leases.py:110`) makes an attempt of any database error that was
refused, so that attempts which meet one can all come away empty-handed.  The refinement maps each action to an action of
`StartLease` or to a stutter: `Purge` is `Lapse` or nothing, `Insert` and a
successful `Update` are `Reserve`, `Confirm` is `Grant` or `Refuse`.

**GatewayClient_proofs** proves `TypeOK`, `NeverStranded`, `NoCallOrphaned` and
`ComposerHonest`.  None is inductive.  `OneSocket` says that at most one socket is
live, that it is the client's, and that `state` tells what it does; with it, and
with `SentOnSocket`, a second `connect()` finds either nothing to do or no call to
orphan.  `ResolvedIsOpen` is what makes a coroutine that goes on after `connect()`
right to believe it.  `TriesAgain` strengthens `NeverStranded` to the states
between; `LinkHonest` ties the grace timer to the state; `BootFirst` keeps the loop
and the requests out of the boot.  `SocketsLeft` is about the model alone: a new
socket costs a fault, so one is always left.

**PromptSubmit_proofs** proves `TypeOK`, `StopStops`, `SentOnce`, `NotStuck` and the
action property `QueueKeeps`.  `StopStops` needs `StopLast`: while no submit is current, the
interrupt is the last message on its way, so that no `prompt.submit` can follow it;
and `NoSession`, because a stop before the session exists sends no interrupt.
`QueueKeeps` needs that what `runDrain` is told is true (`SubOK`) at the moment it
removes an entry, which in turn needs that an `ok` on the socket belongs to a prompt
the server accepted (`OkIsTrue`).

`SentOnce` and `NotStuck` need a second invariant, `JInv`, about what connects the
two ends.  `Wire`: a submit that waits has one call or one answer on its way, never
both, and whatever tells the client that a turn runs is followed by the `idle` that
ends it (`EndComes`).  `RanOK` says where an accepted prompt can be: its `ok` is on its
way, or the submit knows, or the submit was outdated (`late`).  So when the server
takes a call of a prompt that ran already, the prompt is queued and late, which
is `SentOnce`.  `DrainOK` and `QueueOK` say that the lock is held exactly while one
submit rides on it and that an entry is in the queue once.  `View` says who will
make the chat free: `busy` without a staged frame comes from `cached` or from the
submit that creates the session, and `cached` from the newest submit or from a turn
whose `idle` is to come.  The one place where nothing else goes on is the creation
of the session (`Alone`), which is why a failed creation may clear `busy` alone.

**SessionSwitch_proofs** proves `TypeOK`, `ScreenIsSelected`, `ActiveIsSelected` and
`PromptStays`.  A wrong chat comes from far: a runtime is kept for a chat in the
map of the session cache, in a resume, in those outdated at their last await, in a
removal and in every submit, and a transcript in the screen and in two snapshots.
`Served` says of each place that its runtime is that chat's, as long as no step
recorded as *map*, *recover* or *restore* was taken; `Shown` and `Aimed` say the same of
the transcripts and of the prompts' runtimes as long as none of the six was.
A new runtime belongs to no chat (`Unused`), so no place can keep it for another.  The step
recorded as *snapshot* was missing from the model until this proof asked for it
(section 3).

**CronScheduler_proofs** proves `TypeOK`, `FiresOnce`, `StatusTruth` and the action
property `NoneSkipped`.  `FiresOnce` is far from inductive.  `OnceEach(j)` says of a
job that met no race why it holds: the row shows an occurrence that was enqueued only
until the tick that enqueued it has saved it; no tick still to fire holds an enqueued
occurrence, and no two hold the same one; and a tick whose snapshot is current computes
the next run from a clock behind which everything enqueued lies.  It needs `SyncOK`
(what a publication read and nobody wrote is what the row says), `Bounds` (what is
enqueued was due; a trigger's timestamp is new) and `TickOK`.  `StatusTruth` and
`NoneSkipped` follow from `Current`, which relates every current snapshot to the row
and every tick that is saving to the turn it enqueued, or to a job that is `unheard`; `NextRunsStay` shows that
only `Save` and `SyncWrite` move a cursor without a move of a user or an agent.

**MessageStream_proofs** proves `TypeOK`, `NoMixedRows` and `NoSpinnerLeft` from one
invariant, `IInv`; the action property `StoppedFrozen` with two more, `ShapeOK` and
`MutedOK`; and `ScreenIsHistory` with a fourth, `Hist`.
Nothing in the client tells the text of one turn from another's: a row stays clean only because of what comes before what.  `Bounded(fs, r, i, T)` says
it of a row with text of the turns in `T` that is open at place `i` of the frames: a
`complete` or `error` frame closes it before the turn is reported over and before
another turn writes, and if no such frame is on its way, its turn still runs and
will send one.  `OpenersOK` says it of every frame that opens a row, `LiveOK` of the
row of the stream together with the text that waits for the timer (`LiveText`, of at
most one turn).  A stopped turn is the hard case: its late text may still wait in
`deltas` when the chat has no stream, so `LiveOK` speaks of either.  `ClientOK` says that
only the row of the stream is pending and that its id is its own; it needs that an
interrupted chat has no stream, because a completion that arrives then leaves the
rows alone.  `BusyOK` says that a busy chat, and a start frame, has a turn ahead of it
that ends.  So in a quiet chat nothing is busy, no row is open and, since the screen
shows a pending row only if the chat has one (`ScreenOK`), no spinner is left.  The
lemmas about `Transcript` say of each function which rows it changes; those about
`Bounded`, that it survives a frame received and frames sent.  The proof assumes only
that the constants are natural numbers (`StreamAssumption`).

The action property `StoppedFrozen` says that a muted chat keeps its text.  `MutedOK`
makes it one about interrupted chats: while a chat is muted it is interrupted, no prompt
is in the inbox and no start frame on its way, so that nothing but the user clears
`interrupted` (`StaysInterrupted`); the server ends the turn and starts no other.  The
rest is `ShapeOK`: the screen
shows the rows of the chat and behind them only *lost* rows, those that
`preserveLocalAssistantErrors` keeps because no row of the chat has their id (`Shows`);
no row on the screen has an id the chat has not given out; and an interrupted chat is
not busy, so that it cannot be stopped twice.  Every step but a load of the saved
transcript leaves an interrupted chat with the rows it has, or adds one mark of a
failure without text and with a new id (`Frozen`).  `KeptSame` says that painting the
same rows again changes nothing: a lost row stays lost and is calm already.
`MarkedTexts` says that a mark moves the lost rows one place down and leaves the text
as it is; it needs `ShapeOK`'s ids, since a row with the id of the mark would be lost no
longer and would go.

`ScreenIsHistory` compares rows the client built one by one with the whole transcript of
the server.  `Past(msgs, st, b)` is the relation that makes it inductive: the rows of the
turns `st` have places among the first `b` rows of the chat, in their order, of the same
role and turn; every other row shows nothing or is a failed prompt or its mark; and
nothing but empty rows lies between a question and its answer.  It survives a row written
behind it (`PastMore`), a finished turn (`PastTurn`), a cut at a prompt (`PastCut`), the
painting (`PastShown`) and a saved transcript put in place of the rows with the failed
prompts behind it (`HydratedPast`); and where it holds of the whole screen, the dialogue
is the transcript (`DialogueIs`).  `Hist` says which transcript is in the chat at each
moment, as a disjunction over the life of a turn, as long as nothing was stopped, crossed
or unread:

| Phase | The turn | The chat |
|---|---|---|
| `Rest` | none; at most the report of its end is on the way | `Past` of all stored turns; a load not outdated has read exactly these |
| `Sent` | in the inbox | `Past` of `History` (the transcript after the cut), its question behind it |
| `Running` | writes | `Past` of `stored`, then one open turn: its question and rows of its text only |
| `Completing`, `Failing` | stored or lost, last frames on the way | the same, of the transcript without the turn |
| `Silencing`, `Silence` | stored, ended without an answer | its question alone; the load started by the end, or by its report still on the way, brings the answer, or fails and sets `unread` |

`Doomed` is the rest: a load or a report of a silent end that a newer turn has overtaken,
so that it can only be dropped or set `crossed`.  It is why `Hist` need not describe
chats whose transcript a late load will overwrite; no quiet chat is doomed
(`QuietRest`).  The proof has a lemma for each phase (`RestStep`, `SilenceStep`,
`SentStep`, ...: every step of a phase leads to a phase, to `Doomed`, crosses, or loses a load), which
`HistNext` puts together.  Two facts are needed beside the phases: `Known`, that no two
prompts of the chat ask the same turn, so that counting them finds the right place to
cut, and `ReadsGrow`, that only a load's own steps drop it.  While this invariant was looked for, the model was
found wrong in one point: a submitted prompt carried the length of the history of the
moment it was sent, as if it cut, and now carries none.

TLC checked the invariants as invariants before they were proved.

**Only model-checked**: the liveness properties (`StaleEntryDropped`,
`HandlersEnd`, `CapacityReclaimed`, `TurnsSettle`, `BackOnline`, `CallsEnd`,
`SubmitEnds`, `BusyEnds`, `DueFires`, `UsurpedStepsDown`), since fairness and ENABLED are
out of the prover's reach.  Every invariant and every action property that a run checks
is proved.

**Proved and in no run**, because a run of their own would add little: `TypeOK` and
`AttachSafe` of `TenantRegistry`, `TypeOK` and `SomebodyWins` of `SqliteLeaseStore`;
`AttachSafe` and `SomebodyWins` were model-checked before.

## 6. Abstractions

* The runtime row is always found: every producer resolved it and nothing deletes
  it.  The phase cache, the `.env` refresh (and the `env_updated` nudge), published
  events, session pruning and home contents do not influence the modelled state.
* Clocks and TTLs are not counted in the registry.  A lease expires when nobody
  heartbeats it, and with `expire` at any time, which stands for a worker paused
  or an attach that takes more than 90 s.  An idle tenant may be reaped at any
  tick at which it has no run.
* `heartbeat_lease` (GET, EXPIRE) is one step, since TTLs are not counted;
  `release_lease` (GET, DEL) is two.  `lookup_tenant_holder` (two GETs) and the
  XADD after it are one step in `RouteTurn` and `HandOff`, and separate in `stop`,
  where the difference matters.
* The final `self.register()` of a detach belongs to the step of its release.
* Attach messages of a worker are handled one by one (`ItsTurn`); that they are
  read four at a time is covered by letting a handler wait at `lock`.
* A turn is a name: its text matters only when empty (`EmptyTurns`), its source
  only when it is answered through a channel (`ChannelTurns`).  Turns without
  tenant are refused before they touch any of this.
* Redis streams are bags of unread entries: XADD never drops an entry (the
  maximum length of 50 000 is not reached) and order within a stream is free.
* Redis failures: `raise` covers the database, the sidecar and the heartbeat of
  the maintenance tick; other Redis calls succeed.  Of the database calls, `mark_job` of
  a dropped or empty turn (`runner.py:123`, 138), the row read in `ensure_attached`
  (`tenants.py:168`) and the `.env` refresh (163) do not raise.  The in-process fallback of
  `infra/redis.py`, used without Redis, is not modelled.
* On SIGTERM all tasks are cancelled in one step; a thread started by
  `asyncio.to_thread` before it counts as finished or not begun.
* Web client: a coroutine that awaits something already settled
  (`isByokWithoutSelectedModel` with a cached answer, a `connect()` that resolved)
  goes on before the next event.  In `MessageStream` and `SessionSwitch` a frame is
  painted in the step that changes the state; in `PromptSubmit`, where the delay
  matters, it is not.
* A `message.delta` is text of its turn, whatever it says; reasoning and text are
  not told apart; a tool row is a row with a flag.  Frames of other runtimes are
  not modelled, nor is `session.info` with running TRUE.
* A load of the saved transcript may give up before any read, whatever is stored; the
  model does not count its 3 or 8 retries.  A completion whose text is itself an error
  (`completionError`, `use-message-stream.ts:535`) is left out: only the `error` frame
  makes an error row.  A saved row never has the id of a local error row, so the merge of
  the error into a row of the same id (`chat-messages.ts:835-851`) does not arise; row ids,
  which the code makes from `Date.now()`, are unique.  The server refuses a cut at or
  behind the end of its history, as the comment at `use-prompt-actions.ts:1432` has it.
* Attachments are one await with an outcome.  The retry deadline of 6 s is a number
  of calls.  The drain effect runs when `busy` changes, and the queue is that of one
  chat.
* `GatewayClient`: no request is made before the boot is over (`Call`): `requestGateway`
  itself does not ask, but the composer is disabled until then and the boot's own requests
  follow its connect.  A `new WebSocket` that throws (`json-rpc-gateway.ts:99`, a malformed
  URL) is left out.
* `PromptSubmit`: a model is selected; without one `submitPromptText` returns false before
  it changes anything (475-484).
* The reconnect loop's backoff is "some time later", `close()` is called only when
  the window is closed and is left out, and there is one gateway profile.
* `SessionSwitch`: refs and the state they mirror are one variable; usage, working
  directory, model and yolo calls are awaits without effect on the rest; a removed
  chat is gone from the server when the call succeeded.  A resume that finds no such chat
  at all ends where it is, without the move to the not-found page
  (`use-session-actions.ts:805`); after a reconnect the chat is resumed by `Rebind` only,
  not a second time by the route effect (`use-route-resume.ts:108`).
* `CronScheduler`: one agent's rows.  A job that was deleted is not created again
  under the same id.  Times are numbers; the timestamp one second ago that a trigger
  writes is a negative number, a new one each time.  A one-shot or a cron expression is
  the set of its times.  Each SQL statement is a step, and so is `enqueue_turn`, which
  posts the turn or raises.  Processes of the scheduler restart under their old name.
* In the lease store there is one key.  An INSERT may raise (`InsertFails`), which the code
  takes for a refusal; an error of another statement is an attempt that stops, which
  safety allows at any point.

## 7. What is not modelled

`PROJECT.json` lists every component with its status.  Not modelled because
their behaviour is elsewhere: the Docker and Kubernetes backends, inference,
Composio and Tavus calls.  Not modelled because there is little state to
interleave: accounts and sessions, CRUD of the control plane, routes, metrics,
the rest of the UI, desktop shell, landing page.  These make up most of the lines of
the repository (translations, settings pages, React components).  Of the modelled
parts: in the web client slash commands, edit and regenerate of a message, branches,
archives, the sockets of background profiles, approvals and subagents; in the pool
the wait of `start` for a holder and the rows `save_runtime` writes, webhooks
in `worker/runner.py`, and the Redis lease store; in the scheduler the loops
other than cron's, rows whose schedule cannot be parsed, the limit of 50 rows a tick,
delivery, and the `jobs.json` that a result rewrites.  Two things the model contains but
no run states: that the capacity bound can be exceeded by concurrent attaches,
and that a leaked `active_runs` (`RunStartRaises`) pins a tenant for ever.

## 8. Plan

In the order of importance:

1. Rewinds in `PromptSubmit` (edit, restore, regenerate: a busy retry that a stop
   does not end), and background runtimes in `MessageStream`.
2. `TenantHome` on top of `TenantRegistry`: versions of a home on each worker, in
   the store and in `.sync` staging; does a re-attach lose work?  Abstract
   specification: one register per tenant.
3. `WakeLifecycle` over `StartLease`, and a `RedisLeaseStore` as a second candidate
   implementation of it.
4. `AgentSync` with the desktop's merge, `DashboardReadCache`, the delivery list.
