---------------------------- MODULE SessionSwitch ----------------------------
(***************************************************************************)
(* Moving between chats in the web client: the route effect                *)
(* (use-route-resume.ts), the resume, the new draft, the session made for  *)
(* a first prompt and the removal of a chat (use-session-actions.ts), the  *)
(* submit with its recovery (use-prompt-actions.ts), and the two maps of   *)
(* the window's cache (use-session-state-cache.ts).  A stored chat is      *)
(* reached through a runtime session of the agent server; the server       *)
(* mints them and forgets all of them when it restarts.  A ref and the     *)
(* state it mirrors are one variable, and a frame is painted at once.      *)
(***************************************************************************)
EXTENDS Naturals, FiniteSets

CONSTANTS Chats,     \* chats stored before
          Listed,    \* those in the sidebar; the others are looked up
          Fresh,     \* ids of chats still to be made
          Prompts,
          None,      \* no chat: a draft
          MaxMoves,  \* opens, drafts, stops, removals and server restarts
          Faults     \* what may happen: restart, fetch, create, resume, delete

ASSUME SessionAssumption ==
    /\ Listed \subseteq Chats /\ Chats \cap Fresh = {} /\ None \notin Chats \cup Fresh
    /\ IsFiniteSet(Prompts) /\ IsFiniteSet(Fresh) /\ MaxMoves \in Nat
    /\ Faults \subseteq {"restart", "fetch", "create", "resume", "delete"}

VARIABLES
    route,      \* the chat of the URL
    selected,   \* selectedStoredSessionId
    active,     \* activeSessionId: a runtime, or 0
    screen,     \* the chat whose transcript is shown
    busy,       \* $busy and busyRef
    creating,   \* creatingSessionRef
    listed,     \* the chats of $sessions
    runtimeOf,  \* runtimeIdByStoredSessionId
    cached,     \* the runtimes whose cached transcript has rows
    resume,     \* the newest resume; an older one can only run out
    late,       \* older resumes at their last await: chat and runtime
    submit,     \* the submit of each prompt
    removing,   \* removeSession
    stopping,   \* cancelRun waits for the reply to its interrupt
    of, live,   \* server: the chat of each runtime; those it knows
    turns,      \* server: the runtimes that run a turn
    lost,       \* the server restarted: no, yes, or the client rebound since
    moves,
    crossed     \* history: the steps that mixed up two chats

view   == <<route, selected, active, screen, busy, creating>>
store  == <<listed, runtimeOf, cached>>
work   == <<resume, late, submit, removing, stopping>>
server == <<of, live, turns, lost>>
vars   == <<view, store, work, server, moves, crossed>>

Stored   == Chats \cup Fresh
(* More than a run can mint: every resume takes a move, a prompt, the      *)
(* rebind or the failed removal                                            *)
Runtimes == 1..(MaxMoves + Cardinality(Prompts) + Cardinality(Fresh) + 3)

NoResume == [pc |-> "done", chat |-> None, switching |-> FALSE, cleared |-> FALSE,
             hydrated |-> FALSE, snap |-> None, rt |-> 0]
NoSubmit == [pc |-> "idle", typed |-> None, sid |-> 0, fits |-> TRUE,
             from |-> <<None, 0, None>>, again |-> FALSE, landed |-> None]
NoRemoval == [pc |-> "none", chat |-> None, rt |-> 0, snap |-> None]

(* A reloaded window on the draft; the server may still have a runtime     *)
(* from before, and run a turn on it                                       *)
Init ==
    /\ route = None /\ selected = None /\ active = 0 /\ screen = None
    /\ busy = FALSE /\ creating = FALSE
    /\ listed = Listed /\ runtimeOf = [c \in Stored |-> 0] /\ cached = {}
    /\ resume = NoResume /\ late = {}
    /\ submit = [p \in Prompts |-> NoSubmit]
    /\ removing = NoRemoval /\ stopping = 0
    /\ \E c \in Chats \cup {None} :
         of = [r \in Runtimes |-> IF r = 1 THEN c ELSE None]
    /\ live = {r \in Runtimes : of[r] # None} /\ turns \in SUBSET live /\ lost = "no"
    /\ moves = 0 /\ crossed = {}

Fault(f) == f \in Faults

(* A coroutine that only awaits what is settled runs before the next event *)
Calm == /\ resume.pc = "resolve" => resume.chat \notin listed
        /\ \A p \in Prompts : submit[p].pc = "recover" => resume.pc # "done"

Move == Calm /\ moves < MaxMoves /\ moves' = moves + 1

Cross(kind, bad) == crossed' = IF bad THEN crossed \cup {kind} ELSE crossed

-----------------------------------------------------------------------------
(* A new resume outdates the one before: a submit that waits for that one  *)
(* goes on when it has run out                                             *)
Begun(c, switching) ==
    /\ resume' = [NoResume EXCEPT !.pc = "resolve", !.chat = c, !.switching = switching]
    /\ late' = IF resume.pc = "yolo" THEN late \cup {<<resume.chat, resume.rt>>} ELSE late

Adrift == [p \in Prompts |-> IF submit[p].pc = "recover"
                             THEN [submit[p] EXCEPT !.pc = "adrift"] ELSE submit[p]]

(* resumeSession up to its first await                                     *)
BeginResume(c) ==
    /\ Begun(c, selected # c) /\ submit' = Adrift
    /\ selected' = c
    /\ IF selected = c THEN UNCHANGED <<active, screen, busy>>
       ELSE active' = 0 /\ screen' = None /\ busy' = TRUE

(* The route effect selects the chat itself, so that its resume finds      *)
(* nothing to switch and leaves busy alone                                 *)
RouteResume(c) ==
    /\ Begun(c, FALSE) /\ submit' = Adrift
    /\ selected' = c /\ UNCHANGED busy
    /\ IF selected = c THEN UNCHANGED <<active, screen>> ELSE active' = 0 /\ screen' = None

(* isCurrentResume, of the newest resume                                   *)
Current == selected = resume.chat

Go(pc) == resume' = IF pc = "done" THEN NoResume ELSE [resume EXCEPT !.pc = pc]

Known(c) == (c \in Chats \/ \E r \in Runtimes : of[r] = c) /\ removing.chat # c

(* A click in the sidebar: the effect skips a route that changes while a   *)
(* session is being created, and one whose runtime is already active       *)
OpenChat(c) ==
    /\ Move /\ Known(c)
    /\ route' = c
    /\ IF route = c /\ selected = c /\ screen = None THEN BeginResume(c)
       ELSE IF route = c \/ creating \/ (selected = c /\ active # 0 /\ runtimeOf[c] = active)
       THEN UNCHANGED <<selected, active, screen, busy, resume, late, submit>>
       ELSE RouteResume(c)
    /\ UNCHANGED <<creating, store, removing, stopping, server, crossed>>

(* Mutant: a draft that keeps the runtime of the chat before               *)
DraftKeepsRuntime == selected' = None /\ screen' = None /\ busy' = FALSE /\ UNCHANGED active

Draft == selected' = None /\ active' = 0 /\ screen' = None /\ busy' = FALSE

(* The session picker resumes without a route; on the draft's route the    *)
(* effect starts a new draft at once                                       *)
PickChat(c) ==
    /\ Move /\ Known(c)
    /\ IF route = None /\ ~creating THEN Begun(c, selected # c) /\ submit' = Adrift /\ Draft
       ELSE BeginResume(c)
    /\ UNCHANGED <<route, creating, store, removing, stopping, server, crossed>>

(* startFreshSessionDraft                                                  *)
NewDraft ==
    /\ Move /\ selected # None
    /\ route' = None /\ Draft
    /\ UNCHANGED <<creating, store, work, server, crossed>>

(* The route effect on the draft's route, when a creation held it back     *)
DraftEffect ==
    /\ Calm /\ route = None /\ ~creating /\ selected # None
    /\ Draft
    /\ UNCHANGED <<route, creating, store, work, server, moves, crossed>>

(* rebindActiveSession, after the reconnect                                *)
Rebind ==
    /\ Calm /\ lost = "yes"
    /\ lost' = "rebound"
    /\ IF selected = None
       THEN UNCHANGED <<runtimeOf, resume, late, submit, selected, active, screen, busy>>
       ELSE runtimeOf' = [runtimeOf EXCEPT ![selected] = 0] /\ BeginResume(selected)
    /\ UNCHANGED <<route, creating, listed, cached, removing, stopping,
                   of, live, turns, moves, crossed>>

(* The chat's row is found; the memory cache paints whatever is selected   *)
Resolve ==
    LET c == resume.chat
        r == runtimeOf[c]
        cleared == ~resume.switching /\ screen = None /\ active = 0
        painted == r # 0 /\ r \in cached IN
    /\ resume.pc = "resolve" /\ (c \in listed \/ Calm)
    /\ listed' = listed \cup {c}
    /\ screen' = IF painted THEN of[r] ELSE screen
    /\ IF painted /\ ~Current THEN Go("done")
       ELSE resume' = [resume EXCEPT !.pc = IF painted THEN "profile" ELSE "fetch",
                                     !.rt = IF painted THEN r ELSE 0,
                                     !.cleared = cleared,
                                     !.snap = IF ~painted /\ (resume.switching \/ cleared)
                                              THEN None ELSE screen']
    /\ Cross("paint", painted /\ ~Current)
    /\ UNCHANGED <<route, selected, active, busy, creating, runtimeOf, cached, late,
                   submit, removing, stopping, server, moves>>

(* Mutant: the transcript is painted without asking isCurrentResume        *)
FetchedAnyway ==
    LET first == resume.pc = "fetch" IN
    /\ Calm /\ resume.pc \in {"fetch", "refetch"}
    /\ \E ok \in IF Fault("fetch") THEN BOOLEAN ELSE {TRUE} :
         /\ screen' = IF ok THEN resume.chat ELSE screen
         /\ resume' = IF first /\ ~Current THEN NoResume
                      ELSE [resume EXCEPT !.pc = IF first THEN "profile" ELSE "resume",
                                          !.hydrated = ok /\ Current]
    /\ UNCHANGED <<route, selected, active, busy, creating, store, late, submit,
                   removing, stopping, server, moves, crossed>>

(* The saved transcript, before the gateway is awake or again after        *)
Fetch ==
    LET first == resume.pc = "fetch" IN
    /\ Calm /\ resume.pc \in {"fetch", "refetch"}
    /\ \E ok \in IF Fault("fetch") THEN BOOLEAN ELSE {TRUE} :
         /\ screen' = IF ok /\ Current THEN resume.chat ELSE screen
         /\ resume' = IF first /\ ~Current THEN NoResume
                      ELSE [resume EXCEPT !.pc = IF first THEN "profile" ELSE "resume",
                                          !.hydrated = ok /\ Current]
    /\ UNCHANGED <<route, selected, active, busy, creating, store, late, submit,
                   removing, stopping, server, moves, crossed>>

(* The part of a resume that asks for a new runtime                        *)
FullResume(h) ==
    /\ active' = 0 /\ busy' = TRUE
    /\ screen' = IF (resume.switching \/ resume.cleared) /\ ~h THEN None ELSE screen
    /\ resume' = [resume EXCEPT !.pc = IF h THEN "resume" ELSE "refetch", !.rt = 0]

(* ensureGatewayProfile                                                    *)
Profile ==
    /\ Calm /\ resume.pc = "profile"
    /\ IF ~Current THEN Go("done") /\ UNCHANGED <<active, busy, screen>>
       ELSE IF resume.rt # 0
       THEN active' = resume.rt /\ Go("usage") /\ UNCHANGED <<busy, screen>>
       ELSE FullResume(resume.hydrated)
    /\ UNCHANGED <<route, selected, creating, store, late, submit, removing, stopping,
                   server, moves, crossed>>

(* session.usage on the cached runtime: the server knows it, or not        *)
Usage ==
    /\ Calm /\ resume.pc = "usage"
    /\ IF resume.rt \in live \/ ~Current
       THEN /\ Go("done")
            /\ busy' = (busy /\ ~Current)
            /\ UNCHANGED <<active, screen, runtimeOf, cached>>
       ELSE /\ runtimeOf' = [runtimeOf EXCEPT ![resume.chat] = 0]
            /\ cached' = cached \ {resume.rt}
            /\ FullResume(FALSE)
    /\ UNCHANGED <<route, selected, creating, listed, late, submit, removing, stopping,
                   server, moves, crossed>>

(* The id the server mints next                                            *)
Unused == {r \in Runtimes : of[r] = None /\ \A q \in Runtimes : of[q] = None => r <= q}

Gone(c) == removing.pc = "gone" /\ removing.chat = c

(* A runtime the server has, or a new one.  The rows on screen when the    *)
(* resume began go before its answer, unless the saved transcript was read *)
Answered ==
    LET c == resume.chat
        shown == IF ~resume.hydrated /\ resume.snap # None THEN resume.snap ELSE c IN
    \E r \in IF \E q \in live : of[q] = c THEN {q \in live : of[q] = c} ELSE Unused :
       /\ of' = [of EXCEPT ![r] = c] /\ live' = live \cup {r}
       /\ active' = r /\ screen' = shown
       /\ resume' = [resume EXCEPT !.pc = "yolo", !.rt = r]
       /\ Cross("snapshot", shown # c)

(* Mutant: the answer to an outdated resume is taken                       *)
ResumedAnyway ==
    /\ Calm /\ resume.pc = "resume" /\ ~Gone(resume.chat)
    /\ Answered
    /\ UNCHANGED <<route, selected, busy, creating, store, late, submit, removing,
                   stopping, turns, lost, moves>>

(* session.resume is answered                                              *)
Resumed ==
    /\ Calm /\ resume.pc = "resume" /\ ~Gone(resume.chat)
    /\ IF Current THEN Answered ELSE Go("done") /\ UNCHANGED <<active, screen, of, live, crossed>>
    /\ UNCHANGED <<route, selected, busy, creating, store, late, submit, removing,
                   stopping, turns, lost, moves>>

(* ... or fails, and the saved transcript is read                          *)
ResumeFails ==
    /\ Calm /\ resume.pc = "resume" /\ (Fault("resume") \/ Gone(resume.chat))
    /\ Go(IF Current THEN "fallback" ELSE "done")
    /\ UNCHANGED <<view, store, late, submit, removing, stopping, server, moves, crossed>>

Fallback ==
    /\ Calm /\ resume.pc = "fallback"
    /\ Go("done")
    /\ busy' = (busy /\ ~Current)
    /\ \E ok \in IF Fault("fetch") THEN BOOLEAN ELSE {TRUE} :
         screen' = IF ok /\ Current THEN resume.chat ELSE screen
    /\ UNCHANGED <<route, selected, active, creating, store, late, submit, removing,
                   stopping, server, moves, crossed>>

(* Mutant: neither the cached state nor the finally block frees the view   *)
ResumeKeepsBusy(c, r) ==
    /\ Calm
    /\ \/ resume.pc = "yolo" /\ resume.chat = c /\ resume.rt = r
          /\ Go("done") /\ UNCHANGED late
          /\ UNCHANGED busy
       \/ <<c, r>> \in late
          /\ late' = late \ {<<c, r>>} /\ UNCHANGED resume
          /\ UNCHANGED busy
    /\ runtimeOf' = [runtimeOf EXCEPT ![c] = r] /\ cached' = cached \cup {r}
    /\ screen' = IF r = active THEN c ELSE screen
    /\ UNCHANGED <<route, selected, active, creating, listed, submit, removing,
                   stopping, server, moves, crossed>>

(* The new runtime enters the cache, also that of an outdated resume; the  *)
(* finally block                                                           *)
ResumeEnds(c, r) ==
    /\ Calm
    /\ \/ resume.pc = "yolo" /\ resume.chat = c /\ resume.rt = r
          /\ Go("done") /\ UNCHANGED late
          /\ busy' = (busy /\ ~Current /\ r # active)
       \/ <<c, r>> \in late
          /\ late' = late \ {<<c, r>>} /\ UNCHANGED resume
          /\ busy' = (busy /\ r # active)
    /\ runtimeOf' = [runtimeOf EXCEPT ![c] = r] /\ cached' = cached \cup {r}
    /\ screen' = IF r = active THEN c ELSE screen
    /\ UNCHANGED <<route, selected, active, creating, listed, submit, removing,
                   stopping, server, moves, crossed>>

-----------------------------------------------------------------------------
(* No later submit or Stop has raised submitEpochRef since                 *)
Fits(p) == submit[p].fits

Outdated == [p \in Prompts |-> IF submit[p].pc \in {"idle", "done", "failed", "dropped"}
                               THEN submit[p] ELSE [submit[p] EXCEPT !.fits = FALSE]]

To(p, pc) == [submit EXCEPT ![p].pc = pc]

Over(p, pc) == [submit EXCEPT ![p] = [NoSubmit EXCEPT !.pc = pc]]

(* ensureSessionState with the chat selected at the moment: its cached     *)
(* runtime becomes r, whatever chat r serves                               *)
Bound(r) == IF selected = None THEN runtimeOf ELSE [runtimeOf EXCEPT ![selected] = r]

Mapped(r) == selected # None /\ of[r] # selected

(* seedOptimistic                                                          *)
Seed(r) ==
    /\ runtimeOf' = Bound(r) /\ Cross("map", Mapped(r))
    /\ cached' = cached \cup {r}
    /\ IF r = active THEN busy' = TRUE /\ screen' = of[r] ELSE UNCHANGED <<busy, screen>>

(* dropOptimistic                                                          *)
Unseed(r) ==
    /\ runtimeOf' = Bound(r) /\ Cross("map", Mapped(r))
    /\ cached' = IF of[r] \in Fresh /\ \A p \in Prompts : submit[p].landed # of[r]
                 THEN cached \ {r} ELSE cached
    /\ busy' = (busy /\ r # active)
    /\ UNCHANGED screen

(* The error branches: the view is freed whatever it shows                 *)
FailSubmit(p) ==
    /\ submit' = Over(p, "failed") /\ busy' = FALSE
    /\ UNCHANGED <<screen, runtimeOf, cached, crossed>>

Unchanged == UNCHANGED <<busy, screen, runtimeOf, cached, crossed>>

(* An outdated submit takes its row back, but not after its recovery       *)
Dropped(p) ==
    /\ submit' = Over(p, "dropped")
    /\ IF submit[p].again THEN Unchanged ELSE Unseed(submit[p].sid)

(* submitPromptText up to its first await; the composer is shown unless    *)
(* the chat is loading.  Without a runtime a session is created, although  *)
(* a chat may be selected                                                  *)
Submit(p) ==
    /\ Calm /\ submit[p].pc = "idle" /\ ~busy
    /\ route = None \/ screen # None \/ active # 0
    /\ LET s == [submit[p] EXCEPT !.typed = selected, !.sid = active] IN
       IF active # 0
       THEN /\ submit' = [Outdated EXCEPT ![p] = [s EXCEPT !.pc = "sync"]]
            /\ Seed(active) /\ UNCHANGED creating
       ELSE /\ submit' = [Outdated EXCEPT ![p] = [s EXCEPT !.pc = "create",
                                                        !.from = <<selected, active, route>>]]
            /\ creating' = TRUE /\ busy' = TRUE
            /\ Cross("create", selected # None)
            /\ UNCHANGED <<screen, runtimeOf, cached>>
    /\ UNCHANGED <<route, selected, active, listed, resume, late, removing, stopping,
                   server, moves>>

Moved(p) == <<selected, active, route>> # submit[p].from

(* session.create is answered: the window may have moved on                *)
Created(p) ==
    /\ Calm /\ submit[p].pc = "create"
    /\ \E c \in Fresh, r \in Unused :
         /\ \A q \in Runtimes : of[q] # c
         /\ of' = [of EXCEPT ![r] = c] /\ live' = live \cup {r}
         /\ IF Moved(p)
            THEN submit' = [submit EXCEPT ![p].pc = "close", ![p].sid = r]
                 /\ UNCHANGED <<route, selected, active, runtimeOf, listed>>
            ELSE /\ submit' = [submit EXCEPT ![p].pc = "yolo", ![p].sid = r,
                                           ![p].typed = IF @ = None THEN c ELSE @]
                 /\ route' = c /\ selected' = c /\ active' = r
                 /\ runtimeOf' = [runtimeOf EXCEPT ![c] = r]
                 /\ listed' = listed \cup {c}
    /\ UNCHANGED <<screen, busy, creating, cached, resume, late, removing, stopping,
                   turns, lost, moves, crossed>>

(* Mutant: a creation that fails is never over                             *)
CreationKept(p) ==
    /\ Calm
    /\ \/ submit[p].pc = "create" /\ Fault("create") /\ UNCHANGED live
       \/ submit[p].pc = "close" /\ live' = live \ {submit[p].sid}
    /\ UNCHANGED creating
    /\ submit' = Over(p, "failed") /\ busy' = (busy /\ ~Fits(p))
    /\ UNCHANGED <<route, selected, active, screen, store, resume, late, removing,
                   stopping, of, turns, lost, moves, crossed>>

(* ... or fails, or its session is closed again                            *)
NotCreated(p) ==
    /\ Calm
    /\ \/ submit[p].pc = "create" /\ Fault("create") /\ UNCHANGED live
       \/ submit[p].pc = "close" /\ live' = live \ {submit[p].sid}
    /\ creating' = FALSE
    /\ submit' = Over(p, "failed") /\ busy' = (busy /\ ~Fits(p))
    /\ UNCHANGED <<route, selected, active, screen, store, resume, late, removing,
                   stopping, of, turns, lost, moves, crossed>>

(* The new session is set up: its runtime is bound to the selected chat    *)
SetUp(p) ==
    /\ Calm /\ submit[p].pc = "yolo"
    /\ creating' = FALSE
    /\ IF Fits(p) THEN submit' = To(p, "sync") /\ Seed(submit[p].sid) ELSE Dropped(p)
    /\ UNCHANGED <<route, selected, active, listed, resume, late, removing, stopping,
                   server, moves>>

(* The attachments are uploaded                                            *)
Synced(p) ==
    /\ Calm /\ submit[p].pc = "sync"
    /\ IF Fits(p) THEN submit' = To(p, "send") /\ Unchanged
       ELSE Dropped(p)
    /\ UNCHANGED <<route, selected, active, creating, listed, resume, late, removing,
                   stopping, server, moves>>

(* prompt.submit is accepted                                               *)
Accepted(p) ==
    LET r == submit[p].sid IN
    /\ Calm /\ submit[p].pc = "send" /\ r \in live \ turns
    /\ turns' = turns \cup {r}
    /\ submit' = [submit EXCEPT ![p] = [NoSubmit EXCEPT !.pc = "done",
                                           !.typed = submit[p].typed, !.landed = of[r]]]
    /\ UNCHANGED <<view, store, resume, late, removing, stopping, of, live, lost,
                   moves, crossed>>

(* ... or the session is busy: the call is tried again for a while         *)
Refused(p) ==
    /\ Calm /\ submit[p].pc = "send" /\ submit[p].sid \in live \cap turns
    /\ IF Fits(p) THEN submit' = To(p, "wait") /\ Unchanged ELSE Dropped(p)
    /\ UNCHANGED <<route, selected, active, creating, listed, resume, late, removing,
                   stopping, server, moves>>

Waited(p) ==
    /\ Calm /\ submit[p].pc = "wait"
    /\ IF ~Fits(p) THEN Dropped(p)
       ELSE \/ submit' = To(p, "send") /\ Unchanged
            \/ FailSubmit(p)
    /\ UNCHANGED <<route, selected, active, creating, listed, resume, late, removing,
                   stopping, server, moves>>

(* ... or the runtime is unknown: the chat selected by now is resumed      *)
NotFound(p) ==
    /\ Calm /\ submit[p].pc = "send" /\ submit[p].sid \notin live
    /\ IF ~Fits(p)
       THEN Dropped(p) /\ UNCHANGED <<selected, active, resume, late>>
       ELSE IF selected = None \/ submit[p].again
       THEN FailSubmit(p) /\ UNCHANGED <<selected, active, resume, late>>
       ELSE /\ Begun(selected, FALSE)
            /\ submit' = [Adrift EXCEPT ![p].pc = "recover"]
            /\ UNCHANGED <<selected, active, screen, busy>>
            /\ UNCHANGED <<runtimeOf, cached, crossed>>
    /\ UNCHANGED <<route, creating, listed, removing, stopping, server, moves>>

(* ... and the call is made on the runtime that is active then             *)
Recovered(p) ==
    /\ (submit[p].pc = "recover" /\ resume.pc = "done") \/ (submit[p].pc = "adrift" /\ Calm)
    /\ IF active = 0
       THEN IF Fits(p) THEN FailSubmit(p)
            ELSE submit' = Over(p, "dropped") /\ Unchanged
       ELSE IF ~Fits(p) THEN Dropped(p)
       ELSE /\ submit' = [submit EXCEPT ![p].pc = "send", ![p].sid = active, ![p].again = TRUE]
            /\ runtimeOf' = Bound(active) /\ cached' = cached \cup {active}
            /\ Cross("recover", of[active] # of[submit[p].sid] \/ Mapped(active))
            /\ busy' = TRUE /\ screen' = of[active]
    /\ UNCHANGED <<route, selected, active, creating, listed, resume, late, removing,
                   stopping, server, moves>>

-----------------------------------------------------------------------------
(* cancelRun: every submit in flight is outdated                           *)
Stop ==
    /\ Move /\ busy /\ stopping = 0
    /\ submit' = Outdated
    /\ busy' = FALSE /\ stopping' = active
    /\ UNCHANGED <<route, selected, active, screen, creating, store, resume, late, removing,
                   server, crossed>>

(* The reply to the interrupt frees whatever view is shown by then         *)
Stopped ==
    /\ Calm /\ stopping # 0
    /\ stopping' = 0 /\ busy' = FALSE
    /\ UNCHANGED <<route, selected, active, screen, creating, store, resume, late,
                   submit, removing, server, moves, crossed>>

(* removeSession of the selected chat: a new draft at once                 *)
Remove ==
    /\ Move /\ selected # None /\ removing.pc = "none"
    /\ removing' = [pc |-> "delete", chat |-> selected, rt |-> active, snap |-> screen]
    /\ route' = None /\ Draft
    /\ UNCHANGED <<creating, store, resume, late, submit, stopping, server, crossed>>

Removed ==
    /\ Calm /\ removing.pc = "delete"
    /\ removing' = [removing EXCEPT !.pc = "gone"]
    /\ live' = live \ {removing.rt}
    /\ UNCHANGED <<view, store, resume, late, submit, stopping, of, turns, lost,
                   moves, crossed>>

(* The chat comes back, over whatever the user opened since                *)
NotRemoved ==
    LET c == removing.chat  r == removing.rt IN
    /\ Calm /\ removing.pc = "delete" /\ Fault("delete")
    /\ removing' = [NoRemoval EXCEPT !.pc = "kept"]
    /\ live' = live \ {r}
    /\ selected' = c /\ route' = c /\ screen' = removing.snap
    /\ active' = IF r # 0 THEN r ELSE active
    /\ IF creating \/ route = c \/ (active' # 0 /\ runtimeOf[c] = active')
       THEN UNCHANGED <<resume, late>> ELSE Begun(c, FALSE)
    /\ Cross("restore", selected # None \/ busy)
    /\ UNCHANGED <<busy, creating, store, submit, stopping, of, turns, lost, moves>>

(* The server forgets its runtimes and their turns                         *)
Restart ==
    /\ Move /\ Fault("restart") /\ lost = "no" /\ live # {}
    /\ lost' = "yes" /\ live' = {} /\ turns' = {}
    /\ UNCHANGED <<view, store, work, of, crossed>>

(* The event of a turn that ended                                          *)
TurnEnds(r) ==
    /\ Calm /\ r \in turns
    /\ turns' = turns \ {r}
    /\ cached' = cached \cup {r}
    /\ busy' = (busy /\ r # active) /\ screen' = IF r = active THEN of[r] ELSE screen
    /\ UNCHANGED <<route, selected, active, creating, listed, runtimeOf, work, of, live, lost,
                   moves, crossed>>

Resume ==
    \/ Resolve \/ Fetch \/ Profile \/ Usage \/ Resumed \/ ResumeFails \/ Fallback
    \/ \E c \in Stored, r \in Runtimes : ResumeEnds(c, r)

Send(p) ==
    \/ Created(p) \/ NotCreated(p) \/ SetUp(p) \/ Synced(p) \/ Accepted(p) \/ Refused(p)
    \/ Waited(p) \/ NotFound(p) \/ Recovered(p)

User == \/ \E c \in Stored : OpenChat(c) \/ PickChat(c)
        \/ NewDraft \/ Stop \/ Remove \/ \E p \in Prompts : Submit(p)

System == \/ Resume
          \/ \E p \in Prompts : Send(p)
          \/ Rebind \/ DraftEffect \/ Stopped \/ Removed \/ NotRemoved

Next == User \/ System \/ Restart \/ \E r \in Runtimes : TurnEnds(r)

(* Every await settles, every turn ends                                    *)
Fairness == WF_vars(System) /\ WF_vars(\E r \in Runtimes : TurnEnds(r))

Spec == Init /\ [][Next]_vars /\ Fairness

-----------------------------------------------------------------------------
(* The types of the variables; a creation is marked only while one goes on *)
TypeOK ==
    /\ {route, selected, screen} \subseteq Stored \cup {None}
    /\ active \in Runtimes \cup {0} /\ busy \in BOOLEAN /\ creating \in BOOLEAN
    /\ listed \subseteq Stored /\ cached \subseteq Runtimes
    /\ runtimeOf \in [Stored -> Runtimes \cup {0}]
    /\ resume \in [pc : {"resolve", "fetch", "profile", "usage", "refetch", "resume", "yolo",
                        "fallback", "done"},
                  chat : Stored \cup {None}, switching : BOOLEAN, cleared : BOOLEAN,
                  hydrated : BOOLEAN, snap : Stored \cup {None}, rt : Runtimes \cup {0}]
    /\ late \subseteq Stored \X Runtimes
    /\ \A p \in Prompts : submit[p].sid \in Runtimes \cup {0}
    /\ creating => \E p \in Prompts : submit[p].pc \in {"create", "close", "yolo"}
    /\ live \subseteq Runtimes /\ turns \subseteq Runtimes
    /\ crossed \subseteq {"paint", "snapshot", "map", "create", "recover", "restore"}

(* The transcript on screen is the selected chat's.  Six kinds of step are *)
(* set aside: an outdated resume that paints its memory cache (paint) or a *)
(* snapshot of another chat (snapshot), a runtime bound to another chat by *)
(* a submit (map), a prompt sent to a new session from a chat without a    *)
(* runtime (create), the recovery of an unknown runtime (recover) and a    *)
(* removal that fails (restore)                                            *)
ScreenIsSelected ==
    screen \in {None, selected} \/ crossed # {}

(* The active runtime serves the selected chat, so that what is typed goes *)
(* to the transcript it is typed under; set aside are a runtime bound to   *)
(* another chat (map), a recovery (recover) and a failed removal (restore) *)
ActiveIsSelected ==
    active # 0 => of[active] = selected \/ crossed \cap {"map", "recover", "restore"} # {}

(* A prompt runs in the chat it was typed in                               *)
PromptInItsChat == \A p \in Prompts : submit[p].landed \in {None, submit[p].typed}

(* ... unless one of the six kinds of step above mixed up two chats before *)
PromptStays == PromptInItsChat \/ crossed # {}

(* The view does not stay busy, unless a failed removal (restore) outdates *)
(* the resume that would have freed it                                     *)
BusyEnds == busy ~> ~busy \/ "restore" \in crossed
=============================================================================
