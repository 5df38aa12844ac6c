---------------------------- MODULE PromptSubmit ----------------------------
(***************************************************************************)
(* Submit, queue and stop of one chat of the web client:                   *)
(* use-prompt-actions.ts (submitPromptText, withSessionBusyRetry,          *)
(* cancelRun, steerPrompt), the queue of the composer (runDrain, the       *)
(* auto-drain effect, composer-queue.ts) and the view flag $busy that      *)
(* use-session-state-cache.ts copies from the cached session state once    *)
(* per animation frame.                                                    *)
(*                                                                         *)
(* The agent server is external: it runs one turn at a time, answers       *)
(* prompt.submit with ok, busy or an error, and ends every turn with       *)
(* message.complete and session.info running: FALSE, interrupted or not.   *)
(* Requests and frames travel in order on one socket.                      *)
(***************************************************************************)
EXTENDS Naturals, Sequences, SequencesExt

CONSTANTS Prompts,   \* what the user types
          None,
          MaxTries,  \* calls that fit in the deadline of the busy retry
          MaxStops   \* how often the user presses Stop

ASSUME SubmitAssumption == /\ None \notin Prompts
                           /\ MaxTries \in Nat \ {0} /\ MaxStops \in Nat

VARIABLES
    busy,      \* $busy and busyRef: what the view shows
    cached,    \* busy of the cached session state
    dirty,     \* a view update is staged for the next animation frame
    seen,      \* previousBusyRef of the auto-drain effect
    queue,     \* the queued prompts of this chat
    lock,      \* drainingQueueRef
    cur,       \* the submit that holds the newest submitEpoch, or None
    sub,       \* the progress of each prompt
    session,   \* the chat has a session on the server
    up, down,  \* the socket, both ways
    run, halt, \* the turn the server runs, and whether it was interrupted
    accepted,  \* prompts the server ran
    again,     \* prompts the server ran more than once
    late,      \* prompts whose acceptance came to an outdated submit
    stops      \* how often Stop was pressed

viewVars == <<busy, cached, dirty, seen>>
queueVars == <<queue, lock>>
serverVars == <<run, halt, accepted, again>>
vars == <<viewVars, queueVars, cur, sub, session, up, down, serverVars, late, stops>>

(* Where submitPromptText is: it creates the session, syncs the            *)
(* attachments, waits for the answer of prompt.submit, sleeps before the   *)
(* next try; a queued submit then returns to runDrain                      *)
Running == {"create", "sync", "wait", "sleep"}
PC == {"draft", "steer", "queued", "returning", "done"} \cup Running

Msg(type, p) == [type |-> type, p |-> p]

Init ==
    /\ busy = FALSE /\ cached = FALSE /\ dirty = FALSE /\ seen = FALSE
    /\ queue = <<>> /\ lock = FALSE /\ cur = None
    /\ sub = [p \in Prompts |->
                [pc |-> "draft", via |-> "user", tries |-> 0, ok |-> FALSE]]
    /\ session \in BOOLEAN
    /\ up = <<>> /\ down = <<>>
    /\ run = None /\ halt = FALSE /\ accepted = {} /\ again = {} /\ late = {}
    /\ stops = 0

-----------------------------------------------------------------------------
(* Effects and promise callbacks run before the next timer, frame or event *)
Calm == seen = busy /\ \A p \in Prompts : sub[p].pc # "returning"

(* Mutant: the view is not told                                            *)
CacheOnly(b) == cached' = b /\ UNCHANGED dirty

(* updateSessionState: the cache, and the view with the next frame         *)
Cache(b) == cached' = b /\ dirty' = TRUE

KeepCache == UNCHANGED <<cached, dirty>>

Goto(p, pc) == sub' = [sub EXCEPT ![p].pc = pc]

(* submitPromptText returns: to runDrain, or to nobody                     *)
End(p) == IF sub[p].via = "queue" THEN "returning" ELSE "done"

(* Mutant: a bare return, which runDrain takes for accepted                *)
ReturnBare(p, ok) == sub' = [sub EXCEPT ![p].ok = TRUE, ![p].pc = End(p)]

Return(p, ok) == sub' = [sub EXCEPT ![p].ok = ok, ![p].pc = End(p)]

(* Mutant: isCurrentSubmit is not asked                                    *)
CurrentAlways(p) == sub[p].pc # "done"

Current(p) == cur = p

(* The first part of submitPromptText, up to its first await               *)
Begin(p, via) ==
    /\ cur' = p /\ busy' = TRUE
    /\ IF session THEN Cache(TRUE) ELSE KeepCache
    /\ sub' = [sub EXCEPT ![p] = [pc |-> IF session THEN "sync" ELSE "create",
                                  via |-> via, tries |-> 0, ok |-> FALSE]]

(* The user sends a typed prompt                                           *)
Submit(p) ==
    /\ Calm /\ sub[p].pc = "draft" /\ ~busy
    /\ Begin(p, "user")
    /\ UNCHANGED <<seen, queueVars, session, up, down, serverVars, late, stops>>

(* createBackendSessionForSend                                             *)
Create(p) ==
    /\ Calm /\ sub[p].pc = "create"
    /\ session' = TRUE
    /\ IF Current(p) THEN Cache(TRUE) /\ Goto(p, "sync")
       ELSE Cache(FALSE) /\ Return(p, FALSE)
    /\ UNCHANGED <<busy, seen, queueVars, cur, up, down, serverVars, late, stops>>

CreateFails(p) ==
    /\ Calm /\ sub[p].pc = "create"
    /\ busy' = (busy /\ ~Current(p))
    /\ Return(p, FALSE)
    /\ UNCHANGED <<cached, dirty, seen, queueVars, cur, session, up, down,
                   serverVars, late, stops>>

(* One call of prompt.submit                                               *)
Send(p) ==
    /\ up' = Append(up, Msg("submit", p))
    /\ sub' = [sub EXCEPT ![p].pc = "wait", ![p].tries = @ + 1]

(* Mutant: the row is dropped and the loop goes on                         *)
DropOnly(p) == Cache(FALSE) /\ Goto(p, sub[p].pc) /\ UNCHANGED up

(* dropOptimistic, and the end of a submit that is no longer current       *)
Drop(p) == Cache(FALSE) /\ Return(p, FALSE) /\ UNCHANGED up

(* The attachments are on the server; the first try                        *)
Synced(p) ==
    /\ Calm /\ sub[p].pc = "sync"
    /\ IF Current(p) THEN Send(p) /\ KeepCache ELSE Drop(p)
    /\ UNCHANGED <<busy, seen, queueVars, cur, session, down, serverVars, late, stops>>

(* The catch block: the error shows in the chat, which is free again       *)
Fail(p) ==
    /\ Return(p, FALSE)
    /\ IF Current(p) THEN Cache(FALSE) /\ busy' = FALSE
       ELSE KeepCache /\ UNCHANGED busy

SyncFails(p) ==
    /\ Calm /\ sub[p].pc = "sync"
    /\ Fail(p)
    /\ UNCHANGED <<seen, queueVars, cur, session, up, down, serverVars, late, stops>>

(* The interval of withSessionBusyRetry is over                            *)
Wake(p) ==
    /\ Calm /\ sub[p].pc = "sleep"
    /\ IF Current(p) THEN Send(p) /\ KeepCache ELSE Drop(p)
    /\ UNCHANGED <<busy, seen, queueVars, cur, session, down, serverVars, late, stops>>

-----------------------------------------------------------------------------
(* The next frame of the socket                                            *)
Receive(type) ==
    /\ Calm /\ down # <<>> /\ Head(down).type = type
    /\ down' = Tail(down)
    /\ UNCHANGED <<seen, queueVars, cur, session, up, serverVars, stops>>

OnOk ==
    /\ Receive("ok")
    /\ LET p == Head(down).p
       IN  /\ Return(p, Current(p))
           /\ late' = IF Current(p) THEN late ELSE late \cup {p}
    /\ UNCHANGED <<busy, cached, dirty>>

(* Mutant: one more try                                                    *)
MayRetryLate(p) == Current(p) /\ sub[p].tries <= MaxTries

MayRetry(p) == Current(p) /\ sub[p].tries < MaxTries

(* The submit failed: outdated, its row is dropped; a queued prompt the    *)
(* server was too busy for only frees the view and stays queued            *)
GiveUp(p, wasBusy) ==
    \/ /\ ~Current(p)
       /\ Cache(FALSE) /\ Return(p, FALSE) /\ UNCHANGED busy
    \/ /\ Current(p) /\ wasBusy /\ sub[p].via = "queue"
       /\ Return(p, FALSE) /\ busy' = FALSE /\ KeepCache
    \/ /\ Current(p) /\ ~(wasBusy /\ sub[p].via = "queue")
       /\ Fail(p)

(* session busy: try again within the deadline                             *)
OnBusy ==
    /\ Receive("busy") /\ UNCHANGED late
    /\ LET p == Head(down).p
       IN  \/ MayRetry(p) /\ Goto(p, "sleep") /\ UNCHANGED <<busy, cached, dirty>>
           \/ ~MayRetry(p) /\ GiveUp(p, TRUE)

OnRefused ==
    /\ Receive("error") /\ UNCHANGED late
    /\ GiveUp(Head(down).p, FALSE)

(* The answer to session.interrupt: releaseBusy                            *)
OnStopped ==
    /\ Receive("stopped") /\ UNCHANGED late
    /\ busy' = FALSE
    /\ UNCHANGED <<cached, dirty, sub>>

(* message.start; a frame that only updates rows; the end of the turn      *)
OnStart == Receive("start") /\ Cache(TRUE) /\ UNCHANGED <<busy, sub, late>>

OnText == Receive("text") /\ Cache(cached) /\ UNCHANGED <<busy, sub, late>>

OnEnd == /\ Receive("complete") \/ Receive("idle")
         /\ Cache(FALSE) /\ UNCHANGED <<busy, sub, late>>

(* flushPendingViewState: the animation frame                              *)
ViewFlush ==
    /\ Calm /\ dirty
    /\ busy' = cached /\ dirty' = FALSE
    /\ UNCHANGED <<cached, seen, queueVars, cur, sub, session, up, down,
                   serverVars, late, stops>>

-----------------------------------------------------------------------------
(* runDrain: one drain at a time                                           *)
Drain(p) == ~lock /\ lock' = TRUE /\ Begin(p, "queue") /\ UNCHANGED queue

(* shouldAutoDrainOnSettle, when busy changed: the head goes out on the    *)
(* edge from busy to idle                                                  *)
Effect ==
    /\ seen # busy /\ seen' = busy
    /\ IF seen /\ queue # <<>> /\ ~lock
       THEN Drain(Head(queue))
       ELSE UNCHANGED <<busy, cached, dirty, queueVars, cur, sub>>
    /\ UNCHANGED <<session, up, down, serverVars, late, stops>>

Position(p) == CHOOSE i \in DOMAIN queue : queue[i] = p

(* Mutant: no entry has the id                                             *)
WithoutNone(p) == IF p = None THEN <<>> ELSE queue

Without(p) == IF p \in ToSet(queue) THEN RemoveAt(queue, Position(p)) ELSE queue

(* The end of runDrain: send, then remove                                  *)
EndDrain(p) ==
    /\ sub[p].pc = "returning"
    /\ lock' = FALSE
    /\ queue' = IF sub[p].ok THEN Without(p) ELSE queue
    /\ Goto(p, IF p \in ToSet(queue) /\ ~sub[p].ok THEN "queued" ELSE "done")
    /\ UNCHANGED <<viewVars, cur, session, up, down, serverVars, late, stops>>

(* Sending while busy queues the prompt                                    *)
Enqueue(p) ==
    /\ Calm /\ sub[p].pc = "draft" /\ busy
    /\ queue' = Append(queue, p) /\ Goto(p, "queued")
    /\ UNCHANGED <<viewVars, lock, cur, session, up, down, serverVars, late, stops>>

(* steerDraft: the words go to the live turn, with a note in the           *)
(* transcript, or into the queue when the server has no window for them    *)
Steer(p) ==
    /\ Calm /\ sub[p].pc = "draft" /\ busy
    /\ Goto(p, "steer")
    /\ UNCHANGED <<viewVars, queueVars, cur, session, up, down, serverVars, late, stops>>

Steered(p) ==
    /\ Calm /\ sub[p].pc = "steer"
    /\ \/ session /\ Goto(p, "done") /\ Cache(cached) /\ UNCHANGED queue
       \/ Goto(p, "queued") /\ KeepCache /\ queue' = Append(queue, p)
    /\ UNCHANGED <<busy, seen, lock, cur, session, up, down, serverVars, late, stops>>

(* Enter on an empty composer, and the arrow of an entry of an idle chat   *)
SendQueued(p) ==
    /\ Calm /\ ~busy /\ p \in ToSet(queue)
    /\ Drain(p)
    /\ UNCHANGED <<seen, session, up, down, serverVars, late, stops>>

Discard(p) ==
    /\ Calm /\ p \in ToSet(queue)
    /\ queue' = Without(p)
    /\ IF sub[p].pc = "queued" THEN Goto(p, "done") ELSE UNCHANGED sub
    /\ UNCHANGED <<viewVars, lock, cur, session, up, down, serverVars, late, stops>>

(* cancelRun: every submit in progress is outdated                         *)
Cancel ==
    /\ Calm /\ busy /\ stops < MaxStops
    /\ cur' = None /\ stops' = stops + 1
    /\ IF session
       THEN up' = Append(up, Msg("interrupt", None)) /\ Cache(FALSE) /\ UNCHANGED busy
       ELSE busy' = FALSE /\ KeepCache /\ UNCHANGED up
    /\ UNCHANGED <<seen, lock, sub, session, down, serverVars, late>>

Stop == Cancel /\ UNCHANGED queue

(* sendQueuedNow of a busy chat: the entry comes first, the turn stops     *)
SendNow(p) ==
    /\ p \in ToSet(queue)
    /\ Cancel
    /\ queue' = <<p>> \o Without(p)

-----------------------------------------------------------------------------
(* The agent server (external)                                             *)
Reply(ms) == down' = down \o ms /\ up' = Tail(up)

clientVars == <<viewVars, queueVars, cur, sub, session, late, stops>>

SrvSubmit ==
    /\ up # <<>> /\ Head(up).type = "submit"
    /\ LET p == Head(up).p
       IN  \/ /\ run = None
              /\ run' = p /\ halt' = FALSE
              /\ accepted' = accepted \cup {p}
              /\ again' = again \cup (accepted \cap {p})
              /\ Reply(<<Msg("ok", p), Msg("start", p)>>)
           \/ /\ run # None
              /\ Reply(<<Msg("busy", p)>>)
              /\ UNCHANGED serverVars
           \/ /\ Reply(<<Msg("error", p)>>)
              /\ UNCHANGED serverVars
    /\ UNCHANGED clientVars

SrvInterrupt ==
    /\ up # <<>> /\ Head(up).type = "interrupt"
    /\ halt' = (run # None)
    /\ Reply(<<Msg("stopped", None)>>)
    /\ UNCHANGED clientVars /\ UNCHANGED <<run, accepted, again>>

SrvText ==
    /\ run # None /\ down = <<>>
    /\ down' = <<Msg("text", run)>>
    /\ UNCHANGED clientVars /\ UNCHANGED <<up, serverVars>>

SrvEnd ==
    /\ run # None
    /\ run' = None /\ halt' = FALSE
    /\ down' = down \o <<Msg("complete", run), Msg("idle", run)>>
    /\ UNCHANGED clientVars /\ UNCHANGED <<up, accepted, again>>

-----------------------------------------------------------------------------
Step(p) == Create(p) \/ CreateFails(p) \/ Synced(p) \/ SyncFails(p) \/ Wake(p)
           \/ EndDrain(p) \/ Steered(p)

OnFrame == OnOk \/ OnBusy \/ OnRefused \/ OnStopped \/ OnStart \/ OnText \/ OnEnd

User(p) == Submit(p) \/ Enqueue(p) \/ Steer(p) \/ SendQueued(p) \/ SendNow(p) \/ Discard(p)

Server == SrvSubmit \/ SrvInterrupt \/ SrvText \/ SrvEnd

Next == Stop \/ Effect \/ ViewFlush \/ OnFrame \/ Server
        \/ \E p \in Prompts : User(p) \/ Step(p)

(* The event loop runs whatever is due again and again: a task waits only  *)
(* while the effects and callbacks of the one before run                   *)
Fairness == /\ WF_vars(Effect) /\ SF_vars(ViewFlush) /\ SF_vars(OnFrame)
            /\ WF_vars(SrvSubmit \/ SrvInterrupt) /\ WF_vars(SrvEnd)
            /\ \A p \in Prompts : SF_vars(Step(p))

Spec == Init /\ [][Next]_vars /\ Fairness

-----------------------------------------------------------------------------
(* What travels up and what travels down                                   *)
Asked == [type : {"submit"}, p : Prompts] \cup [type : {"interrupt"}, p : {None}]

Told == [type : {"ok", "busy", "error", "start", "text", "complete", "idle"}, p : Prompts]
        \cup [type : {"stopped"}, p : {None}]

SubRecord == [pc : PC, via : {"user", "queue"}, tries : 0..MaxTries, ok : BOOLEAN]

(* The types of the variables                                              *)
TypeOK ==
    /\ busy \in BOOLEAN /\ cached \in BOOLEAN /\ dirty \in BOOLEAN /\ seen \in BOOLEAN
    /\ queue \in Seq(Prompts) /\ lock \in BOOLEAN /\ cur \in Prompts \cup {None}
    /\ sub \in [Prompts -> SubRecord]
    /\ session \in BOOLEAN /\ up \in Seq(Asked) /\ down \in Seq(Told)
    /\ run \in Prompts \cup {None} /\ halt \in BOOLEAN
    /\ accepted \subseteq Prompts /\ again \subseteq accepted /\ late \subseteq Prompts
    /\ stops \in 0..MaxStops

(* After a stop and until the next submit the server runs no turn that is  *)
(* not interrupted or about to be: a submit that was on its way when the   *)
(* user stopped lands before the interrupt, one that was not sent never is *)
StopStops ==
    cur = None => \/ run = None
                  \/ halt
                  \/ \E i \in DOMAIN up : up[i].type = "interrupt"

(* The server runs a prompt once: tries are repeated only after a refusal, *)
(* and an entry that ran leaves the queue.  The exception is a queued      *)
(* prompt whose acceptance came after its submit was stopped or superseded *)
SentOnce == \A p \in again : p \in late /\ sub[p].via = "queue"

(* An entry leaves the queue when the server has run it or the user        *)
(* removes it, never because a drain was refused, superseded or stopped    *)
QueueKeeps ==
    [][\A p \in ToSet(queue) \ ToSet(queue') : p \in accepted \/ Discard(p)]_vars

(* Nothing is in progress                                                  *)
Quiet == /\ \A p \in Prompts : sub[p].pc \in {"draft", "queued", "done"}
         /\ up = <<>> /\ down = <<>> /\ run = None /\ ~dirty /\ seen = busy

(* An idle chat neither shows busy nor holds the drain lock, whatever was  *)
(* stopped, refused or superseded before                                   *)
NotStuck == Quiet => ~busy /\ ~lock

(* A submit ends                                                           *)
SubmitEnds == \A p \in Prompts : sub[p].pc \in Running ~> sub[p].pc \notin Running
=============================================================================
