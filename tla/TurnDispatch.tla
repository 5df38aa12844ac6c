---------------------------- MODULE TurnDispatch ----------------------------
(***************************************************************************)
(* Turns from the API to a worker and back: jobs.py (receipts, streams,    *)
(* hand-off), worker/runner.py (handle_turn, _execute_turn, _post_turn,    *)
(* handle_attach, _consume) on top of TenantRegistry.                      *)
(*                                                                         *)
(* The calls of TenantRegistry are the deliveries of messages: a turn is   *)
(* the call of its current delivery, and is idle while its message waits   *)
(* in a stream.  Redis delivers an entry to one consumer of the group and  *)
(* read_group asks for new entries only (">"), so an entry that was read   *)
(* is never read again, acknowledged or not.                               *)
(***************************************************************************)
EXTENDS TenantRegistry

CONSTANTS
    EmptyTurns,    \* turns whose payload has no text
    ChannelTurns,  \* turns with source "channel" and a chat_id
    Shared,        \* the stream verxio:turns
    Attach         \* the stream verxio:attach

Turns == Calls \ Warm

ASSUME DispatchAssumption ==
    /\ EmptyTurns \subseteq Turns
    /\ ChannelTurns \subseteq Turns
    /\ Shared \notin Workers /\ Attach \notin Workers /\ Shared # Attach

(* verxio:turns:w:{w} is named by its worker                               *)
Streams == Workers \cup {Shared, Attach}
Messages == [job: Calls, hops: {0, 1}]
Receipts == {"none", "queued", "running", "completed", "failed"}
Terminal == {"completed", "failed"}

VARIABLES
    pending,  \* pending[s][m]: entries m of stream s that were not read
    hops,     \* hops[c]: _hops of the message the handler c works on
    posted,   \* posted[c]: the producer's progress
    receipt,  \* receipt[j]: platform_jobs.status
    ran,      \* ran[j]: how often the turn was given to the agent
    replies   \* replies[j]: outbound deliveries queued for the turn

turnVars == <<pending, hops, posted, receipt, ran, replies>>
allVars == <<vars, turnVars>>

TurnTypeOK ==
    /\ TypeOK
    /\ pending \in [Streams -> [Messages -> Nat]]
    /\ hops \in [Calls -> {0, 1}]
    /\ posted \in [Calls -> {"no", "persisted", "yes"}]
    /\ receipt \in [Turns -> Receipts]
    /\ ran \in [Turns -> Nat]
    /\ replies \in [Turns -> Nat]

TurnInit ==
    /\ Init
    /\ pending = [s \in Streams |-> [m \in Messages |-> 0]]
    /\ hops = [c \in Calls |-> 0]
    /\ posted = [c \in Calls |-> "no"]
    /\ receipt = [j \in Turns |-> "none"]
    /\ ran = [j \in Turns |-> 0]
    /\ replies = [j \in Turns |-> 0]

Message(j, h) == [job |-> j, hops |-> h]

(* enqueue: XADD                                                           *)
Put(s, m) == pending' = [pending EXCEPT ![s][m] = @ + 1]

(* BUG variants: entries that were read come back; the count is not checked *)
TakeAgain(s, m) == pending[s][m] > 0 /\ UNCHANGED pending
TakeBlind(s, m) == pending' = [pending EXCEPT ![s][m] = @ - 1]

(* read_group: one unread entry, delivered once                            *)
Take(s, m) ==
    /\ pending[s][m] > 0
    /\ pending' = [pending EXCEPT ![s][m] = @ - 1]

Mark(j, status) == receipt' = [receipt EXCEPT ![j] = status]

-----------------------------------------------------------------------------
(* Producers                                                               *)

(* _persist_job: the receipt comes first                                   *)
PersistTurn(j) ==
    /\ posted[j] = "no"
    /\ posted' = [posted EXCEPT ![j] = "persisted"]
    /\ Mark(j, "queued")
    /\ UNCHANGED <<vars, pending, hops, ran, replies>>

(* route_turn_stream, then XADD on the holder's stream or the shared one   *)
RouteTurn(j) ==
    LET h == LiveHolder(TenantOf[j])
    IN  /\ posted[j] = "persisted"
        /\ posted' = [posted EXCEPT ![j] = "yes"]
        /\ Put(IF h = None THEN Shared ELSE h, Message(j, 0))
        /\ UNCHANGED <<vars, hops, receipt, ran, replies>>

(* the API dies, or Redis refuses, between the two                         *)
RouteLost(j) ==
    /\ "apicrash" \in Faults
    /\ posted[j] = "persisted"
    /\ posted' = [posted EXCEPT ![j] = "yes"]
    /\ UNCHANGED <<vars, pending, hops, receipt, ran, replies>>

(* PoolRuntimeManager.start without a live holder: _enqueue_attach         *)
RequestAttach(c) ==
    /\ posted[c] = "no"
    /\ LiveHolder(TenantOf[c]) = None
    /\ posted' = [posted EXCEPT ![c] = "yes"]
    /\ Put(Attach, Message(c, 0))
    /\ UNCHANGED <<vars, hops, receipt, ran, replies>>

-----------------------------------------------------------------------------
(* Consumers                                                               *)

(* _consume reads one entry for worker w and starts its handler, whatever  *)
(* became of an earlier delivery of the same job.  Two handlers of one job *)
(* at the same time have no state here: OnePlace says there never are two. *)
Read(c, w) ==
    /\ call[c].pc \notin ActivePcs
    /\ \E s \in IF c \in Warm THEN {Attach} ELSE {Shared, w}, h \in {0, 1} :
          /\ Take(s, Message(c, h))
          /\ hops' = [hops EXCEPT ![c] = h]
    /\ StartHandler(c, w)
    /\ UNCHANGED <<posted, receipt, ran, replies>>

(* requeue_turn_to rebuilds the fields it lists; _hops is not one of them  *)
RequeueFields(m) == [m EXCEPT !.hops = 0]

(* BUG variants: the entry is added twice; it is not added at all          *)
RequeueTwice(j, s, h) ==
    /\ pending' = [pending EXCEPT ![s][Message(j, 0)] = @ + 2]
    /\ call' = [call EXCEPT ![j] = IdleCall]
    /\ UNCHANGED <<lease, registered, up, attached, profile, loopVars, nudges,
                   stop, hops, posted, receipt, ran, replies>>
RequeueForgotten(j, s, h) ==
    /\ call' = [call EXCEPT ![j] = IdleCall]
    /\ UNCHANGED <<lease, registered, up, attached, profile, loopVars, nudges,
                   stop, turnVars>>

Requeue(j, s, h) ==
    /\ Put(s, RequeueFields(Message(j, h)))
    /\ call' = [call EXCEPT ![j] = IdleCall]
    /\ UNCHANGED <<lease, registered, up, attached, profile, loopVars, nudges,
                   stop, hops, posted, receipt, ran, replies>>

(* The rejection named another holder, and a live worker holds the lease   *)
HandsOff(j) ==
    /\ call[j].holder \notin {None, call[j].worker}
    /\ LiveHolder(TenantOf[j]) # None

HandOff(j) ==
    /\ call[j].pc = "rejected"
    /\ HandsOff(j)
    /\ Requeue(j, LiveHolder(TenantOf[j]), hops[j])

(* Orphaned lease or capacity: the shared stream once more, else fail      *)
RetryOrDrop(j) ==
    /\ call[j].pc = "rejected"
    /\ ~HandsOff(j)
    /\ IF hops[j] = 0
       THEN Requeue(j, Shared, 1)
       ELSE /\ GiveUp(j)
            /\ Mark(j, "failed")
            /\ UNCHANGED <<pending, hops, posted, ran, replies>>

(* _execute_turn with no text                                              *)
SkipEmpty(j) ==
    /\ call[j].pc = "ready" /\ j \in EmptyTurns
    /\ Cardinality(InSlot(call[j].worker)) < MaxRuns
    /\ Goto(j, "done")
    /\ Mark(j, "failed")
    /\ UNCHANGED <<lease, registered, up, attached, profile, loopVars, nudges,
                   stop, pending, hops, posted, ran, replies>>

(* active_runs += 1, mark_job running, run_turn                            *)
StartTurn(j) ==
    /\ j \notin EmptyTurns
    /\ RunStart(j)
    /\ Mark(j, "running")
    /\ ran' = [ran EXCEPT ![j] = @ + 1]
    /\ UNCHANGED <<pending, hops, posted, replies>>

(* mark_job raises, or publish does after mark_job                         *)
StartTurnRaises(j) ==
    /\ j \notin EmptyTurns
    /\ RunStartRaises(j)
    /\ Mark(j, "running") \/ UNCHANGED receipt
    /\ UNCHANGED <<pending, hops, posted, ran, replies>>

(* BUG variant: the outcome is left for later                              *)
EndTurnUnmarked(j) == RunEnd(j) /\ UNCHANGED turnVars

(* run_turn returned or raised: active_runs -= 1, mark_job                 *)
EndTurn(j) ==
    /\ RunEnd(j)
    /\ \E status \in Terminal : Mark(j, status)
    /\ UNCHANGED <<pending, hops, posted, ran, replies>>

(* that mark_job raises: _consume logs the exception and acknowledges      *)
EndTurnRaises(j) ==
    /\ "raise" \in Faults
    /\ call[j].pc = "run"
    /\ Goto(j, "done")
    /\ UNCHANGED <<lease, registered, up, attached, profile, loopVars, nudges,
                   stop, turnVars>>

(* BUG variant: a delivered turn is marked completed, even a failed one    *)
ReplyMarks(j) ==
    /\ j \in ChannelTurns
    /\ PostEnd(j)
    /\ Mark(j, "completed")
    /\ replies' = [replies EXCEPT ![j] = @ + 1]
    /\ UNCHANGED <<pending, hops, posted, ran>>

(* _post_turn: a channel turn with something to say queues one delivery    *)
Reply(j) ==
    /\ j \in ChannelTurns
    /\ PostEnd(j)
    /\ replies' = [replies EXCEPT ![j] = @ + 1]
    /\ UNCHANGED <<pending, hops, posted, receipt, ran>>

NoReply(j) ==
    /\ PostEnd(j)
    /\ UNCHANGED turnVars

(* handle_attach: attached, or rejected and logged                         *)
EndAttach(c) ==
    /\ c \in Warm
    /\ WarmReturn(c) \/ GiveUp(c)
    /\ UNCHANGED turnVars

TurnStep(j) ==
    \/ HandOff(j) \/ RetryOrDrop(j) \/ SkipEmpty(j)
    \/ StartTurn(j) \/ StartTurnRaises(j) \/ EndTurn(j) \/ EndTurnRaises(j)
    \/ Reply(j) \/ NoReply(j)

ProducerStep ==
    \/ \E j \in Turns : PersistTurn(j) \/ RouteTurn(j) \/ RouteLost(j)
    \/ \E c \in Warm : RequestAttach(c)

TurnNext ==
    \/ RegistryStep /\ UNCHANGED turnVars
    \/ ProducerStep
    \/ \E c \in Calls, w \in Workers : Read(c, w)
    \/ \E j \in Turns : TurnStep(j)
    \/ \E c \in Warm : EndAttach(c)

(* LoopFairness of TenantRegistry; a persisted turn is posted by the same  *)
(* request; consumers keep reading; a started handler keeps being          *)
(* scheduled, and the agent answers or times out.                          *)
TurnFairness ==
    /\ LoopFairness
    /\ \A j \in Turns : /\ WF_allVars(RouteTurn(j))
                        /\ WF_allVars(TurnStep(j))
    /\ \A c \in Calls : /\ WF_allVars(\E w \in Workers : Read(c, w))
                        /\ WF_allVars(EnsureAttached(c) /\ UNCHANGED turnVars)
    /\ \A c \in Warm : WF_allVars(EndAttach(c))

TurnSpec == TurnInit /\ [][TurnNext]_allVars /\ TurnFairness /\ IdleFairness

-----------------------------------------------------------------------------
(* Properties                                                              *)

(* A turn is given to the agent at most once, whatever is handed off,      *)
(* requeued, expired, crashed or drained on the way.                       *)
AtMostOnce == \A j \in Turns : ran[j] <= 1

(* A turn is in one place: it has one unread entry, or one handler.  The   *)
(* requeue in handle_turn relies on its own entry never coming back: an    *)
(* entry is waiting only while no handler of its job is, or was, at work.  *)
OneEntry ==
    \A r, s \in Streams, m, n \in Messages :
        pending[r][m] > 0 /\ pending[s][n] > 0 /\ m.job = n.job
        => r = s /\ m = n /\ pending[r][m] = 1
EntryOrHandler ==
    \A s \in Streams, m \in Messages :
        pending[s][m] > 0 => call[m.job].pc = "idle" /\ posted[m.job] = "yes"
OnePlace == OneEntry /\ EntryOrHandler

(* The receipt a client polls never contradicts itself or the turn: it is  *)
(* completed only if the agent ran the turn, and a reply is queued once,   *)
(* after the outcome was recorded.                                         *)
ReceiptTruth ==
    \A j \in Turns :
        /\ receipt[j] = "completed" => ran[j] = 1
        /\ receipt[j] \in {"none", "queued"} => ran[j] = 0
        /\ replies[j] <= 1
        /\ replies[j] = 1 => receipt[j] \in Terminal /\ ran[j] = 1

(* The strengthening that makes these inductive: what is known of a turn   *)
(* at each point of its way.                                               *)
PrePcs == LockedPcs \cup {"lock", "ready", "rejected"}
UnpostedIdle == \A c \in Calls : posted[c] # "yes" => call[c].pc = "idle"
TurnPhase ==
    \A j \in Turns :
        LET pc == call[j].pc
        IN  /\ posted[j] = "no" => receipt[j] = "none"
            /\ posted[j] = "persisted" => receipt[j] = "queued"
            /\ posted[j] = "yes" /\ pc \in PrePcs \cup {"idle"} => receipt[j] = "queued"
            /\ pc \in PrePcs \cup {"idle", "leaked"} => ran[j] = 0
            /\ pc = "leaked" => receipt[j] \in {"queued", "running"}
            /\ pc = "run" => receipt[j] = "running" /\ ran[j] = 1
            /\ pc = "post" => receipt[j] \in Terminal /\ ran[j] = 1
            /\ pc \notin {"done", "lost"} => replies[j] = 0
TurnInv ==
    /\ RegistryInv /\ TurnTypeOK /\ UnpostedIdle
    /\ OnePlace /\ AtMostOnce /\ ReceiptTruth /\ TurnPhase

(* A recorded outcome is final and a started turn is never queued again.   *)
ReceiptMovesOn ==
    \A j \in Turns :
        /\ receipt[j] \in Terminal => receipt'[j] = receipt[j]
        /\ receipt[j] = "running" => receipt'[j] # "queued"
ReceiptForward == [][ReceiptMovesOn]_allVars

(* Every accepted turn reaches an outcome.  "Durable platform jobs:        *)
(* enqueue + persist a receipt, then consume later." (jobs.py:1)           *)
TurnsSettle == \A j \in Turns : receipt[j] = "queued" ~> receipt[j] \in Terminal

=============================================================================
