---------------------------- MODULE GatewayClient ----------------------------
(***************************************************************************)
(* The connection of the web client to the agent gateway: the JSON-RPC     *)
(* client over a WebSocket (packages/shared/src/json-rpc-gateway.ts), the  *)
(* boot and the reconnect loop (use-gateway-boot.ts), the requests with    *)
(* their recovery (use-gateway-request.ts), and the grace window of the    *)
(* composer (store/gateway-link.ts).  The primary gateway is the active    *)
(* one.  Sockets are numbered; a connection that fails, a socket that      *)
(* drops and a lookup that errs are faults, MaxFaults in all.              *)
(***************************************************************************)
EXTENDS Naturals

CONSTANTS Calls,     \* calls of requestGateway
          MaxFaults

ASSUME GatewayAssumption == MaxFaults \in Nat

VARIABLES
    state,    \* the ConnectionState
    socket,   \* this.socket, or 0
    phase,    \* each socket: none, connecting, open, closing or gone
    settled,  \* the promise of its connect(): none, pending, ok or failed
    boot,     \* boot(): what it does, and the socket it waits for
    loop,     \* attemptReconnect(), reconnecting unless idle
    timer,    \* reconnectTimer is set
    ensure,   \* ensureGatewayOpen(), reconnectingRef unless idle
    call,     \* each call of requestGateway
    link,     \* $gatewayLink, and whether its grace timer runs
    faults

vars == <<state, socket, phase, settled, boot, loop, timer, ensure, call, link, faults>>

Sockets == 1..(MaxFaults + 1)

At(pc, k) == [pc |-> pc, k |-> k]
Idle == At("idle", 0)

Init ==
    /\ state = "idle" /\ socket = 0
    /\ phase = [k \in Sockets |-> "none"] /\ settled = [k \in Sockets |-> "none"]
    /\ boot = At("lookup", 0) /\ loop = Idle /\ timer = FALSE /\ ensure = Idle
    /\ call = [c \in Calls |-> [pc |-> "idle", k |-> 0, again |-> FALSE]]
    /\ link = [everOpen |-> FALSE, degraded |-> FALSE, down |-> FALSE, grace |-> FALSE]
    /\ faults = 0

Booted == boot.pc = "done"

Fault == faults < MaxFaults /\ faults' = faults + 1

(* A coroutine whose connect() settled runs before the next event          *)
Calm == \A w \in {boot, loop, ensure} :
          w.pc = "connect" => settled[w.k] = "pending"

-----------------------------------------------------------------------------
(* Mutant: a link that is back forgets that it is not degraded, not when   *)
(* it went down                                                            *)
DownKept(st) ==
    IF st = "open" THEN [link EXCEPT !.everOpen = TRUE, !.degraded = FALSE, !.grace = FALSE]
    ELSE IF ~link.everOpen \/ link.down THEN link
    ELSE [link EXCEPT !.down = TRUE, !.grace = TRUE]

(* onGatewayState of the link                                              *)
LinkIn(st) ==
    IF st = "open"
    THEN [everOpen |-> TRUE, degraded |-> FALSE, down |-> FALSE, grace |-> FALSE]
    ELSE IF ~link.everOpen \/ link.down THEN link
    ELSE [link EXCEPT !.down = TRUE, !.grace = TRUE]

(* Mutant: scheduleReconnect only knows an error                           *)
TimerAfterError(st) ==
    IF st = "open" THEN FALSE
    ELSE timer \/ (Booted /\ st = "error" /\ loop.pc = "idle")

(* scheduleReconnect, by the state handler of the boot hook                *)
TimerIn(st) ==
    IF st = "open" THEN FALSE
    ELSE timer \/ (Booted /\ st \in {"closed", "error"} /\ loop.pc = "idle")

(* setState: the handlers run at once                                      *)
SetState(st) ==
    /\ state' = st
    /\ link' = IF st = state THEN link ELSE LinkIn(st)
    /\ timer' = IF st = state THEN timer ELSE TimerIn(st)

SameState == UNCHANGED <<state, link, timer>>

(* readyState of the client's socket is OPEN                               *)
Connected == socket # 0 /\ phase[socket] = "open"

(* Mutant: connect() asks for its own progress only                        *)
ShortByState == state = "connecting"

(* connect() does nothing while it is connected or connecting              *)
Short == Connected \/ state = "connecting"

NewSocket == CHOOSE k \in Sockets :
               phase[k] = "none" /\ \A j \in Sockets : phase[j] = "none" => k <= j

Open ==
    /\ SetState("connecting")
    /\ socket' = NewSocket
    /\ phase' = [phase EXCEPT ![NewSocket] = "connecting"]
    /\ settled' = [settled EXCEPT ![NewSocket] = "pending"]

(* The connect listeners of socket k are still interested                  *)
Waiting(k) == settled[k] = "pending" /\ socket = k

OnOpen(k) ==
    /\ Calm /\ phase[k] = "connecting"
    /\ phase' = [phase EXCEPT ![k] = "open"]
    /\ IF Waiting(k) THEN SetState("open") /\ settled' = [settled EXCEPT ![k] = "ok"]
       ELSE SameState /\ UNCHANGED settled
    /\ UNCHANGED <<socket, boot, loop, ensure, call, faults>>

(* The error event; the close event follows                                *)
OnError(k) ==
    /\ Calm /\ phase[k] = "connecting" /\ Fault
    /\ phase' = [phase EXCEPT ![k] = "closing"]
    /\ IF Waiting(k) THEN SetState("error") /\ settled' = [settled EXCEPT ![k] = "failed"]
       ELSE SameState /\ UNCHANGED settled
    /\ UNCHANGED <<socket, boot, loop, ensure, call>>

(* connectTimeoutMs: a half-open socket is given up                        *)
OnTimeout(k) ==
    /\ Calm /\ phase[k] = "connecting" /\ settled[k] = "pending" /\ Fault
    /\ settled' = [settled EXCEPT ![k] = "failed"]
    /\ SetState("error")
    /\ IF socket = k
       THEN socket' = 0 /\ phase' = [phase EXCEPT ![k] = "closing"]
       ELSE UNCHANGED <<socket, phase>>
    /\ UNCHANGED <<boot, loop, ensure, call>>

(* An open socket starts to close; nothing tells the client yet            *)
Drop(k) ==
    /\ phase[k] = "open" /\ Fault
    /\ phase' = [phase EXCEPT ![k] = "closing"]
    /\ UNCHANGED <<state, socket, settled, boot, loop, timer, ensure, call, link>>

Step(r, pc) == [r EXCEPT !.pc = pc]

(* Mutant: a call recovers from every close                                *)
RetriedAlways ==
    [c \in Calls |-> IF call[c].pc # "sent" THEN call[c]
                     ELSE Step(call[c], "recover")]

(* rejectAllPending: connection closed; the first attempt of a call        *)
(* recovers, the second is an error                                        *)
Rejected ==
    [c \in Calls |->
       IF call[c].pc # "sent" THEN call[c]
       ELSE Step(call[c], IF call[c].again THEN "failed" ELSE "recover")]

(* The close event                                                         *)
OnClose(k) ==
    /\ Calm /\ phase[k] = "closing"
    /\ phase' = [phase EXCEPT ![k] = "gone"]
    /\ IF socket = k THEN socket' = 0 /\ SetState("closed") /\ call' = Rejected
       ELSE SameState /\ UNCHANGED <<socket, call>>
    /\ UNCHANGED <<settled, boot, loop, ensure, faults>>

-----------------------------------------------------------------------------
(* A coroutine that looks up the connection and its ticket, then connects; *)
(* ok is what it does after connect() resolves                             *)
Connect(w, ok) ==
    IF Short THEN w' = At(ok, 0) /\ SameState /\ UNCHANGED <<socket, phase, settled>>
    ELSE w' = At("connect", NewSocket) /\ Open

BootLooksUp ==
    /\ Calm /\ boot.pc = "lookup"
    /\ \/ Connect(boot, "done") /\ UNCHANGED faults
       \/ /\ Fault /\ boot' = At("failed", 0)
          /\ SameState /\ UNCHANGED <<socket, phase, settled>>
    /\ UNCHANGED <<loop, ensure, call>>

(* The first boot is not tried again                                       *)
BootConnected ==
    /\ boot.pc = "connect" /\ settled[boot.k] # "pending"
    /\ boot' = At(IF settled[boot.k] = "ok" THEN "done" ELSE "failed", 0)
    /\ UNCHANGED <<state, socket, phase, settled, loop, timer, ensure, call, link, faults>>

(* attemptReconnect, by the timer or by reconnectNow                       *)
Attempt ==
    loop' = IF loop.pc # "idle" \/ state = "open" THEN loop ELSE At("lookup", 0)

TimerFires ==
    /\ Calm /\ timer
    /\ timer' = FALSE /\ Attempt
    /\ UNCHANGED <<state, socket, phase, settled, boot, ensure, call, link, faults>>

(* reconnectNow: the window becomes visible, the network is back           *)
Nudge ==
    /\ Calm /\ Booted /\ state # "open"
    /\ timer' = FALSE /\ Attempt
    /\ UNCHANGED <<state, socket, phase, settled, boot, ensure, call, link, faults>>

(* Mutant: an attempt that fails leaves the next one to the state handler  *)
NotRearmed == timer

(* The finally block of attemptReconnect                                   *)
Rearmed == timer \/ state # "open"

LoopLooksUp ==
    /\ Calm /\ loop.pc = "lookup"
    /\ \/ Connect(loop, "resync") /\ UNCHANGED faults
       \/ /\ Fault /\ loop' = Idle /\ timer' = Rearmed
          /\ UNCHANGED <<state, link, socket, phase, settled>>
    /\ UNCHANGED <<boot, ensure, call>>

LoopConnected ==
    /\ loop.pc = "connect" /\ settled[loop.k] # "pending"
    /\ IF settled[loop.k] = "ok" THEN loop' = At("resync", 0) /\ UNCHANGED timer
       ELSE loop' = Idle /\ timer' = Rearmed
    /\ UNCHANGED <<state, socket, phase, settled, boot, ensure, call, link, faults>>

(* Config, sessions and the live runtime id are read again                 *)
LoopResynced ==
    /\ Calm /\ loop.pc = "resync"
    /\ loop' = Idle /\ timer' = Rearmed
    /\ UNCHANGED <<state, socket, phase, settled, boot, ensure, call, link, faults>>

-----------------------------------------------------------------------------
To(c, pc) == [call EXCEPT ![c].pc = pc]

(* request(): on the open socket, or the error not connected               *)
First(c) ==
    IF Connected THEN [call EXCEPT ![c] = [pc |-> "sent", k |-> socket, again |-> FALSE]]
    ELSE To(c, "recover")

Second(c) ==
    IF Connected THEN [call EXCEPT ![c] = [pc |-> "sent", k |-> socket, again |-> TRUE]]
    ELSE To(c, "failed")

(* requestGateway                                                          *)
Call(c) ==
    /\ Calm /\ Booted /\ call[c].pc = "idle"
    /\ call' = First(c)
    /\ UNCHANGED <<state, socket, phase, settled, boot, loop, timer, ensure, link, faults>>

Answered(c) ==
    /\ Calm /\ call[c].pc = "sent" /\ call[c].k = socket /\ phase[socket] = "open"
    /\ call' = To(c, "done")
    /\ UNCHANGED <<state, socket, phase, settled, boot, loop, timer, ensure, link, faults>>

(* The timer of the call: an error that is not recovered                   *)
CallTimeout(c) ==
    /\ Calm /\ call[c].pc = "sent"
    /\ call' = To(c, "failed")
    /\ UNCHANGED <<state, socket, phase, settled, boot, loop, timer, ensure, link, faults>>

(* ensureGatewayOpen: nothing to do, join the call in progress, or start   *)
Recover(c) ==
    /\ Calm /\ call[c].pc = "recover"
    /\ IF state = "open" THEN call' = Second(c) /\ UNCHANGED ensure
       ELSE /\ call' = To(c, "ensure")
            /\ ensure' = IF ensure.pc = "idle" THEN At("lookup", 0) ELSE ensure
    /\ UNCHANGED <<state, socket, phase, settled, boot, loop, timer, link, faults>>

(* Mutant: only a connection resumes the calls                             *)
ResumedIfFound(found) ==
    IF ~found THEN call
    ELSE [c \in Calls |-> IF call[c].pc = "ensure" THEN Second(c)[c] ELSE call[c]]

(* The calls that share the promise: with the gateway they try again,      *)
(* without it they are parked                                              *)
Ensured(found) ==
    [c \in Calls |-> IF call[c].pc # "ensure" THEN call[c]
                     ELSE IF found THEN Second(c)[c] ELSE To(c, "park")[c]]

EnsureLooksUp ==
    /\ Calm /\ ensure.pc = "lookup"
    /\ \/ Short /\ ensure' = Idle /\ call' = Ensured(TRUE) /\ SameState
          /\ UNCHANGED <<socket, phase, settled, faults>>
       \/ ~Short /\ ensure' = At("connect", NewSocket) /\ Open /\ UNCHANGED <<call, faults>>
       \/ Fault /\ ensure' = Idle /\ call' = Ensured(FALSE) /\ SameState
          /\ UNCHANGED <<socket, phase, settled>>
    /\ UNCHANGED <<boot, loop>>

EnsureConnected ==
    /\ ensure.pc = "connect" /\ settled[ensure.k] # "pending"
    /\ ensure' = Idle /\ call' = Ensured(settled[ensure.k] = "ok")
    /\ UNCHANGED <<state, socket, phase, settled, boot, loop, timer, link, faults>>

(* waitForGatewayOpen                                                      *)
Unparked(c) ==
    /\ Calm /\ call[c].pc = "park"
    /\ \/ state = "open" /\ call' = Second(c)
       \/ state # "open" /\ call' = To(c, "failed")
    /\ UNCHANGED <<state, socket, phase, settled, boot, loop, timer, ensure, link, faults>>

(* The grace timer of the link                                             *)
GraceEnds ==
    /\ Calm /\ link.grace
    /\ link' = [link EXCEPT !.grace = FALSE, !.degraded = state # "open" /\ link.down]
    /\ UNCHANGED <<state, socket, phase, settled, boot, loop, timer, ensure, call, faults>>

-----------------------------------------------------------------------------
Socket(k) == OnOpen(k) \/ OnError(k) \/ OnTimeout(k) \/ Drop(k) \/ OnClose(k)
Boot == BootLooksUp \/ BootConnected
Loop == TimerFires \/ LoopLooksUp \/ LoopConnected \/ LoopResynced
Request(c) == Recover(c) \/ Answered(c) \/ CallTimeout(c) \/ Unparked(c)
Ensure == EnsureLooksUp \/ EnsureConnected

Next == \/ \E k \in Sockets : Socket(k)
        \/ Boot \/ Loop \/ Nudge \/ Ensure \/ GraceEnds
        \/ \E c \in Calls : Call(c) \/ Request(c)

(* A socket that connects opens, fails or times out, a closing one         *)
(* closes, a timer fires, and every coroutine goes on                      *)
Fairness == /\ \A k \in Sockets : WF_vars(OnOpen(k)) /\ SF_vars(OnClose(k))
            /\ WF_vars(Boot) /\ SF_vars(Loop) /\ SF_vars(Ensure) /\ WF_vars(GraceEnds)
            /\ \A c \in Calls : SF_vars(Request(c))

Spec == Init /\ [][Next]_vars /\ Fairness

-----------------------------------------------------------------------------
CallPcs == {"idle", "sent", "recover", "ensure", "park", "done", "failed"}
CallRecord == [pc : CallPcs, k : Sockets \cup {0}, again : BOOLEAN]

CallsOK ==
    /\ call \in [Calls -> CallRecord]
    /\ \A c \in Calls : call[c].again => call[c].pc \in {"sent", "done", "failed"}

Coroutine(pcs) == [pc : pcs, k : Sockets \cup {0}]

(* The types of the variables; a call recovers once, and a coroutine knows *)
(* the socket it waits for                                                 *)
TypeOK ==
    /\ state \in {"idle", "connecting", "open", "closed", "error"}
    /\ socket \in Sockets \cup {0}
    /\ phase \in [Sockets -> {"none", "connecting", "open", "closing", "gone"}]
    /\ settled \in [Sockets -> {"none", "pending", "ok", "failed"}]
    /\ boot \in Coroutine({"lookup", "connect", "done", "failed"})
    /\ loop \in Coroutine({"idle", "lookup", "connect", "resync"})
    /\ ensure \in Coroutine({"idle", "lookup", "connect"})
    /\ \A w \in {boot, loop, ensure} : w.pc = "connect" <=> w.k # 0
    /\ timer \in BOOLEAN
    /\ CallsOK
    /\ link \in [everOpen : BOOLEAN, degraded : BOOLEAN, down : BOOLEAN, grace : BOOLEAN]
    /\ faults \in 0..MaxFaults

(* A client that is not open after its boot is on its way back: a timer is *)
(* set, an attempt runs, or a socket is connecting whose end is handled    *)
NeverStranded ==
    Booted /\ state # "open" => \/ timer \/ loop.pc # "idle"
                                \/ state = "connecting" /\ Waiting(socket)

(* No pending call is left on a live socket that the client let go: the    *)
(* boot, the loop and the requests, each with its own connect, never       *)
(* replace an open connection under one another                            *)
NoCallOrphaned ==
    \A c \in Calls : call[c].pc = "sent" /\ call[c].k # socket
                        => phase[call[c].k] \in {"closing", "gone"}

(* The composer stays usable while the link is down only for as long as    *)
(* the grace timer runs, and is never degraded while it is up              *)
ComposerHonest ==
    /\ state = "open" => ~link.degraded /\ ~link.down
    /\ Booted /\ state # "open" => link.degraded \/ link.grace

(* A booted client comes back once the faults are over                     *)
BackOnline == Booted /\ state # "open" ~> state = "open"

(* Every call is answered or fails                                         *)
CallsEnd ==
    \A c \in Calls : call[c].pc = "sent" \/ call[c].pc = "recover"
                       ~> call[c].pc \in {"done", "failed"}
=============================================================================
