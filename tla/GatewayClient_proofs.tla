------------------------ MODULE GatewayClient_proofs ------------------------
(* Theorems about GatewayClient, for any number of calls and faults: the   *)
(* boot, the reconnect loop and the requests share one socket, and none of *)
(* them strands the client.                                                *)
EXTENDS GatewayClient, TLAPS

Live(k) == phase[k] \in {"connecting", "open"}

(* Sockets are used up in order, and each but a live one has cost a fault, *)
(* so that an unused one is left whenever connect() needs it               *)
Used(n) == \A k \in Sockets : phase[k] = "none" <=> k > n

SocketsLeft ==
    \E n \in Nat : /\ n <= faults + 1 /\ Used(n)
                   /\ (\A k \in Sockets : ~Live(k)) => n <= faults

(* A live socket is the client's, and the state tells what it does         *)
OneSocket ==
    /\ \A k \in Sockets : Live(k) => k = socket
    /\ socket # 0 => phase[socket] \in {"connecting", "open", "closing"}
    /\ socket # 0 /\ phase[socket] = "connecting"
          => state = "connecting" /\ settled[socket] = "pending"
    /\ socket # 0 /\ phase[socket] = "open" => state = "open"
    /\ state = "connecting" => socket # 0 /\ phase[socket] = "connecting"

(* A coroutine whose connect() resolved finds the gateway still open       *)
ResolvedIsOpen ==
    \A w \in {boot, loop, ensure} :
       w.pc = "connect" /\ settled[w.k] = "ok" => state = "open"

(* Nothing but the boot runs before it is done                             *)
BootFirst ==
    /\ ~Booted => /\ loop = Idle /\ ensure = Idle /\ ~timer
                  /\ \A c \in Calls : call[c].pc = "idle"
    /\ boot.pc = "lookup" => state = "idle" /\ \A k \in Sockets : phase[k] = "none"

(* A call in flight was written to a socket that was opened                *)
SentOnSocket ==
    \A c \in Calls : call[c].pc = "sent" => call[c].k # 0 /\ phase[call[c].k] # "none"

(* A client that is closed or in error tries again                         *)
TriesAgain ==
    Booted /\ state \notin {"open", "connecting"} => timer \/ loop.pc # "idle"

(* The link remembers that it was open, and is down exactly while it is    *)
(* not: its grace timer runs, or has run out                               *)
LinkHonest ==
    /\ Booted => link.everOpen
    /\ state = "open" => link.everOpen /\ ~link.down /\ ~link.degraded
    /\ link.everOpen /\ state # "open" => link.down
    /\ link.down => link.degraded \/ link.grace

IInv == /\ TypeOK /\ SocketsLeft /\ OneSocket /\ ResolvedIsOpen /\ BootFirst
        /\ SentOnSocket /\ TriesAgain /\ LinkHonest

-----------------------------------------------------------------------------
(* connect() on a client that is neither connected nor connecting finds an *)
(* unused socket, the next one                                             *)
LEMMA NextSocket ==
    ASSUME TypeOK, SocketsLeft, OneSocket, ~Short
    PROVE  \E n \in Nat : /\ Used(n) /\ n <= faults
                         /\ NewSocket = n + 1 /\ NewSocket \in Sockets
                         /\ phase[NewSocket] = "none"
<1>1. PICK n \in Nat : /\ n <= faults + 1 /\ Used(n)
                       /\ (\A k \in Sockets : ~Live(k)) => n <= faults
    BY DEF SocketsLeft
<1>2. \A k \in Sockets : ~Live(k)
    BY DEF OneSocket, Live, Short, Connected, TypeOK, Sockets
<1>3. n <= faults /\ n + 1 \in Sockets
    BY <1>1, <1>2, GatewayAssumption DEF TypeOK, Sockets
<1>4. phase[n + 1] = "none" /\ \A j \in Sockets : phase[j] = "none" => n + 1 <= j
    BY <1>1, <1>3 DEF Used, Sockets
<1>5. NewSocket = n + 1
    <2>1. /\ NewSocket \in Sockets /\ phase[NewSocket] = "none"
          /\ \A j \in Sockets : phase[j] = "none" => NewSocket <= j
        BY <1>3, <1>4 DEF NewSocket
    <2> QED
        BY <2>1, <1>3, <1>4 DEF Sockets
<1> QED
    BY <1>1, <1>3, <1>4, <1>5

LEMMA InitIInv == Init => IInv
<1> SUFFICES ASSUME Init PROVE IInv
    OBVIOUS
<1>1. TypeOK
    <2>1. \A w \in {boot, loop, ensure} : w.pc # "connect" /\ w.k = 0
        BY DEF Init, At, Idle
    <2>2. /\ boot \in Coroutine({"lookup", "connect", "done", "failed"})
          /\ loop \in Coroutine({"idle", "lookup", "connect", "resync"})
          /\ ensure \in Coroutine({"idle", "lookup", "connect"})
        BY DEF Init, At, Idle, Coroutine
    <2>3. /\ phase \in [Sockets -> {"none", "connecting", "open", "closing", "gone"}]
          /\ settled \in [Sockets -> {"none", "pending", "ok", "failed"}]
        BY DEF Init
    <2>4. CallsOK
        BY DEF Init, CallsOK, CallRecord, CallPcs
    <2>5. /\ state \in {"idle", "connecting", "open", "closed", "error"}
          /\ socket \in Sockets \cup {0} /\ faults \in 0..MaxFaults
        BY GatewayAssumption DEF Init
    <2>6. /\ link \in [everOpen : BOOLEAN, degraded : BOOLEAN, down : BOOLEAN, grace : BOOLEAN]
          /\ timer \in BOOLEAN
        BY DEF Init
    <2> QED
        BY <2>1, <2>2, <2>3, <2>4, <2>5, <2>6 DEF TypeOK
<1>2. SocketsLeft
    <2>1. Used(0) /\ 0 <= faults
        BY GatewayAssumption DEF Init, Used, Sockets
    <2> QED
        BY <2>1, <1>1 DEF SocketsLeft, TypeOK
<1>3. OneSocket /\ ResolvedIsOpen /\ BootFirst /\ SentOnSocket /\ TriesAgain /\ LinkHonest
    BY GatewayAssumption DEF Init, OneSocket, ResolvedIsOpen, BootFirst, SentOnSocket, TriesAgain, LinkHonest,
       Live, Booted, At, Idle, Sockets
<1> QED
    BY <1>1, <1>2, <1>3 DEF IInv

-----------------------------------------------------------------------------
(* A step of a call that is on its first attempt, or that ends it          *)
LEMMA StepOK ==
    ASSUME NEW r \in CallRecord, NEW pc \in CallPcs
    PROVE  Step(r, pc) \in CallRecord /\ Step(r, pc).pc = pc /\ Step(r, pc).again = r.again
BY DEF Step, CallRecord, CallPcs

(* setState keeps a timer that is set unless the client opens, sets one    *)
(* when a booted client closes, and keeps the link's own rules             *)
LEMMA StateSet ==
    ASSUME IInv, NEW st \in {"connecting", "open", "closed", "error"}, SetState(st)
    PROVE  /\ state' = st /\ timer' \in BOOLEAN
           /\ link' \in [everOpen : BOOLEAN, degraded : BOOLEAN, down : BOOLEAN, grace : BOOLEAN]
           /\ Booted /\ st \in {"closed", "error"} => timer' \/ loop.pc # "idle"
           /\ ~Booted => ~timer'
           /\ link.everOpen => link'.everOpen
           /\ st = "open" => link'.everOpen /\ ~link'.down /\ ~link'.degraded
           /\ link'.everOpen /\ st # "open" => link'.down
           /\ link'.down => link'.degraded \/ link'.grace
<1>1. state' = st
    BY DEF SetState
<1>2. timer' \in BOOLEAN /\ (~Booted => ~timer')
    BY DEF SetState, TimerIn, IInv, TypeOK, BootFirst
<1>3. Booted /\ st \in {"closed", "error"} => timer' \/ loop.pc # "idle"
    BY DEF SetState, TimerIn, IInv, TriesAgain
<1>4. /\ link \in [everOpen : BOOLEAN, degraded : BOOLEAN, down : BOOLEAN, grace : BOOLEAN]
      /\ state = "open" => link.everOpen /\ ~link.down /\ ~link.degraded
      /\ link.everOpen /\ state # "open" => link.down
      /\ link.down => link.degraded \/ link.grace
    BY DEF IInv, TypeOK, LinkHonest
<1>5. (link' = link /\ st = state) \/ link' = LinkIn(st)
    BY DEF SetState
<1>6. /\ link' \in [everOpen : BOOLEAN, degraded : BOOLEAN, down : BOOLEAN, grace : BOOLEAN]
      /\ link.everOpen => link'.everOpen
      /\ st = "open" => link'.everOpen /\ ~link'.down /\ ~link'.degraded
      /\ link'.everOpen /\ st # "open" => link'.down
      /\ link'.down => link'.degraded \/ link'.grace
    <2>1. CASE link' = link /\ st = state
        BY <1>4, <2>1
    <2>2. CASE link' = LinkIn(st) /\ st = "open"
        BY <2>2 DEF LinkIn
    <2>3. CASE link' = LinkIn(st) /\ st # "open" /\ (~link.everOpen \/ link.down)
        BY <1>4, <2>3 DEF LinkIn
    <2>4. CASE link' = LinkIn(st) /\ st # "open" /\ link.everOpen /\ ~link.down
        <3>1. link' = [link EXCEPT !.down = TRUE, !.grace = TRUE]
            BY <2>4 DEF LinkIn
        <3>2. /\ link'.everOpen = link.everOpen /\ link'.degraded = link.degraded
              /\ link'.down = TRUE /\ link'.grace = TRUE
            BY <3>1, <1>4
        <3> QED
            BY <3>1, <3>2, <2>4, <1>4
    <2> QED
        BY <1>4, <1>5, <2>1, <2>2, <2>3, <2>4
<1> QED
    BY <1>1, <1>2, <1>3, <1>6

(* A connect() that opens a socket: the socket is new and the only live    *)
(* one, and pending                                                        *)
LEMMA Opened ==
    ASSUME IInv, Calm, ~Short, Open, faults' = faults
    PROVE  /\ SocketsLeft' /\ OneSocket'
           /\ NewSocket \in Sockets /\ NewSocket # 0 /\ socket' = NewSocket
           /\ phase' \in [Sockets -> {"none", "connecting", "open", "closing", "gone"}]
           /\ settled' \in [Sockets -> {"none", "pending", "ok", "failed"}]
           /\ settled'[NewSocket] = "pending"
           /\ \A k \in Sockets : phase[k] # "none" => phase'[k] # "none"
           /\ \A w \in {boot, loop, ensure} : w.pc = "connect" => settled'[w.k] # "ok"
<1> USE DEF IInv
<1>1. PICK n \in Nat : /\ Used(n) /\ n <= faults
                       /\ NewSocket = n + 1 /\ NewSocket \in Sockets
                       /\ phase[NewSocket] = "none"
    BY NextSocket
<1> DEFINE new == NewSocket
<1>2. /\ socket' = new /\ new # 0
      /\ phase' = [phase EXCEPT ![new] = "connecting"]
      /\ settled' = [settled EXCEPT ![new] = "pending"]
      /\ state' = "connecting"
    BY <1>1 DEF Open, SetState, Sockets
<1> HIDE DEF new
<1>3. new \in Sockets /\ new = n + 1 /\ phase[new] = "none"
    BY <1>1 DEF new
<1>4. /\ phase' \in [Sockets -> {"none", "connecting", "open", "closing", "gone"}]
      /\ settled' \in [Sockets -> {"none", "pending", "ok", "failed"}]
      /\ settled'[new] = "pending" /\ phase'[new] = "connecting"
      /\ \A k \in Sockets : k # new => phase'[k] = phase[k]
    BY <1>2, <1>3 DEF TypeOK
<1>5. \A k \in Sockets : k # new => ~Live(k)
    BY DEF OneSocket, Live, Short, Connected, TypeOK, Sockets
<1>6. OneSocket'
    BY <1>2, <1>3, <1>4, <1>5 DEF OneSocket, Live
<1>7. SocketsLeft'
    <2>1. n + 1 <= faults' + 1 /\ n + 1 \in Nat
        BY <1>1 DEF TypeOK
    <2>2. Used(n + 1)'
        BY <1>1, <1>3, <1>4 DEF Used, Sockets
    <2>3. ~(\A k \in Sockets : ~Live(k)')
        BY <1>3, <1>4 DEF Live
    <2> QED
        BY <2>1, <2>2, <2>3 DEF SocketsLeft
<1>8. \A w \in {boot, loop, ensure} : w.pc = "connect" => settled'[w.k] # "ok"
    BY <1>2, <1>3, <1>4 DEF Calm, TypeOK
<1> QED
    BY <1>2, <1>3, <1>4, <1>6, <1>7, <1>8 DEF new

-----------------------------------------------------------------------------
(* The sockets                                                             *)
LEMMA ConnectingIsMine ==
    ASSUME IInv, NEW k \in Sockets, phase[k] = "connecting"
    PROVE  k = socket /\ Waiting(k) /\ state = "connecting" /\ k # 0
BY DEF IInv, OneSocket, Live, Waiting, Sockets, TypeOK

LEMMA OnOpenInv ==
    ASSUME IInv, NEW k \in Sockets, OnOpen(k)
    PROVE  IInv'
<1> USE DEF IInv
<1>1. k = socket /\ Waiting(k) /\ state = "connecting" /\ k # 0
    BY ConnectingIsMine DEF OnOpen
<1>2. /\ SetState("open") /\ settled' = [settled EXCEPT ![k] = "ok"]
      /\ phase' = [phase EXCEPT ![k] = "open"]
      /\ UNCHANGED <<socket, boot, loop, ensure, call, faults>>
    BY <1>1 DEF OnOpen
<1>3. /\ phase' \in [Sockets -> {"none", "connecting", "open", "closing", "gone"}]
      /\ settled' \in [Sockets -> {"none", "pending", "ok", "failed"}]
      /\ phase'[k] = "open" /\ phase[k] = "connecting"
      /\ \A j \in Sockets : j # k => phase'[j] = phase[j]
    BY <1>2 DEF TypeOK, OnOpen
<1>4. state' = "open"
    BY <1>2, StateSet
<1>5. TypeOK'
    BY <1>2, <1>3, <1>4, StateSet DEF TypeOK, CallsOK
<1>6. SocketsLeft'
    BY <1>2, <1>3 DEF SocketsLeft, Used, Live
<1>7. OneSocket'
    BY <1>1, <1>2, <1>3, <1>4 DEF OneSocket, Live
<1>8. ResolvedIsOpen'
    BY <1>4 DEF ResolvedIsOpen
<1>9. BootFirst'
    BY <1>2, <1>3, StateSet DEF BootFirst, Booted
<1>10. SentOnSocket'
    BY <1>2, <1>3 DEF SentOnSocket, TypeOK, CallsOK, CallRecord
<1>11. TriesAgain' /\ LinkHonest'
    BY <1>2, <1>4, StateSet DEF TriesAgain, LinkHonest, Booted
<1> QED
    BY <1>5, <1>6, <1>7, <1>8, <1>9, <1>10, <1>11

(* A pending socket that fails, by its error event or by the timer         *)
LEMMA FailedInv ==
    ASSUME IInv, Calm, NEW k \in Sockets, phase[k] = "connecting",
           SetState("error"), settled' = [settled EXCEPT ![k] = "failed"],
           socket' \in {socket, 0}, phase' = [phase EXCEPT ![k] = "closing"],
           Fault, UNCHANGED <<boot, loop, ensure, call>>
    PROVE  IInv'
<1> USE DEF IInv
<1>1. k = socket /\ Waiting(k) /\ state = "connecting" /\ k # 0
    BY ConnectingIsMine
<1>2. /\ phase' \in [Sockets -> {"none", "connecting", "open", "closing", "gone"}]
      /\ settled' \in [Sockets -> {"none", "pending", "ok", "failed"}]
      /\ phase'[k] = "closing"
      /\ \A j \in Sockets : j # k => phase'[j] = phase[j]
    BY DEF TypeOK
<1>3. state' = "error"
    BY StateSet
<1>4. faults' \in 0..MaxFaults /\ faults' = faults + 1
    BY GatewayAssumption DEF Fault, TypeOK
<1>5. TypeOK'
    BY <1>2, <1>3, <1>4, StateSet DEF TypeOK, CallsOK
<1>6. SocketsLeft'
    BY <1>2, <1>4 DEF SocketsLeft, Used, TypeOK
<1>7. OneSocket'
    BY <1>1, <1>2, <1>3 DEF OneSocket, Live
<1>8. ResolvedIsOpen'
    BY DEF ResolvedIsOpen, Calm, TypeOK
<1>9. BootFirst'
    BY StateSet DEF BootFirst, Booted
<1>10. SentOnSocket'
    BY <1>2 DEF SentOnSocket, TypeOK, CallsOK, CallRecord
<1>11. TriesAgain' /\ LinkHonest'
    BY <1>3, StateSet DEF TriesAgain, LinkHonest, Booted
<1> QED
    BY <1>5, <1>6, <1>7, <1>8, <1>9, <1>10, <1>11

LEMMA OnErrorInv ==
    ASSUME IInv, NEW k \in Sockets, OnError(k)
    PROVE  IInv'
BY ConnectingIsMine, FailedInv DEF OnError

LEMMA OnTimeoutInv ==
    ASSUME IInv, NEW k \in Sockets, OnTimeout(k)
    PROVE  IInv'
BY ConnectingIsMine, FailedInv DEF OnTimeout

LEMMA DropInv ==
    ASSUME IInv, NEW k \in Sockets, Drop(k)
    PROVE  IInv'
<1> USE DEF IInv
<1>1. /\ phase' \in [Sockets -> {"none", "connecting", "open", "closing", "gone"}]
      /\ phase'[k] = "closing" /\ phase[k] = "open"
      /\ \A j \in Sockets : j # k => phase'[j] = phase[j]
    BY DEF TypeOK, Drop
<1>2. faults' \in 0..MaxFaults /\ faults' = faults + 1
    BY GatewayAssumption DEF Drop, Fault, TypeOK
<1>3. TypeOK'
    BY <1>1, <1>2 DEF TypeOK, CallsOK, Drop
<1>4. SocketsLeft'
    BY <1>1, <1>2 DEF SocketsLeft, Used, TypeOK
<1>5. OneSocket'
    BY <1>1 DEF OneSocket, Live, Drop
<1>6. ResolvedIsOpen' /\ TriesAgain' /\ LinkHonest'
    BY DEF ResolvedIsOpen, TriesAgain, LinkHonest, Drop, Booted
<1>7. BootFirst'
    BY <1>1 DEF BootFirst, Booted, Drop
<1>8. SentOnSocket'
    BY <1>1 DEF SentOnSocket, Drop, TypeOK, CallsOK
<1> QED
    BY <1>3, <1>4, <1>5, <1>6, <1>7, <1>8

LEMMA OnCloseInv ==
    ASSUME IInv, NEW k \in Sockets, OnClose(k)
    PROVE  IInv'
<1> USE DEF IInv
<1>1. /\ phase' \in [Sockets -> {"none", "connecting", "open", "closing", "gone"}]
      /\ phase'[k] = "gone" /\ phase[k] = "closing"
      /\ \A j \in Sockets : j # k => phase'[j] = phase[j]
      /\ UNCHANGED <<settled, boot, loop, ensure, faults>> /\ Calm /\ k # 0
    BY DEF TypeOK, OnClose, Sockets
<1>2. SocketsLeft'
    BY <1>1 DEF SocketsLeft, Used, Live
<1>3. CASE socket # k
    <2>1. UNCHANGED <<state, socket, timer, link, call>>
        BY <1>3 DEF OnClose, SameState
    <2>2. TypeOK'
        BY <1>1, <2>1 DEF TypeOK, CallsOK
    <2>3. OneSocket'
        BY <1>1, <1>3, <2>1 DEF OneSocket, Live, TypeOK
    <2>4. ResolvedIsOpen' /\ TriesAgain' /\ LinkHonest'
        BY <1>1, <2>1 DEF ResolvedIsOpen, TriesAgain, LinkHonest, Booted
    <2>5. BootFirst'
        BY <1>1, <2>1 DEF BootFirst, Booted
    <2>6. SentOnSocket'
        BY <1>1, <2>1 DEF SentOnSocket, TypeOK, CallsOK, CallRecord
    <2> QED
        BY <1>2, <2>2, <2>3, <2>4, <2>5, <2>6
<1>4. CASE socket = k
    <2>1. socket' = 0 /\ SetState("closed") /\ call' = Rejected
        BY <1>4 DEF OnClose
    <2>2. state' = "closed"
        BY <2>1, StateSet
    <2>3. \A c \in Calls : \/ call'[c] = call[c] /\ call[c].pc # "sent"
                           \/ call[c].pc = "sent" /\ call'[c].pc \in {"failed", "recover"}
        BY <2>1, StepOK DEF Rejected, TypeOK, CallsOK, CallPcs
    <2>4. CallsOK'
        BY <2>1, StepOK DEF Rejected, TypeOK, CallsOK, CallPcs
    <2>6. TypeOK'
        <3>1. /\ link' \in [everOpen : BOOLEAN, degraded : BOOLEAN, down : BOOLEAN,
                            grace : BOOLEAN]
              /\ timer' \in BOOLEAN
            BY <2>1, StateSet
        <3> QED
            BY <1>1, <2>1, <2>2, <2>4, <3>1 DEF TypeOK
    <2>7. OneSocket'
        BY <1>1, <1>4, <2>1, <2>2 DEF OneSocket, Live
    <2>8. ResolvedIsOpen'
        BY <1>1 DEF ResolvedIsOpen, Calm, TypeOK
    <2>9. BootFirst'
        <3>1. ~Booted' => loop' = Idle /\ ensure' = Idle /\ ~timer'
            BY <1>1, <2>1, StateSet DEF BootFirst, Booted
        <3>2. ~Booted' => \A c \in Calls : call'[c].pc = "idle"
            BY <1>1, <2>3, SMT DEF BootFirst, Booted
        <3>3. boot.pc # "lookup"
            BY <1>1 DEF BootFirst
        <3> QED
            BY <1>1, <3>1, <3>2, <3>3 DEF BootFirst
    <2>10. SentOnSocket'
        <3>1. \A c \in Calls : call'[c].pc = "sent" => call'[c] = call[c] /\ call[c].pc = "sent"
            BY <2>3
        <3> QED
            BY <1>1, <3>1 DEF SentOnSocket, TypeOK, CallsOK, CallRecord
    <2>11. TriesAgain' /\ LinkHonest'
        BY <1>1, <2>1, <2>2, StateSet DEF TriesAgain, LinkHonest, Booted
    <2> QED
        BY <1>2, <2>6, <2>7, <2>8, <2>9, <2>10, <2>11
<1> QED
    BY <1>3, <1>4

-----------------------------------------------------------------------------
(* The coroutines                                                          *)
LEMMA QuietKeeps ==
    ASSUME IInv, UNCHANGED <<socket, phase, settled, state>>,
           faults' \in 0..MaxFaults, faults <= faults'
    PROVE  SocketsLeft' /\ OneSocket'
<1> USE DEF IInv
<1>1. SocketsLeft'
    <2>1. PICK n \in Nat : /\ n <= faults + 1 /\ Used(n)
                           /\ (\A k \in Sockets : ~Live(k)) => n <= faults
        BY DEF SocketsLeft
    <2>2. Used(n)' /\ \A k \in Sockets : Live(k)' <=> Live(k)
        BY <2>1 DEF Used, Live
    <2>3. (n <= faults + 1 => n <= faults' + 1) /\ (n <= faults => n <= faults')
        <3>1. n \in Nat /\ faults \in Nat /\ faults' \in Nat
            BY <2>1, GatewayAssumption DEF TypeOK
        <3>2. \A a, b \in Nat : a <= b => (n <= a + 1 => n <= b + 1) /\ (n <= a => n <= b)
            BY <2>1
        <3> QED
            BY <3>1, <3>2
    <2>4. (\A k \in Sockets : ~Live(k)') => n <= faults'
        BY <2>1, <2>2, <2>3
    <2> QED
        BY <2>1, <2>2, <2>3, <2>4 DEF SocketsLeft
<1>2. OneSocket'
    BY DEF OneSocket, Live
<1> QED
    BY <1>1, <1>2

LEMMA FaultIsCounted ==
    ASSUME TypeOK, Fault \/ faults' = faults
    PROVE  faults' \in 0..MaxFaults /\ faults <= faults'
BY GatewayAssumption DEF TypeOK, Fault

(* One of the three opens a socket                                         *)
LEMMA ConnectInv ==
    ASSUME IInv, Calm, ~Short, Open, UNCHANGED <<call, faults>>,
           \/ /\ boot.pc = "lookup" /\ boot' = At("connect", NewSocket)
              /\ UNCHANGED <<loop, ensure>>
           \/ /\ loop.pc = "lookup" /\ loop' = At("connect", NewSocket)
              /\ UNCHANGED <<boot, ensure>>
           \/ /\ ensure.pc = "lookup" /\ ensure' = At("connect", NewSocket)
              /\ UNCHANGED <<boot, loop>>
    PROVE  IInv'
<1> USE DEF IInv
<1> DEFINE new == NewSocket
<1>1. /\ SocketsLeft' /\ OneSocket'
      /\ new \in Sockets /\ new # 0 /\ socket' = new
      /\ phase' \in [Sockets -> {"none", "connecting", "open", "closing", "gone"}]
      /\ settled' \in [Sockets -> {"none", "pending", "ok", "failed"}]
      /\ settled'[new] = "pending"
      /\ \A k \in Sockets : phase[k] # "none" => phase'[k] # "none"
      /\ \A w \in {boot, loop, ensure} : w.pc = "connect" => settled'[w.k] # "ok"
    BY Opened
<1> HIDE DEF new
<1>2. SetState("connecting")
    BY DEF Open
<1>3. state' = "connecting"
    BY <1>2, StateSet
<1>4. /\ boot.pc = "lookup" => ~Booted /\ loop = Idle /\ ensure = Idle
      /\ loop.pc = "lookup" \/ ensure.pc = "lookup" => Booted
    BY DEF BootFirst, Booted, Idle, At
<1>5. /\ (boot' = boot /\ boot.pc # "lookup") \/ boot' = At("connect", new)
      /\ loop' = loop \/ loop' = At("connect", new)
      /\ ensure' = ensure \/ ensure' = At("connect", new)
    BY <1>4 DEF new, Booted
<1>6. At("connect", new).pc = "connect" /\ At("connect", new).k = new
    BY DEF At
<1>7. TypeOK'
    <2>1. \A w \in {boot', loop', ensure'} : w.pc = "connect" <=> w.k # 0
        BY <1>1, <1>5, <1>6 DEF TypeOK
    <2>2. /\ boot' \in Coroutine({"lookup", "connect", "done", "failed"})
          /\ loop' \in Coroutine({"idle", "lookup", "connect", "resync"})
          /\ ensure' \in Coroutine({"idle", "lookup", "connect"})
        BY <1>1, <1>5 DEF TypeOK, Coroutine, At
    <2>3. /\ link' \in [everOpen : BOOLEAN, degraded : BOOLEAN, down : BOOLEAN, grace : BOOLEAN]
          /\ timer' \in BOOLEAN
        BY <1>2, StateSet
    <2>4. CallsOK'
        BY DEF TypeOK, CallsOK
    <2> QED
        BY <1>1, <1>3, <2>1, <2>2, <2>3, <2>4 DEF TypeOK
<1>8. ResolvedIsOpen'
    BY <1>1, <1>5, <1>6 DEF ResolvedIsOpen
<1>9. BootFirst'
    <2>1. ~Booted' => ~Booted /\ UNCHANGED <<loop, ensure>>
        BY <1>4, <1>5, <1>6 DEF Booted
    <2>2. ~Booted => ~timer'
        BY <1>2, StateSet
    <2>3. boot'.pc # "lookup"
        BY <1>5, <1>6
    <2> QED
        BY <2>1, <2>2, <2>3 DEF BootFirst
<1>10. SentOnSocket'
    BY <1>1 DEF SentOnSocket, TypeOK, CallsOK, CallRecord
<1>11. TriesAgain'
    BY <1>3 DEF TriesAgain
<1>12. LinkHonest'
    <2>1. Booted' => Booted
        BY <1>4, <1>5, <1>6 DEF Booted
    <2> QED
        BY <1>2, <1>3, <2>1, StateSet DEF LinkHonest
<1> QED
    BY <1>1, <1>7, <1>8, <1>9, <1>10, <1>11, <1>12

LEMMA BootLooksUpInv ==
    ASSUME IInv, BootLooksUp
    PROVE  IInv'
<1> USE DEF IInv
<1>1. ~Short
    BY DEF BootLooksUp, BootFirst, Short, Connected, TypeOK
<1>2. CASE Connect(boot, "done") /\ UNCHANGED faults
    BY <1>1, <1>2, ConnectInv DEF BootLooksUp, Connect
<1>3. CASE Fault /\ boot' = At("failed", 0) /\ UNCHANGED <<socket, phase, settled>> /\ SameState
    <2>1. faults' \in 0..MaxFaults /\ faults <= faults'
        BY <1>3, FaultIsCounted
    <2>2. SocketsLeft' /\ OneSocket'
        BY <1>3, <2>1, QuietKeeps DEF SameState
    <2>3. /\ UNCHANGED <<state, link, timer, socket, phase, settled, loop, ensure, call>>
          /\ boot'.pc = "failed" /\ boot'.k = 0
          /\ boot' \in Coroutine({"lookup", "connect", "done", "failed"})
        BY <1>3 DEF BootLooksUp, SameState, At, Coroutine
    <2>4. TypeOK'
        BY <2>1, <2>3 DEF TypeOK, CallsOK
    <2>5. ResolvedIsOpen' /\ SentOnSocket' /\ TriesAgain' /\ LinkHonest'
        BY <2>3 DEF ResolvedIsOpen, SentOnSocket, TriesAgain, LinkHonest, Booted
    <2>6. BootFirst'
        BY <2>3 DEF BootFirst, Booted, BootLooksUp
    <2> QED
        BY <2>2, <2>4, <2>5, <2>6
<1> QED
    BY <1>2, <1>3 DEF BootLooksUp

LEMMA BootConnectedInv ==
    ASSUME IInv, BootConnected
    PROVE  IInv'
<1> USE DEF IInv
<1>1. /\ UNCHANGED <<state, link, timer, socket, phase, settled, loop, ensure, call, faults>>
      /\ boot'.pc \in {"done", "failed"} /\ boot'.k = 0
      /\ boot' \in Coroutine({"lookup", "connect", "done", "failed"})
      /\ boot.pc = "connect" /\ (boot'.pc = "done" => settled[boot.k] = "ok")
    BY DEF BootConnected, At, Coroutine
<1>2. Booted' => state = "open"
    BY <1>1 DEF ResolvedIsOpen, Booted
<1>3. SocketsLeft' /\ OneSocket'
    BY <1>1, QuietKeeps, GatewayAssumption DEF TypeOK
<1>4. TypeOK'
    BY <1>1 DEF TypeOK, CallsOK
<1>5. ResolvedIsOpen' /\ SentOnSocket' /\ TriesAgain' /\ LinkHonest'
    BY <1>1, <1>2 DEF ResolvedIsOpen, SentOnSocket, TriesAgain, LinkHonest
<1>6. BootFirst'
    BY <1>1 DEF BootFirst, Booted
<1> QED
    BY <1>3, <1>4, <1>5, <1>6

(* A step of a coroutine or of a call that touches no socket               *)
LEMMA LoopStepInv ==
    ASSUME IInv, Calm \/ loop.pc = "connect",
           UNCHANGED <<state, link, socket, phase, settled, boot, ensure, call>>,
           faults' \in 0..MaxFaults, faults <= faults', Booted,
           loop'.pc # "connect", loop'.k = 0,
           loop' \in Coroutine({"idle", "lookup", "connect", "resync"}),
           timer' \in BOOLEAN, state \notin {"open", "connecting"} => timer' \/ loop'.pc # "idle"
    PROVE  IInv'
<1> USE DEF IInv
<1>1. SocketsLeft' /\ OneSocket'
    BY QuietKeeps
<1>2. TypeOK'
    BY DEF TypeOK, CallsOK
<1>3. ResolvedIsOpen' /\ SentOnSocket' /\ LinkHonest'
    BY DEF ResolvedIsOpen, SentOnSocket, LinkHonest, Booted
<1>4. TriesAgain'
    BY DEF TriesAgain
<1>5. BootFirst'
    BY DEF BootFirst, Booted
<1> QED
    BY <1>1, <1>2, <1>3, <1>4, <1>5

LEMMA LoopRuns == ASSUME IInv, timer \/ loop.pc # "idle" PROVE Booted
BY DEF IInv, BootFirst, Idle, At

LEMMA AtNothing ==
    /\ \A pc : At(pc, 0).pc = pc /\ At(pc, 0).k = 0 /\ Idle = At("idle", 0)
    /\ \A pcs : \A pc \in pcs : At(pc, 0) \in Coroutine(pcs)
BY DEF At, Idle, Coroutine

LEMMA RearmedIsSet == ASSUME IInv PROVE Rearmed \in BOOLEAN /\ (state # "open" => Rearmed)
BY DEF IInv, TypeOK, Rearmed

LEMMA AttemptInv ==
    ASSUME IInv, Calm, Booted, timer' = FALSE, Attempt,
           UNCHANGED <<state, socket, phase, settled, boot, ensure, call, link, faults>>
    PROVE  IInv'
<1> USE DEF IInv
<1>1. CASE loop.pc # "idle" \/ state = "open"
    <2>1. loop' = loop
        BY <1>1 DEF Attempt
    <2>2. SocketsLeft' /\ OneSocket'
        BY QuietKeeps, GatewayAssumption DEF TypeOK
    <2>3. TypeOK'
        BY <2>1 DEF TypeOK, CallsOK
    <2>4. ResolvedIsOpen' /\ SentOnSocket' /\ LinkHonest'
        BY <2>1 DEF ResolvedIsOpen, SentOnSocket, LinkHonest, Booted
    <2>5. TriesAgain' /\ BootFirst'
        BY <1>1, <2>1 DEF TriesAgain, BootFirst, Booted
    <2> QED
        BY <2>2, <2>3, <2>4, <2>5
<1>2. CASE ~(loop.pc # "idle" \/ state = "open")
    <2>1. loop' = At("lookup", 0)
        BY <1>2 DEF Attempt
    <2>2. loop'.pc = "lookup" /\ loop'.k = 0
          /\ loop' \in Coroutine({"idle", "lookup", "connect", "resync"})
        BY <2>1, AtNothing
    <2>3. faults' \in 0..MaxFaults /\ faults <= faults'
        BY GatewayAssumption DEF TypeOK
    <2> QED
        BY <2>2, <2>3, LoopStepInv
<1> QED
    BY <1>1, <1>2

LEMMA TimerFiresInv == ASSUME IInv, TimerFires PROVE IInv'
BY LoopRuns, AttemptInv DEF TimerFires

LEMMA NudgeInv == ASSUME IInv, Nudge PROVE IInv'
BY AttemptInv DEF Nudge

LEMMA LoopLooksUpInv == ASSUME IInv, LoopLooksUp PROVE IInv'
<1>1. Booted
    BY LoopRuns DEF LoopLooksUp
<1>2. CASE Fault /\ loop' = Idle /\ timer' = Rearmed
           /\ UNCHANGED <<state, link, socket, phase, settled>>
    <2>1. loop'.pc = "idle" /\ loop'.k = 0
          /\ loop' \in Coroutine({"idle", "lookup", "connect", "resync"})
        BY <1>2, AtNothing
    <2> QED
        BY <1>1, <1>2, <2>1, FaultIsCounted, RearmedIsSet, LoopStepInv DEF LoopLooksUp, IInv
<1>3. CASE Connect(loop, "resync") /\ UNCHANGED faults /\ ~Short
    BY <1>3, ConnectInv DEF LoopLooksUp, Connect
<1>4. CASE Connect(loop, "resync") /\ UNCHANGED faults /\ Short
    <2>1. /\ loop' = At("resync", 0)
          /\ UNCHANGED <<state, link, timer, socket, phase, settled>>
        BY <1>4 DEF Connect, SameState
    <2>2. loop'.pc = "resync" /\ loop'.k = 0
          /\ loop' \in Coroutine({"idle", "lookup", "connect", "resync"})
        BY <2>1, AtNothing
    <2>3. timer' \in BOOLEAN /\ faults' \in 0..MaxFaults /\ faults <= faults'
        BY <1>4, <2>1, GatewayAssumption DEF IInv, TypeOK
    <2> QED
        BY <1>1, <1>4, <2>1, <2>2, <2>3, LoopStepInv DEF LoopLooksUp
<1> QED
    BY <1>2, <1>3, <1>4 DEF LoopLooksUp

LEMMA LoopConnectedInv == ASSUME IInv, LoopConnected PROVE IInv'
<1>1. Booted
    BY LoopRuns DEF LoopConnected
<1>2. timer' \in BOOLEAN /\ faults' \in 0..MaxFaults /\ faults <= faults'
    BY RearmedIsSet, GatewayAssumption DEF IInv, TypeOK, LoopConnected
<1>3. /\ loop'.pc \in {"resync", "idle"} /\ loop'.k = 0
      /\ loop' \in Coroutine({"idle", "lookup", "connect", "resync"})
    BY AtNothing DEF LoopConnected
<1>4. state \notin {"open", "connecting"} => timer' \/ loop'.pc # "idle"
    BY AtNothing, RearmedIsSet DEF LoopConnected
<1> QED
    BY <1>1, <1>2, <1>3, <1>4, LoopStepInv DEF LoopConnected

LEMMA LoopResyncedInv == ASSUME IInv, LoopResynced PROVE IInv'
<1>1. Booted
    BY LoopRuns DEF LoopResynced
<1>2. timer' \in BOOLEAN /\ (state # "open" => timer')
    BY RearmedIsSet DEF LoopResynced
<1>3. faults' \in 0..MaxFaults /\ faults <= faults'
    BY GatewayAssumption DEF IInv, TypeOK, LoopResynced
<1>4. /\ loop'.pc = "idle" /\ loop'.k = 0
      /\ loop' \in Coroutine({"idle", "lookup", "connect", "resync"})
    BY AtNothing DEF LoopResynced
<1> QED
    BY <1>1, <1>2, <1>3, <1>4, LoopStepInv DEF LoopResynced

-----------------------------------------------------------------------------
(* The calls                                                               *)
LEMMA CallStepInv ==
    ASSUME IInv, Booted, CallsOK', Fault \/ UNCHANGED faults,
           UNCHANGED <<state, link, socket, phase, settled, boot, loop, timer>>,
           ensure' = ensure \/ ensure' = Idle \/ ensure' = At("lookup", 0),
           \A c \in Calls : call'[c].pc = "sent" =>
              \/ call[c].pc = "sent" /\ call'[c].k = call[c].k
              \/ Connected /\ call'[c].k = socket
    PROVE  IInv'
<1> USE DEF IInv
<1> faults' \in 0..MaxFaults /\ faults <= faults'
    BY FaultIsCounted
<1>1. SocketsLeft' /\ OneSocket'
    BY QuietKeeps
<1>2. /\ ensure' \in Coroutine({"idle", "lookup", "connect"})
      /\ ensure'.pc = "connect" <=> ensure'.k # 0
      /\ ensure' # ensure => ensure'.pc # "connect"
    BY AtNothing DEF TypeOK
<1>3. TypeOK'
    BY <1>2 DEF TypeOK
<1>4. ResolvedIsOpen'
    BY <1>2 DEF ResolvedIsOpen
<1>5. BootFirst' /\ TriesAgain' /\ LinkHonest'
    BY DEF BootFirst, TriesAgain, LinkHonest, Booted
<1>6. SentOnSocket'
    BY DEF SentOnSocket, Connected, TypeOK, CallsOK, CallRecord
<1> QED
    BY <1>1, <1>3, <1>4, <1>5, <1>6

(* To(c, pc), First(c) and Second(c) touch the call c only                 *)
LEMMA ToOK ==
    ASSUME TypeOK, NEW c \in Calls, NEW pc \in CallPcs
    PROVE  /\ To(c, pc) \in [Calls -> CallRecord]
           /\ To(c, pc)[c].pc = pc /\ To(c, pc)[c].again = call[c].again
           /\ \A d \in Calls : d # c => To(c, pc)[d] = call[d]
BY DEF To, TypeOK, CallsOK, CallRecord, CallPcs

LEMMA FirstOK ==
    ASSUME TypeOK, NEW c \in Calls, ~call[c].again
    PROVE  /\ First(c) \in [Calls -> CallRecord] /\ Second(c) \in [Calls -> CallRecord]
           /\ \A d \in Calls : d # c => First(c)[d] = call[d] /\ Second(c)[d] = call[d]
           /\ \/ Connected /\ First(c)[c].pc = "sent" /\ First(c)[c].k = socket
              \/ First(c)[c].pc = "recover"
           /\ \/ Connected /\ Second(c)[c].pc = "sent" /\ Second(c)[c].k = socket
              \/ Second(c)[c].pc = "failed"
           /\ ~First(c)[c].again
<1>1. "recover" \in CallPcs /\ "failed" \in CallPcs
    BY DEF CallPcs
<1>2. CASE Connected
    <2>1. socket \in Sockets \cup {0}
        BY DEF TypeOK
    <2> QED
        BY <1>2, <2>1 DEF First, Second, TypeOK, CallsOK, CallRecord, CallPcs
<1>3. CASE ~Connected
    BY <1>1, <1>3, ToOK DEF First, Second
<1> QED
    BY <1>2, <1>3

LEMMA CallRuns ==
    ASSUME IInv, ensure.pc # "idle" \/ \E c \in Calls : call[c].pc # "idle"
    PROVE  Booted
BY DEF IInv, BootFirst, Idle, At

(* One call goes on to a step that is no second attempt                    *)
LEMMA OneCallInv ==
    ASSUME IInv, Booted, NEW c \in Calls, NEW pc \in CallPcs, pc # "sent",
           pc \in {"done", "failed"} \/ ~call[c].again, call' = To(c, pc),
           ensure' = ensure \/ ensure' = At("lookup", 0),
           UNCHANGED <<state, link, socket, phase, settled, boot, loop, timer, faults>>
    PROVE  IInv'
<1>1. /\ call' \in [Calls -> CallRecord]
      /\ call'[c].pc = pc /\ call'[c].again = call[c].again
      /\ \A d \in Calls : d # c => call'[d] = call[d]
    BY ToOK DEF IInv
<1>2. CallsOK'
    <2>1. \A d \in Calls : call'[d].again => call'[d].pc \in {"sent", "done", "failed"}
        BY <1>1 DEF IInv, TypeOK, CallsOK
    <2> QED
        BY <1>1, <2>1 DEF CallsOK
<1>3. \A d \in Calls : call'[d].pc = "sent" => call[d].pc = "sent" /\ call'[d].k = call[d].k
    BY <1>1
<1> QED
    BY <1>2, <1>3, CallStepInv

(* One call is sent, or has nothing to be sent on                          *)
LEMMA SendInv ==
    ASSUME IInv, Booted, NEW c \in Calls, ~call[c].again, call' \in {First(c), Second(c)},
           UNCHANGED <<state, link, socket, phase, settled, boot, loop, timer, ensure, faults>>
    PROVE  IInv'
<1>1. /\ call' \in [Calls -> CallRecord]
      /\ \A d \in Calls : d # c => call'[d] = call[d]
      /\ \/ Connected /\ call'[c].pc = "sent" /\ call'[c].k = socket
         \/ call'[c].pc = "failed"
         \/ call'[c].pc = "recover" /\ ~call'[c].again
    BY FirstOK DEF IInv
<1>2. CallsOK'
    <2>1. \A d \in Calls : call'[d].again => call'[d].pc \in {"sent", "done", "failed"}
        BY <1>1 DEF IInv, TypeOK, CallsOK
    <2> QED
        BY <1>1, <2>1 DEF CallsOK
<1>3. \A d \in Calls : call'[d].pc = "sent" =>
         \/ call[d].pc = "sent" /\ call'[d].k = call[d].k
         \/ Connected /\ call'[d].k = socket
    BY <1>1
<1> QED
    BY <1>2, <1>3, CallStepInv

LEMMA FirstAttempt ==
    ASSUME IInv, NEW c \in Calls, call[c].pc \in {"idle", "recover", "ensure", "park"}
    PROVE  ~call[c].again
BY DEF IInv, TypeOK, CallsOK

LEMMA CallInv == ASSUME IInv, NEW c \in Calls, Call(c) PROVE IInv'
BY FirstAttempt, SendInv DEF Call

LEMMA RequestInv == ASSUME IInv, NEW c \in Calls, Request(c) PROVE IInv'
<1>1. /\ "done" \in CallPcs /\ "failed" \in CallPcs /\ "ensure" \in CallPcs
    BY DEF CallPcs
<1>2. call[c].pc # "idle"
    BY DEF Request, Recover, Answered, CallTimeout, Unparked
<1>3. Booted
    BY <1>2, CallRuns
<1>4. CASE Answered(c) \/ CallTimeout(c)
    BY <1>1, <1>3, <1>4, OneCallInv DEF Answered, CallTimeout
<1>5. CASE Recover(c)
    <2>1. ~call[c].again
        BY <1>5, FirstAttempt DEF Recover
    <2>2. CASE state = "open"
        BY <1>3, <1>5, <2>1, <2>2, SendInv DEF Recover
    <2>3. CASE state # "open"
        BY <1>1, <1>3, <1>5, <2>1, <2>3, OneCallInv DEF Recover
    <2> QED
        BY <2>2, <2>3
<1>6. CASE Unparked(c)
    <2>1. ~call[c].again
        BY <1>6, FirstAttempt DEF Unparked
    <2> QED
        BY <1>1, <1>3, <1>6, <2>1, SendInv, OneCallInv DEF Unparked
<1> QED
    BY <1>4, <1>5, <1>6 DEF Request

(* The calls that share ensureGatewayOpen go on together                   *)
LEMMA EnsuredInv ==
    ASSUME IInv, Booted, NEW found \in BOOLEAN, call' = Ensured(found), ensure' = Idle, Fault \/ UNCHANGED faults,
           UNCHANGED <<state, link, socket, phase, settled, boot, loop, timer>>
    PROVE  IInv'
<1>1. "park" \in CallPcs
    BY DEF CallPcs
<1>2. ASSUME NEW c \in Calls
      PROVE  /\ call'[c] \in CallRecord
             /\ call'[c].again => call'[c].pc \in {"sent", "done", "failed"}
             /\ call'[c].pc = "sent" => \/ call[c].pc = "sent" /\ call'[c].k = call[c].k
                                        \/ Connected /\ call'[c].k = socket
    <2>1. CASE call[c].pc # "ensure"
        <3>1. call'[c] = call[c]
            BY <2>1 DEF Ensured
        <3> QED
            BY <3>1 DEF IInv, TypeOK, CallsOK
    <2>2. CASE call[c].pc = "ensure" /\ found
        <3>1. call'[c] = Second(c)[c] /\ ~call[c].again
            BY <2>2, FirstAttempt DEF Ensured
        <3> QED
            BY <3>1, FirstOK DEF IInv
    <2>3. CASE call[c].pc = "ensure" /\ ~found
        <3>1. call'[c] = To(c, "park")[c] /\ ~call[c].again
            BY <2>3, FirstAttempt DEF Ensured
        <3> QED
            BY <1>1, <3>1, ToOK DEF IInv
    <2> QED
        BY <2>1, <2>2, <2>3
<1>3. CallsOK'
    <2>1. call' \in [Calls -> CallRecord]
        BY <1>2 DEF Ensured
    <2> QED
        BY <1>2, <2>1 DEF CallsOK
<1> QED
    BY <1>2, <1>3, CallStepInv

LEMMA EnsureLooksUpInv == ASSUME IInv, EnsureLooksUp PROVE IInv'
<1>1. Booted
    BY CallRuns DEF EnsureLooksUp
<1>2. CASE ~Short /\ ensure' = At("connect", NewSocket) /\ Open /\ UNCHANGED <<call, faults>>
    BY <1>2, ConnectInv DEF EnsureLooksUp
<1>3. CASE /\ Short /\ ensure' = Idle /\ call' = Ensured(TRUE) /\ SameState
           /\ UNCHANGED <<socket, phase, settled, faults>>
    BY <1>1, <1>3, EnsuredInv DEF EnsureLooksUp, SameState
<1>4. CASE /\ Fault /\ ensure' = Idle /\ call' = Ensured(FALSE) /\ SameState
           /\ UNCHANGED <<socket, phase, settled>>
    BY <1>1, <1>4, EnsuredInv DEF EnsureLooksUp, SameState
<1> QED
    BY <1>2, <1>3, <1>4 DEF EnsureLooksUp

LEMMA EnsureConnectedInv == ASSUME IInv, EnsureConnected PROVE IInv'
<1>1. Booted
    BY CallRuns DEF EnsureConnected
<1> QED
    BY <1>1, EnsuredInv DEF EnsureConnected

LEMMA GraceEndsInv == ASSUME IInv, GraceEnds PROVE IInv'
<1> USE DEF IInv
<1> DEFINE degraded == state # "open" /\ link.down
<1>1. degraded \in BOOLEAN /\ link' = [link EXCEPT !.grace = FALSE, !.degraded = degraded]
    BY Zenon DEF GraceEnds
<1>2. degraded => link.down /\ state # "open"
    OBVIOUS
<1>3. link.down /\ state # "open" => degraded
    OBVIOUS
<1> HIDE DEF degraded
<1>4. /\ link' \in [everOpen : BOOLEAN, degraded : BOOLEAN, down : BOOLEAN, grace : BOOLEAN]
      /\ link'.everOpen = link.everOpen /\ link'.down = link.down
      /\ link'.degraded = degraded
    BY <1>1 DEF TypeOK
<1>5. TypeOK'
    BY <1>4 DEF TypeOK, CallsOK, GraceEnds
<1>6. SocketsLeft' /\ OneSocket'
    BY QuietKeeps, GatewayAssumption DEF GraceEnds, TypeOK
<1>7. ResolvedIsOpen' /\ BootFirst' /\ SentOnSocket' /\ TriesAgain'
    BY DEF ResolvedIsOpen, BootFirst, SentOnSocket, TriesAgain, Booted, GraceEnds
<1>8. LinkHonest'
    BY <1>2, <1>3, <1>4 DEF LinkHonest, Booted, GraceEnds
<1> QED
    BY <1>5, <1>6, <1>7, <1>8

LEMMA StutterInv == ASSUME IInv, UNCHANGED vars PROVE IInv'
<1> USE DEF IInv, vars
<1>1. SocketsLeft' /\ OneSocket'
    BY QuietKeeps, GatewayAssumption DEF TypeOK
<1>2. TypeOK'
    BY DEF TypeOK, CallsOK
<1>3. ResolvedIsOpen' /\ BootFirst' /\ SentOnSocket' /\ TriesAgain' /\ LinkHonest'
    BY DEF ResolvedIsOpen, BootFirst, SentOnSocket, TriesAgain, LinkHonest, Booted
<1> QED
    BY <1>1, <1>2, <1>3

LEMMA NextIInv == IInv /\ [Next]_vars => IInv'
<1> SUFFICES ASSUME IInv, [Next]_vars PROVE IInv'
    OBVIOUS
<1>1. ASSUME NEW k \in Sockets, Socket(k) PROVE IInv'
    BY <1>1, OnOpenInv, OnErrorInv, OnTimeoutInv, DropInv, OnCloseInv DEF Socket
<1>2. CASE Boot
    BY <1>2, BootLooksUpInv, BootConnectedInv DEF Boot
<1>3. CASE Loop
    BY <1>3, TimerFiresInv, LoopLooksUpInv, LoopConnectedInv, LoopResyncedInv DEF Loop
<1>4. CASE Nudge
    BY <1>4, NudgeInv
<1>5. CASE Ensure
    BY <1>5, EnsureLooksUpInv, EnsureConnectedInv DEF Ensure
<1>6. CASE GraceEnds
    BY <1>6, GraceEndsInv
<1>7. ASSUME NEW c \in Calls, Call(c) \/ Request(c) PROVE IInv'
    BY <1>7, CallInv, RequestInv
<1>8. CASE UNCHANGED vars
    BY <1>8, StutterInv
<1> QED
    BY <1>1, <1>2, <1>3, <1>4, <1>5, <1>6, <1>7, <1>8 DEF Next

LEMMA Invariance == Spec => []IInv
BY InitIInv, NextIInv, PTL DEF Spec

-----------------------------------------------------------------------------
(* The connection, the coroutines, the calls and the link keep their       *)
(* types, for any number of calls and faults: there is always a socket     *)
(* left for connect() (json-rpc-gateway.ts:94-184).                        *)
THEOREM TypeCorrect == Spec => []TypeOK
<1>1. IInv => TypeOK
    BY DEF IInv
<1> QED
    BY <1>1, Invariance, PTL

(* A booted client that is not open has a timer, an attempt or a pending   *)
(* connect() that brings it back (use-gateway-boot.ts:122-248).            *)
THEOREM NeverStrandedAlways == Spec => []NeverStranded
<1>1. IInv => NeverStranded
    <2> SUFFICES ASSUME IInv, Booted, state # "open"
                 PROVE  \/ timer \/ loop.pc # "idle"
                        \/ state = "connecting" /\ Waiting(socket)
        BY DEF NeverStranded
    <2>1. CASE state = "connecting"
        BY <2>1 DEF IInv, OneSocket, Waiting
    <2>2. CASE state # "connecting"
        BY <2>2 DEF IInv, TriesAgain
    <2> QED
        BY <2>1, <2>2
<1> QED
    BY <1>1, Invariance, PTL

(* The boot, the loop and the requests, each with a connect() of its own,  *)
(* never replace a live socket, so that no call waits on a socket that     *)
(* nobody listens to (json-rpc-gateway.ts:95-97, 219-262).                 *)
THEOREM NoCallOrphanedAlways == Spec => []NoCallOrphaned
<1>1. IInv => NoCallOrphaned
    <2> SUFFICES ASSUME IInv, NEW c \in Calls, call[c].pc = "sent", call[c].k # socket
                 PROVE  phase[call[c].k] \in {"closing", "gone"}
        BY DEF NoCallOrphaned
    <2>1. call[c].k \in Sockets /\ phase[call[c].k] # "none"
        BY DEF IInv, SentOnSocket, TypeOK, CallsOK, CallRecord
    <2>2. ~Live(call[c].k)
        BY <2>1 DEF IInv, OneSocket
    <2> QED
        BY <2>1, <2>2 DEF IInv, TypeOK, Live
<1> QED
    BY <1>1, Invariance, PTL

(* The composer is usable while the link is up, and while it is down until *)
(* the grace timer has run out (gateway-link.ts:47-94).                    *)
THEOREM ComposerHonestAlways == Spec => []ComposerHonest
<1>1. IInv => ComposerHonest
    BY DEF IInv, LinkHonest, ComposerHonest
<1> QED
    BY <1>1, Invariance, PTL
=============================================================================
