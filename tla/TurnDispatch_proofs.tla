------------------------- MODULE TurnDispatch_proofs -------------------------
(* Theorems about TurnDispatch: a turn has one entry or one handler, runs  *)
(* at most once, and its receipt tells the truth, for any number of        *)
(* workers, tenants and turns and under every fault.                       *)
EXTENDS TurnDispatch, TenantRegistry_proofs

LEMMA InitTurnInv == TurnInit => TurnInv
<1> SUFFICES ASSUME TurnInit PROVE TurnInv
    OBVIOUS
<1> USE DEF TurnInit
<1>1. RegistryInv
    BY InitRegistryInv
<1>2. TurnTypeOK
    BY <1>1 DEF TurnTypeOK, RegistryInv, Receipts
<1>3. \A s \in Streams, m \in Messages : pending[s][m] = 0
    OBVIOUS
<1>4. OnePlace
    BY <1>3 DEF OnePlace, OneEntry, EntryOrHandler
<1>5. \A c \in Calls : call[c].pc = "idle"
    BY DEF Init, IdleCall
<1>6. AtMostOnce /\ ReceiptTruth /\ TurnPhase /\ UnpostedIdle
    BY <1>5 DEF AtMostOnce, ReceiptTruth, TurnPhase, Turns, UnpostedIdle
<1> QED
    BY <1>1, <1>2, <1>4, <1>6 DEF TurnInv

-----------------------------------------------------------------------------
(* What a step of the registry does to the handlers: an idle one stays     *)
(* idle, one that has not run yet goes on or ends, others stay or are lost *)
(* with their process.                                                     *)
CallMoves ==
    \A c \in Calls :
        \/ call'[c] = call[c]
        \/ call[c].pc \in PrePcs /\ call'[c].pc \in PrePcs \cup {"done"}
        \/ call[c].pc \in ActivePcs \cup {"leaked"} /\ call'[c].pc = "lost"

LEMMA RegistryStepMoves ==
    ASSUME RegistryInv, RegistryStep
    PROVE  CallMoves
<1>1. \A c \in Calls : call[c] \in CallState
    BY DEF RegistryInv, TypeOK
<1>2. ASSUME NEW c \in Calls, EnsureAttached(c) PROVE CallMoves
    <2>1. call[c].pc \in PrePcs
        BY <1>2 DEF EnsureAttached, Enter, Beat, Slip, Acquire, Lookup, Check, ReleaseGet,
           ReleaseDel, AttachProfile, AttachRaises, Commit, PrePcs, LockedPcs
    <2>2. \A d \in Calls \ {c} : call'[d] = call[d]
        BY <1>2 DEF EnsureAttached, Enter, Beat, Slip, Acquire, Lookup, Check, ReleaseGet,
           ReleaseDel, AttachProfile, AttachRaises, Commit, Goto, RegistryInv, TypeOK
    <2>3. call'[c].pc \in PrePcs \cup {"done"}
        BY <1>1, <1>2 DEF EnsureAttached, Enter, Beat, Slip, Acquire, Lookup, Check,
           ReleaseGet, ReleaseDel, AttachProfile, AttachRaises, Commit, Goto, RegistryInv,
           TypeOK, PrePcs, LockedPcs, CallState
    <2> QED
        BY <2>1, <2>2, <2>3 DEF CallMoves
<1>3. CASE UNCHANGED call
    BY <1>3 DEF CallMoves
<1>4. ASSUME NEW w \in Workers, WorkerStep(w) \/ DrainStart(w) \/ Crash(w)
      PROVE  CallMoves
    <2>1. CASE DrainStart(w)
        BY <1>1, <2>1 DEF DrainStart, CallMoves, CallState
    <2>2. CASE DrainEnd(w) \/ Crash(w)
        BY <1>1, <2>2 DEF DrainEnd, Crash, Down, CallMoves, CallState
    <2>3. CASE Maintenance(w)
        BY <1>3, <2>3 DEF Maintenance, MaintTick, MaintBeat, MaintLost, MaintReap,
           MaintKeep, MaintSleep
    <2>4. CASE Control(w) \/ DrainNext(w) \/ Restart(w)
        BY <1>3, <2>4 DEF Control, CtlTake, CtlDetach, DrainNext, Restart, loopVars
    <2>5. ASSUME NEW l \in Loops, DetachStep(w, l) PROVE CallMoves
        BY <1>3, <2>5 DEF DetachStep, Unprofile, DetachRelGet, DetachRelDel
    <2> QED
        BY <1>4, <2>1, <2>2, <2>3, <2>4, <2>5 DEF WorkerStep
<1>5. ASSUME NEW s \in Stops, StopStep(s) PROVE CallMoves
    BY <1>3, <1>5 DEF StopStep, StopHolder, StopNudge, StopNoHolder, StopStale,
       StopRelGet, StopRelDel
<1>6. ASSUME NEW w \in Workers, RegExpire(w) PROVE CallMoves
    BY <1>3, <1>6 DEF RegExpire
<1>7. ASSUME NEW t \in Tenants, LeaseExpire(t) PROVE CallMoves
    BY <1>3, <1>7 DEF LeaseExpire
<1> QED
    BY <1>2, <1>4, <1>5, <1>6, <1>7 DEF RegistryStep

-----------------------------------------------------------------------------
(* The streams                                                             *)
Unlisted(c) == \A s \in Streams, m \in Messages : m.job = c => pending[s][m] = 0

LEMMA PendingNat ==
    ASSUME TurnTypeOK, NEW s \in Streams, NEW m \in Messages
    PROVE  pending[s][m] \in Nat
BY DEF TurnTypeOK

(* A call that is not idle, or not posted, has no entry.                   *)
LEMMA NoEntry ==
    ASSUME TurnTypeOK, OnePlace, NEW c \in Calls, call[c].pc # "idle" \/ posted[c] # "yes"
    PROVE  Unlisted(c)
<1> SUFFICES ASSUME NEW s \in Streams, NEW m \in Messages, m.job = c
             PROVE  pending[s][m] = 0
    BY DEF Unlisted
<1>1. pending[s][m] \in Nat
    BY PendingNat
<1> QED
    BY <1>1 DEF OnePlace, EntryOrHandler

(* Nothing is added or taken, idle turns stay idle.                        *)
LEMMA PlaceKept ==
    ASSUME OnePlace, UNCHANGED pending,
           \A c \in Calls : call[c].pc = "idle" => call'[c].pc = "idle",
           \A c \in Calls : posted[c] = "yes" => posted'[c] = "yes"
    PROVE  OnePlace'
<1>1. \A m \in Messages : m.job \in Calls
    BY DEF Messages
<1> QED
    BY <1>1 DEF OnePlace, OneEntry, EntryOrHandler

(* The entry of a turn without one is added.                               *)
LEMMA PlacePut ==
    ASSUME TurnTypeOK, OnePlace, NEW c \in Calls, Unlisted(c),
           NEW s \in Streams, NEW m \in Messages, m.job = c, Put(s, m),
           call'[c].pc = "idle", posted'[c] = "yes",
           \A d \in Calls \ {c} : call'[d] = call[d] /\ posted'[d] = posted[d]
    PROVE  OnePlace'
<1>1. \A r \in Streams, n \in Messages :
          pending'[r][n] = IF r = s /\ n = m THEN 1 ELSE pending[r][n]
    BY DEF Put, TurnTypeOK, Unlisted
<1>2. \A r \in Streams, n \in Messages :
          n.job = c => pending'[r][n] = IF r = s /\ n = m THEN 1 ELSE 0
    BY <1>1 DEF Unlisted
<1>3. \A r \in Streams, n \in Messages : n.job # c => pending'[r][n] = pending[r][n]
    BY <1>1
<1>4. \A n \in Messages : n.job \in Calls
    BY DEF Messages
<1>5. OneEntry'
    BY <1>2, <1>3, <1>4 DEF OnePlace, OneEntry
<1>6. EntryOrHandler'
    BY <1>2, <1>3, <1>4 DEF OnePlace, EntryOrHandler
<1> QED
    BY <1>5, <1>6 DEF OnePlace

(* The entry of a turn is taken: it was the only one.                      *)
LEMMA PlaceTaken ==
    ASSUME TurnTypeOK, OnePlace, NEW c \in Calls,
           NEW s \in Streams, NEW m \in Messages, m.job = c, Take(s, m),
           UNCHANGED posted, \A d \in Calls \ {c} : call'[d] = call[d]
    PROVE  OnePlace' /\ posted[c] = "yes" /\ pending' \in [Streams -> [Messages -> Nat]]
<1>1. pending[s][m] > 0 /\ pending[s][m] = 1
    BY DEF Take, OnePlace, OneEntry
<1>2. \A r \in Streams, n \in Messages :
          pending'[r][n] = IF r = s /\ n = m THEN 0 ELSE pending[r][n]
    BY <1>1 DEF Take, TurnTypeOK
<1>3. \A r \in Streams, n \in Messages : n.job = c => ~(pending'[r][n] > 0)
    <2> SUFFICES ASSUME NEW r \in Streams, NEW n \in Messages, n.job = c,
                        pending'[r][n] > 0
                 PROVE  FALSE
        OBVIOUS
    <2>1. ~(r = s /\ n = m) /\ pending[r][n] > 0
        BY <1>2
    <2> QED
        BY <1>1, <2>1 DEF OnePlace, OneEntry
<1>4. \A r \in Streams, n \in Messages : n.job # c => pending'[r][n] = pending[r][n]
    BY <1>2
<1>5. \A n \in Messages : n.job \in Calls
    BY DEF Messages
<1>6. OneEntry'
    BY <1>3, <1>4, <1>5 DEF OnePlace, OneEntry
<1>7. EntryOrHandler'
    BY <1>3, <1>4, <1>5 DEF OnePlace, EntryOrHandler
<1>8. pending' \in [Streams -> [Messages -> Nat]]
    BY <1>1 DEF Take, TurnTypeOK
<1> QED
    BY <1>1, <1>6, <1>7, <1>8 DEF OnePlace, EntryOrHandler

-----------------------------------------------------------------------------
(* What TurnInv knows of one turn.                                         *)
Known(j) ==
    LET pc == call[j].pc
    IN  /\ posted[j] = "no" => receipt[j] = "none"
        /\ posted[j] = "persisted" => receipt[j] = "queued"
        /\ posted[j] = "yes" /\ pc \in PrePcs \cup {"idle"} => receipt[j] = "queued"
        /\ pc \in PrePcs \cup {"idle", "leaked"} => ran[j] = 0
        /\ pc = "leaked" => receipt[j] \in {"queued", "running"}
        /\ pc = "run" => receipt[j] = "running" /\ ran[j] = 1
        /\ pc = "post" => receipt[j] \in Terminal /\ ran[j] = 1
        /\ pc \notin {"done", "lost"} => replies[j] = 0
        /\ ran[j] <= 1
        /\ receipt[j] = "completed" => ran[j] = 1
        /\ receipt[j] \in {"none", "queued"} => ran[j] = 0
        /\ replies[j] <= 1
        /\ replies[j] = 1 => receipt[j] \in Terminal /\ ran[j] = 1

LEMMA KnownIs == (\A j \in Turns : Known(j)) <=> AtMostOnce /\ ReceiptTruth /\ TurnPhase
BY DEF Known, AtMostOnce, ReceiptTruth, TurnPhase

Same(c) == call'[c] = call[c] /\ posted'[c] = posted[c]
SameTurn(k) == Same(k) /\ receipt'[k] = receipt[k] /\ ran'[k] = ran[k] /\ replies'[k] = replies[k]

(* One turn moves and keeps what is known of it; the others stay.          *)
LEMMA KnownKept ==
    ASSUME TurnInv, NEW j \in Calls, j \in Turns => Known(j)',
           \A k \in Turns \ {j} : SameTurn(k)
    PROVE  AtMostOnce' /\ ReceiptTruth' /\ TurnPhase'
<1>1. \A k \in Turns : Known(k)
    BY KnownIs DEF TurnInv
<1>2. \A k \in Turns \ {j} : Known(k)'
    BY <1>1 DEF SameTurn, Same, Known
<1>3. \A k \in Turns : Known(k)'
    BY <1>2
<1> QED
    BY <1>3 DEF Known, AtMostOnce, ReceiptTruth, TurnPhase

(* Nothing but the handlers moves, as CallMoves allows.                    *)
LEMMA QuietInv ==
    ASSUME TurnInv, RegistryInv', CallMoves, UNCHANGED turnVars
    PROVE  TurnInv'
<1> USE DEF TurnInv, turnVars
<1>1. TurnTypeOK'
    BY DEF TurnTypeOK, RegistryInv
<1>2. OnePlace' /\ UnpostedIdle'
    <2>1. \A c \in Calls : call[c].pc = "idle" => call'[c].pc = "idle"
        BY DEF CallMoves, PrePcs, ActivePcs, LockedPcs
    <2> QED
        BY <2>1, PlaceKept DEF UnpostedIdle
<1>3. ASSUME NEW j \in Turns PROVE Known(j)'
    <2>1. j \in Calls /\ Known(j)
        BY KnownIs DEF Turns
    <2>2. CASE call'[j] = call[j]
        BY <2>1, <2>2 DEF Known
    <2>3. CASE call[j].pc \in PrePcs /\ call'[j].pc \in PrePcs \cup {"done"}
        BY <2>1, <2>3 DEF Known, PrePcs, LockedPcs, TurnTypeOK
    <2>4. CASE call[j].pc \in ActivePcs \cup {"leaked"} /\ call'[j].pc = "lost"
        BY <2>1, <2>4 DEF Known, PrePcs, LockedPcs
    <2> QED
        BY <2>1, <2>2, <2>3, <2>4 DEF CallMoves
<1>4. AtMostOnce' /\ ReceiptTruth' /\ TurnPhase'
    BY <1>3 DEF Known, AtMostOnce, ReceiptTruth, TurnPhase
<1> QED
    BY <1>1, <1>2, <1>4

-----------------------------------------------------------------------------
(* Producers                                                               *)
LEMMA PersistTurnInv ==
    ASSUME TurnInv, NEW j \in Turns, PersistTurn(j)
    PROVE  TurnInv'
<1> USE DEF TurnInv, PersistTurn, Mark
<1>1. RegistryInv'
    BY PlainInv DEF vars, loopVars, RegistryInv, TypeOK
<1>2. TurnTypeOK'
    BY <1>1 DEF TurnTypeOK, RegistryInv, Receipts
<1>3. j \in Calls /\ Known(j)
    BY KnownIs DEF Turns
<1>4. OnePlace' /\ UnpostedIdle'
    BY <1>3, PlaceKept DEF TurnTypeOK, vars, UnpostedIdle
<1>5. Known(j)'
    BY <1>3 DEF Known, TurnTypeOK, vars, Terminal
<1>6. \A k \in Turns \ {j} : SameTurn(k)
    BY DEF SameTurn, Same, TurnTypeOK, vars, Turns
<1> QED
    BY <1>1, <1>2, <1>3, <1>4, <1>5, <1>6, KnownKept

LEMMA RouteTurnInv ==
    ASSUME TurnInv, NEW j \in Turns, RouteTurn(j) \/ RouteLost(j)
    PROVE  TurnInv'
<1> USE DEF TurnInv
<1>0. /\ UNCHANGED <<vars, hops, receipt, ran, replies>>
      /\ posted[j] = "persisted" /\ posted' = [posted EXCEPT ![j] = "yes"]
    BY DEF RouteTurn, RouteLost
<1>1. RegistryInv'
    BY <1>0, PlainInv DEF vars, loopVars, RegistryInv, TypeOK
<1>2. j \in Calls /\ Known(j) /\ call[j].pc = "idle"
    BY <1>0, KnownIs DEF Turns, UnpostedIdle
<1>3. OnePlace' /\ pending' \in [Streams -> [Messages -> Nat]]
    <2>1. CASE UNCHANGED pending
        <3>1. \A c \in Calls : posted[c] = "yes" => posted'[c] = "yes"
            BY <1>0 DEF TurnTypeOK
        <3> QED
            BY <1>0, <2>1, <3>1, PlaceKept DEF TurnTypeOK, vars
    <2>2. CASE RouteTurn(j)
        <3> DEFINE h == LiveHolder(TenantOf[j])
                   s == IF h = None THEN Shared ELSE h
        <3>1. s \in Streams
            BY DEF LiveHolder, RegistryInv, TypeOK, Streams
        <3>2. Message(j, 0) \in Messages /\ Message(j, 0).job = j
            BY <1>2 DEF Message, Messages
        <3>3. Unlisted(j)
            BY <1>0, <1>2, NoEntry
        <3>4. \A d \in Calls \ {j} : call'[d] = call[d] /\ posted'[d] = posted[d]
            BY <1>0 DEF TurnTypeOK, vars
        <3>5. call'[j].pc = "idle" /\ posted'[j] = "yes"
            BY <1>0, <1>2 DEF TurnTypeOK, vars
        <3>6. Put(s, Message(j, 0))
            BY <2>2 DEF RouteTurn
        <3> HIDE DEF s
        <3>7. OnePlace'
            BY <1>2, <3>1, <3>2, <3>3, <3>4, <3>5, <3>6, PlacePut
        <3>8. pending' \in [Streams -> [Messages -> Nat]]
            BY <3>1, <3>2, <3>6 DEF Put, TurnTypeOK
        <3> QED
            BY <3>7, <3>8
    <2> QED
        BY <2>1, <2>2 DEF RouteLost
<1>4. TurnTypeOK' /\ UnpostedIdle'
    BY <1>0, <1>1, <1>3 DEF TurnTypeOK, RegistryInv, UnpostedIdle, vars
<1>5. Known(j)'
    BY <1>0, <1>2 DEF Known, TurnTypeOK, vars, PrePcs, LockedPcs
<1>6. \A k \in Turns \ {j} : SameTurn(k)
    BY <1>0 DEF SameTurn, Same, TurnTypeOK, vars, Turns
<1> QED
    BY <1>1, <1>2, <1>3, <1>4, <1>5, <1>6, KnownKept

LEMMA RequestAttachInv ==
    ASSUME TurnInv, NEW c \in Warm, RequestAttach(c)
    PROVE  TurnInv'
<1> USE DEF TurnInv, RequestAttach
<1>1. RegistryInv'
    BY PlainInv DEF vars, loopVars, RegistryInv, TypeOK
<1>2. c \in Calls /\ c \notin Turns
    BY RegistryAssumption DEF Turns
<1>3. call[c].pc = "idle" /\ Unlisted(c)
    BY <1>2, NoEntry DEF UnpostedIdle
<1>4. Attach \in Streams /\ Message(c, 0) \in Messages /\ Message(c, 0).job = c
    BY <1>2 DEF Streams, Message, Messages
<1>5. /\ \A d \in Calls \ {c} : call'[d] = call[d] /\ posted'[d] = posted[d]
      /\ call'[c].pc = "idle" /\ posted'[c] = "yes"
    BY <1>2, <1>3 DEF TurnTypeOK, vars
<1>6. OnePlace'
    BY <1>2, <1>3, <1>4, <1>5, PlacePut
<1>7. pending' \in [Streams -> [Messages -> Nat]]
    BY <1>4 DEF Put, TurnTypeOK
<1>8. TurnTypeOK' /\ UnpostedIdle'
    BY <1>1, <1>2, <1>5, <1>7 DEF TurnTypeOK, RegistryInv, UnpostedIdle, vars
<1>9. \A k \in Turns \ {c} : SameTurn(k)
    BY <1>5 DEF SameTurn, Same, Turns
<1> QED
    BY <1>1, <1>2, <1>6, <1>8, <1>9, KnownKept

-----------------------------------------------------------------------------
(* Consumers                                                               *)
LEMMA ReadInv ==
    ASSUME TurnInv, NEW c \in Calls, NEW w \in Workers, Read(c, w)
    PROVE  TurnInv'
<1> USE DEF TurnInv
<1>1. PICK s \in (IF c \in Warm THEN {Attach} ELSE {Shared, w}), h \in {0, 1} :
          Take(s, Message(c, h)) /\ hops' = [hops EXCEPT ![c] = h]
    BY DEF Read
<1>2. StartHandler(c, w) /\ UNCHANGED <<posted, receipt, ran, replies>>
    BY DEF Read
<1>3. RegistryInv'
    BY <1>2, StartHandlerInv
<1>4. s \in Streams /\ Message(c, h) \in Messages /\ Message(c, h).job = c
    BY DEF Streams, Message, Messages
<1>5. \A d \in Calls \ {c} : call'[d] = call[d] /\ posted'[d] = posted[d]
    BY <1>2 DEF StartHandler, RegistryInv, TypeOK
<1>6. call[c].pc = "idle" /\ call'[c].pc = "lock"
    BY <1>1, <1>2, <1>4 DEF StartHandler, RegistryInv, TypeOK, IdleCall, Take, OnePlace, EntryOrHandler
<1>7. OnePlace' /\ posted[c] = "yes" /\ pending' \in [Streams -> [Messages -> Nat]]
    BY <1>1, <1>2, <1>4, <1>5, PlaceTaken
<1>8. TurnTypeOK'
    BY <1>1, <1>2, <1>3, <1>7 DEF TurnTypeOK, RegistryInv
<1>9. UnpostedIdle'
    BY <1>2, <1>5, <1>7 DEF UnpostedIdle
<1>10. c \in Turns => Known(c)'
    BY <1>2, <1>6, <1>7, KnownIs DEF Known, PrePcs, LockedPcs
<1>11. \A k \in Turns \ {c} : SameTurn(k)
    BY <1>2, <1>5 DEF SameTurn, Same, Turns
<1> QED
    BY <1>3, <1>7, <1>8, <1>9, <1>10, <1>11, KnownKept

(* A handler that does not touch the streams.                              *)
LEMMA HandlerInv ==
    ASSUME TurnInv, RegistryInv', NEW j \in Turns, call[j].pc # "idle",
           \A d \in Calls \ {j} : call'[d] = call[d],
           UNCHANGED <<pending, hops, posted>>,
           receipt' \in [Turns -> Receipts], ran' \in [Turns -> Nat],
           replies' \in [Turns -> Nat],
           \A k \in Turns \ {j} : /\ receipt'[k] = receipt[k] /\ ran'[k] = ran[k]
                                  /\ replies'[k] = replies[k],
           Known(j)'
    PROVE  TurnInv'
<1> USE DEF TurnInv
<1>1. j \in Calls
    BY DEF Turns
<1>2. TurnTypeOK'
    BY DEF TurnTypeOK, RegistryInv
<1>3. \A c \in Calls : call[c].pc = "idle" => call'[c].pc = "idle"
    OBVIOUS
<1>4. OnePlace'
    BY <1>3, PlaceKept
<1>5. posted[j] = "yes"
    BY <1>1 DEF UnpostedIdle
<1>6. UnpostedIdle'
    BY <1>3, <1>5 DEF UnpostedIdle
<1>7. \A k \in Turns \ {j} : SameTurn(k)
    BY DEF SameTurn, Same, Turns
<1> QED
    BY <1>1, <1>2, <1>4, <1>6, <1>7, KnownKept

LEMMA GotoOthers ==
    ASSUME RegistryInv, NEW j \in Calls, NEW p, Goto(j, p)
    PROVE  /\ \A d \in Calls \ {j} : call'[d] = call[d]
           /\ call'[j].pc = p
BY DEF Goto, RegistryInv, TypeOK, CallState

LEMMA MarkTypes ==
    ASSUME TurnTypeOK, NEW j \in Turns, NEW status \in Receipts, Mark(j, status)
    PROVE  /\ receipt' \in [Turns -> Receipts]
           /\ receipt'[j] = status
           /\ \A k \in Turns \ {j} : receipt'[k] = receipt[k]
BY DEF Mark, TurnTypeOK

LEMMA CountTypes ==
    ASSUME NEW f \in [Turns -> Nat], NEW j \in Turns
    PROVE  /\ [f EXCEPT ![j] = @ + 1] \in [Turns -> Nat]
           /\ [f EXCEPT ![j] = @ + 1][j] = f[j] + 1
           /\ \A k \in Turns \ {j} : [f EXCEPT ![j] = @ + 1][k] = f[k]
OBVIOUS

LEMMA RequeueInv ==
    ASSUME TurnInv, NEW j \in Turns, NEW s \in Streams, NEW h \in {0, 1},
           call[j].pc = "rejected", Requeue(j, s, h)
    PROVE  TurnInv'
<1> USE DEF TurnInv
<1>1. j \in Calls /\ Known(j) /\ posted[j] = "yes"
    BY KnownIs DEF Turns, UnpostedIdle
<1>2. IdleCall \in CallState /\ IdleCall.pc = "idle" /\ "idle" \notin ActivePcs
    BY DEF IdleCall, CallState, CallPcs, ActivePcs, LockedPcs, Holders, Entries
<1>3. RegistryInv'
    BY <1>1, <1>2, OutsideInv DEF Requeue, rest, ActivePcs
<1>4. /\ \A d \in Calls \ {j} : call'[d] = call[d]
      /\ call'[j].pc = "idle"
    BY <1>1, <1>2 DEF Requeue, RegistryInv, TypeOK
<1> DEFINE m == RequeueFields(Message(j, h))
<1>5. m \in Messages /\ m.job = j
    BY <1>1 DEF RequeueFields, Message, Messages
<1>6. Unlisted(j)
    BY <1>1, NoEntry
<1>7. Put(s, m) /\ UNCHANGED <<hops, posted, receipt, ran, replies>>
    BY DEF Requeue
<1> HIDE DEF m
<1>8. OnePlace'
    BY <1>1, <1>4, <1>5, <1>6, <1>7, PlacePut
<1>9. pending' \in [Streams -> [Messages -> Nat]]
    BY <1>5, <1>7 DEF Put, TurnTypeOK
<1>10. TurnTypeOK' /\ UnpostedIdle'
    BY <1>3, <1>4, <1>7, <1>9 DEF TurnTypeOK, RegistryInv, UnpostedIdle
<1>11. Known(j)'
    BY <1>1, <1>4, <1>7 DEF Known, PrePcs
<1>12. \A k \in Turns \ {j} : SameTurn(k)
    BY <1>4, <1>7 DEF SameTurn, Same, Turns
<1> QED
    BY <1>1, <1>3, <1>8, <1>10, <1>11, <1>12, KnownKept

LEMMA TurnStepInv ==
    ASSUME TurnInv, NEW j \in Turns, TurnStep(j)
    PROVE  TurnInv'
<1> USE DEF TurnInv
<1>1. j \in Calls /\ Known(j) /\ hops[j] \in {0, 1}
    BY KnownIs DEF Turns, TurnTypeOK
<1>2. /\ receipt \in [Turns -> Receipts] /\ ran \in [Turns -> Nat]
      /\ replies \in [Turns -> Nat]
    BY DEF TurnTypeOK
<1>3. Terminal \cup {"running"} \subseteq Receipts
    BY DEF Terminal, Receipts
<1>4. CASE HandOff(j)
    <2>1. LiveHolder(TenantOf[j]) \in Streams
        BY <1>4 DEF HandOff, HandsOff, LiveHolder, RegistryInv, TypeOK, Streams
    <2> QED
        BY <1>1, <1>4, <2>1, RequeueInv DEF HandOff
<1>5. CASE RetryOrDrop(j)
    <2>1. CASE hops[j] = 0
        <3>1. Shared \in Streams /\ 1 \in {0, 1}
            BY DEF Streams
        <3> QED
            BY <1>5, <2>1, <3>1, RequeueInv DEF RetryOrDrop
    <2>2. CASE hops[j] # 0
        <3>1. /\ GiveUp(j) /\ Mark(j, "failed")
              /\ UNCHANGED <<pending, hops, posted, ran, replies>>
            BY <1>5, <2>2 DEF RetryOrDrop
        <3>2. RegistryInv'
            BY <1>1, <3>1, HandlerStepInv DEF HandlerStep
        <3>3. call[j].pc = "rejected" /\ Goto(j, "done")
            BY <3>1 DEF GiveUp
        <3>4. Known(j)'
            BY <1>1, <1>3, <3>1, <3>3, GotoOthers, MarkTypes
            DEF Known, PrePcs, LockedPcs, Terminal, UnpostedIdle
        <3> QED
            BY <1>1, <1>2, <1>3, <3>1, <3>2, <3>3, <3>4, GotoOthers, MarkTypes, HandlerInv
            DEF Terminal
    <2> QED
        BY <2>1, <2>2
<1>6. CASE SkipEmpty(j)
    <2>1. /\ call[j].pc = "ready" /\ Goto(j, "done") /\ Mark(j, "failed")
          /\ UNCHANGED <<pending, hops, posted, ran, replies>>
        BY <1>6 DEF SkipEmpty
    <2>2. RegistryInv'
        <3> DEFINE r == [call[j] EXCEPT !.pc = "done"]
        <3>1. call[j] \in CallState
            BY <1>1 DEF RegistryInv, TypeOK
        <3>2. r \in CallState /\ r.pc = "done"
            BY <3>1 DEF CallState, CallPcs
        <3>3. "done" \notin ActivePcs /\ "done" \notin LockedPcs
            BY DEF ActivePcs, LockedPcs
        <3>4. call' = [call EXCEPT ![j] = r] /\ UNCHANGED rest
            BY <1>6 DEF SkipEmpty, Goto, rest
        <3> QED
            BY <1>1, <3>2, <3>3, <3>4, OutsideInv
    <2>3. Known(j)'
        BY <1>1, <1>3, <2>1, GotoOthers, MarkTypes
        DEF Known, PrePcs, LockedPcs, Terminal, UnpostedIdle
    <2> QED
        BY <1>1, <1>2, <1>3, <2>1, <2>2, <2>3, GotoOthers, MarkTypes, HandlerInv DEF Terminal
<1>7. CASE StartTurn(j)
    <2>1. /\ RunStart(j) /\ Mark(j, "running") /\ ran' = [ran EXCEPT ![j] = @ + 1]
          /\ UNCHANGED <<pending, hops, posted, replies>>
        BY <1>7 DEF StartTurn
    <2>2. RegistryInv'
        BY <1>1, <2>1, HandlerStepInv DEF HandlerStep
    <2>3. call[j].pc = "ready" /\ Goto(j, "run")
        BY <2>1 DEF RunStart
    <2>4. /\ ran' \in [Turns -> Nat] /\ ran'[j] = ran[j] + 1
          /\ \A k \in Turns \ {j} : ran'[k] = ran[k]
        BY <1>2, <2>1, CountTypes
    <2>5. Known(j)'
        BY <1>1, <1>3, <2>1, <2>3, <2>4, GotoOthers, MarkTypes
        DEF Known, PrePcs, LockedPcs, Terminal, UnpostedIdle
    <2> QED
        BY <1>1, <1>2, <1>3, <2>1, <2>2, <2>3, <2>4, <2>5, GotoOthers, MarkTypes, HandlerInv
<1>8. CASE StartTurnRaises(j)
    <2>1. /\ RunStartRaises(j) /\ (Mark(j, "running") \/ UNCHANGED receipt)
          /\ UNCHANGED <<pending, hops, posted, ran, replies>>
        BY <1>8 DEF StartTurnRaises
    <2>2. RegistryInv'
        BY <1>1, <2>1, HandlerStepInv DEF HandlerStep
    <2>3. call[j].pc = "ready" /\ Goto(j, "leaked")
        BY <2>1 DEF RunStartRaises
    <2>4. /\ receipt' \in [Turns -> Receipts] /\ receipt'[j] \in {receipt[j], "running"}
          /\ \A k \in Turns \ {j} : receipt'[k] = receipt[k]
        BY <1>2, <1>3, <2>1, MarkTypes
    <2>5. Known(j)'
        BY <1>1, <2>1, <2>3, <2>4, GotoOthers
        DEF Known, PrePcs, LockedPcs, Terminal, UnpostedIdle
    <2> QED
        BY <1>1, <1>2, <2>1, <2>2, <2>3, <2>4, <2>5, GotoOthers, HandlerInv
<1>9. CASE EndTurn(j)
    <2>1. PICK status \in Terminal : Mark(j, status)
        BY <1>9 DEF EndTurn
    <2>2. RunEnd(j) /\ UNCHANGED <<pending, hops, posted, ran, replies>>
        BY <1>9 DEF EndTurn
    <2>3. RegistryInv'
        BY <1>1, <2>2, HandlerStepInv DEF HandlerStep
    <2>4. call[j].pc = "run" /\ Goto(j, "post")
        BY <2>2 DEF RunEnd
    <2>5. Known(j)'
        BY <1>1, <1>3, <2>1, <2>2, <2>4, GotoOthers, MarkTypes
        DEF Known, PrePcs, LockedPcs, Terminal, UnpostedIdle
    <2> QED
        BY <1>1, <1>2, <1>3, <2>1, <2>2, <2>3, <2>4, <2>5, GotoOthers, MarkTypes, HandlerInv
<1>10. CASE EndTurnRaises(j)
    <2>1. call[j].pc = "run" /\ Goto(j, "done") /\ UNCHANGED turnVars
        BY <1>10 DEF EndTurnRaises
    <2>2. RegistryInv'
        <3> DEFINE r == [call[j] EXCEPT !.pc = "done"]
        <3>1. call[j] \in CallState
            BY <1>1 DEF RegistryInv, TypeOK
        <3>2. r \in CallState /\ r.pc = "done"
            BY <3>1 DEF CallState, CallPcs
        <3>3. "done" \notin ActivePcs /\ "done" \notin LockedPcs
            BY DEF ActivePcs, LockedPcs
        <3>4. call' = [call EXCEPT ![j] = r] /\ UNCHANGED rest
            BY <1>10 DEF EndTurnRaises, Goto, rest
        <3> QED
            BY <1>1, <3>2, <3>3, <3>4, OutsideInv
    <2>3. Known(j)'
        BY <1>1, <2>1, GotoOthers DEF turnVars, Known, PrePcs, LockedPcs, UnpostedIdle, Terminal
    <2> QED
        BY <1>1, <1>2, <2>1, <2>2, <2>3, GotoOthers, HandlerInv DEF turnVars
<1>11. CASE Reply(j)
    <2>1. /\ PostEnd(j) /\ replies' = [replies EXCEPT ![j] = @ + 1]
          /\ UNCHANGED <<pending, hops, posted, receipt, ran>>
        BY <1>11 DEF Reply
    <2>2. RegistryInv'
        BY <1>1, <2>1, HandlerStepInv DEF HandlerStep
    <2>3. call[j].pc = "post" /\ Goto(j, "done")
        BY <2>1 DEF PostEnd
    <2>4. /\ replies' \in [Turns -> Nat] /\ replies'[j] = replies[j] + 1
          /\ \A k \in Turns \ {j} : replies'[k] = replies[k]
        BY <1>2, <2>1, CountTypes
    <2>5. Known(j)'
        BY <1>1, <2>1, <2>3, <2>4, GotoOthers DEF Known, PrePcs, LockedPcs, UnpostedIdle, Terminal
    <2> QED
        BY <1>1, <1>2, <2>1, <2>2, <2>3, <2>4, <2>5, GotoOthers, HandlerInv
<1>12. CASE NoReply(j)
    <2>1. PostEnd(j) /\ UNCHANGED turnVars
        BY <1>12 DEF NoReply
    <2>2. RegistryInv'
        BY <1>1, <2>1, HandlerStepInv DEF HandlerStep
    <2>3. call[j].pc = "post" /\ Goto(j, "done")
        BY <2>1 DEF PostEnd
    <2>4. Known(j)'
        BY <1>1, <2>1, <2>3, GotoOthers DEF turnVars, Known, PrePcs, LockedPcs, UnpostedIdle, Terminal
    <2> QED
        BY <1>1, <1>2, <2>1, <2>2, <2>3, <2>4, GotoOthers, HandlerInv DEF turnVars
<1> QED
    BY <1>4, <1>5, <1>6, <1>7, <1>8, <1>9, <1>10, <1>11, <1>12 DEF TurnStep

LEMMA EndAttachInv ==
    ASSUME TurnInv, NEW c \in Warm, EndAttach(c)
    PROVE  TurnInv'
<1> USE DEF TurnInv
<1>1. c \in Calls /\ c \notin Turns
    BY RegistryAssumption DEF Turns
<1>2. (WarmReturn(c) \/ GiveUp(c)) /\ UNCHANGED turnVars
    BY DEF EndAttach
<1>3. RegistryInv'
    BY <1>1, <1>2, HandlerStepInv DEF HandlerStep
<1>4. call[c].pc \in PrePcs /\ Goto(c, "done")
    BY <1>2 DEF WarmReturn, GiveUp, PrePcs
<1>5. CallMoves
    BY <1>1, <1>4, GotoOthers DEF CallMoves
<1> QED
    BY <1>2, <1>3, <1>5, QuietInv

-----------------------------------------------------------------------------
LEMMA NextTurnInv == TurnInv /\ [TurnNext]_allVars => TurnInv'
<1> SUFFICES ASSUME TurnInv, [TurnNext]_allVars PROVE TurnInv'
    OBVIOUS
<1>1. RegistryInv
    BY DEF TurnInv
<1>2. CASE RegistryStep /\ UNCHANGED turnVars
    BY <1>1, <1>2, RegistryStepInv, RegistryStepMoves, QuietInv
<1>3. CASE ProducerStep
    BY <1>3, PersistTurnInv, RouteTurnInv, RequestAttachInv DEF ProducerStep
<1>4. ASSUME NEW c \in Calls, NEW w \in Workers, Read(c, w) PROVE TurnInv'
    BY <1>4, ReadInv
<1>5. ASSUME NEW j \in Turns, TurnStep(j) PROVE TurnInv'
    BY <1>5, TurnStepInv
<1>6. ASSUME NEW c \in Warm, EndAttach(c) PROVE TurnInv'
    BY <1>6, EndAttachInv
<1>7. CASE UNCHANGED allVars
    <2>1. RegistryInv'
        BY <1>1, <1>7, PlainInv DEF allVars, vars, loopVars, RegistryInv, TypeOK
    <2>2. CallMoves
        BY <1>7 DEF allVars, vars, CallMoves
    <2> QED
        BY <1>7, <2>1, <2>2, QuietInv DEF allVars
<1> QED
    BY <1>2, <1>3, <1>4, <1>5, <1>6, <1>7 DEF TurnNext

LEMMA TurnInvariance == TurnSpec => []TurnInv
BY InitTurnInv, NextTurnInv, PTL DEF TurnSpec

(* Streams, receipts and counters keep their types, for any number of      *)
(* workers, tenants and turns and under every fault.                       *)
THEOREM TurnTypeCorrect == TurnSpec => []TurnTypeOK
<1>1. TurnInv => TurnTypeOK
    BY DEF TurnInv
<1> QED
    BY <1>1, TurnInvariance, PTL

(* A turn has one unread entry or one handler: handle_turn never works on  *)
(* a turn that is also somewhere else (runner.py:109-121).                 *)
THEOREM OnePlaceAlways == TurnSpec => []OnePlace
<1>1. TurnInv => OnePlace
    BY DEF TurnInv
<1> QED
    BY <1>1, TurnInvariance, PTL

(* A turn is given to the agent at most once, through hand-offs, requeues, *)
(* lost leases, crashes and restarts (runner.py:157-165).                  *)
THEOREM AtMostOnceAlways == TurnSpec => []AtMostOnce
<1>1. TurnInv => AtMostOnce
    BY DEF TurnInv
<1> QED
    BY <1>1, TurnInvariance, PTL

(* The receipt a client polls agrees with what happened to the turn        *)
(* (jobs.py:219-227, runner.py:137-192).                                   *)
THEOREM ReceiptTruthAlways == TurnSpec => []ReceiptTruth
<1>1. TurnInv => ReceiptTruth
    BY DEF TurnInv
<1> QED
    BY <1>1, TurnInvariance, PTL

-----------------------------------------------------------------------------
(* Receipts only move on                                                   *)
LEMMA MarkMovesOn ==
    ASSUME TurnTypeOK, NEW j \in Turns, NEW status \in Receipts, Mark(j, status),
           receipt[j] \notin Terminal, receipt[j] = "running" => status # "queued"
    PROVE  ReceiptMovesOn
BY MarkTypes DEF ReceiptMovesOn

LEMMA TurnStepMovesOn ==
    ASSUME TurnInv, NEW j \in Turns, TurnStep(j)
    PROVE  ReceiptMovesOn
<1> USE DEF TurnInv
<1>1. j \in Calls /\ Known(j) /\ TurnTypeOK
    BY KnownIs DEF Turns
<1>2. call[j].pc \in {"ready", "rejected"} => receipt[j] = "queued"
    BY <1>1 DEF Known, PrePcs, UnpostedIdle
<1>3. call[j].pc = "run" => receipt[j] = "running"
    BY <1>1 DEF Known
<1>4. CASE UNCHANGED receipt
    BY <1>4 DEF ReceiptMovesOn, Terminal
<1>5. CASE RetryOrDrop(j) \/ SkipEmpty(j)
    <2>1. UNCHANGED receipt \/ (receipt[j] = "queued" /\ Mark(j, "failed"))
        BY <1>2, <1>5 DEF RetryOrDrop, SkipEmpty, Requeue
    <2> QED
        BY <1>1, <1>4, <2>1, MarkMovesOn DEF Receipts, Terminal
<1>6. CASE StartTurn(j) \/ StartTurnRaises(j)
    <2>1. UNCHANGED receipt \/ (receipt[j] = "queued" /\ Mark(j, "running"))
        BY <1>2, <1>6 DEF StartTurn, StartTurnRaises, RunStart, RunStartRaises
    <2> QED
        BY <1>1, <1>4, <2>1, MarkMovesOn DEF Receipts, Terminal
<1>7. CASE EndTurn(j)
    <2>1. receipt[j] = "running" /\ \E status \in Terminal : Mark(j, status)
        BY <1>3, <1>7 DEF EndTurn, RunEnd
    <2> QED
        BY <1>1, <2>1, MarkMovesOn DEF Receipts, Terminal
<1> QED
    BY <1>4, <1>5, <1>6, <1>7
    DEF TurnStep, HandOff, Requeue, EndTurnRaises, Reply, NoReply, turnVars

(* No step takes back a recorded outcome or requeues a started turn in its *)
(* receipt (runner.py:123, 138, 146, 179).                                 *)
THEOREM ReceiptForwardAlways == TurnSpec => ReceiptForward
<1>1. TurnInv /\ [TurnNext]_allVars => [ReceiptMovesOn]_allVars
    <2> SUFFICES ASSUME TurnInv, TurnNext PROVE ReceiptMovesOn
        OBVIOUS
    <2>1. CASE UNCHANGED receipt
        BY <2>1 DEF ReceiptMovesOn, Terminal
    <2>2. ASSUME NEW j \in Turns, PersistTurn(j) PROVE ReceiptMovesOn
        <3>1. j \in Calls /\ Known(j) /\ TurnTypeOK
            BY KnownIs DEF Turns, TurnInv
        <3>2. receipt[j] = "none" /\ Mark(j, "queued")
            BY <2>2, <3>1 DEF PersistTurn, Known
        <3> QED
            BY <3>1, <3>2, MarkMovesOn DEF Receipts, Terminal
    <2>3. ASSUME NEW j \in Turns, TurnStep(j) PROVE ReceiptMovesOn
        BY <2>3, TurnStepMovesOn
    <2> QED
        BY <2>1, <2>2, <2>3
        DEF TurnNext, turnVars, ProducerStep, RouteTurn, RouteLost, RequestAttach, Read, EndAttach
<1> QED
    BY <1>1, TurnInvariance, PTL DEF TurnSpec, ReceiptForward
=============================================================================
