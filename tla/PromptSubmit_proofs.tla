------------------------ MODULE PromptSubmit_proofs ------------------------
(* Theorems about PromptSubmit, for any number of prompts, tries and       *)
(* stops: a stop stops, the queue loses nothing, a prompt runs once and    *)
(* the chat is not left busy.                                              *)
EXTENDS PromptSubmit, SequenceTheorems, TLAPS

(* What a submit remembers agrees with where it is: no try was made before *)
(* the first, another one is left while it sleeps, and runDrain is told    *)
(* that a prompt was accepted only when the server has accepted it         *)
SubOK ==
    \A p \in Prompts :
        /\ sub[p].pc \in {"create", "sync"} => sub[p].tries = 0
        /\ sub[p].pc = "sleep" => sub[p].tries < MaxTries
        /\ sub[p].ok => p \in accepted

(* An acceptance on its way is an acceptance                               *)
OkIsTrue == \A i \in 1..Len(down) : down[i].type = "ok" => down[i].p \in accepted

(* Without a session nothing reaches the server                            *)
NoSession ==
    ~session => /\ up = <<>> /\ down = <<>> /\ run = None
                /\ \A p \in Prompts : sub[p].pc \notin {"sync", "wait", "sleep"}

(* After a stop the interrupt is the last message on its way, or it has    *)
(* arrived                                                                 *)
StopLast ==
    cur = None => IF up = <<>> THEN run = None \/ halt
                  ELSE up[Len(up)].type = "interrupt"

(* TypeOK by the kind of its parts                                         *)
Flags == /\ busy \in BOOLEAN /\ cached \in BOOLEAN /\ dirty \in BOOLEAN /\ seen \in BOOLEAN
         /\ lock \in BOOLEAN /\ session \in BOOLEAN /\ halt \in BOOLEAN

Names == /\ cur \in Prompts \cup {None} /\ run \in Prompts \cup {None}
         /\ accepted \subseteq Prompts /\ again \subseteq accepted /\ late \subseteq Prompts
         /\ stops \in 0..MaxStops

Paths == /\ sub \in [Prompts -> SubRecord] /\ queue \in Seq(Prompts)
         /\ up \in Seq(Asked) /\ down \in Seq(Told)

IInv == Flags /\ Names /\ Paths /\ SubOK /\ OkIsTrue /\ NoSession /\ StopLast

-----------------------------------------------------------------------------
(* What the helpers do to the progress of one prompt                       *)
LEMMA GotoOK ==
    ASSUME NEW p \in Prompts, NEW pc \in PC, sub \in [Prompts -> SubRecord], Goto(p, pc)
    PROVE  /\ sub' \in [Prompts -> SubRecord]
           /\ sub'[p].pc = pc /\ sub'[p].tries = sub[p].tries /\ sub'[p].ok = sub[p].ok
           /\ sub'[p].via = sub[p].via
           /\ \A q \in Prompts \ {p} : sub'[q] = sub[q]
BY DEF Goto, SubRecord

LEMMA EndOK ==
    ASSUME NEW p \in Prompts
    PROVE  /\ End(p) \in {"returning", "done"} /\ End(p) \in PC
           /\ End(p) = "returning" <=> sub[p].via = "queue"
BY DEF End, PC

LEMMA ReturnOK ==
    ASSUME NEW p \in Prompts, NEW ok \in BOOLEAN,
           sub \in [Prompts -> SubRecord], Return(p, ok)
    PROVE  /\ sub' \in [Prompts -> SubRecord]
           /\ sub'[p].pc \in {"returning", "done"} /\ sub'[p].tries = sub[p].tries
           /\ sub'[p].ok = ok /\ sub'[p].via = sub[p].via /\ sub'[p].pc = End(p)
           /\ \A q \in Prompts \ {p} : sub'[q] = sub[q]
<1> DEFINE e == End(p)
<1>1. e \in {"returning", "done"} /\ e \in PC
    BY EndOK
<1>2. sub' = [sub EXCEPT ![p].ok = ok, ![p].pc = e]
    BY DEF Return
<1> HIDE DEF e
<1>3. /\ sub' \in [Prompts -> SubRecord] /\ sub'[p].pc = e /\ sub'[p].tries = sub[p].tries
      /\ sub'[p].ok = ok /\ sub'[p].via = sub[p].via
      /\ \A q \in Prompts \ {p} : sub'[q] = sub[q]
    BY <1>1, <1>2 DEF SubRecord
<1> QED
    BY <1>1, <1>3 DEF e

LEMMA SendOK ==
    ASSUME NEW p \in Prompts, sub \in [Prompts -> SubRecord], up \in Seq(Asked),
           sub[p].tries < MaxTries, Send(p)
    PROVE  /\ sub' \in [Prompts -> SubRecord] /\ up' \in Seq(Asked)
           /\ sub'[p].pc = "wait" /\ sub'[p].ok = sub[p].ok /\ sub'[p].via = sub[p].via
           /\ \A q \in Prompts \ {p} : sub'[q] = sub[q]
<1> DEFINE t == sub[p].tries + 1
<1>1. t \in 0..MaxTries
    BY SubmitAssumption DEF SubRecord
<1>2. "wait" \in PC
    BY DEF PC, Running
<1>3. up' = Append(up, Msg("submit", p)) /\ Msg("submit", p) \in Asked
    BY DEF Msg, Asked, Send
<1>4. up' \in Seq(Asked)
    BY <1>3
<1>5. sub' = [sub EXCEPT ![p].pc = "wait", ![p].tries = t]
    BY DEF Send
<1> HIDE DEF t
<1> QED
    BY <1>1, <1>2, <1>4, <1>5 DEF SubRecord

LEMMA BeginOK ==
    ASSUME NEW p \in Prompts, NEW via \in {"user", "queue"},
           sub \in [Prompts -> SubRecord], Begin(p, via)
    PROVE  /\ sub' \in [Prompts -> SubRecord]
           /\ sub'[p].pc = IF session THEN "sync" ELSE "create"
           /\ sub'[p].tries = 0 /\ sub'[p].ok = FALSE /\ sub'[p].via = via
           /\ \A q \in Prompts \ {p} : sub'[q] = sub[q]
<1> DEFINE pc == IF session THEN "sync" ELSE "create"
<1>1. /\ pc \in {"create", "sync"} /\ pc \in PC /\ (~session => pc = "create")
    BY DEF PC, Running
<1>2. sub' = [sub EXCEPT ![p] = [pc |-> pc, via |-> via, tries |-> 0, ok |-> FALSE]]
    BY DEF Begin
<1>3. 0 \in 0..MaxTries
    BY SubmitAssumption
<1> HIDE DEF pc
<1>4. /\ sub' \in [Prompts -> SubRecord]
      /\ sub'[p].pc = pc /\ sub'[p].tries = 0 /\ sub'[p].ok = FALSE /\ sub'[p].via = via
      /\ \A q \in Prompts \ {p} : sub'[q] = sub[q]
    BY <1>1, <1>2, <1>3 DEF SubRecord
<1> QED
    BY <1>4 DEF pc

(* What is left of the queue without an entry                              *)
LEMMA WithoutIs ==
    ASSUME queue \in Seq(Prompts), NEW p \in ToSet(queue)
    PROVE  /\ Without(p) \in Seq(Prompts) /\ Len(Without(p)) = Len(queue) - 1
           /\ \E i \in 1..Len(queue) :
                /\ queue[i] = p
                /\ \A k \in 1..(Len(queue) - 1) :
                     Without(p)[k] = IF k < i THEN queue[k] ELSE queue[k + 1]
<1> DEFINE i == Position(p)
           n == Len(queue)
           a == SubSeq(queue, 1, i - 1)
           b == SubSeq(queue, i + 1, n)
<1>1. i \in 1..n /\ queue[i] = p /\ n \in Nat
    BY DEF Position, ToSet
<1>2. Without(p) = a \o b
    BY DEF Without, RemoveAt
<1> HIDE DEF i, n
<1>3. \A k \in 1..n : queue[k] \in Prompts
    BY DEF n
<1>4. /\ a \in Seq(Prompts) /\ Len(a) = i - 1
      /\ \A k \in 1..(i - 1) : a[k] = queue[k]
    <2>1. \A k \in 1..(i - 1) : queue[k] \in Prompts
        BY <1>1, <1>3
    <2> QED
        BY <1>1, <2>1, SubSeqProperties
<1>5. /\ b \in Seq(Prompts) /\ Len(b) = n - i
      /\ \A k \in 1..(n - i) : b[k] = queue[i + k]
    <2>1. \A k \in (i + 1)..n : queue[k] \in Prompts
        BY <1>1, <1>3
    <2> QED
        BY <1>1, <2>1, SubSeqProperties
<1> HIDE DEF a, b
<1>6. /\ a \o b \in Seq(Prompts) /\ Len(a \o b) = Len(a) + Len(b)
      /\ \A k \in 1..(Len(a) + Len(b)) :
            (a \o b)[k] = IF k <= Len(a) THEN a[k] ELSE b[k - Len(a)]
    BY <1>4, <1>5, ConcatProperties
<1>7. Len(a) + Len(b) = n - 1
    BY <1>1, <1>4, <1>5
<1>8. ASSUME NEW k \in 1..(n - 1)
      PROVE  (a \o b)[k] = IF k < i THEN queue[k] ELSE queue[k + 1]
    <2>1. CASE k < i
        <3>1. k \in 1..(i - 1) /\ k <= Len(a)
            BY <1>1, <1>4, <2>1
        <3> QED
            BY <1>4, <1>6, <1>7, <2>1, <3>1
    <2>2. CASE ~(k < i)
        <3>1. /\ ~(k <= Len(a)) /\ k - Len(a) \in 1..(n - i)
              /\ i + (k - Len(a)) = k + 1
            BY <1>1, <1>4, <2>2
        <3> QED
            BY <1>5, <1>6, <1>7, <2>2, <3>1
    <2> QED
        BY <2>1, <2>2
<1> QED
    BY <1>1, <1>2, <1>6, <1>7, <1>8 DEF n

LEMMA WithoutOK ==
    ASSUME queue \in Seq(Prompts), NEW p \in Prompts
    PROVE  /\ Without(p) \in Seq(Prompts)
           /\ \A r \in ToSet(queue) \ {p} : r \in ToSet(Without(p))
<1>1. CASE p \notin ToSet(queue)
    BY <1>1 DEF Without
<1>2. CASE p \in ToSet(queue)
    <2> DEFINE w == Without(p)
               n == Len(queue)
    <2>1. w \in Seq(Prompts) /\ Len(w) = n - 1 /\ n \in Nat
        BY <1>2, WithoutIs
    <2>2. PICK i \in 1..n : /\ queue[i] = p
                           /\ \A k \in 1..(n - 1) :
                                w[k] = IF k < i THEN queue[k] ELSE queue[k + 1]
        BY <1>2, WithoutIs
    <2> HIDE DEF w
    <2>3. ASSUME NEW r \in ToSet(queue) \ {p} PROVE r \in ToSet(w)
        <3>1. PICK k \in 1..n : queue[k] = r
            BY DEF ToSet
        <3>2. k # i
            BY <2>2, <2>3, <3>1
        <3> DEFINE m == IF k < i THEN k ELSE k - 1
        <3>3. m \in 1..(n - 1) /\ w[m] = r
            BY <2>1, <2>2, <3>1, <3>2
        <3>4. m \in DOMAIN w
            BY <2>1, <3>3, LenProperties
        <3> QED
            BY <3>3, <3>4 DEF ToSet
    <2> QED
        BY <2>1, <2>3 DEF w
<1> QED
    BY <1>1, <1>2

(* ... and of a queue without repetitions nothing is left of the entry     *)
LEMMA WithoutOnce ==
    ASSUME queue \in Seq(Prompts), NEW p \in Prompts,
           \A i, j \in 1..Len(queue) : queue[i] = queue[j] => i = j
    PROVE  /\ \A i, j \in 1..Len(Without(p)) : Without(p)[i] = Without(p)[j] => i = j
           /\ \A i \in 1..Len(Without(p)) :
                Without(p)[i] # p /\ \E j \in 1..Len(queue) : Without(p)[i] = queue[j]
<1>1. CASE p \notin ToSet(queue)
    <2>1. Without(p) = queue
        BY <1>1 DEF Without
    <2>2. \A i \in 1..Len(queue) : queue[i] # p
        BY <1>1 DEF ToSet
    <2> QED
        BY <2>1, <2>2
<1>2. CASE p \in ToSet(queue)
    <2> DEFINE w == Without(p)
               n == Len(queue)
    <2>1. w \in Seq(Prompts) /\ Len(w) = n - 1 /\ n \in Nat
        BY <1>2, WithoutIs
    <2>2. PICK i \in 1..n : /\ queue[i] = p
                           /\ \A k \in 1..(n - 1) :
                                w[k] = IF k < i THEN queue[k] ELSE queue[k + 1]
        BY <1>2, WithoutIs
    <2> HIDE DEF w
    <2> DEFINE f(k) == IF k < i THEN k ELSE k + 1
    <2>3. \A k \in 1..(n - 1) : f(k) \in 1..n /\ f(k) # i /\ w[k] = queue[f(k)]
        BY <2>1, <2>2
    <2>4. \A k, m \in 1..(n - 1) : f(k) = f(m) => k = m
        BY <2>1, <2>2
    <2> HIDE DEF f
    <2>5. /\ \A k, m \in 1..Len(w) : w[k] = w[m] => k = m
          /\ \A k \in 1..Len(w) : w[k] # p /\ \E j \in 1..n : w[k] = queue[j]
        BY SMTT(30), <2>1, <2>2, <2>3, <2>4
    <2> QED
        BY <2>5 DEF w
<1> QED
    BY <1>1, <1>2

-----------------------------------------------------------------------------
LEMMA Types == IInv => TypeOK
BY DEF IInv, TypeOK, Flags, Names, Paths

LEMMA InitIInv == Init => IInv
<1> SUFFICES ASSUME Init PROVE IInv
    OBVIOUS
<1>1. Flags
    BY DEF Init, Flags
<1>2. Names
    BY SubmitAssumption DEF Init, Names
<1>3. Paths
    <2>1. 0 \in 0..MaxTries
        BY SubmitAssumption
    <2>2. sub \in [Prompts -> SubRecord]
        BY <2>1 DEF Init, SubRecord, PC
    <2> QED
        BY <2>2 DEF Init, Paths
<1>4. SubOK /\ OkIsTrue /\ NoSession /\ StopLast
    BY DEF Init, SubOK, OkIsTrue, NoSession, StopLast
<1> QED
    BY <1>1, <1>2, <1>3, <1>4 DEF IInv

(* Submit and Create                                                       *)
LEMMA SubmitOK == ASSUME IInv, NEW p \in Prompts, Submit(p) PROVE IInv'
<1> USE DEF IInv
<1>1. Flags'
    BY DEF Submit, Begin, Cache, KeepCache, queueVars, serverVars, Flags
<1>2. Names'
    BY DEF Submit, Begin, queueVars, serverVars, Names
<1>3. Paths'
    BY BeginOK DEF Submit, queueVars, Paths
<1>4. SubOK'
    BY BeginOK DEF Submit, serverVars, Paths, SubOK
<1>5. OkIsTrue' /\ NoSession' /\ StopLast'
    BY BeginOK, SubmitAssumption DEF Submit, Begin, serverVars, Paths, OkIsTrue, NoSession, StopLast
<1> QED
    BY <1>1, <1>2, <1>3, <1>4, <1>5

LEMMA CreateOK == ASSUME IInv, NEW p \in Prompts, Create(p) PROVE IInv'
<1> USE DEF IInv
<1>1. Flags'
    BY DEF Create, Cache, queueVars, serverVars, Flags
<1>2. Names'
    BY DEF Create, queueVars, serverVars, Names
<1>3. /\ sub' \in [Prompts -> SubRecord] /\ sub'[p].tries = sub[p].tries
      /\ sub'[p].pc \in {"sync", "returning", "done"}
      /\ sub'[p].ok => sub[p].ok
      /\ \A q \in Prompts \ {p} : sub'[q] = sub[q]
    <2>1. "sync" \in PC
        BY DEF PC, Running
    <2> QED
        BY <2>1, GotoOK, ReturnOK DEF Create, Paths
<1>4. Paths'
    BY <1>3 DEF Create, queueVars, Paths
<1>5. SubOK'
    BY <1>3 DEF Create, serverVars, SubOK
<1>6. OkIsTrue' /\ NoSession' /\ StopLast'
    BY DEF Create, serverVars, OkIsTrue, NoSession, StopLast
<1> QED
    BY <1>1, <1>2, <1>4, <1>5, <1>6

LEMMA CreateFailsOK == ASSUME IInv, NEW p \in Prompts, CreateFails(p) PROVE IInv'
<1> USE DEF IInv
<1>0. /\ sub' \in [Prompts -> SubRecord] /\ sub'[p].tries = sub[p].tries
      /\ sub'[p].pc \in {"returning", "done"} /\ sub'[p].ok = FALSE
      /\ \A q \in Prompts \ {p} : sub'[q] = sub[q]
    BY ReturnOK DEF CreateFails, Paths
<1>1. Flags'
    BY DEF CreateFails, queueVars, serverVars, Flags
<1>2. Names'
    BY DEF CreateFails, queueVars, serverVars, Names
<1>3. Paths'
    BY <1>0 DEF CreateFails, queueVars, serverVars, Paths
<1>4. SubOK'
    BY <1>0 DEF CreateFails, queueVars, serverVars, SubOK
<1>5. OkIsTrue' /\ NoSession' /\ StopLast'
    BY <1>0 DEF CreateFails, queueVars, serverVars, OkIsTrue, NoSession, StopLast
<1> QED
    BY <1>1, <1>2, <1>3, <1>4, <1>5

LEMMA SyncedOK == ASSUME IInv, NEW p \in Prompts, Synced(p) PROVE IInv'
<1> USE DEF IInv
<1>0. /\ sub' \in [Prompts -> SubRecord] /\ up' \in Seq(Asked)
      /\ sub'[p].pc \in {"wait", "returning", "done"} /\ (sub'[p].ok => sub[p].ok)
      /\ \A q \in Prompts \ {p} : sub'[q] = sub[q]
      /\ session /\ (up' = up \/ cur # None)
    <2>1. p # None /\ session /\ sub[p].tries < MaxTries
        BY SubmitAssumption DEF Synced, NoSession, SubOK
    <2>2. CASE Current(p)
        BY <2>1, <2>2, SendOK DEF Synced, Current, Paths
    <2>3. CASE ~Current(p)
        BY <2>1, <2>3, ReturnOK DEF Synced, Drop, Paths
    <2> QED
        BY <2>2, <2>3
<1>1. Flags'
    BY DEF Synced, Drop, Send, Cache, KeepCache, queueVars, serverVars, Flags
<1>2. Names'
    BY DEF Synced, queueVars, serverVars, Names
<1>3. Paths'
    BY <1>0 DEF Synced, queueVars, serverVars, Paths
<1>4. SubOK'
    BY <1>0 DEF Synced, queueVars, serverVars, SubOK
<1>5. OkIsTrue' /\ NoSession' /\ StopLast'
    BY <1>0 DEF Synced, queueVars, serverVars, OkIsTrue, NoSession, StopLast
<1> QED
    BY <1>1, <1>2, <1>3, <1>4, <1>5

LEMMA WakeOK == ASSUME IInv, NEW p \in Prompts, Wake(p) PROVE IInv'
<1> USE DEF IInv
<1>0. /\ sub' \in [Prompts -> SubRecord] /\ up' \in Seq(Asked)
      /\ sub'[p].pc \in {"wait", "returning", "done"} /\ (sub'[p].ok => sub[p].ok)
      /\ \A q \in Prompts \ {p} : sub'[q] = sub[q]
      /\ session /\ (up' = up \/ cur # None)
    <2>1. p # None /\ session /\ sub[p].tries < MaxTries
        BY SubmitAssumption DEF Wake, NoSession, SubOK
    <2>2. CASE Current(p)
        BY <2>1, <2>2, SendOK DEF Wake, Current, Paths
    <2>3. CASE ~Current(p)
        BY <2>1, <2>3, ReturnOK DEF Wake, Drop, Paths
    <2> QED
        BY <2>2, <2>3
<1>1. Flags'
    BY DEF Wake, Drop, Send, Cache, KeepCache, queueVars, serverVars, Flags
<1>2. Names'
    BY DEF Wake, queueVars, serverVars, Names
<1>3. Paths'
    BY <1>0 DEF Wake, queueVars, serverVars, Paths
<1>4. SubOK'
    BY <1>0 DEF Wake, queueVars, serverVars, SubOK
<1>5. OkIsTrue' /\ NoSession' /\ StopLast'
    BY <1>0 DEF Wake, queueVars, serverVars, OkIsTrue, NoSession, StopLast
<1> QED
    BY <1>1, <1>2, <1>3, <1>4, <1>5

(* The failure of a submit frees the view if it is the newest              *)
LEMMA FailOK ==
    ASSUME Flags, NEW p \in Prompts, Fail(p)
    PROVE  /\ Return(p, FALSE)
           /\ busy' \in BOOLEAN /\ cached' \in BOOLEAN /\ dirty' \in BOOLEAN
BY DEF Flags, Fail, Cache, KeepCache

LEMMA SyncFailsOK == ASSUME IInv, NEW p \in Prompts, SyncFails(p) PROVE IInv'
<1> USE DEF IInv
<1>0. /\ sub' \in [Prompts -> SubRecord] /\ sub'[p].tries = sub[p].tries
      /\ sub'[p].pc \in {"returning", "done"} /\ sub'[p].ok = FALSE
      /\ \A q \in Prompts \ {p} : sub'[q] = sub[q]
    BY FailOK, ReturnOK DEF SyncFails, Paths
<1>1. Flags'
    BY FailOK DEF SyncFails, queueVars, serverVars, Flags
<1>2. Names'
    BY DEF SyncFails, queueVars, serverVars, Names
<1>3. Paths'
    BY <1>0 DEF SyncFails, queueVars, serverVars, Paths
<1>4. SubOK'
    BY <1>0 DEF SyncFails, queueVars, serverVars, SubOK
<1>5. OkIsTrue' /\ NoSession' /\ StopLast'
    BY <1>0 DEF SyncFails, queueVars, serverVars, OkIsTrue, NoSession, StopLast
<1> QED
    BY <1>1, <1>2, <1>3, <1>4, <1>5
-----------------------------------------------------------------------------
(* What every frame leaves alone                                           *)
LEMMA ReceiveOK ==
    ASSUME IInv, NEW type, Receive(type)
    PROVE  /\ Head(down) \in Told /\ Head(down).type = type
           /\ type = "ok" => Head(down).p \in accepted
           /\ down' \in Seq(Told) /\ session /\ OkIsTrue' /\ NoSession' /\ StopLast'
<1> USE DEF IInv
<1>1. down \in Seq(Told) /\ down # <<>> /\ down' = Tail(down) /\ Head(down).type = type
    BY DEF Receive, Paths
<1>2. /\ Head(down) \in Told /\ down' \in Seq(Told) /\ Head(down) = down[1]
      /\ Len(down') = Len(down) - 1 /\ Len(down) \in Nat /\ Len(down) >= 1
      /\ \A i \in 1..Len(down') : down'[i] = down[i + 1]
    BY <1>1, HeadTailProperties, EmptySeq
<1>3. session
    BY <1>1 DEF NoSession
<1>4. type = "ok" => Head(down).p \in accepted
    BY <1>1, <1>2 DEF OkIsTrue
<1>5. OkIsTrue'
    <2> SUFFICES ASSUME NEW i \in 1..Len(down'), down'[i].type = "ok"
                 PROVE  down'[i].p \in accepted'
        BY DEF OkIsTrue
    <2>1. i + 1 \in 1..Len(down) /\ down'[i] = down[i + 1]
        BY <1>2
    <2> QED
        BY <2>1 DEF OkIsTrue, Receive, serverVars
<1>6. NoSession' /\ StopLast'
    BY <1>3 DEF Receive, serverVars, NoSession, StopLast
<1> QED
    BY <1>1, <1>2, <1>3, <1>4, <1>5, <1>6

(* A submit whose prompt was refused ends without being accepted           *)
LEMMA GiveUpOK ==
    ASSUME Flags, NEW p \in Prompts, NEW wasBusy \in BOOLEAN, GiveUp(p, wasBusy)
    PROVE  /\ Return(p, FALSE)
           /\ busy' \in BOOLEAN /\ cached' \in BOOLEAN /\ dirty' \in BOOLEAN
<1>1. CASE ~Current(p) /\ Cache(FALSE) /\ Return(p, FALSE) /\ UNCHANGED busy
    BY <1>1 DEF Flags, Cache
<1>2. CASE Return(p, FALSE) /\ busy' = FALSE /\ KeepCache
    BY <1>2 DEF Flags, KeepCache
<1>3. CASE Fail(p)
    BY <1>3, FailOK
<1> QED
    BY <1>1, <1>2, <1>3 DEF GiveUp

LEMMA OnOkOK == ASSUME IInv, OnOk PROVE IInv'
<1> USE DEF IInv
<1> DEFINE p == Head(down).p
<1>0. /\ Receive("ok") /\ p \in Prompts
      /\ down' \in Seq(Told) /\ OkIsTrue' /\ NoSession' /\ StopLast'
      /\ p \in accepted
    BY ReceiveOK DEF OnOk, Told
<1>1. /\ sub' \in [Prompts -> SubRecord]
      /\ sub'[p].pc \in {"returning", "done"}
      /\ \A q \in Prompts \ {p} : sub'[q] = sub[q]
    <2>1. Current(p) \in BOOLEAN /\ Return(p, Current(p))
        BY DEF OnOk, Current
    <2> HIDE DEF p
    <2> QED
        BY <1>0, <2>1, ReturnOK DEF Paths
<1>2. Flags'
    BY <1>0, <1>1 DEF OnOk, Receive, queueVars, serverVars, Flags
<1>3. Names'
    BY <1>0 DEF OnOk, Receive, queueVars, serverVars, Names
<1>4. Paths'
    BY <1>0, <1>1 DEF Receive, queueVars, Paths
<1>5. SubOK'
    <2>1. accepted' = accepted
        BY <1>0 DEF Receive, serverVars
    <2> HIDE DEF p
    <2> QED
        BY <1>0, <1>1, <2>1 DEF SubOK
<1> QED
    BY <1>0, <1>2, <1>3, <1>4, <1>5

LEMMA OnBusyOK == ASSUME IInv, OnBusy PROVE IInv'
<1> USE DEF IInv
<1> DEFINE p == Head(down).p
<1>0. /\ Receive("busy") /\ p \in Prompts
      /\ down' \in Seq(Told) /\ OkIsTrue' /\ NoSession' /\ StopLast'
    BY ReceiveOK DEF OnBusy, Told
<1>1. /\ sub' \in [Prompts -> SubRecord] /\ sub'[p].tries = sub[p].tries
      /\ sub'[p].pc \in {"returning", "done", "sleep"}
      /\ sub'[p].pc = "sleep" => sub[p].tries < MaxTries
      /\ sub'[p].ok => sub[p].ok
      /\ \A q \in Prompts \ {p} : sub'[q] = sub[q]
      /\ busy' \in BOOLEAN /\ cached' \in BOOLEAN /\ dirty' \in BOOLEAN
    <2>1. \/ MayRetry(p) /\ Goto(p, "sleep") /\ UNCHANGED <<busy, cached, dirty>>
          \/ ~MayRetry(p) /\ GiveUp(p, TRUE)
        BY DEF OnBusy
    <2>2. "sleep" \in PC
        BY DEF PC, Running
    <2> HIDE DEF p
    <2>3. CASE MayRetry(p) /\ Goto(p, "sleep") /\ UNCHANGED <<busy, cached, dirty>>
        BY <1>0, <2>2, <2>3, GotoOK DEF Paths, Flags, MayRetry
    <2>4. CASE GiveUp(p, TRUE)
        BY <1>0, <2>4, GiveUpOK, ReturnOK DEF Paths
    <2> QED
        BY <2>1, <2>3, <2>4
<1>2. Flags'
    BY <1>0, <1>1 DEF OnBusy, Receive, queueVars, serverVars, Flags
<1>3. Names'
    BY <1>0 DEF OnBusy, Receive, queueVars, serverVars, Names
<1>4. Paths'
    BY <1>0, <1>1 DEF Receive, queueVars, Paths
<1>5. SubOK'
    <2>1. accepted' = accepted
        BY <1>0 DEF Receive, serverVars
    <2> HIDE DEF p
    <2> QED
        BY <1>0, <1>1, <2>1 DEF SubOK
<1> QED
    BY <1>0, <1>2, <1>3, <1>4, <1>5

LEMMA OnRefusedOK == ASSUME IInv, OnRefused PROVE IInv'
<1> USE DEF IInv
<1> DEFINE p == Head(down).p
<1>0. /\ Receive("error") /\ p \in Prompts
      /\ down' \in Seq(Told) /\ OkIsTrue' /\ NoSession' /\ StopLast'
    BY ReceiveOK DEF OnRefused, Told
<1>1. /\ sub' \in [Prompts -> SubRecord]
      /\ sub'[p].pc \in {"returning", "done"} /\ sub'[p].ok = FALSE
      /\ \A q \in Prompts \ {p} : sub'[q] = sub[q]
      /\ busy' \in BOOLEAN /\ cached' \in BOOLEAN /\ dirty' \in BOOLEAN
    <2>1. GiveUp(p, FALSE)
        BY DEF OnRefused
    <2> HIDE DEF p
    <2> QED
        BY <1>0, <2>1, GiveUpOK, ReturnOK DEF Paths
<1>2. Flags'
    BY <1>0, <1>1 DEF OnRefused, Receive, queueVars, serverVars, Flags
<1>3. Names'
    BY <1>0 DEF OnRefused, Receive, queueVars, serverVars, Names
<1>4. Paths'
    BY <1>0, <1>1 DEF Receive, queueVars, Paths
<1>5. SubOK'
    <2>1. accepted' = accepted
        BY <1>0 DEF Receive, serverVars
    <2> HIDE DEF p
    <2> QED
        BY <1>0, <1>1, <2>1 DEF SubOK
<1> QED
    BY <1>0, <1>2, <1>3, <1>4, <1>5

LEMMA OnStoppedOK == ASSUME IInv, OnStopped PROVE IInv'
<1> USE DEF IInv
<1>1. down' \in Seq(Told) /\ OkIsTrue' /\ NoSession' /\ StopLast'
    BY ReceiveOK DEF OnStopped
<1>2. Flags'
    BY DEF OnStopped, Receive, Cache, queueVars, serverVars, Flags
<1>3. Names' /\ Paths' /\ SubOK'
    BY <1>1 DEF OnStopped, Receive, queueVars, serverVars, Names, Paths, SubOK
<1> QED
    BY <1>1, <1>2, <1>3

LEMMA OnStartOK == ASSUME IInv, OnStart PROVE IInv'
<1> USE DEF IInv
<1>1. down' \in Seq(Told) /\ OkIsTrue' /\ NoSession' /\ StopLast'
    BY ReceiveOK DEF OnStart
<1>2. Flags'
    BY DEF OnStart, Receive, Cache, queueVars, serverVars, Flags
<1>3. Names' /\ Paths' /\ SubOK'
    BY <1>1 DEF OnStart, Receive, queueVars, serverVars, Names, Paths, SubOK
<1> QED
    BY <1>1, <1>2, <1>3

LEMMA OnTextOK == ASSUME IInv, OnText PROVE IInv'
<1> USE DEF IInv
<1>1. down' \in Seq(Told) /\ OkIsTrue' /\ NoSession' /\ StopLast'
    BY ReceiveOK DEF OnText
<1>2. Flags'
    BY DEF OnText, Receive, Cache, queueVars, serverVars, Flags
<1>3. Names' /\ Paths' /\ SubOK'
    BY <1>1 DEF OnText, Receive, queueVars, serverVars, Names, Paths, SubOK
<1> QED
    BY <1>1, <1>2, <1>3

LEMMA OnEndOK == ASSUME IInv, OnEnd PROVE IInv'
<1> USE DEF IInv
<1>1. down' \in Seq(Told) /\ OkIsTrue' /\ NoSession' /\ StopLast'
    BY ReceiveOK DEF OnEnd
<1>2. Flags'
    BY DEF OnEnd, Receive, Cache, queueVars, serverVars, Flags
<1>3. Names' /\ Paths' /\ SubOK'
    BY <1>1 DEF OnEnd, Receive, queueVars, serverVars, Names, Paths, SubOK
<1> QED
    BY <1>1, <1>2, <1>3

LEMMA ViewFlushOK == ASSUME IInv, ViewFlush PROVE IInv'
<1> USE DEF IInv
<1>1. Flags'
    BY DEF ViewFlush, queueVars, serverVars, Flags
<1>2. Names' /\ Paths' /\ SubOK' /\ OkIsTrue' /\ NoSession' /\ StopLast'
    BY DEF ViewFlush, queueVars, serverVars, Names, Paths, SubOK, OkIsTrue, NoSession, StopLast
<1> QED
    BY <1>1, <1>2
-----------------------------------------------------------------------------
(* The queue                                                               *)
LEMMA EffectOK == ASSUME IInv, Effect PROVE IInv'
<1> USE DEF IInv
<1>1. CASE queue # <<>> /\ Drain(Head(queue))
    <2> DEFINE p == Head(queue)
    <2>1. p \in Prompts
        BY <1>1, HeadTailProperties DEF Paths
    <2>2. Begin(p, "queue") /\ queue' = queue /\ lock' = TRUE
        BY <1>1 DEF Drain
    <2> HIDE DEF p
    <2>3. Flags'
        BY <2>2 DEF Effect, Begin, Cache, KeepCache, serverVars, Flags
    <2>4. Names'
        BY <2>1, <2>2 DEF Effect, Begin, serverVars, Names
    <2>5. Paths'
        BY <2>1, <2>2, BeginOK DEF Effect, Paths
    <2>6. SubOK'
        BY <2>1, <2>2, BeginOK DEF Effect, serverVars, Paths, SubOK
    <2>7. OkIsTrue' /\ NoSession' /\ StopLast'
        BY <2>1, <2>2, BeginOK, SubmitAssumption
        DEF Effect, Begin, serverVars, Paths, OkIsTrue, NoSession, StopLast
    <2> QED
        BY <2>3, <2>4, <2>5, <2>6, <2>7
<1>2. CASE UNCHANGED <<busy, cached, dirty, queueVars, cur, sub>>
    <2>1. Flags'
        BY <1>2 DEF Effect, queueVars, serverVars, Flags
    <2>2. Names' /\ Paths' /\ SubOK' /\ OkIsTrue' /\ NoSession' /\ StopLast'
        BY <1>2 DEF Effect, queueVars, serverVars, Names, Paths, SubOK, OkIsTrue, NoSession, StopLast
    <2> QED
        BY <2>1, <2>2
<1> QED
    BY <1>1, <1>2 DEF Effect


LEMMA SendQueuedOK == ASSUME IInv, NEW p \in Prompts, SendQueued(p) PROVE IInv'
<1> USE DEF IInv
<1>1. Flags'
    BY DEF SendQueued, Drain, Begin, Cache, KeepCache, serverVars, Flags
<1>2. Names'
    BY DEF SendQueued, Drain, Begin, serverVars, Names
<1>3. Paths'
    BY BeginOK DEF SendQueued, Drain, Paths
<1>4. SubOK'
    BY BeginOK DEF SendQueued, Drain, serverVars, Paths, SubOK
<1>5. OkIsTrue' /\ NoSession' /\ StopLast'
    BY BeginOK, SubmitAssumption DEF SendQueued, Drain, Begin, serverVars, Paths, OkIsTrue, NoSession, StopLast
<1> QED
    BY <1>1, <1>2, <1>3, <1>4, <1>5

LEMMA EndDrainOK == ASSUME IInv, NEW p \in Prompts, EndDrain(p) PROVE IInv'
<1> USE DEF IInv
<1>0. /\ sub' \in [Prompts -> SubRecord] /\ sub'[p].tries = sub[p].tries
      /\ sub'[p].pc \in {"queued", "done"} /\ sub'[p].ok = sub[p].ok
      /\ \A q \in Prompts \ {p} : sub'[q] = sub[q]
    <2>1. PICK pc \in {"queued", "done"} : Goto(p, pc)
        BY DEF EndDrain
    <2>2. pc \in PC
        BY DEF PC
    <2> QED
        BY <2>1, <2>2, GotoOK DEF Paths
<1>1. Flags'
    BY DEF EndDrain, viewVars, queueVars, serverVars, Flags
<1>2. Names'
    BY DEF EndDrain, queueVars, serverVars, Names
<1>3. Paths'
    BY <1>0, WithoutOK DEF EndDrain, queueVars, serverVars, Paths
<1>4. SubOK'
    BY <1>0 DEF EndDrain, queueVars, serverVars, SubOK
<1>5. OkIsTrue' /\ NoSession' /\ StopLast'
    BY <1>0 DEF EndDrain, queueVars, serverVars, OkIsTrue, NoSession, StopLast
<1> QED
    BY <1>1, <1>2, <1>3, <1>4, <1>5

LEMMA EnqueueOK == ASSUME IInv, NEW p \in Prompts, Enqueue(p) PROVE IInv'
<1> USE DEF IInv
<1>0. /\ sub' \in [Prompts -> SubRecord] /\ sub'[p].tries = sub[p].tries
      /\ sub'[p].pc \in {"queued"} /\ sub'[p].ok = sub[p].ok
      /\ \A q \in Prompts \ {p} : sub'[q] = sub[q]
    <2>1. {"queued"} \subseteq PC
        BY DEF PC
    <2> QED
        BY <2>1, GotoOK DEF Enqueue, Paths
<1>1. Flags'
    BY DEF Enqueue, viewVars, queueVars, serverVars, Flags
<1>2. Names'
    BY DEF Enqueue, queueVars, serverVars, Names
<1>3. Paths'
    BY <1>0 DEF Enqueue, queueVars, serverVars, Paths
<1>4. SubOK'
    BY <1>0 DEF Enqueue, queueVars, serverVars, SubOK
<1>5. OkIsTrue' /\ NoSession' /\ StopLast'
    BY <1>0 DEF Enqueue, queueVars, serverVars, OkIsTrue, NoSession, StopLast
<1> QED
    BY <1>1, <1>2, <1>3, <1>4, <1>5

LEMMA SteerOK == ASSUME IInv, NEW p \in Prompts, Steer(p) PROVE IInv'
<1> USE DEF IInv
<1>0. /\ sub' \in [Prompts -> SubRecord] /\ sub'[p].tries = sub[p].tries
      /\ sub'[p].pc \in {"steer"} /\ sub'[p].ok = sub[p].ok
      /\ \A q \in Prompts \ {p} : sub'[q] = sub[q]
    <2>1. {"steer"} \subseteq PC
        BY DEF PC
    <2> QED
        BY <2>1, GotoOK DEF Steer, Paths
<1>1. Flags'
    BY DEF Steer, viewVars, queueVars, serverVars, Flags
<1>2. Names'
    BY DEF Steer, queueVars, serverVars, Names
<1>3. Paths'
    BY <1>0 DEF Steer, queueVars, serverVars, Paths
<1>4. SubOK'
    BY <1>0 DEF Steer, queueVars, serverVars, SubOK
<1>5. OkIsTrue' /\ NoSession' /\ StopLast'
    BY <1>0 DEF Steer, queueVars, serverVars, OkIsTrue, NoSession, StopLast
<1> QED
    BY <1>1, <1>2, <1>3, <1>4, <1>5

LEMMA SteeredOK == ASSUME IInv, NEW p \in Prompts, Steered(p) PROVE IInv'
<1> USE DEF IInv
<1>0. /\ sub' \in [Prompts -> SubRecord] /\ sub'[p].tries = sub[p].tries
      /\ sub'[p].pc \in {"queued", "done"} /\ sub'[p].ok = sub[p].ok
      /\ \A q \in Prompts \ {p} : sub'[q] = sub[q]
    <2>1. {"queued", "done"} \subseteq PC
        BY DEF PC
    <2> QED
        BY <2>1, GotoOK DEF Steered, Paths
<1>1. Flags'
    BY DEF Steered, Cache, KeepCache, serverVars, Flags
<1>2. Names'
    BY DEF Steered, queueVars, serverVars, Names
<1>3. Paths'
    <2>1. queue' \in Seq(Prompts)
        BY SMTT(30) DEF Steered, Paths
    <2> QED
        BY <1>0, <2>1 DEF Steered, Paths
<1>4. SubOK'
    BY <1>0 DEF Steered, queueVars, serverVars, SubOK
<1>5. OkIsTrue' /\ NoSession' /\ StopLast'
    BY <1>0 DEF Steered, queueVars, serverVars, OkIsTrue, NoSession, StopLast
<1> QED
    BY <1>1, <1>2, <1>3, <1>4, <1>5

LEMMA DiscardOK == ASSUME IInv, NEW p \in Prompts, Discard(p) PROVE IInv'
<1> USE DEF IInv
<1>0. /\ sub' \in [Prompts -> SubRecord] /\ sub'[p].tries = sub[p].tries
      /\ sub'[p].pc \in {"done", sub[p].pc} /\ sub'[p].ok = sub[p].ok
      /\ \A q \in Prompts \ {p} : sub'[q] = sub[q]
    <2>1. "done" \in PC
        BY DEF PC
    <2>2. CASE Goto(p, "done")
        BY <2>1, <2>2, GotoOK DEF Paths
    <2>3. CASE sub' = sub
        BY <2>3 DEF Paths
    <2> QED
        BY <2>2, <2>3 DEF Discard
<1>1. Flags'
    BY DEF Discard, viewVars, queueVars, serverVars, Flags
<1>2. Names'
    BY DEF Discard, queueVars, serverVars, Names
<1>3. Paths'
    BY <1>0, WithoutOK DEF Discard, queueVars, serverVars, Paths
<1>4. SubOK'
    BY <1>0 DEF Discard, queueVars, serverVars, SubOK
<1>5. OkIsTrue' /\ NoSession' /\ StopLast'
    BY <1>0 DEF Discard, queueVars, serverVars, OkIsTrue, NoSession, StopLast
<1> QED
    BY <1>1, <1>2, <1>3, <1>4, <1>5

(* Stop, and the stop that is part of SendNow                              *)
LEMMA CancelOK ==
    ASSUME IInv, Cancel
    PROVE  Flags' /\ Names' /\ up' \in Seq(Asked) /\ SubOK' /\ OkIsTrue' /\ NoSession' /\ StopLast'
<1> USE DEF IInv
<1>1. Flags'
    BY DEF Cancel, Cache, KeepCache, serverVars, Flags
<1>2. Names'
    BY SubmitAssumption DEF Cancel, serverVars, Names
<1>3. /\ up' \in Seq(Asked)
      /\ session => up' # <<>> /\ up'[Len(up')].type = "interrupt"
      /\ ~session => up' = <<>>
    <2> DEFINE m == Msg("interrupt", None)
    <2>1. m \in Asked /\ m.type = "interrupt"
        BY DEF Msg, Asked
    <2>2. session => up' = Append(up, m)
        BY DEF Cancel
    <2>3. ~session => up' = <<>>
        BY DEF Cancel, NoSession
    <2> HIDE DEF m
    <2> QED
        <3>1. /\ Append(up, m) \in Seq(Asked) /\ Append(up, m) # <<>>
              /\ Append(up, m)[Len(Append(up, m))] = m
            BY <2>1, AppendProperties DEF Paths
        <3>2. CASE session
            <4>1. up' = Append(up, m)
                BY <2>2, <3>2
            <4> QED
                BY <2>1, <3>1, <3>2, <4>1
        <3>3. CASE ~session
            BY <2>3, <3>3, EmptySeq
        <3> QED
            BY <3>2, <3>3
<1>4. SubOK' /\ OkIsTrue' /\ NoSession'
    BY <1>3 DEF Cancel, serverVars, SubOK, OkIsTrue, NoSession
<1>5. StopLast'
    BY <1>3 DEF Cancel, serverVars, NoSession, StopLast
<1> QED
    BY <1>1, <1>2, <1>3, <1>4, <1>5

LEMMA StopOK == ASSUME IInv, Stop PROVE IInv'
BY CancelOK DEF IInv, Stop, Cancel, Paths

(* sendQueuedNow only moves the entry to the front                         *)
LEMMA Promoted ==
    ASSUME queue \in Seq(Prompts), NEW p \in Prompts
    PROVE  /\ <<p>> \o Without(p) \in Seq(Prompts)
           /\ ToSet(queue) \subseteq ToSet(<<p>> \o Without(p))
<1> DEFINE w == Without(p)
           s == <<p>> \o w
<1>1. w \in Seq(Prompts) /\ \A r \in ToSet(queue) \ {p} : r \in ToSet(w)
    BY WithoutOK
<1>2. <<p>> \in Seq(Prompts) /\ Len(<<p>>) = 1 /\ <<p>>[1] = p
    OBVIOUS
<1> HIDE DEF w
<1>3. /\ s \in Seq(Prompts) /\ Len(s) = 1 + Len(w) /\ Len(w) \in Nat
      /\ \A i \in 1..(1 + Len(w)) : s[i] = IF i <= 1 THEN <<p>>[i] ELSE w[i - 1]
    BY <1>1, <1>2, ConcatProperties, LenProperties
<1> HIDE DEF s
<1>4. p \in ToSet(s)
    BY <1>2, <1>3 DEF ToSet
<1>5. ASSUME NEW r \in ToSet(w) PROVE r \in ToSet(s)
    <2>1. PICK i \in 1..Len(w) : w[i] = r
        BY <1>1 DEF ToSet
    <2>2. i + 1 \in 1..Len(s) /\ s[i + 1] = w[i]
        BY <1>3, <2>1
    <2> QED
        BY <1>3, <2>1, <2>2 DEF ToSet
<1>6. ToSet(queue) \subseteq ToSet(s)
    BY <1>1, <1>4, <1>5
<1> QED
    BY <1>3, <1>6 DEF s, w

LEMMA SendNowOK == ASSUME IInv, NEW p \in Prompts, SendNow(p) PROVE IInv'
<1>1. Flags' /\ Names' /\ up' \in Seq(Asked) /\ SubOK' /\ OkIsTrue' /\ NoSession' /\ StopLast'
    BY CancelOK DEF SendNow
<1>2. Paths'
    BY <1>1, Promoted DEF IInv, SendNow, Cancel, Paths
<1> QED
    BY <1>1, <1>2 DEF IInv

-----------------------------------------------------------------------------
(* The server: what it takes is the oldest request, and what it writes     *)
(* comes last                                                              *)
LEMMA TakenOK ==
    ASSUME IInv, up # <<>>, up' = Tail(up)
    PROVE  /\ session /\ Head(up) \in Asked /\ up' \in Seq(Asked)
           /\ up' = <<>> => Head(up) = up[Len(up)]
           /\ up' # <<>> => up'[Len(up')] = up[Len(up)]
<1>1. session /\ up \in Seq(Asked)
    BY DEF IInv, NoSession, Paths
<1>2. /\ Head(up) \in Asked /\ up' \in Seq(Asked) /\ Head(up) = up[1]
      /\ Len(up') = Len(up) - 1 /\ Len(up) \in Nat /\ Len(up) >= 1
      /\ \A i \in 1..Len(up') : up'[i] = up[i + 1]
    BY <1>1, HeadTailProperties, EmptySeq
<1>3. up' = <<>> => Head(up) = up[Len(up)]
    <2> SUFFICES ASSUME up' = <<>> PROVE Head(up) = up[Len(up)]
        OBVIOUS
    <2>1. Len(up') = 0
        BY EmptySeq
    <2>2. Len(up) = 1
        BY SMTT(30), <1>2, <2>1
    <2> QED
        BY <1>2, <2>2
<1>4. up' # <<>> => up'[Len(up')] = up[Len(up)]
    <2> SUFFICES ASSUME up' # <<>> PROVE up'[Len(up')] = up[Len(up)]
        OBVIOUS
    <2>1. Len(up') \in Nat \ {0}
        BY <1>2, EmptySeq
    <2>2. Len(up') \in 1..Len(up') /\ Len(up') + 1 = Len(up)
        BY <1>2, <2>1
    <2> QED
        BY <1>2, <2>2
<1> QED
    BY <1>1, <1>2, <1>3, <1>4

LEMMA ToldOK ==
    ASSUME IInv, NEW ms \in Seq(Told), down' = down \o ms, accepted \subseteq accepted',
           \A i \in 1..Len(ms) : ms[i].type = "ok" => ms[i].p \in accepted'
    PROVE  down' \in Seq(Told) /\ OkIsTrue'
<1>1. /\ down' \in Seq(Told) /\ Len(down') = Len(down) + Len(ms)
      /\ Len(down) \in Nat /\ Len(ms) \in Nat
      /\ \A i \in 1..(Len(down) + Len(ms)) :
            down'[i] = IF i <= Len(down) THEN down[i] ELSE ms[i - Len(down)]
    BY ConcatProperties, LenProperties DEF IInv, Paths
<1>2. ASSUME NEW i \in 1..Len(down'), down'[i].type = "ok"
      PROVE  down'[i].p \in accepted'
    <2>1. CASE i <= Len(down)
        <3>1. i \in 1..Len(down) /\ down'[i] = down[i]
            BY <1>1, <2>1
        <3> QED
            BY <1>2, <3>1 DEF IInv, OkIsTrue
    <2>2. CASE ~(i <= Len(down))
        <3>1. i - Len(down) \in 1..Len(ms) /\ down'[i] = ms[i - Len(down)]
            BY <1>1, <2>2
        <3> QED
            BY <1>2, <3>1
    <2> QED
        BY <2>1, <2>2
<1> QED
    BY <1>1, <1>2 DEF OkIsTrue

(* Sequences of one and of two messages                                    *)
LEMMA One == ASSUME NEW S, NEW m \in S
             PROVE  /\ <<m>> \in Seq(S) /\ Len(<<m>>) = 1 /\ <<m>>[1] = m
                    /\ \A i \in 1..Len(<<m>>) : <<m>>[i] = m
OBVIOUS

LEMMA Two == ASSUME NEW S, NEW m \in S, NEW n \in S
             PROVE  /\ <<m, n>> \in Seq(S)
                    /\ \A i \in 1..Len(<<m, n>>) : <<m, n>>[i] \in {m, n}
OBVIOUS

LEMMA SrvSubmitOK == ASSUME IInv, SrvSubmit PROVE IInv'
<1> USE DEF IInv
<1> DEFINE p == Head(up).p
           told == /\ down' \in Seq(Told) /\ OkIsTrue'
<1>1. /\ up # <<>> /\ up' = Tail(up) /\ Head(up).type = "submit"
      /\ UNCHANGED clientVars
    BY DEF SrvSubmit, Reply
<1>2. /\ session /\ p \in Prompts /\ up' \in Seq(Asked)
      /\ up' = <<>> => Head(up) = up[Len(up)]
      /\ up' # <<>> => up'[Len(up')] = up[Len(up)]
    BY <1>1, TakenOK DEF Asked
<1>3. /\ told
      /\ \/ UNCHANGED serverVars
         \/ /\ run' = p /\ halt' = FALSE /\ accepted' = accepted \cup {p}
            /\ again' = again \cup (accepted \cap {p})
    <2>1. CASE /\ run' = p /\ halt' = FALSE /\ accepted' = accepted \cup {p}
               /\ again' = again \cup (accepted \cap {p})
               /\ Reply(<<Msg("ok", p), Msg("start", p)>>)
        <3> DEFINE a == Msg("ok", p)
                   b == Msg("start", p)
        <3>1. a \in Told /\ b \in Told /\ a.p = p /\ b.p = p
            BY <1>2 DEF Msg, Told
        <3>2. down' = down \o <<a, b>>
            BY <2>1 DEF Reply
        <3> HIDE DEF a, b, p
        <3>3. <<a, b>> \in Seq(Told) /\ \A i \in 1..Len(<<a, b>>) : <<a, b>>[i].p \in accepted'
            BY <2>1, <3>1, Two
        <3> QED
            BY <2>1, <3>2, <3>3, ToldOK
    <2>2. ASSUME NEW type \in {"busy", "error"}, Reply(<<Msg(type, p)>>), UNCHANGED serverVars
          PROVE  told /\ UNCHANGED serverVars
        <3> DEFINE a == Msg(type, p)
        <3>1. a \in Told /\ a.type # "ok" /\ down' = down \o <<a>> /\ accepted' = accepted
            BY <1>2, <2>2 DEF Msg, Told, Reply, serverVars
        <3> HIDE DEF a, p
        <3>2. <<a>> \in Seq(Told) /\ \A i \in 1..Len(<<a>>) : <<a>>[i].type # "ok"
            BY <3>1, One
        <3> QED
            BY <2>2, <3>1, <3>2, ToldOK
    <2> QED
        BY <2>1, <2>2 DEF SrvSubmit
<1> HIDE DEF p
<1>4. Flags'
    BY <1>1, <1>3 DEF clientVars, viewVars, queueVars, serverVars, Flags
<1>5. Names'
    BY <1>1, <1>2, <1>3 DEF clientVars, serverVars, Names
<1>6. Paths'
    BY <1>1, <1>2, <1>3 DEF clientVars, queueVars, Paths
<1>7. SubOK'
    BY <1>1, <1>3 DEF clientVars, serverVars, SubOK
<1>8. NoSession'
    BY <1>1, <1>2 DEF clientVars, NoSession
<1>9. StopLast'
    BY <1>1, <1>2 DEF clientVars, StopLast
<1> QED
    BY <1>3, <1>4, <1>5, <1>6, <1>7, <1>8, <1>9

LEMMA SrvInterruptOK == ASSUME IInv, SrvInterrupt PROVE IInv'
<1> USE DEF IInv
<1>1. /\ up # <<>> /\ up' = Tail(up) /\ down' = down \o <<Msg("stopped", None)>>
      /\ UNCHANGED clientVars /\ UNCHANGED <<run, accepted, again>>
      /\ halt' = (run # None)
    BY DEF SrvInterrupt, Reply
<1>2. /\ session /\ up' \in Seq(Asked)
      /\ up' # <<>> => up'[Len(up')] = up[Len(up)]
    BY <1>1, TakenOK
<1>3. down' \in Seq(Told) /\ OkIsTrue'
    <2> DEFINE a == Msg("stopped", None)
    <2>1. a \in Told /\ a.type # "ok"
        BY DEF Msg, Told
    <2>2. down' = down \o <<a>>
        BY <1>1
    <2> HIDE DEF a
    <2>3. <<a>> \in Seq(Told) /\ \A i \in 1..Len(<<a>>) : <<a>>[i].type # "ok"
        BY <2>1, One
    <2> QED
        BY <1>1, <2>2, <2>3, ToldOK
<1>4. Flags'
    BY <1>1 DEF clientVars, viewVars, queueVars, Flags
<1>5. Names' /\ Paths' /\ SubOK'
    BY <1>1, <1>2, <1>3 DEF clientVars, queueVars, Names, Paths, SubOK
<1>6. NoSession'
    BY <1>1, <1>2 DEF clientVars, NoSession
<1>7. StopLast'
    BY <1>1, <1>2 DEF clientVars, StopLast
<1> QED
    BY <1>3, <1>4, <1>5, <1>6, <1>7

LEMMA SrvTextOK == ASSUME IInv, SrvText PROVE IInv'
<1> USE DEF IInv
<1>1. down' \in Seq(Told) /\ OkIsTrue' /\ session
    <2> DEFINE a == Msg("text", run)
    <2>1. a \in Told /\ a.type # "ok"
        BY DEF SrvText, Names, Msg, Told
    <2>2. down' = <<a>> /\ session
        BY DEF SrvText, NoSession
    <2> HIDE DEF a
    <2>3. <<a>> \in Seq(Told) /\ \A i \in 1..Len(<<a>>) : <<a>>[i].type # "ok"
        BY <2>1, One
    <2> QED
        BY <2>2, <2>3 DEF OkIsTrue
<1>2. Flags'
    BY DEF SrvText, clientVars, viewVars, queueVars, serverVars, Flags
<1>3. Names' /\ Paths' /\ SubOK' /\ NoSession' /\ StopLast'
    BY <1>1 DEF SrvText, clientVars, queueVars, serverVars, Names, Paths, SubOK, NoSession, StopLast
<1> QED
    BY <1>1, <1>2, <1>3

LEMMA SrvEndOK == ASSUME IInv, SrvEnd PROVE IInv'
<1> USE DEF IInv
<1>1. /\ down' = down \o <<Msg("complete", run), Msg("idle", run)>>
      /\ run # None /\ run' = None /\ halt' = FALSE
      /\ UNCHANGED clientVars /\ UNCHANGED <<up, accepted, again>>
    BY DEF SrvEnd
<1>2. down' \in Seq(Told) /\ OkIsTrue'
    <2> DEFINE a == Msg("complete", run)
               b == Msg("idle", run)
    <2>1. a \in Told /\ b \in Told /\ a.type # "ok" /\ b.type # "ok"
        BY <1>1 DEF Names, Msg, Told
    <2>2. down' = down \o <<a, b>>
        BY <1>1
    <2> HIDE DEF a, b
    <2>3. <<a, b>> \in Seq(Told) /\ \A i \in 1..Len(<<a, b>>) : <<a, b>>[i].type # "ok"
        BY <2>1, Two
    <2> QED
        BY <1>1, <2>2, <2>3, ToldOK
<1>3. session
    BY <1>1 DEF NoSession
<1>4. Flags'
    BY <1>1 DEF clientVars, viewVars, queueVars, Flags
<1>5. Names' /\ Paths' /\ SubOK'
    BY <1>1, <1>2 DEF clientVars, queueVars, Names, Paths, SubOK
<1>6. NoSession' /\ StopLast'
    BY <1>1, <1>3 DEF clientVars, NoSession, StopLast
<1> QED
    BY <1>2, <1>4, <1>5, <1>6

-----------------------------------------------------------------------------
LEMMA StutterOK == ASSUME IInv, UNCHANGED vars PROVE IInv'
<1> USE DEF IInv
<1>1. Flags'
    BY DEF vars, viewVars, queueVars, serverVars, Flags
<1>2. Names' /\ Paths' /\ SubOK' /\ OkIsTrue' /\ NoSession' /\ StopLast'
    BY DEF vars, viewVars, queueVars, serverVars, Names, Paths, SubOK, OkIsTrue, NoSession, StopLast
<1> QED
    BY <1>1, <1>2

LEMMA NextIInv == IInv /\ [Next]_vars => IInv'
<1> SUFFICES ASSUME IInv, [Next]_vars PROVE IInv'
    OBVIOUS
<1>1. CASE Stop \/ Effect \/ ViewFlush
    BY <1>1, StopOK, EffectOK, ViewFlushOK
<1>2. CASE OnFrame
    BY <1>2, OnOkOK, OnBusyOK, OnRefusedOK, OnStoppedOK, OnStartOK, OnTextOK, OnEndOK DEF OnFrame
<1>3. CASE Server
    BY <1>3, SrvSubmitOK, SrvInterruptOK, SrvTextOK, SrvEndOK DEF Server
<1>4. ASSUME NEW p \in Prompts, User(p) PROVE IInv'
    BY <1>4, SubmitOK, EnqueueOK, SteerOK, SendQueuedOK, SendNowOK, DiscardOK DEF User
<1>5. ASSUME NEW p \in Prompts, Step(p) PROVE IInv'
    BY <1>5, CreateOK, CreateFailsOK, SyncedOK, SyncFailsOK, WakeOK, EndDrainOK, SteeredOK DEF Step
<1>6. CASE UNCHANGED vars
    BY <1>6, StutterOK
<1> QED
    BY <1>1, <1>2, <1>3, <1>4, <1>5, <1>6 DEF Next

THEOREM Invariant == Spec => []IInv
BY InitIInv, NextIInv, PTL DEF Spec

(* Every variable keeps its type; in particular a submit never makes more  *)
(* tries than fit in the deadline of withSessionBusyRetry                  *)
THEOREM TypeCorrect == Spec => []TypeOK
BY Invariant, Types, PTL

LEMMA StopLastStops == IInv => StopStops
<1> SUFFICES ASSUME IInv, cur = None, up # <<>>
             PROVE  \E i \in DOMAIN up : up[i].type = "interrupt"
    BY DEF IInv, StopLast, StopStops
<1>1. Len(up) \in DOMAIN up /\ up[Len(up)].type = "interrupt"
    BY EmptySeq, LenProperties DEF IInv, Paths, StopLast
<1> QED
    BY <1>1

(* cancelRun stops: after it no turn runs that is not interrupted or about *)
(* to be, whatever was being created, synced, retried or drained           *)
THEOREM StopStopsAlways == Spec => []StopStops
BY Invariant, StopLastStops, PTL

-----------------------------------------------------------------------------
(* What a step takes out of the queue                                      *)
Kept == \A p \in ToSet(queue) \ ToSet(queue') : p \in accepted \/ Discard(p)

LEMMA SameQueue == queue' = queue => Kept
BY DEF Kept

LEMMA LongerQueue ==
    ASSUME IInv, NEW p \in Prompts, queue' = Append(queue, p)
    PROVE  Kept
<1>1. queue \in Seq(Prompts)
    BY DEF IInv, Paths
<1>2. ASSUME NEW r \in ToSet(queue) PROVE r \in ToSet(queue')
    <2>1. PICK i \in 1..Len(queue) : queue[i] = r
        BY <1>1 DEF ToSet
    <2>2. i \in DOMAIN queue' /\ queue'[i] = r
        BY <1>1, <2>1, AppendProperties, LenProperties
    <2> QED
        BY <2>2 DEF ToSet
<1> QED
    BY <1>2 DEF Kept

LEMMA StepKeeps == IInv /\ [Next]_vars => Kept
<1> SUFFICES ASSUME IInv, [Next]_vars PROVE Kept
    OBVIOUS
<1>1. CASE Stop \/ Effect \/ ViewFlush
    BY <1>1, SameQueue DEF Stop, Effect, Drain, ViewFlush, queueVars
<1>2. CASE OnFrame
    BY <1>2, SameQueue
    DEF OnFrame, OnOk, OnBusy, OnRefused, OnStopped, OnStart, OnText, OnEnd, Receive, queueVars
<1>3. CASE Server
    BY <1>3, SameQueue DEF Server, SrvSubmit, SrvInterrupt, SrvText, SrvEnd, clientVars, queueVars
<1>4. ASSUME NEW p \in Prompts, User(p) PROVE Kept
    <2>1. CASE Submit(p) \/ Steer(p) \/ SendQueued(p)
        BY <2>1, SameQueue DEF Submit, Steer, SendQueued, Drain, queueVars
    <2>2. CASE Enqueue(p)
        BY <2>2, LongerQueue DEF Enqueue
    <2>3. CASE SendNow(p)
        BY <2>3, Promoted DEF IInv, Paths, SendNow, Kept
    <2>4. CASE Discard(p)
        <3>1. queue' = Without(p)
            BY <2>4 DEF Discard
        <3>2. \A r \in ToSet(queue) \ {p} : r \in ToSet(queue')
            BY <3>1, WithoutOK DEF IInv, Paths
        <3> QED
            BY <2>4, <3>2 DEF Kept
    <2> QED
        BY <1>4, <2>1, <2>2, <2>3, <2>4 DEF User
<1>5. ASSUME NEW p \in Prompts, Step(p) PROVE Kept
    <2>1. CASE Create(p) \/ CreateFails(p) \/ Synced(p) \/ SyncFails(p) \/ Wake(p)
        BY <2>1, SameQueue DEF Create, CreateFails, Synced, SyncFails, Wake, queueVars
    <2>2. CASE EndDrain(p) /\ sub[p].ok
        <3>1. p \in accepted
            BY <2>2 DEF IInv, SubOK
        <3>2. queue' = Without(p)
            BY <2>2 DEF EndDrain
        <3>3. \A r \in ToSet(queue) \ {p} : r \in ToSet(queue')
            BY <3>2, WithoutOK DEF IInv, Paths
        <3> QED
            BY <3>1, <3>3 DEF Kept
    <2>3. CASE EndDrain(p) /\ ~sub[p].ok
        BY <2>3, SameQueue DEF EndDrain
    <2>4. CASE Steered(p)
        BY <2>4, SameQueue, LongerQueue DEF Steered
    <2> QED
        BY <1>5, <2>1, <2>2, <2>3, <2>4 DEF Step
<1>6. CASE UNCHANGED vars
    BY <1>6, SameQueue DEF vars, queueVars
<1> QED
    BY <1>1, <1>2, <1>3, <1>4, <1>5, <1>6 DEF Next

(* runDrain sends, then removes: an entry leaves the queue when the server *)
(* has accepted it or the user removes it, and in no other way             *)
THEOREM QueueKeepsAlways == Spec => QueueKeeps
<1>1. IInv /\ [Next]_vars => [Kept]_vars
    BY StepKeeps
<1> QED
    BY Invariant, <1>1, PTL DEF Spec, QueueKeeps, Kept

-----------------------------------------------------------------------------
(* The rest of what holds: the messages, the drain and the view            *)

(* runDrain waits for the submit of p                                      *)
Rides(p) == sub[p].via = "queue" /\ sub[p].pc \in Running \cup {"returning"}

Creating == cur # None /\ sub[cur].pc = "create"

(* The drain lock is held by the one drain there is                        *)
DrainOK ==
    /\ \A p \in Prompts : Rides(p) => lock
    /\ \A p, q \in Prompts : Rides(p) /\ Rides(q) => p = q
    /\ lock => \E p \in Prompts : Rides(p)
    /\ \A p \in Prompts : sub[p].pc = "returning" => sub[p].via = "queue"

(* An entry is in the queue once, and waits there or is being drained      *)
QueueOK ==
    /\ \A i, j \in 1..Len(queue) : queue[i] = queue[j] => i = j
    /\ \A i \in 1..Len(queue) : sub[queue[i]].pc = "queued" \/ Rides(queue[i])

(* A submit that waits has one call or one answer on its way               *)
Answers == {"ok", "busy", "error"}
AskOnce ==
    /\ \A i \in 1..Len(up) : up[i].type = "submit" => sub[up[i].p].pc = "wait"
    /\ \A i, j \in 1..Len(up) :
         up[i].type = "submit" /\ up[j].type = "submit" /\ up[i].p = up[j].p => i = j
AnswerOnce ==
    /\ \A i \in 1..Len(down) : down[i].type \in Answers => sub[down[i].p].pc = "wait"
    /\ \A i, j \in 1..Len(down) :
         down[i].type \in Answers /\ down[j].type \in Answers /\ down[i].p = down[j].p => i = j
AskOrAnswer ==
    \A i \in 1..Len(up), j \in 1..Len(down) :
        up[i].type = "submit" /\ down[j].type \in Answers => up[i].p # down[j].p

(* What the server ran leaves, unless the client took no notice            *)
Unsent(p) == p \notin accepted /\ p \notin late
OkComes(p) == \E i \in 1..Len(down) : down[i].type = "ok" /\ down[i].p = p
Ran(p) ==
    /\ sub[p].pc \in {"draft", "steer"} => Unsent(p)
    /\ sub[p].pc = "queued" /\ sub[p].via = "user" => Unsent(p)
    /\ p \in late /\ sub[p].via = "user" => sub[p].pc = "done"
    /\ p \in accepted \ late => \/ sub[p].pc = "wait" /\ OkComes(p)
                                \/ sub[p].pc = "returning" /\ sub[p].ok
                                \/ sub[p].pc = "done"
    /\ p \in again => p \in late /\ sub[p].via = "queue"
RanOK == \A p \in Prompts : Ran(p)

(* A turn that began, or kept another prompt out, is yet to end            *)
IdleAfter(i) == run # None \/ \E j \in 1..Len(down) : j > i /\ down[j].type = "idle"
EndComes == \A i \in 1..Len(down) : down[i].type \in {"ok", "busy", "start"} => IdleAfter(i)

(* While the newest submit creates the session nothing else is going on    *)
Alone ==
    ~session \/ Creating =>
        /\ up = <<>> /\ down = <<>> /\ run = None /\ ~cached
        /\ \A p \in Prompts : sub[p].pc \notin {"sync", "wait", "sleep"}

(* Whoever made the chat busy will free it                                 *)
CachedOK == cached => (cur # None /\ sub[cur].pc \in Running) \/ IdleAfter(0)
BusyOK   == busy => dirty \/ cached \/ Creating

Wire == AskOnce /\ AnswerOnce /\ AskOrAnswer /\ EndComes
View == Alone /\ CachedOK /\ BusyOK
JInv == DrainOK /\ QueueOK /\ Wire /\ RanOK /\ View

-----------------------------------------------------------------------------
(* What a step does to the messages on their way                           *)
OnlySub(p) ==
    sub' \in [Prompts -> SubRecord] /\ \A q \in Prompts \ {p} : sub'[q] = sub[q]

LEMMA WireTypes ==
    ASSUME IInv
    PROVE  /\ Len(up) \in Nat /\ Len(down) \in Nat /\ None \notin Prompts
           /\ up \in Seq(Asked) /\ down \in Seq(Told)
           /\ \A i \in 1..Len(up) : up[i].type = "submit" => up[i].p \in Prompts
           /\ \A i \in 1..Len(down) : down[i].type \in Answers => down[i].p \in Prompts
<1>1. up \in Seq(Asked) /\ down \in Seq(Told)
    BY DEF IInv, Paths
<1>2. /\ Len(up) \in Nat /\ Len(down) \in Nat
      /\ \A i \in 1..Len(up) : up[i] \in Asked
      /\ \A i \in 1..Len(down) : down[i] \in Told
    BY <1>1, ElementOfSeq, LenProperties
<1>3. \A m \in Asked : m.type = "submit" => m.p \in Prompts
    BY DEF Asked
<1>4. \A m \in Told : m.type \in Answers => m.p \in Prompts
    BY DEF Told, Answers
<1> QED
    BY <1>1, <1>2, <1>3, <1>4, SubmitAssumption

LEMMA WireMoves ==
    ASSUME IInv, Wire, NEW p \in Prompts, OnlySub(p), sub[p].pc # "wait",
           UNCHANGED <<up, down, run>>
    PROVE  Wire'
<1>1. \A i \in 1..Len(up) : up[i].type = "submit" => up[i].p \in Prompts \ {p}
    BY WireTypes DEF Wire, AskOnce
<1>2. \A i \in 1..Len(down) : down[i].type \in Answers => down[i].p \in Prompts \ {p}
    BY WireTypes DEF Wire, AnswerOnce
<1>3. AskOnce' /\ AnswerOnce'
    BY <1>1, <1>2 DEF Wire, AskOnce, AnswerOnce, OnlySub
<1>4. AskOrAnswer' /\ EndComes'
    BY DEF Wire, AskOrAnswer, EndComes, IdleAfter
<1> QED
    BY <1>3, <1>4 DEF Wire

LEMMA WireSends ==
    ASSUME IInv, Wire, NEW p \in Prompts, OnlySub(p), sub[p].pc # "wait", sub'[p].pc = "wait",
           up' = Append(up, Msg("submit", p)), UNCHANGED <<down, run>>
    PROVE  Wire'
<1> DEFINE m == Msg("submit", p)
<1>1. /\ m \in Asked /\ m.type = "submit" /\ m.p = p
    BY DEF Msg, Asked
<1>2. up' = Append(up, m)
    OBVIOUS
<1> HIDE DEF m
<1>3. /\ Len(up') = Len(up) + 1 /\ up'[Len(up) + 1] = m /\ Len(up) \in Nat
      /\ \A i \in 1..Len(up) : up'[i] = up[i]
    BY <1>1, <1>2, WireTypes, AppendProperties
<1>4. \A i \in 1..Len(up) : up[i].type = "submit" => up[i].p \in Prompts \ {p}
    BY WireTypes DEF Wire, AskOnce
<1>5. \A i \in 1..Len(down) : down[i].type \in Answers => down[i].p \in Prompts \ {p}
    BY WireTypes DEF Wire, AnswerOnce
<1>6. \A i \in 1..Len(up') : i \in 1..Len(up) \/ i = Len(up) + 1
    BY <1>3
<1>7. AskOnce'
    BY <1>1, <1>3, <1>4, <1>6 DEF Wire, AskOnce, OnlySub
<1>8. AnswerOnce' /\ EndComes'
    BY SMTT(30), <1>5 DEF Wire, AnswerOnce, EndComes, IdleAfter, OnlySub
<1>9. AskOrAnswer'
    BY <1>1, <1>3, <1>5, <1>6 DEF Wire, AskOrAnswer
<1> QED
    BY <1>7, <1>8, <1>9 DEF Wire

LEMMA WireInterrupts ==
    ASSUME IInv, Wire, up' = Append(up, Msg("interrupt", None)), UNCHANGED <<sub, down, run>>
    PROVE  Wire'
<1> DEFINE m == Msg("interrupt", None)
<1>1. m \in Asked /\ m.type # "submit"
    BY DEF Msg, Asked
<1>2. up' = Append(up, m)
    OBVIOUS
<1> HIDE DEF m
<1>3. /\ Len(up') = Len(up) + 1 /\ up'[Len(up) + 1] = m /\ Len(up) \in Nat
      /\ \A i \in 1..Len(up) : up'[i] = up[i]
    BY <1>1, <1>2, WireTypes, AppendProperties
<1>4. \A i \in 1..Len(up') : up'[i].type = "submit" => i \in 1..Len(up) /\ up'[i] = up[i]
    BY <1>1, <1>3
<1> QED
    BY <1>4 DEF Wire, AskOnce, AnswerOnce, AskOrAnswer, EndComes, IdleAfter

(* The client takes the oldest frame                                       *)
LEMMA WireReceives ==
    ASSUME IInv, Wire, down # <<>>, down' = Tail(down), UNCHANGED <<up, run>>,
           \/ Head(down).type \notin Answers /\ UNCHANGED sub
           \/ Head(down).type \in Answers /\ OnlySub(Head(down).p)
    PROVE  /\ Wire'
           /\ \A q \in Prompts :
                OkComes(q) => OkComes(q)' \/ (Head(down).type = "ok" /\ Head(down).p = q)
           /\ IdleAfter(0) /\ Head(down).type # "idle" => IdleAfter(0)'
           /\ Head(down).type \in {"ok", "busy", "start"} => IdleAfter(0)'
<1> DEFINE m == Head(down)
<1>1. /\ m = down[1] /\ Len(down') = Len(down) - 1 /\ Len(down) \in Nat /\ Len(down) >= 1
      /\ \A i \in 1..Len(down') : down'[i] = down[i + 1]
    BY WireTypes, HeadTailProperties, EmptySeq
<1> HIDE DEF m
<1>2. 1 \in 1..Len(down) /\ \A i \in 1..Len(down') : i + 1 \in 1..Len(down) /\ i + 1 # 1
    BY <1>1
<1>3. \A i \in 1..Len(down) : i > 1 => i - 1 \in 1..Len(down') /\ down'[i - 1] = down[i]
    BY <1>1
<1>4. m.type \in Answers =>
        /\ \A i \in 1..Len(up) : up[i].type = "submit" => up[i].p \in Prompts \ {m.p}
        /\ \A i \in 1..Len(down') : down'[i].type \in Answers => down'[i].p \in Prompts \ {m.p}
    BY SMTT(30), <1>1, <1>2, WireTypes DEF Wire, AnswerOnce, AskOrAnswer
<1>5. AskOnce'
    <2>1. CASE UNCHANGED sub
        BY <2>1 DEF Wire, AskOnce
    <2>2. CASE m.type \in Answers /\ OnlySub(m.p)
        BY <1>4, <2>2 DEF Wire, AskOnce, OnlySub
    <2> QED
        BY <2>1, <2>2 DEF m
<1>6. AnswerOnce'
    <2>1. \A i, j \in 1..Len(down') :
             down'[i].type \in Answers /\ down'[j].type \in Answers /\ down'[i].p = down'[j].p
               => i = j
        BY <1>1, <1>2 DEF Wire, AnswerOnce
    <2>2. CASE UNCHANGED sub
        BY <1>1, <1>2, <2>1, <2>2 DEF Wire, AnswerOnce
    <2>3. CASE m.type \in Answers /\ OnlySub(m.p)
        BY <1>1, <1>2, <1>4, <2>1, <2>3 DEF Wire, AnswerOnce, OnlySub
    <2> QED
        BY <2>2, <2>3 DEF m
<1>7. AskOrAnswer'
    BY <1>1, <1>2 DEF Wire, AskOrAnswer
<1>8. ASSUME NEW i \in 1..Len(down), IdleAfter(i) PROVE IdleAfter(i - 1)'
    <2>1. CASE run # None
        BY <2>1 DEF IdleAfter
    <2>2. CASE \E j \in 1..Len(down) : j > i /\ down[j].type = "idle"
        <3>1. PICK j \in 1..Len(down) : j > i /\ down[j].type = "idle"
            BY <2>2
        <3>2. j > 1 /\ j - 1 > i - 1
            BY <3>1
        <3> QED
            BY <1>3, <3>1, <3>2 DEF IdleAfter
    <2> QED
        BY <1>8, <2>1, <2>2 DEF IdleAfter
<1>9. EndComes'
    <2> SUFFICES ASSUME NEW i \in 1..Len(down'), down'[i].type \in {"ok", "busy", "start"}
                 PROVE  IdleAfter(i)'
        BY DEF EndComes
    <2>1. IdleAfter(i + 1)
        BY <1>1, <1>2 DEF Wire, EndComes
    <2>2. IdleAfter((i + 1) - 1)'
        BY <1>2, <1>8, <2>1
    <2> QED
        BY <2>2 DEF IdleAfter
<1>10. m.type \in {"ok", "busy", "start"} => IdleAfter(0)'
    <2> SUFFICES ASSUME m.type \in {"ok", "busy", "start"} PROVE IdleAfter(0)'
        OBVIOUS
    <2>1. IdleAfter(1)
        BY <1>1, <1>2 DEF Wire, EndComes
    <2>2. IdleAfter(1 - 1)'
        BY <1>2, <1>8, <2>1
    <2> QED
        BY <2>2 DEF IdleAfter
<1>11. IdleAfter(0) /\ m.type # "idle" => IdleAfter(0)'
    <2> SUFFICES ASSUME IdleAfter(0), m.type # "idle", run = None PROVE IdleAfter(0)'
        BY DEF IdleAfter
    <2>1. PICK j \in 1..Len(down) : down[j].type = "idle"
        BY DEF IdleAfter
    <2>2. j > 1 /\ j - 1 > 0
        BY <1>1, <2>1
    <2>3. j - 1 \in 1..Len(down') /\ down'[j - 1].type = "idle"
        BY <1>3, <2>1, <2>2
    <2> QED
        BY <2>2, <2>3 DEF IdleAfter
<1>12. ASSUME NEW q \in Prompts, OkComes(q), ~(m.type = "ok" /\ m.p = q) PROVE OkComes(q)'
    <2>1. PICK i \in 1..Len(down) : down[i].type = "ok" /\ down[i].p = q
        BY <1>12 DEF OkComes
    <2>2. i > 1
        BY <1>1, <1>12, <2>1
    <2> QED
        BY <1>3, <2>1, <2>2 DEF OkComes
<1> QED
    BY <1>5, <1>6, <1>7, <1>9, <1>10, <1>11, <1>12 DEF Wire, m

(* The server writes after what it wrote before; an answer is to the call  *)
(* it has just taken                                                       *)
LEMMA WireTells ==
    ASSUME IInv, Wire, NEW ms \in Seq(Told), down' = down \o ms, UNCHANGED sub,
           up' = up \/ (up # <<>> /\ up' = Tail(up)),
           \A k \in 1..Len(ms) : ms[k].type \in Answers =>
               /\ up # <<>> /\ up' = Tail(up)
               /\ Head(up).type = "submit" /\ ms[k].p = Head(up).p,
           \A k, l \in 1..Len(ms) : ms[k].type \in Answers /\ ms[l].type \in Answers => k = l,
           \A k \in 1..Len(ms) : ms[k].type \in {"ok", "busy", "start"} => run' # None,
           run # None => run' # None \/ \E k \in 1..Len(ms) : ms[k].type = "idle"
    PROVE  /\ Wire'
           /\ \A q \in Prompts : OkComes(q) => OkComes(q)'
           /\ IdleAfter(0) => IdleAfter(0)'
<1>1. /\ Len(down') = Len(down) + Len(ms) /\ Len(down) \in Nat /\ Len(ms) \in Nat
      /\ \A i \in 1..(Len(down) + Len(ms)) :
            down'[i] = IF i <= Len(down) THEN down[i] ELSE ms[i - Len(down)]
    BY WireTypes, ConcatProperties, LenProperties
<1>2. /\ \A i \in 1..Len(down) : i \in 1..Len(down') /\ down'[i] = down[i]
      /\ \A k \in 1..Len(ms) : /\ Len(down) + k \in 1..Len(down')
                               /\ down'[Len(down) + k] = ms[k]
    BY <1>1
<1>3. \A i \in 1..Len(down') :
         i \in 1..Len(down) \/ \E k \in 1..Len(ms) : i = Len(down) + k
    <2> TAKE i \in 1..Len(down')
    <2>1. CASE i <= Len(down)
        BY <1>1, <2>1
    <2>2. CASE ~(i <= Len(down))
        <3>1. i - Len(down) \in 1..Len(ms) /\ i = Len(down) + (i - Len(down))
            BY SMTT(30), <1>1, <2>2
        <3> QED
            BY <3>1
    <2> QED
        BY <2>1, <2>2
<1>4. up # <<>> /\ up' = Tail(up) =>
        /\ Head(up) = up[1] /\ 1 \in 1..Len(up)
        /\ \A i \in 1..Len(up') : i + 1 \in 1..Len(up) /\ i + 1 # 1 /\ up'[i] = up[i + 1]
    <2> SUFFICES ASSUME up # <<>>, up' = Tail(up)
                 PROVE  /\ Head(up) = up[1] /\ 1 \in 1..Len(up)
                        /\ \A i \in 1..Len(up') : /\ i + 1 \in 1..Len(up) /\ i + 1 # 1
                                                  /\ up'[i] = up[i + 1]
        OBVIOUS
    <2>1. /\ Head(up) = up[1] /\ Len(up') = Len(up) - 1 /\ Len(up) \in Nat /\ Len(up) >= 1
          /\ \A i \in 1..Len(up') : up'[i] = up[i + 1]
        BY WireTypes, HeadTailProperties, EmptySeq
    <2>2. 1 \in 1..Len(up) /\ \A i \in 1..Len(up') : i + 1 \in 1..Len(up) /\ i + 1 # 1
        <3> DEFINE n == Len(up)
                   m == Len(up')
        <3>1. n \in Nat /\ n >= 1 /\ m = n - 1
            BY <2>1
        <3> HIDE DEF n, m
        <3>2. 1 \in 1..n /\ \A i \in 1..m : i + 1 \in 1..n /\ i + 1 # 1
            BY <3>1
        <3> QED
            BY SMTT(30), <3>2 DEF n, m
    <2> QED
        BY <2>1, <2>2
<1>5. AskOnce'
    <2>1. CASE up' = up
        BY <2>1 DEF Wire, AskOnce
    <2>2. CASE up # <<>> /\ up' = Tail(up)
        <3>1. Len(up) \in Nat /\ Len(up') \in Nat
            BY <2>2, WireTypes, HeadTailProperties, LenProperties
        <3> QED
            BY <1>4, <2>2, <3>1 DEF Wire, AskOnce
    <2> QED
        BY <2>1, <2>2
<1>6. \A k \in 1..Len(ms) : ms[k].type \in Answers =>
        /\ sub[ms[k].p].pc = "wait"
        /\ \A i \in 1..Len(down) : down[i].type \in Answers => down[i].p # ms[k].p
        /\ \A i \in 1..Len(up') : up'[i].type = "submit" => up'[i].p # ms[k].p
    <2> SUFFICES ASSUME NEW k \in 1..Len(ms), ms[k].type \in Answers
                 PROVE  /\ sub[ms[k].p].pc = "wait"
                        /\ \A i \in 1..Len(down) :
                             down[i].type \in Answers => down[i].p # ms[k].p
                        /\ \A i \in 1..Len(up') :
                             up'[i].type = "submit" => up'[i].p # ms[k].p
        OBVIOUS
    <2>1. up # <<>> /\ up' = Tail(up) /\ Head(up).type = "submit" /\ ms[k].p = Head(up).p
        OBVIOUS
    <2>2. /\ 1 \in 1..Len(up) /\ up[1].type = "submit" /\ up[1].p = ms[k].p
          /\ \A i \in 1..Len(up') : i + 1 \in 1..Len(up) /\ i + 1 # 1 /\ up'[i] = up[i + 1]
        BY <1>4, <2>1
    <2>3. sub[ms[k].p].pc = "wait"
        BY <2>2 DEF Wire, AskOnce
    <2>4. \A i \in 1..Len(down) : down[i].type \in Answers => down[i].p # ms[k].p
        BY <2>2 DEF Wire, AskOrAnswer
    <2>5. \A i \in 1..Len(up') : up'[i].type = "submit" => up'[i].p # ms[k].p
        BY <2>2 DEF Wire, AskOnce
    <2> QED
        BY <2>3, <2>4, <2>5
<1>7. AnswerOnce'
    <2>1. \A i \in 1..Len(down') : down'[i].type \in Answers => sub'[down'[i].p].pc = "wait"
        BY SMTT(30), <1>2, <1>3, <1>6 DEF Wire, AnswerOnce
    <2>2. ASSUME NEW i \in 1..Len(down'), NEW j \in 1..Len(down'),
                 down'[i].type \in Answers, down'[j].type \in Answers, down'[i].p = down'[j].p
          PROVE  i = j
        <3>1. CASE i \in 1..Len(down) /\ j \in 1..Len(down)
            BY <1>2, <2>2, <3>1 DEF Wire, AnswerOnce
        <3>2. CASE i \in 1..Len(down) /\ \E k \in 1..Len(ms) : j = Len(down) + k
            BY <1>2, <1>6, <2>2, <3>2
        <3>3. CASE j \in 1..Len(down) /\ \E k \in 1..Len(ms) : i = Len(down) + k
            BY <1>2, <1>6, <2>2, <3>3
        <3>4. CASE /\ \E k \in 1..Len(ms) : i = Len(down) + k
                   /\ \E k \in 1..Len(ms) : j = Len(down) + k
            BY <1>2, <2>2, <3>4
        <3> QED
            BY <1>3, <3>1, <3>2, <3>3, <3>4
    <2> QED
        BY <2>1, <2>2 DEF AnswerOnce
<1>8. AskOrAnswer'
    <2> SUFFICES ASSUME NEW i \in 1..Len(up'), NEW j \in 1..Len(down'),
                        up'[i].type = "submit", down'[j].type \in Answers
                 PROVE  up'[i].p # down'[j].p
        BY DEF AskOrAnswer
    <2>1. CASE j \in 1..Len(down)
        <3>1. \E l \in 1..Len(up) : up'[i] = up[l]
            BY <1>4
        <3> QED
            BY <1>2, <2>1, <3>1 DEF Wire, AskOrAnswer
    <2>2. CASE \E k \in 1..Len(ms) : j = Len(down) + k
        BY SMTT(30), <1>2, <1>6, <2>2
    <2> QED
        BY <1>3, <2>1, <2>2
<1>9. ASSUME NEW i \in 0..Len(down), IdleAfter(i) PROVE IdleAfter(i)'
    <2>1. CASE run' # None
        BY <2>1 DEF IdleAfter
    <2>2. CASE \E k \in 1..Len(ms) : ms[k].type = "idle"
        <3>1. PICK k \in 1..Len(ms) : ms[k].type = "idle"
            BY <2>2
        <3>2. Len(down) + k > i
            BY <1>1
        <3> QED
            BY <1>2, <3>1, <3>2 DEF IdleAfter
    <2>3. CASE run = None
        BY <1>2, <1>9, <2>3 DEF IdleAfter
    <2> QED
        BY <2>1, <2>2, <2>3
<1>10. EndComes'
    <2> SUFFICES ASSUME NEW i \in 1..Len(down'), down'[i].type \in {"ok", "busy", "start"}
                 PROVE  IdleAfter(i)'
        BY DEF EndComes
    <2>1. CASE i \in 1..Len(down)
        <3>1. IdleAfter(i) /\ i \in 0..Len(down)
            BY <1>2, <2>1 DEF Wire, EndComes
        <3> QED
            BY <1>9, <3>1
    <2>2. CASE \E k \in 1..Len(ms) : i = Len(down) + k
        BY <1>2, <2>2 DEF IdleAfter
    <2> QED
        BY <1>3, <2>1, <2>2
<1>11. IdleAfter(0) => IdleAfter(0)'
    <2>1. 0 \in 0..Len(down)
        BY <1>1
    <2> QED
        BY <1>9, <2>1
<1>12. \A q \in Prompts : OkComes(q) => OkComes(q)'
    BY <1>2 DEF OkComes
<1> QED
    BY <1>5, <1>7, <1>8, <1>10, <1>11, <1>12 DEF Wire

-----------------------------------------------------------------------------
(* What a step of one submit leaves of the drain and the queue             *)
LEMMA DrainKeeps ==
    ASSUME IInv, DrainOK, NEW p \in Prompts, OnlySub(p), UNCHANGED lock,
           Rides(p)' <=> Rides(p), sub'[p].pc = "returning" => sub'[p].via = "queue"
    PROVE  DrainOK'
BY DEF DrainOK, OnlySub, Rides

LEMMA QueueTypes ==
    ASSUME IInv
    PROVE  /\ queue \in Seq(Prompts) /\ Len(queue) \in Nat
           /\ \A i \in 1..Len(queue) : queue[i] \in Prompts /\ queue[i] \in ToSet(queue)
           /\ \A p \in ToSet(queue) : \E i \in 1..Len(queue) : queue[i] = p
BY LenProperties, ElementOfSeq DEF IInv, Paths, ToSet

LEMMA QueueKept ==
    ASSUME IInv, QueueOK, NEW p \in Prompts, OnlySub(p), UNCHANGED queue,
           p \in ToSet(queue) => sub'[p].pc = "queued" \/ Rides(p)'
    PROVE  QueueOK'
BY QueueTypes DEF QueueOK, OnlySub, Rides

LEMMA RanKeeps ==
    ASSUME RanOK, NEW p \in Prompts, OnlySub(p), UNCHANGED <<accepted, late, again, down>>, Ran(p)'
    PROVE  RanOK'
<1>1. \A q \in Prompts \ {p} : Ran(q)'
    BY DEF RanOK, Ran, Unsent, OkComes, OnlySub
<1> QED
    BY <1>1 DEF RanOK

(* A submit under way goes on, or returns without an answer                *)
LEMMA Advances ==
    ASSUME IInv, DrainOK, QueueOK, RanOK, NEW p \in Prompts, OnlySub(p),
           sub[p].pc \in Running \ {"wait"}, sub'[p].via = sub[p].via,
           sub'[p].pc \in Running \cup {End(p)},
           UNCHANGED <<queue, lock, accepted, late, again, down>>
    PROVE  DrainOK' /\ QueueOK' /\ RanOK'
<1>1. /\ Rides(p)' <=> Rides(p)
      /\ sub'[p].pc = "returning" => sub'[p].via = "queue"
      /\ sub'[p].pc \in Running \cup {"returning", "done"}
    BY EndOK DEF Rides, Running
<1>2. ASSUME p \in ToSet(queue) PROVE Rides(p)
    <2>1. PICK i \in 1..Len(queue) : queue[i] = p
        BY <1>2, QueueTypes
    <2> QED
        BY <2>1 DEF QueueOK, Running
<1>3. Ran(p)'
    BY <1>1 DEF RanOK, Ran, Running
<1> QED
    BY <1>1, <1>2, <1>3, DrainKeeps, QueueKept, RanKeeps

(* ... and of the view                                                     *)
LEMMA Freed ==
    ASSUME cached' = FALSE, dirty' = TRUE
    PROVE  CachedOK' /\ BusyOK'
BY DEF CachedOK, BusyOK

LEMMA AloneKeeps ==
    ASSUME Alone, NEW p \in Prompts, OnlySub(p), sub'[p].pc \notin {"sync", "wait", "sleep"},
           cached' => cached, UNCHANGED <<up, down, run>>,
           ~session' \/ Creating' => ~session \/ Creating
    PROVE  Alone'
BY DEF Alone, OnlySub

(* A new submit is the newest, and makes the chat busy                     *)
LEMMA BeginView ==
    ASSUME IInv, Alone, NEW p \in Prompts, NEW via \in {"user", "queue"}, Begin(p, via),
           UNCHANGED <<session, up, down, run>>
    PROVE  View' /\ OnlySub(p) /\ sub'[p].via = via /\ sub'[p].pc \in {"create", "sync"}
<1>1. /\ OnlySub(p) /\ sub'[p].pc = IF session THEN "sync" ELSE "create"
      /\ sub'[p].via = via
    BY BeginOK DEF IInv, Paths, OnlySub
<1>2. cur' = p /\ p # None
    BY SubmitAssumption DEF Begin
<1>3. CASE session
    BY <1>1, <1>2, <1>3 DEF Begin, Cache, View, Alone, CachedOK, BusyOK, Creating, Running
<1>4. CASE ~session
    <2>1. cached' = cached /\ sub'[p].pc = "create"
        BY <1>1, <1>4 DEF Begin, KeepCache
    <2>2. Alone'
        BY <1>1, <1>4, <2>1, AloneKeeps
    <2> QED
        BY <1>1, <1>2, <1>4, <2>1, <2>2 DEF View, CachedOK, BusyOK, Creating, Running
<1> QED
    BY <1>1, <1>3, <1>4

LEMMA SubmitJ == ASSUME IInv, JInv, NEW p \in Prompts, Submit(p) PROVE JInv'
<1> USE DEF JInv
<1>1. /\ sub[p].pc = "draft" /\ Begin(p, "user")
      /\ UNCHANGED <<queue, lock, session, up, down, run, accepted, again, late>>
    BY DEF Submit, queueVars, serverVars
<1>2. View' /\ OnlySub(p) /\ sub'[p].via = "user" /\ sub'[p].pc \in {"create", "sync"}
    BY <1>1, BeginView DEF View
<1>3. Wire'
    BY <1>1, <1>2, WireMoves
<1>4. DrainOK'
    BY <1>1, <1>2, DrainKeeps DEF Rides, Running
<1>5. p \notin ToSet(queue)
    BY <1>1, QueueTypes DEF QueueOK, Rides, Running
<1>6. QueueOK'
    BY <1>1, <1>2, <1>5, QueueKept
<1>7. Ran(p)'
    BY <1>1, <1>2 DEF RanOK, Ran, Unsent, IInv, Names
<1>8. RanOK'
    BY <1>1, <1>2, <1>7, RanKeeps
<1> QED
    BY <1>2, <1>3, <1>4, <1>6, <1>8

LEMMA DrainJ ==
    ASSUME IInv, JInv, NEW p \in Prompts, p \in ToSet(queue), Drain(p),
           UNCHANGED <<session, up, down, run, accepted, again, late>>
    PROVE  JInv'
<1> USE DEF JInv
<1>1. ~lock /\ lock' = TRUE /\ Begin(p, "queue") /\ queue' = queue
    BY DEF Drain
<1>2. sub[p].pc = "queued" /\ \A q \in Prompts : ~Rides(q)
    BY <1>1, QueueTypes DEF QueueOK, DrainOK
<1>3. View' /\ OnlySub(p) /\ sub'[p].via = "queue" /\ sub'[p].pc \in {"create", "sync"}
    BY <1>1, BeginView DEF View
<1>4. Wire'
    BY <1>2, <1>3, WireMoves
<1>5. Rides(p)'
    BY <1>3 DEF Rides, Running
<1>6. \A q \in Prompts \ {p} : ~Rides(q)'
    BY <1>2, <1>3 DEF Rides, OnlySub
<1>7. \A q \in Prompts : sub'[q].pc = "returning" => sub'[q].via = "queue"
    BY <1>3 DEF DrainOK, OnlySub
<1>8. DrainOK'
    BY <1>1, <1>5, <1>6, <1>7 DEF DrainOK
<1>9. QueueOK'
    BY <1>1, <1>3, <1>5, QueueKept
<1>10. Ran(p)'
    BY <1>2, <1>3 DEF RanOK, Ran
<1>11. RanOK'
    BY <1>3, <1>10, RanKeeps
<1> QED
    BY <1>3, <1>4, <1>8, <1>9, <1>11

LEMMA SendQueuedJ == ASSUME IInv, JInv, NEW p \in Prompts, SendQueued(p) PROVE JInv'
BY DrainJ DEF SendQueued, serverVars

(* Neither the view nor the effects touch anything else                    *)
LEMMA Apart ==
    ASSUME JInv,
           UNCHANGED <<cached, queue, lock, cur, sub, session, up, down, run, accepted, again, late>>
    PROVE  DrainOK' /\ QueueOK' /\ Wire' /\ RanOK' /\ Alone' /\ CachedOK' /\ Creating' = Creating
<1>1. DrainOK' /\ QueueOK' /\ Creating' = Creating
    BY DEF JInv, DrainOK, QueueOK, Rides, Creating
<1>2. Wire'
    BY DEF JInv, Wire, AskOnce, AnswerOnce, AskOrAnswer, EndComes, IdleAfter
<1>3. RanOK'
    BY DEF JInv, RanOK, Ran, Unsent, OkComes
<1>4. Alone' /\ CachedOK'
    BY DEF JInv, View, Alone, CachedOK, Creating, IdleAfter
<1> QED
    BY <1>1, <1>2, <1>3, <1>4

LEMMA ViewFlushJ == ASSUME IInv, JInv, ViewFlush PROVE JInv'
<1>1. /\ busy' = cached
      /\ UNCHANGED <<cached, queue, lock, cur, sub, session, up, down, run, accepted, again, late>>
    BY DEF ViewFlush, queueVars, serverVars
<1> QED
    BY <1>1, Apart DEF JInv, View, BusyOK

LEMMA EffectJ == ASSUME IInv, JInv, Effect PROVE JInv'
<1>1. UNCHANGED <<session, up, down, run, accepted, again, late>>
    BY DEF Effect, serverVars
<1>2. CASE queue # <<>> /\ Drain(Head(queue))
    <2> DEFINE p == Head(queue)
    <2>1. p = queue[1] /\ 1 \in 1..Len(queue)
        BY <1>2, QueueTypes, HeadTailProperties, EmptySeq
    <2>2. p \in Prompts /\ p \in ToSet(queue)
        BY <2>1, QueueTypes
    <2> HIDE DEF p
    <2> QED
        BY <1>1, <1>2, <2>2, DrainJ DEF p
<1>3. CASE UNCHANGED <<busy, cached, dirty, queueVars, cur, sub>>
    BY <1>1, <1>3, Apart DEF queueVars, JInv, View, BusyOK
<1> QED
    BY <1>2, <1>3 DEF Effect

-----------------------------------------------------------------------------
(* The steps of submitPromptText                                           *)
LEMMA CreateJ == ASSUME IInv, JInv, NEW p \in Prompts, Create(p) PROVE JInv'
<1> USE DEF JInv
<1>1. /\ sub[p].pc = "create" /\ session' = TRUE
      /\ UNCHANGED <<queue, lock, cur, up, down, run, accepted, again, late>>
    BY DEF Create, queueVars, serverVars
<1>2. CASE cur = p
    <2>1. Cache(TRUE) /\ Goto(p, "sync") /\ "sync" \in PC
        BY <1>2 DEF Create, Current, PC, Running
    <2>2. OnlySub(p) /\ sub'[p].pc = "sync" /\ sub'[p].via = sub[p].via
        BY <2>1, GotoOK DEF IInv, Paths, OnlySub
    <2>3. DrainOK' /\ QueueOK' /\ RanOK'
        BY <1>1, <2>2, Advances DEF Running
    <2>4. Wire'
        BY <1>1, <2>2, WireMoves
    <2>5. View'
        BY <1>1, <1>2, <2>1, <2>2, SubmitAssumption
           DEF Cache, View, Alone, CachedOK, BusyOK, Creating, Running
    <2> QED
        BY <2>3, <2>4, <2>5
<1>3. CASE cur # p
    <2>1. Cache(FALSE) /\ Return(p, FALSE)
        BY <1>3 DEF Create, Current
    <2>2. /\ OnlySub(p) /\ sub'[p].pc = End(p) /\ sub'[p].via = sub[p].via
          /\ sub'[p].pc \in {"returning", "done"}
        BY <2>1, ReturnOK DEF IInv, Paths, OnlySub
    <2>3. DrainOK' /\ QueueOK' /\ RanOK'
        BY <1>1, <2>2, Advances DEF Running
    <2>4. Wire'
        BY <1>1, <2>2, WireMoves
    <2>5. Creating' => Creating
        BY <1>1, <1>3, <2>2 DEF Creating, OnlySub, IInv, Names
    <2>6. View'
        BY <1>1, <2>1, <2>2, <2>5, Freed, AloneKeeps DEF Cache, View
    <2> QED
        BY <2>3, <2>4, <2>6
<1> QED
    BY <1>2, <1>3

(* A submit that ends without an answer, its flag and the view's           *)
LEMMA ReturnJ ==
    ASSUME IInv, JInv, NEW p \in Prompts, sub[p].pc \in Running \ {"wait"}, Return(p, FALSE),
           \/ Cache(FALSE)
           \/ KeepCache /\ cur # p /\ UNCHANGED busy
           \/ KeepCache /\ cur = p /\ ~cached /\ busy' = FALSE,
           UNCHANGED <<queue, lock, cur, session, up, down, run, accepted, again, late>>
    PROVE  JInv'
<1> USE DEF JInv
<1>1. /\ OnlySub(p) /\ sub'[p].pc = End(p) /\ sub'[p].via = sub[p].via
      /\ sub'[p].pc \in {"returning", "done"}
    BY ReturnOK DEF IInv, Paths, OnlySub
<1>2. DrainOK' /\ QueueOK' /\ RanOK'
    BY <1>1, Advances
<1>3. Wire'
    BY <1>1, WireMoves
<1>4. Creating' => Creating
    BY <1>1 DEF Creating, OnlySub, IInv, Names
<1>5. cached' => cached
    BY DEF Cache, KeepCache
<1>6. Alone'
    BY <1>1, <1>4, <1>5, AloneKeeps DEF View
<1>7. CachedOK' /\ BusyOK'
    <2>1. CASE Cache(FALSE)
        BY <2>1, Freed DEF Cache
    <2>2. CASE KeepCache /\ cur # p /\ UNCHANGED busy
        BY <1>1, <2>2 DEF KeepCache, View, CachedOK, BusyOK, Creating, IdleAfter, OnlySub, IInv, Names
    <2>3. CASE KeepCache /\ cur = p /\ ~cached /\ busy' = FALSE
        BY <2>3 DEF KeepCache, CachedOK, BusyOK
    <2> QED
        BY <2>1, <2>2, <2>3
<1> QED
    BY <1>2, <1>3, <1>6, <1>7 DEF View

LEMMA CreateFailsJ == ASSUME IInv, JInv, NEW p \in Prompts, CreateFails(p) PROVE JInv'
<1>1. /\ sub[p].pc = "create" /\ sub[p].pc \in Running \ {"wait"} /\ Return(p, FALSE) /\ KeepCache
      /\ busy' = (busy /\ cur # p)
      /\ UNCHANGED <<queue, lock, cur, session, up, down, run, accepted, again, late>>
    BY DEF CreateFails, Current, KeepCache, queueVars, serverVars, Running
<1>2. cur # p => busy' = busy
    BY <1>1 DEF IInv, Flags
<1>3. cur = p => ~cached /\ busy' = FALSE
    BY <1>1, SubmitAssumption DEF JInv, View, Alone, Creating
<1> QED
    BY <1>1, <1>2, <1>3, ReturnJ

LEMMA FailJ ==
    ASSUME IInv, JInv, NEW p \in Prompts, sub[p].pc \in Running \ {"wait"}, Fail(p),
           UNCHANGED <<queue, lock, cur, session, up, down, run, accepted, again, late>>
    PROVE  JInv'
BY ReturnJ DEF Fail, Current

LEMMA SyncFailsJ == ASSUME IInv, JInv, NEW p \in Prompts, SyncFails(p) PROVE JInv'
BY FailJ DEF SyncFails, queueVars, serverVars, Running

(* prompt.submit is called, for the first time or again                    *)
LEMMA SendJ ==
    ASSUME IInv, JInv, NEW p \in Prompts, sub[p].pc \in {"sync", "sleep"}, Send(p),
           UNCHANGED <<busy, cached, dirty, queue, lock, cur, session, down, run, accepted, again,
                       late>>
    PROVE  JInv'
<1> USE DEF JInv
<1>1. sub[p].tries < MaxTries /\ session /\ ~Creating
    BY SubmitAssumption DEF IInv, SubOK, View, Alone
<1>2. /\ OnlySub(p) /\ sub'[p].pc = "wait" /\ sub'[p].via = sub[p].via
      /\ up' = Append(up, Msg("submit", p))
    BY <1>1, SendOK DEF IInv, Paths, OnlySub, Send
<1>3. DrainOK' /\ QueueOK' /\ RanOK'
    BY <1>2, Advances DEF Running
<1>4. Wire'
    BY <1>2, WireSends
<1>5. ~Creating'
    BY <1>1, <1>2 DEF Creating, OnlySub, IInv, Names
<1>6. Alone' /\ BusyOK'
    BY <1>1, <1>5 DEF View, Alone, BusyOK
<1>7. CachedOK'
    BY <1>2 DEF View, CachedOK, IdleAfter, OnlySub, IInv, Names, Running
<1> QED
    BY <1>3, <1>4, <1>6, <1>7 DEF View

LEMMA SyncedJ == ASSUME IInv, JInv, NEW p \in Prompts, Synced(p) \/ Wake(p) PROVE JInv'
<1>1. /\ sub[p].pc \in {"sync", "sleep"} /\ sub[p].pc \in Running \ {"wait"}
      /\ UNCHANGED <<busy, queue, lock, cur, session, down, run, accepted, again, late>>
    BY DEF Synced, Wake, queueVars, serverVars, Running
<1>2. CASE Send(p) /\ KeepCache
    BY <1>1, <1>2, SendJ DEF KeepCache
<1>3. CASE Drop(p)
    BY <1>1, <1>3, ReturnJ DEF Drop
<1> QED
    BY <1>2, <1>3 DEF Synced, Wake

-----------------------------------------------------------------------------
(* The frames                                                              *)
LEMMA Received ==
    ASSUME IInv, JInv, NEW type, Receive(type)
    PROVE  /\ down # <<>> /\ down' = Tail(down) /\ Head(down).type = type
           /\ Head(down) = down[1] /\ 1 \in 1..Len(down)
           /\ session /\ ~Creating
           /\ UNCHANGED <<queue, lock, cur, session, up, run, accepted, again>>
<1>1. /\ down # <<>> /\ down' = Tail(down) /\ Head(down).type = type
      /\ UNCHANGED <<queue, lock, cur, session, up, run, accepted, again>>
    BY DEF Receive, queueVars, serverVars
<1>2. Head(down) = down[1] /\ 1 \in 1..Len(down)
    BY <1>1, WireTypes, HeadTailProperties, EmptySeq
<1> QED
    BY <1>1, <1>2 DEF JInv, View, Alone

(* A frame that is no answer                                               *)
LEMMA FrameJ ==
    ASSUME IInv, JInv, NEW type, Receive(type), type \notin Answers, UNCHANGED <<sub, late>>,
           \/ cached' = FALSE /\ dirty' = TRUE
           \/ cached' = TRUE /\ dirty' = TRUE /\ type = "start"
           \/ cached' = cached /\ type # "idle" /\ (busy' = FALSE \/ dirty' = TRUE)
    PROVE  JInv'
<1> USE DEF JInv
<1>1. /\ down # <<>> /\ down' = Tail(down) /\ Head(down).type = type
      /\ session /\ ~Creating
      /\ UNCHANGED <<queue, lock, cur, session, up, run, accepted, again>>
    BY Received
<1>2. /\ Wire'
      /\ \A q \in Prompts : OkComes(q) => OkComes(q)'
      /\ IdleAfter(0) /\ type # "idle" => IdleAfter(0)'
      /\ type = "start" => IdleAfter(0)'
    BY <1>1, WireReceives DEF Answers
<1>3. DrainOK' /\ QueueOK' /\ ~Creating'
    BY <1>1 DEF DrainOK, QueueOK, Rides, Creating
<1>4. RanOK'
    BY <1>1, <1>2 DEF RanOK, Ran, Unsent
<1>5. Alone'
    BY <1>1, <1>3 DEF Alone
<1>6. CachedOK' /\ BusyOK'
    BY <1>1, <1>2 DEF View, CachedOK, BusyOK
<1> QED
    BY <1>2, <1>3, <1>4, <1>5, <1>6 DEF View

LEMMA FramesJ == ASSUME IInv, JInv, OnStopped \/ OnStart \/ OnText \/ OnEnd PROVE JInv'
<1>1. CASE OnStopped
    BY <1>1, FrameJ DEF OnStopped, Answers
<1>2. CASE OnStart
    BY <1>2, FrameJ DEF OnStart, Cache, Answers
<1>3. CASE OnText
    BY <1>3, FrameJ DEF OnText, Cache, Answers
<1>4. CASE OnEnd
    BY <1>4, FrameJ DEF OnEnd, Cache, Answers
<1> QED
    BY <1>1, <1>2, <1>3, <1>4

(* An answer: its submit waits, and no other one comes                     *)
LEMMA Answer ==
    ASSUME IInv, JInv, NEW type \in Answers, Receive(type), NEW p, p = Head(down).p
    PROVE  /\ p \in Prompts /\ sub[p].pc = "wait"
           /\ type = "ok" => p \in accepted
           /\ type # "ok" => ~OkComes(p)
           /\ p \in late => sub[p].via = "queue"
<1> USE DEF JInv
<1>1. down[1] = Head(down) /\ down[1].type = type /\ 1 \in 1..Len(down)
    BY Received
<1>2. p \in Prompts /\ sub[p].pc = "wait"
    BY <1>1, WireTypes DEF Wire, AnswerOnce
<1>3. type = "ok" => p \in accepted
    BY <1>1 DEF IInv, OkIsTrue
<1>4. type # "ok" => ~OkComes(p)
    BY <1>1 DEF Wire, AnswerOnce, OkComes, Answers
<1>5. p \in late => sub[p].via = "queue"
    BY <1>2 DEF RanOK, Ran, IInv, Paths, SubRecord
<1> QED
    BY <1>2, <1>3, <1>4, <1>5

LEMMA AnswerJ ==
    ASSUME IInv, JInv, NEW type \in Answers, Receive(type), NEW p, p = Head(down).p,
           OnlySub(p), sub'[p].via = sub[p].via,
           sub'[p].pc = End(p) \/ (sub'[p].pc = "sleep" /\ type = "busy"),
           IF type = "ok" THEN \/ sub'[p].ok /\ late' = late
                               \/ late' = late \cup {p}
           ELSE late' = late,
           \/ cached' = FALSE /\ dirty' = TRUE
           \/ cached' = cached /\ type \in {"ok", "busy"}
              /\ (busy' = FALSE \/ UNCHANGED <<busy, dirty>>)
    PROVE  JInv'
<1> USE DEF JInv
<1>1. /\ down # <<>> /\ down' = Tail(down) /\ Head(down).type = type
      /\ session /\ ~Creating
      /\ UNCHANGED <<queue, lock, cur, session, up, run, accepted, again>>
    BY Received
<1>2. /\ p \in Prompts /\ sub[p].pc = "wait"
      /\ type = "ok" => p \in accepted
      /\ type # "ok" => ~OkComes(p)
      /\ p \in late => sub[p].via = "queue"
    BY Answer
<1>3. /\ Wire'
      /\ \A q \in Prompts \ {p} : OkComes(q) => OkComes(q)'
      /\ type \in {"ok", "busy"} => IdleAfter(0)'
    BY <1>1, <1>2, WireReceives
<1>4. /\ Rides(p)' <=> Rides(p)
      /\ sub'[p].pc = "returning" => sub'[p].via = "queue"
      /\ sub'[p].pc \in {"sleep", "returning", "done"}
    BY <1>2, EndOK DEF Rides, Running
<1>5. DrainOK'
    BY <1>1, <1>2, <1>4, DrainKeeps
<1>6. p \in ToSet(queue) => Rides(p)
    <2> SUFFICES ASSUME p \in ToSet(queue) PROVE Rides(p)
        OBVIOUS
    <2>1. PICK i \in 1..Len(queue) : queue[i] = p
        BY QueueTypes
    <2> QED
        BY <1>2, <2>1 DEF QueueOK
<1>7. QueueOK'
    BY <1>1, <1>2, <1>4, <1>6, QueueKept
<1>8. ASSUME NEW q \in Prompts \ {p} PROVE Ran(q)'
    <2>1. late' \in {late, late \cup {p}}
        OBVIOUS
    <2> QED
        BY <1>1, <1>3, <2>1 DEF RanOK, Ran, Unsent, OnlySub
<1>9. Ran(p)'
    <2>1. p \in again => p \in late /\ sub[p].via = "queue"
        BY <1>2 DEF RanOK, Ran
    <2>2. p \in accepted \ late => OkComes(p)
        BY <1>2 DEF RanOK, Ran
    <2>3. sub[p].via \in {"user", "queue"} /\ (sub[p].via = "user" => End(p) = "done")
        BY <1>2, EndOK DEF IInv, Paths, SubRecord
    <2>4. CASE type = "ok" /\ sub'[p].ok /\ late' = late
        <3>1. sub'[p].pc \in {"returning", "done"}
            BY <1>2, <2>4, EndOK
        <3> QED
            BY <1>1, <1>2, <2>1, <2>4, <3>1 DEF Ran
    <2>5. CASE type = "ok" /\ late' = late \cup {p}
        BY <1>1, <1>2, <1>4, <2>1, <2>3, <2>5 DEF Ran, Unsent
    <2>6. CASE type # "ok"
        BY <1>1, <1>2, <1>4, <2>1, <2>2, <2>3, <2>6 DEF Ran, Unsent
    <2> QED
        BY <2>4, <2>5, <2>6
<1>10. RanOK'
    BY <1>8, <1>9 DEF RanOK
<1>11. ~Creating'
    BY <1>1, <1>2, <1>4 DEF Creating, OnlySub, IInv, Names
<1>12. Alone'
    BY <1>1, <1>11 DEF Alone
<1>13. CachedOK' /\ BusyOK'
    BY <1>1, <1>3 DEF View, CachedOK, BusyOK
<1> QED
    BY <1>3, <1>5, <1>7, <1>10, <1>12, <1>13 DEF View

LEMMA OnOkJ == ASSUME IInv, JInv, OnOk PROVE JInv'
<1> DEFINE p == Head(down).p
<1>1. /\ Receive("ok") /\ Return(p, Current(p))
      /\ late' = IF Current(p) THEN late ELSE late \cup {p}
      /\ UNCHANGED <<busy, cached, dirty>>
    BY DEF OnOk
<1>2. p \in Prompts
    BY <1>1, Answer DEF Answers
<1> HIDE DEF p
<1>3. Current(p) \in BOOLEAN
    BY DEF Current
<1>4. OnlySub(p) /\ sub'[p].via = sub[p].via /\ sub'[p].pc = End(p) /\ sub'[p].ok = Current(p)
    BY <1>1, <1>2, <1>3, ReturnOK DEF IInv, Paths, OnlySub
<1> QED
    BY <1>1, <1>4, AnswerJ DEF Answers, p

(* A refusal: another try, or the submit ends                              *)
LEMMA GiveUpJ ==
    ASSUME IInv, JInv, NEW type \in {"busy", "error"}, Receive(type), UNCHANGED late,
           NEW p, p = Head(down).p, GiveUp(p, type = "busy")
    PROVE  JInv'
<1>1. Return(p, FALSE)
    BY DEF GiveUp, Fail
<1>2. \/ cached' = FALSE /\ dirty' = TRUE
      \/ cached' = cached /\ type = "busy" /\ busy' = FALSE
    BY DEF GiveUp, Fail, Cache, KeepCache
<1>3. p \in Prompts
    BY Answer DEF Answers
<1>4. OnlySub(p) /\ sub'[p].via = sub[p].via /\ sub'[p].pc = End(p)
    BY <1>1, <1>3, ReturnOK DEF IInv, Paths, OnlySub
<1> QED
    BY <1>2, <1>4, AnswerJ DEF Answers

LEMMA OnBusyJ == ASSUME IInv, JInv, OnBusy PROVE JInv'
<1> DEFINE p == Head(down).p
<1>1. Receive("busy") /\ UNCHANGED late
    BY DEF OnBusy
<1>2. p \in Prompts
    BY <1>1, Answer DEF Answers
<1>3. \/ Goto(p, "sleep") /\ UNCHANGED <<busy, cached, dirty>>
      \/ GiveUp(p, TRUE)
    BY DEF OnBusy
<1> HIDE DEF p
<1>4. CASE Goto(p, "sleep") /\ UNCHANGED <<busy, cached, dirty>>
    <2>1. "sleep" \in PC
        BY DEF PC, Running
    <2>2. OnlySub(p) /\ sub'[p].via = sub[p].via /\ sub'[p].pc = "sleep"
        BY <1>2, <1>4, <2>1, GotoOK DEF IInv, Paths, OnlySub
    <2> QED
        BY <1>1, <1>4, <2>2, AnswerJ DEF Answers, p
<1>5. CASE GiveUp(p, TRUE)
    <2>1. TRUE = ("busy" = "busy")
        OBVIOUS
    <2> QED
        BY <1>1, <1>5, <2>1, GiveUpJ DEF p
<1> QED
    BY <1>3, <1>4, <1>5

LEMMA OnRefusedJ == ASSUME IInv, JInv, OnRefused PROVE JInv'
<1>1. FALSE = ("error" = "busy")
    OBVIOUS
<1> QED
    BY <1>1, GiveUpJ DEF OnRefused

-----------------------------------------------------------------------------
(* The queue                                                               *)
LEMMA EndDrainJ == ASSUME IInv, JInv, NEW p \in Prompts, EndDrain(p) PROVE JInv'
<1> USE DEF JInv
<1>1. /\ sub[p].pc = "returning" /\ lock' = FALSE
      /\ queue' = IF sub[p].ok THEN Without(p) ELSE queue
      /\ Goto(p, IF p \in ToSet(queue) /\ ~sub[p].ok THEN "queued" ELSE "done")
      /\ UNCHANGED <<busy, cached, dirty, cur, session, up, down, run, accepted, again, late>>
    BY DEF EndDrain, viewVars, serverVars
<1>2. /\ OnlySub(p) /\ sub'[p].via = sub[p].via /\ sub'[p].ok = sub[p].ok
      /\ sub'[p].pc = IF p \in ToSet(queue) /\ ~sub[p].ok THEN "queued" ELSE "done"
    <2> DEFINE pc == IF p \in ToSet(queue) /\ ~sub[p].ok THEN "queued" ELSE "done"
    <2>1. pc \in PC /\ Goto(p, pc)
        BY <1>1 DEF PC
    <2> HIDE DEF pc
    <2>2. OnlySub(p) /\ sub'[p].via = sub[p].via /\ sub'[p].ok = sub[p].ok /\ sub'[p].pc = pc
        BY <2>1, GotoOK DEF IInv, Paths, OnlySub
    <2> QED
        BY <2>2 DEF pc
<1>3. sub[p].via = "queue" /\ Rides(p)
    BY <1>1 DEF DrainOK, Rides
<1>4. \A q \in Prompts : ~Rides(q)'
    BY <1>2, <1>3 DEF DrainOK, Rides, OnlySub, Running
<1>5. DrainOK'
    <2>1. \A q \in Prompts : sub'[q].pc = "returning" => sub'[q].via = "queue"
        BY <1>2 DEF DrainOK, OnlySub
    <2> QED
        BY <1>1, <1>4, <2>1 DEF DrainOK
<1>6. \A q \in Prompts \ {p} : Rides(q) => FALSE
    BY <1>3 DEF DrainOK
<1>7. QueueOK'
    <2>1. CASE sub[p].ok
        <3>1. /\ \A i, j \in 1..Len(queue') : queue'[i] = queue'[j] => i = j
              /\ \A i \in 1..Len(queue') :
                   queue'[i] # p /\ \E j \in 1..Len(queue) : queue'[i] = queue[j]
            BY <1>1, <2>1, QueueTypes, WithoutOnce DEF QueueOK
        <3>2. \A j \in 1..Len(queue) : queue[j] # p => sub'[queue[j]].pc = "queued"
            BY <1>2, <1>6, QueueTypes DEF QueueOK, OnlySub
        <3> QED
            BY <3>1, <3>2 DEF QueueOK
    <2>2. CASE ~sub[p].ok
        <3>1. \A i \in 1..Len(queue) : sub'[queue[i]].pc = "queued"
            BY <1>2, <1>6, <2>2, QueueTypes DEF QueueOK, OnlySub
        <3> QED
            BY <1>1, <2>2, <3>1 DEF QueueOK
    <2> QED
        BY <2>1, <2>2
<1>8. Wire'
    BY <1>1, <1>2, WireMoves
<1>9. Ran(p)'
    BY <1>1, <1>2, <1>3 DEF RanOK, Ran, Unsent
<1>10. RanOK'
    BY <1>1, <1>2, <1>9, RanKeeps
<1>11. Creating' = Creating
    BY <1>1, <1>2 DEF Creating, OnlySub, IInv, Names
<1>12. Alone'
    BY <1>1, <1>2, <1>11, AloneKeeps DEF View
<1>13. CachedOK' /\ BusyOK'
    BY <1>1, <1>2, <1>11 DEF View, CachedOK, BusyOK, IdleAfter, OnlySub, IInv, Names, Running
<1> QED
    BY <1>5, <1>7, <1>8, <1>10, <1>12, <1>13 DEF View

(* A prompt that is typed, steered or queued, and the queue around it      *)
LEMMA Fresh ==
    ASSUME IInv, QueueOK, NEW p \in Prompts, sub[p].pc \in {"draft", "steer"}
    PROVE  \A i \in 1..Len(queue) : queue[i] # p
BY DEF QueueOK, Rides, Running

LEMMA MoveJ ==
    ASSUME IInv, JInv, NEW p \in Prompts, OnlySub(p), QueueOK', sub'[p].via = sub[p].via,
           \/ sub[p].pc \in {"draft", "steer"} /\ sub'[p].pc \in {"steer", "queued", "done"}
           \/ sub[p].pc = "queued" /\ sub'[p].pc = "done",
           dirty => dirty',
           UNCHANGED <<busy, cached, lock, cur, session, up, down, run, accepted, again, late>>
    PROVE  JInv'
<1> USE DEF JInv
<1>1. DrainOK'
    BY DrainKeeps DEF Rides, Running
<1>2. Wire'
    BY WireMoves
<1>3. Ran(p)'
    BY DEF RanOK, Ran, Unsent
<1>4. RanOK'
    BY <1>3, RanKeeps
<1>5. Creating' = Creating
    BY DEF Creating, OnlySub, IInv, Names
<1>6. Alone'
    BY <1>5, AloneKeeps DEF View
<1>7. CachedOK' /\ BusyOK'
    BY <1>5 DEF View, CachedOK, BusyOK, IdleAfter, OnlySub, IInv, Names, Running
<1> QED
    BY <1>1, <1>2, <1>4, <1>6, <1>7 DEF View

(* Entries that were in the queue before and are where they were           *)
LEMMA QueueFrom ==
    ASSUME QueueOK,
           \A i, j \in 1..Len(queue') : queue'[i] = queue'[j] => i = j,
           \A i \in 1..Len(queue') : \E k \in 1..Len(queue) :
               queue'[i] = queue[k] /\ sub'[queue[k]] = sub[queue[k]]
    PROVE  QueueOK'
<1>1. ASSUME NEW i \in 1..Len(queue')
      PROVE  \/ sub'[queue'[i]].pc = "queued"
             \/ /\ sub'[queue'[i]].via = "queue"
                /\ sub'[queue'[i]].pc \in Running \cup {"returning"}
    <2>1. PICK k \in 1..Len(queue) : queue'[i] = queue[k] /\ sub'[queue[k]] = sub[queue[k]]
        OBVIOUS
    <2> QED
        BY <2>1 DEF QueueOK, Rides
<1> QED
    BY <1>1 DEF QueueOK, Rides

LEMMA QueuedJ ==
    ASSUME IInv, JInv, NEW p \in Prompts, sub[p].pc \in {"draft", "steer"},
           Goto(p, "queued"), queue' = Append(queue, p),
           UNCHANGED <<busy, cached, dirty, lock, cur, session, up, down, run, accepted, again, late>>
    PROVE  JInv'
<1>1. OnlySub(p) /\ sub'[p].pc = "queued" /\ sub'[p].via = sub[p].via
    BY GotoOK DEF IInv, Paths, OnlySub, PC
<1>2. /\ Len(queue') = Len(queue) + 1 /\ queue'[Len(queue) + 1] = p /\ Len(queue) \in Nat
      /\ \A i \in 1..Len(queue) : queue'[i] = queue[i]
    BY QueueTypes, AppendProperties
<1>3. \A i \in 1..Len(queue) : queue[i] \in Prompts \ {p}
    BY Fresh, QueueTypes DEF JInv
<1>4. \A i \in 1..Len(queue') : i \in 1..Len(queue) \/ i = Len(queue) + 1
    BY <1>2
<1>5. QueueOK'
    <2>1. \A i, j \in 1..Len(queue') : queue'[i] = queue'[j] => i = j
        BY <1>2, <1>3, <1>4 DEF JInv, QueueOK
    <2>2. \A i \in 1..Len(queue) : sub'[queue[i]] = sub[queue[i]]
        BY <1>1, <1>3 DEF OnlySub
    <2> QED
        BY <1>1, <1>2, <1>4, <2>1, <2>2 DEF JInv, QueueOK, Rides
<1> QED
    BY <1>1, <1>5, MoveJ

LEMMA EnqueueJ == ASSUME IInv, JInv, NEW p \in Prompts, Enqueue(p) PROVE JInv'
BY QueuedJ DEF Enqueue, viewVars, serverVars

LEMMA AsideJ ==
    ASSUME IInv, JInv, NEW p \in Prompts, NEW pc \in {"steer", "done"},
           sub[p].pc \in {"draft", "steer"}, Goto(p, pc), dirty => dirty',
           UNCHANGED <<busy, cached, queue, lock, cur, session, up, down, run, accepted,
                       again, late>>
    PROVE  JInv'
<1>1. OnlySub(p) /\ sub'[p].pc = pc /\ sub'[p].via = sub[p].via
    BY GotoOK DEF IInv, Paths, OnlySub, PC
<1>2. p \notin ToSet(queue)
    BY Fresh, QueueTypes DEF JInv
<1>3. QueueOK'
    BY <1>1, <1>2, QueueKept DEF JInv
<1> QED
    BY <1>1, <1>3, MoveJ

LEMMA SteerJ == ASSUME IInv, JInv, NEW p \in Prompts, Steer(p) PROVE JInv'
BY AsideJ DEF Steer, viewVars, queueVars, serverVars

LEMMA SteeredJ == ASSUME IInv, JInv, NEW p \in Prompts, Steered(p) PROVE JInv'
<1>1. /\ sub[p].pc \in {"draft", "steer"}
      /\ UNCHANGED <<busy, lock, cur, session, up, down, run, accepted, again, late>>
    BY DEF Steered, serverVars
<1>2. CASE Goto(p, "done") /\ Cache(cached) /\ UNCHANGED queue
    BY <1>1, <1>2, AsideJ DEF Cache
<1>3. CASE Goto(p, "queued") /\ KeepCache /\ queue' = Append(queue, p)
    BY <1>1, <1>3, QueuedJ DEF KeepCache
<1> QED
    BY <1>2, <1>3 DEF Steered

LEMMA DiscardJ == ASSUME IInv, JInv, NEW p \in Prompts, Discard(p) PROVE JInv'
<1>1. /\ p \in ToSet(queue) /\ queue' = Without(p)
      /\ UNCHANGED <<busy, cached, dirty, lock, cur, session, up, down, run, accepted, again, late>>
    BY DEF Discard, viewVars, serverVars
<1>2. /\ \A i, j \in 1..Len(queue') : queue'[i] = queue'[j] => i = j
      /\ \A i \in 1..Len(queue') : queue'[i] # p /\ \E j \in 1..Len(queue) : queue'[i] = queue[j]
    BY <1>1, QueueTypes, WithoutOnce DEF JInv, QueueOK
<1>3. CASE sub[p].pc = "queued"
    <2>1. Goto(p, "done") /\ "done" \in PC
        BY <1>3 DEF Discard, PC
    <2>2. OnlySub(p) /\ sub'[p].pc = "done" /\ sub'[p].via = sub[p].via
        BY <2>1, GotoOK DEF IInv, Paths, OnlySub
    <2>3. \A j \in 1..Len(queue) : queue[j] # p => sub'[queue[j]] = sub[queue[j]]
        BY <2>2, QueueTypes DEF OnlySub
    <2>4. QueueOK'
        BY <1>2, <2>3, QueueFrom DEF JInv
    <2> QED
        BY <1>1, <1>3, <2>2, <2>4, MoveJ
<1>4. CASE sub[p].pc # "queued"
    <2>1. UNCHANGED sub
        BY <1>4 DEF Discard
    <2>2. QueueOK'
        BY <1>2, <2>1 DEF JInv, QueueOK, Rides
    <2>3. DrainOK'
        BY <1>1, <2>1 DEF JInv, DrainOK, Rides
    <2>4. Wire'
        BY <1>1, <2>1 DEF JInv, Wire, AskOnce, AnswerOnce, AskOrAnswer, EndComes, IdleAfter
    <2>5. RanOK'
        BY <1>1, <2>1 DEF JInv, RanOK, Ran, Unsent, OkComes
    <2>6. View'
        BY <1>1, <2>1 DEF JInv, View, Alone, CachedOK, BusyOK, Creating, IdleAfter
    <2> QED
        BY <2>2, <2>3, <2>4, <2>5, <2>6 DEF JInv
<1> QED
    BY <1>3, <1>4

-----------------------------------------------------------------------------
(* Stop                                                                    *)
LEMMA CancelJ == ASSUME IInv, JInv, Cancel, QueueOK' PROVE JInv'
<1> USE DEF JInv
<1>1. /\ cur' = None /\ UNCHANGED <<lock, sub, session, down, run, accepted, again, late>>
      /\ IF session THEN up' = Append(up, Msg("interrupt", None)) /\ Cache(FALSE)
         ELSE busy' = FALSE /\ KeepCache /\ UNCHANGED up
    BY DEF Cancel, serverVars
<1>2. DrainOK'
    BY <1>1 DEF DrainOK, Rides
<1>3. RanOK'
    BY <1>1 DEF RanOK, Ran, Unsent, OkComes
<1>4. Wire' /\ View'
    <2>1. CASE session
        <3>1. Wire'
            BY <1>1, <2>1, WireInterrupts
        <3>2. Alone'
            BY <1>1, <2>1 DEF Alone, Creating
        <3>3. CachedOK' /\ BusyOK'
            BY <1>1, <2>1, Freed DEF Cache
        <3> QED
            BY <3>1, <3>2, <3>3 DEF View
    <2>2. CASE ~session
        <3>1. up' = up /\ cached' = cached /\ busy' = FALSE
            BY <1>1, <2>2 DEF KeepCache
        <3>2. Wire'
            BY <1>1, <3>1 DEF Wire, AskOnce, AnswerOnce, AskOrAnswer, EndComes, IdleAfter
        <3>3. View'
            BY <1>1, <2>2, <3>1 DEF View, Alone, CachedOK, BusyOK
        <3> QED
            BY <3>2, <3>3
    <2> QED
        BY <2>1, <2>2
<1> QED
    BY <1>2, <1>3, <1>4

LEMMA StopJ == ASSUME IInv, JInv, Stop PROVE JInv'
<1>1. Cancel /\ UNCHANGED <<queue, sub>>
    BY DEF Stop, Cancel
<1>2. QueueOK'
    BY <1>1 DEF JInv, QueueOK, Rides
<1> QED
    BY <1>1, <1>2, CancelJ

LEMMA SendNowJ == ASSUME IInv, JInv, NEW p \in Prompts, SendNow(p) PROVE JInv'
<1> DEFINE w == Without(p)
<1>1. Cancel /\ UNCHANGED sub /\ p \in ToSet(queue) /\ queue' = <<p>> \o w
    BY DEF SendNow, Cancel
<1>2. /\ w \in Seq(Prompts)
      /\ \A i, j \in 1..Len(w) : w[i] = w[j] => i = j
      /\ \A i \in 1..Len(w) : w[i] # p /\ \E j \in 1..Len(queue) : w[i] = queue[j]
    BY QueueTypes, WithoutOK, WithoutOnce DEF JInv, QueueOK
<1>3. <<p>> \in Seq(Prompts) /\ Len(<<p>>) = 1 /\ <<p>>[1] = p
    OBVIOUS
<1> HIDE DEF w
<1>4. /\ Len(queue') = 1 + Len(w) /\ Len(w) \in Nat
      /\ \A i \in 1..(1 + Len(w)) : queue'[i] = IF i <= 1 THEN <<p>>[i] ELSE w[i - 1]
    BY <1>1, <1>2, <1>3, ConcatProperties, LenProperties
<1>5. \A i \in 1..Len(queue') : \/ i = 1 /\ queue'[i] = p
                                \/ i - 1 \in 1..Len(w) /\ queue'[i] = w[i - 1]
    BY <1>3, <1>4
<1>6. \A i, j \in 1..Len(queue') : queue'[i] = queue'[j] => i = j
    BY SMTT(30), <1>2, <1>4, <1>5
<1>7. PICK j \in 1..Len(queue) : queue[j] = p
    BY <1>1, QueueTypes
<1>8. ASSUME NEW i \in 1..Len(queue')
      PROVE  \E k \in 1..Len(queue) : queue'[i] = queue[k] /\ sub'[queue[k]] = sub[queue[k]]
    <2>1. \E k \in 1..Len(queue) : queue'[i] = queue[k]
        <3>1. CASE queue'[i] = p
            BY <1>7, <3>1
        <3>2. CASE i - 1 \in 1..Len(w) /\ queue'[i] = w[i - 1]
            BY <1>2, <3>2
        <3> QED
            BY <1>5, <3>1, <3>2
    <2> QED
        BY <1>1, <2>1
<1>9. QueueOK'
    BY <1>6, <1>8, QueueFrom DEF JInv
<1> QED
    BY <1>1, <1>9, CancelJ

-----------------------------------------------------------------------------
(* The server                                                              *)
LEMMA ToldJ ==
    ASSUME IInv, JInv, session, ~Creating, Wire', RanOK', IdleAfter(0) => IdleAfter(0)',
           UNCHANGED clientVars
    PROVE  JInv'
<1> USE DEF JInv
<1>1. UNCHANGED <<busy, cached, dirty, queue, lock, cur, sub, session>>
    BY DEF clientVars, viewVars, queueVars
<1>2. DrainOK' /\ QueueOK' /\ Creating' = Creating
    BY <1>1 DEF DrainOK, QueueOK, Rides, Creating
<1>3. View'
    BY <1>1, <1>2 DEF View, Alone, CachedOK, BusyOK
<1> QED
    BY <1>2, <1>3

LEMMA SameRan ==
    ASSUME RanOK, UNCHANGED <<sub, accepted, again, late>>,
           \A q \in Prompts : OkComes(q) => OkComes(q)'
    PROVE  RanOK'
BY DEF RanOK, Ran, Unsent

(* A prompt is taken: it has no answer yet, so it either never ran or ran  *)
(* for a submit that was outdated                                          *)
LEMMA TakenJ ==
    ASSUME IInv, JInv, up # <<>>, Head(up).type = "submit", NEW p, p = Head(up).p
    PROVE  /\ p \in Prompts /\ sub[p].pc = "wait" /\ session /\ ~Creating
           /\ p \in accepted => p \in late /\ sub[p].via = "queue"
<1> USE DEF JInv
<1>1. Head(up) = up[1] /\ 1 \in 1..Len(up)
    BY WireTypes, HeadTailProperties, EmptySeq
<1>2. p \in Prompts /\ sub[p].pc = "wait"
    BY <1>1, WireTypes DEF Wire, AskOnce
<1>3. ~OkComes(p)
    BY <1>1 DEF Wire, AskOrAnswer, OkComes, Answers
<1>4. sub[p].via \in {"user", "queue"}
    BY <1>2 DEF IInv, Paths, SubRecord
<1>5. p \in accepted => p \in late /\ sub[p].via = "queue"
    BY <1>2, <1>3, <1>4 DEF RanOK, Ran
<1> QED
    BY <1>2, <1>5 DEF View, Alone

LEMMA SrvSubmitJ == ASSUME IInv, JInv, SrvSubmit PROVE JInv'
<1> USE DEF JInv
<1>0. PICK p : p = Head(up).p
    OBVIOUS
<1>1. /\ up # <<>> /\ up' = Tail(up) /\ Head(up).type = "submit"
      /\ UNCHANGED clientVars /\ UNCHANGED <<sub, late>>
    BY DEF SrvSubmit, Reply, clientVars
<1>2. /\ p \in Prompts /\ sub[p].pc = "wait" /\ session /\ ~Creating
      /\ p \in accepted => p \in late /\ sub[p].via = "queue"
    BY <1>0, <1>1, TakenJ
<1>3. CASE /\ run = None /\ run' = p /\ accepted' = accepted \cup {p}
           /\ again' = again \cup (accepted \cap {p})
           /\ Reply(<<Msg("ok", p), Msg("start", p)>>)
    <2> DEFINE a == Msg("ok", p)
               b == Msg("start", p)
               ms == <<a, b>>
    <2>1. /\ a \in Told /\ a.type = "ok" /\ a.p = p
          /\ b \in Told /\ b.type = "start" /\ down' = down \o ms
        BY <1>2, <1>3 DEF Msg, Told, Reply
    <2> HIDE DEF a, b
    <2>2. /\ ms \in Seq(Told) /\ Len(ms) = 2 /\ ms[1] = a /\ ms[2] = b
          /\ \A k \in 1..Len(ms) : k = 1 \/ k = 2
        BY <2>1
    <2> HIDE DEF ms
    <2>3. /\ \A k \in 1..Len(ms) : ms[k].type \in Answers => k = 1 /\ ms[k].p = p
          /\ run' # None
        BY <1>2, <1>3, <2>1, <2>2, SubmitAssumption DEF Answers
    <2>4. /\ Wire'
          /\ IdleAfter(0) => IdleAfter(0)'
          /\ \A q \in Prompts : OkComes(q) => OkComes(q)'
        BY <1>0, <1>1, <2>1, <2>2, <2>3, WireTells
    <2>5. OkComes(p)'
        <3>1. /\ Len(down') = Len(down) + Len(ms) /\ Len(down) \in Nat
              /\ \A i \in 1..(Len(down) + Len(ms)) :
                    down'[i] = IF i <= Len(down) THEN down[i] ELSE ms[i - Len(down)]
            BY <2>1, <2>2, WireTypes, ConcatProperties
        <3>2. Len(down) + 1 \in 1..Len(down') /\ down'[Len(down) + 1] = a
            BY <2>2, <3>1
        <3> QED
            BY <2>1, <3>2 DEF OkComes
    <2>6. Ran(p)'
        BY <1>1, <1>2, <1>3, <2>5 DEF RanOK, Ran
    <2>7. \A q \in Prompts \ {p} : Ran(q)'
        BY <1>1, <1>3, <2>4 DEF RanOK, Ran, Unsent
    <2>8. RanOK'
        BY <2>6, <2>7 DEF RanOK
    <2> QED
        BY <1>1, <1>2, <2>4, <2>8, ToldJ
<1>4. ASSUME NEW type \in {"busy", "error"}, Reply(<<Msg(type, p)>>), UNCHANGED serverVars,
             type = "busy" => run # None
      PROVE  JInv'
    <2> DEFINE a == Msg(type, p)
               ms == <<a>>
    <2>1. /\ a \in Told /\ a.type = type /\ a.p = p /\ down' = down \o ms
          /\ UNCHANGED <<run, accepted, again>>
        BY <1>2, <1>4 DEF Msg, Told, Reply, serverVars
    <2> HIDE DEF a
    <2>2. ms \in Seq(Told) /\ \A k \in 1..Len(ms) : k = 1 /\ ms[k] = a
        BY <2>1
    <2> HIDE DEF ms
    <2>3. \A k \in 1..Len(ms) : ms[k].type \in {"ok", "busy", "start"} => run' # None
        BY <1>4, <2>1, <2>2
    <2>4. /\ Wire'
          /\ IdleAfter(0) => IdleAfter(0)'
          /\ \A q \in Prompts : OkComes(q) => OkComes(q)'
        BY <1>0, <1>1, <2>1, <2>2, <2>3, WireTells
    <2>5. RanOK'
        BY <1>1, <2>1, <2>4, SameRan
    <2> QED
        BY <1>1, <1>2, <2>4, <2>5, ToldJ
<1> QED
    BY <1>0, <1>3, <1>4 DEF SrvSubmit

LEMMA SrvInterruptJ == ASSUME IInv, JInv, SrvInterrupt PROVE JInv'
<1> USE DEF JInv
<1> DEFINE a == Msg("stopped", None)
           ms == <<a>>
<1>1. /\ up # <<>> /\ up' = Tail(up) /\ down' = down \o ms
      /\ UNCHANGED clientVars /\ UNCHANGED <<sub, late, run, accepted, again>>
    BY DEF SrvInterrupt, Reply, clientVars
<1>2. a \in Told /\ a.type = "stopped" /\ session /\ ~Creating
    BY <1>1 DEF Msg, Told, View, Alone
<1> HIDE DEF a
<1>3. ms \in Seq(Told) /\ \A k \in 1..Len(ms) : k = 1 /\ ms[k] = a
    BY <1>2
<1> HIDE DEF ms
<1>4. /\ Wire'
      /\ IdleAfter(0) => IdleAfter(0)'
      /\ \A q \in Prompts : OkComes(q) => OkComes(q)'
    BY <1>1, <1>2, <1>3, WireTells DEF Answers
<1>5. RanOK'
    BY <1>1, <1>4, SameRan
<1> QED
    BY <1>1, <1>2, <1>4, <1>5, ToldJ

LEMMA SrvTextJ == ASSUME IInv, JInv, SrvText PROVE JInv'
<1> USE DEF JInv
<1> DEFINE a == Msg("text", run)
           ms == <<a>>
<1>1. /\ run # None /\ down = <<>> /\ down' = ms
      /\ UNCHANGED clientVars /\ UNCHANGED <<sub, late, up, run, accepted, again>>
    BY DEF SrvText, clientVars, serverVars
<1>2. a \in Told /\ a.type = "text" /\ session /\ ~Creating
    BY <1>1 DEF Msg, Told, View, Alone, IInv, Names
<1> HIDE DEF a
<1>3. ms \in Seq(Told) /\ \A k \in 1..Len(ms) : k = 1 /\ ms[k] = a
    BY <1>2
<1>4. down' = down \o ms
    BY <1>1, <1>3, ConcatEmptySeq
<1> HIDE DEF ms
<1>5. /\ Wire'
      /\ IdleAfter(0) => IdleAfter(0)'
      /\ \A q \in Prompts : OkComes(q) => OkComes(q)'
    BY <1>1, <1>2, <1>3, <1>4, WireTells DEF Answers
<1>6. RanOK'
    BY <1>1, <1>5, SameRan
<1> QED
    BY <1>1, <1>2, <1>5, <1>6, ToldJ

LEMMA SrvEndJ == ASSUME IInv, JInv, SrvEnd PROVE JInv'
<1> USE DEF JInv
<1> DEFINE a == Msg("complete", run)
           b == Msg("idle", run)
           ms == <<a, b>>
<1>1. /\ run # None /\ run' = None /\ down' = down \o ms
      /\ UNCHANGED clientVars /\ UNCHANGED <<sub, late, up, accepted, again>>
    BY DEF SrvEnd, clientVars
<1>2. /\ a \in Told /\ a.type = "complete" /\ b \in Told /\ b.type = "idle"
      /\ session /\ ~Creating
    BY <1>1 DEF Msg, Told, View, Alone, IInv, Names
<1> HIDE DEF a, b
<1>3. /\ ms \in Seq(Told) /\ 2 \in 1..Len(ms) /\ ms[2] = b
      /\ \A k \in 1..Len(ms) : ms[k] \in {a, b}
    BY <1>2
<1> HIDE DEF ms
<1>4. /\ Wire'
      /\ IdleAfter(0) => IdleAfter(0)'
      /\ \A q \in Prompts : OkComes(q) => OkComes(q)'
    <2>1. \A k \in 1..Len(ms) : ms[k].type \notin Answers \cup {"start"}
        BY <1>2, <1>3 DEF Answers
    <2>2. \E k \in 1..Len(ms) : ms[k].type = "idle"
        BY <1>2, <1>3
    <2> QED
        BY <1>1, <1>3, <2>1, <2>2, WireTells DEF Answers
<1>5. RanOK'
    BY <1>1, <1>4, SameRan
<1> QED
    BY <1>1, <1>2, <1>4, <1>5, ToldJ

-----------------------------------------------------------------------------
LEMMA InitJ == Init => JInv
<1> SUFFICES ASSUME Init PROVE JInv
    OBVIOUS
<1>1. /\ queue = <<>> /\ up = <<>> /\ down = <<>> /\ run = None /\ cur = None
      /\ ~busy /\ ~cached /\ ~lock /\ accepted = {} /\ again = {} /\ late = {}
      /\ \A p \in Prompts : sub[p].pc = "draft"
    BY DEF Init
<1>2. Len(queue) = 0 /\ Len(up) = 0 /\ Len(down) = 0
    BY <1>1
<1>3. DrainOK /\ QueueOK
    BY <1>1, <1>2 DEF DrainOK, QueueOK, Rides, Running
<1>4. Wire
    BY <1>1, <1>2 DEF Wire, AskOnce, AnswerOnce, AskOrAnswer, EndComes
<1>5. RanOK /\ View
    BY <1>1 DEF RanOK, Ran, Unsent, View, Alone, CachedOK, BusyOK, Creating
<1> QED
    BY <1>3, <1>4, <1>5 DEF JInv

LEMMA StutterJ == ASSUME JInv, UNCHANGED vars PROVE JInv'
<1>1. UNCHANGED <<busy, cached, dirty, queue, lock, cur, sub, session, up, down, run,
                  accepted, again, late>>
    BY DEF vars, viewVars, queueVars, serverVars
<1> QED
    BY <1>1, Apart DEF JInv, View, BusyOK

LEMMA NextJ == IInv /\ JInv /\ [Next]_vars => JInv'
<1> SUFFICES ASSUME IInv, JInv, [Next]_vars PROVE JInv'
    OBVIOUS
<1>1. CASE Stop \/ Effect \/ ViewFlush
    BY <1>1, StopJ, EffectJ, ViewFlushJ
<1>2. CASE OnFrame
    BY <1>2, OnOkJ, OnBusyJ, OnRefusedJ, FramesJ DEF OnFrame
<1>3. CASE Server
    BY <1>3, SrvSubmitJ, SrvInterruptJ, SrvTextJ, SrvEndJ DEF Server
<1>4. ASSUME NEW p \in Prompts, User(p) PROVE JInv'
    BY <1>4, SubmitJ, EnqueueJ, SteerJ, SendQueuedJ, SendNowJ, DiscardJ DEF User
<1>5. ASSUME NEW p \in Prompts, Step(p) PROVE JInv'
    BY <1>5, CreateJ, CreateFailsJ, SyncedJ, SyncFailsJ, EndDrainJ, SteeredJ DEF Step
<1>6. CASE UNCHANGED vars
    BY <1>6, StutterJ
<1> QED
    BY <1>1, <1>2, <1>3, <1>4, <1>5, <1>6 DEF Next

THEOREM WireInvariant == Spec => []JInv
BY Invariant, InitJ, NextJ, PTL DEF Spec

(* A prompt runs once, however its tries, its stops and its drains fall;   *)
(* only a queued one whose acceptance came to an outdated submit may run   *)
(* again, because runDrain was told that it had failed                     *)
THEOREM SentOnceAlways == Spec => []SentOnce
<1>1. IInv /\ JInv => SentOnce
    BY DEF IInv, Names, JInv, RanOK, Ran, SentOnce
<1> QED
    BY <1>1, Invariant, WireInvariant, PTL

(* When everything has come to rest the chat is free and drains again:     *)
(* whoever set $busy or drainingQueueRef has reset it                      *)
THEOREM NotStuckAlways == Spec => []NotStuck
<1>1. IInv /\ JInv => NotStuck
    <2> SUFFICES ASSUME IInv, JInv, Quiet PROVE ~busy /\ ~lock
        BY DEF NotStuck
    <2>1. \A p \in Prompts : sub[p].pc \notin Running \cup {"returning"}
        BY DEF Quiet, Running
    <2>2. ~lock
        BY <2>1 DEF JInv, DrainOK, Rides
    <2>3. ~Creating /\ ~(cur # None /\ sub[cur].pc \in Running)
        BY <2>1 DEF Creating, Running, IInv, Names
    <2>4. Len(down) = 0 /\ run = None /\ ~dirty
        BY DEF Quiet
    <2>5. ~IdleAfter(0)
        BY <2>4 DEF IdleAfter
    <2>6. ~busy
        BY <2>3, <2>4, <2>5 DEF JInv, View, CachedOK, BusyOK
    <2> QED
        BY <2>2, <2>6
<1> QED
    BY <1>1, Invariant, WireInvariant, PTL
=============================================================================
