---------------------------- MODULE MessageStream ----------------------------
(***************************************************************************)
(* The stream of one chat, from the frames of the gateway socket to the    *)
(* rows on the screen: use-message-stream.ts, with the submit and the stop *)
(* of use-prompt-actions.ts and hydrateFromStoredSession.  The agent       *)
(* server is external: it runs one turn at a time, ends each with          *)
(* message.complete or error and session.info running: FALSE (a silent     *)
(* turn with the latter only), and stores the turns that succeed.          *)
(***************************************************************************)
EXTENDS Transcript

CONSTANTS Turns,     \* the user sends the prompts 1..Turns in this order
          MaxText,   \* text frames of a turn
          MaxActs,   \* how often the user stops a turn or goes back
          Window,    \* frames on their way before the server waits
          MaxReads   \* loads of the saved transcript before frames wait

ASSUME StreamAssumption == {Turns, MaxText, MaxActs, Window, MaxReads} \subseteq Nat

VARIABLES
    chat,     \* ClientSessionState
    screen,   \* $messages: the rows shown
    deltas,   \* queuedDeltasRef: the turns whose text waits for a flush
    frames,   \* the frames on their way to the client, in order
    reads,    \* the hydrateFromStoredSession calls in progress
    compact,  \* compactedTurnRef
    next,     \* the next prompt the user sends
    inbox,    \* the prompt the server has not accepted yet; with cut, how
              \* many user prompts of the history it keeps
    run,      \* the turn the server runs, the text and the tool it has left
    halt,     \* an interrupt the server has not seen yet
    stored,   \* the turns in the server's transcript, in order
    stops,    \* how often a turn was interrupted
    restores, \* how often the user went back
    crossed,  \* history: a saved transcript was applied over a newer turn,
              \* or the user went back to a prompt behind a failed one, or to
              \* one that the server or the state of the chat does not have
    unread,   \* history: the saved transcript of a silent turn was not read
    muted     \* history: the newest act was a stop, behind the start frame

vars == <<chat, screen, deltas, frames, reads, compact, next, inbox, run, halt,
          stored, stops, restores, crossed, unread, muted>>

clientVars == <<chat, deltas, reads, compact, next, stops, restores, crossed,
                unread, muted>>
serverVars == <<inbox, run, halt, stored>>

NoPrompt == [turn |-> 0, cut |-> FALSE, keep |-> 0]

NoRun == [turn |-> 0, text |-> 0, tool |-> FALSE]

Init ==
    /\ chat = EmptyChat /\ screen = <<>> /\ deltas = {} /\ frames = <<>> /\ reads = {}
    /\ compact = FALSE /\ next = 1
    /\ inbox = NoPrompt /\ run = NoRun /\ halt = FALSE /\ stored = <<>>
    /\ stops = 0 /\ restores = 0
    /\ crossed = FALSE /\ unread = FALSE /\ muted = FALSE

Frame(type, turn, of) == [type |-> type, turn |-> turn, of |-> of]

-----------------------------------------------------------------------------
(* flushQueuedDeltas                                                       *)
Flushed == Mutate(chat, deltas, FALSE)

(* A call of hydrateFromStoredSession made by a frame of turn; it waits    *)
(* until the saved transcript holds the needle                             *)
Read(needle, turn) == [needle |-> needle, turn |-> turn, snap |-> <<>>,
                       done |-> FALSE]

(* submitPromptText, as far as the transcript goes                         *)
Submit ==
    /\ ~chat.busy /\ inbox.turn = 0 /\ next <= Turns
    /\ chat' = Seed(chat, next)
    /\ inbox' = [turn |-> next, cut |-> FALSE, keep |-> 0] /\ next' = next + 1
    /\ muted' = FALSE
    /\ UNCHANGED <<deltas, frames, reads, compact, run, halt, stored, stops,
                   restores, crossed, unread>>

(* cancelRun of a turn the server accepted; its message.start may still be *)
(* on the way                                                              *)
Stop ==
    /\ chat.busy /\ inbox.turn = 0 /\ stops + restores < MaxActs
    /\ chat' = Cancelled(chat)
    /\ halt' = TRUE /\ stops' = stops + 1
    /\ muted' = \A f \in ToSet(frames) : f.type # "start"
    /\ UNCHANGED <<deltas, frames, reads, compact, next, inbox, run, stored,
                   restores, crossed, unread>>

(* restoreToMessage: back to the prompt p, interrupting the running turn;  *)
(* the server is told how many prompts to keep by counting the rows of the *)
(* user on the screen (visibleUserOrdinal)                                 *)
UserRows(n) == Cardinality({k \in 1..n : screen[k].role = "user"})

(* Mutants: the prompt itself is counted; the index of the last one        *)
OrdinalWithSelf(i) == UserRows(i)

OrdinalLast(i) == UserRows(i - 1) - 1

Ordinal(i) == UserRows(i - 1)

Restore ==
    \E i \in DOMAIN screen :
      LET p == CHOOSE t \in screen[i].of : TRUE
      IN  /\ screen[i].role = "user" /\ inbox.turn = 0
          /\ stops + restores < MaxActs
          /\ chat' = Rewound(chat, i)
          /\ inbox' = [turn |-> p, cut |-> TRUE, keep |-> Ordinal(i)]
          /\ halt' = (halt \/ chat.busy)
          /\ stops' = IF chat.busy THEN stops + 1 ELSE stops
          /\ restores' = restores + 1
          /\ crossed' = (\/ crossed \/ Len(chat.msgs) < i \/ p \notin ToSet(stored)
                         \/ \E j \in 1..i : screen[j].error)
          /\ muted' = FALSE
          /\ UNCHANGED <<deltas, frames, reads, compact, next, run, stored, unread>>

(* scheduleDeltaFlush: the timer                                           *)
FlushTimer ==
    /\ deltas # {}
    /\ chat' = Flushed /\ deltas' = {}
    /\ UNCHANGED <<frames, reads, compact, next, stops, restores, crossed, unread, muted>>
    /\ UNCHANGED serverVars

(* handleGatewayEvent: the next frame                                      *)
Receive ==
    /\ frames # <<>> /\ Cardinality(reads) < MaxReads
    /\ frames' = Tail(frames)
    /\ UNCHANGED serverVars /\ UNCHANGED <<next, stops, restores, crossed, unread, muted>>

OnStart ==
    /\ Receive /\ Head(frames).type = "start"
    /\ chat' = Started(Flushed) /\ deltas' = {} /\ compact' = FALSE
    /\ UNCHANGED reads

OnDelta ==
    /\ Receive /\ Head(frames).type = "delta"
    /\ deltas' = deltas \cup Head(frames).of
    /\ UNCHANGED <<chat, reads, compact>>

OnTool ==
    /\ Receive /\ Head(frames).type = "tool"
    /\ chat' = Mutate(Flushed, {}, TRUE) /\ deltas' = {}
    /\ UNCHANGED <<reads, compact>>

OnCompact ==
    /\ Receive /\ Head(frames).type = "compact"
    /\ compact' = TRUE
    /\ UNCHANGED <<chat, deltas, reads>>

OnComplete ==
    /\ Receive /\ Head(frames).type = "complete"
    /\ LET final == Head(frames).of
           done == Completed(Flushed, final)
       IN  /\ chat' = done
           /\ reads' = IF compact \/ NeedsHydrate(Flushed, done, final)
                       THEN reads \cup {Read(final, Head(frames).turn)} ELSE reads
    /\ deltas' = {} /\ compact' = FALSE

OnError ==
    /\ Receive /\ Head(frames).type = "error"
    /\ chat' = Failed(Flushed) /\ deltas' = {} /\ compact' = FALSE
    /\ UNCHANGED reads

OnIdle ==
    /\ Receive /\ Head(frames).type = "idle"
    /\ chat' = Idled(chat)
    /\ reads' = IF Silent(chat) THEN reads \cup {Read({}, Head(frames).turn)} ELSE reads
    /\ UNCHANGED <<deltas, compact>>

(* hydrateFromStoredSession: the answer of the server is made now (Snap)   *)
(* and applied later (Apply); while the call fails, or the answer lacks    *)
(* the needle, it is made again, and after the last attempt given up       *)
Snap ==
    \E r \in reads :
      /\ ~r.done /\ r.needle \subseteq ToSet(stored)
      /\ reads' = (reads \ {r}) \cup {[r EXCEPT !.snap = stored, !.done = TRUE]}
      /\ UNCHANGED <<chat, deltas, compact, next, stops, restores, crossed, unread, muted>>
      /\ UNCHANGED frames /\ UNCHANGED serverVars

Apply ==
    \E r \in reads :
      /\ r.done
      /\ chat' = Hydrated(chat, r.snap)
      /\ reads' = reads \ {r}
      /\ crossed' = (crossed \/ next # r.turn + 1 \/ restores > 0)
      /\ UNCHANGED <<deltas, compact, next, stops, restores, unread, muted>>
      /\ UNCHANGED frames /\ UNCHANGED serverVars

GiveUp ==
    \E r \in reads :
      /\ ~r.done
      /\ reads' = reads \ {r}
      /\ unread' = (unread \/ r.needle = {})
      /\ UNCHANGED <<chat, deltas, compact, next, stops, restores, crossed, muted>>
      /\ UNCHANGED frames /\ UNCHANGED serverVars

-----------------------------------------------------------------------------
(* The agent server (external)                                             *)
Emit(fs) == Len(frames) < Window /\ frames' = frames \o fs

SrvAccept ==
    /\ inbox.turn # 0 /\ run.turn = 0 /\ ~halt
    /\ inbox.cut => inbox.keep < Len(stored)
    /\ run' = [turn |-> inbox.turn, text |-> MaxText, tool |-> TRUE]
    /\ stored' = IF inbox.cut THEN SubSeq(stored, 1, inbox.keep) ELSE stored
    /\ inbox' = NoPrompt
    /\ Emit(<<Frame("start", inbox.turn, {})>>)
    /\ UNCHANGED clientVars /\ UNCHANGED halt

(* The history has no such prompt (422): the error comes behind the frames *)
SrvRefuse ==
    /\ inbox.turn # 0 /\ run.turn = 0 /\ ~halt
    /\ inbox.cut /\ inbox.keep >= Len(stored)
    /\ frames = <<>>
    /\ inbox' = NoPrompt
    /\ chat' = Released(chat)
    /\ UNCHANGED <<deltas, reads, compact, next, stops, restores, crossed, unread, muted>>
    /\ UNCHANGED <<frames, run, halt, stored>>

SrvText ==
    /\ run.turn # 0 /\ run.text > 0
    /\ run' = [run EXCEPT !.text = @ - 1]
    /\ Emit(<<Frame("delta", run.turn, {run.turn})>>)
    /\ UNCHANGED clientVars /\ UNCHANGED <<inbox, halt, stored>>

(* A tool call, or a compaction of the context                             *)
SrvTool ==
    /\ run.turn # 0 /\ run.tool
    /\ run' = [run EXCEPT !.tool = FALSE]
    /\ \E t \in {"tool", "compact"} : Emit(<<Frame(t, run.turn, {})>>)
    /\ UNCHANGED clientVars /\ UNCHANGED <<inbox, halt, stored>>

SrvEnd(fs, saved) ==
    /\ run.turn # 0
    /\ run' = NoRun
    /\ stored' = IF saved THEN Append(stored, run.turn) ELSE stored
    /\ Emit(Append(fs, Frame("idle", run.turn, {})))
    /\ UNCHANGED clientVars /\ UNCHANGED inbox

SrvComplete ==
    /\ SrvEnd(<<Frame("complete", run.turn, {run.turn})>>, TRUE)
    /\ UNCHANGED halt

SrvSilent ==
    /\ run.text = MaxText /\ run.tool
    /\ SrvEnd(<<>>, TRUE)
    /\ UNCHANGED halt

SrvFail ==
    /\ SrvEnd(<<Frame("error", run.turn, {})>>, FALSE)
    /\ UNCHANGED halt

(* A turn that was interrupted ends with the text it has, or with none     *)
SrvStopped ==
    /\ halt /\ halt' = FALSE
    /\ \E of \in {{}, {run.turn}} :
         SrvEnd(<<Frame("complete", run.turn, of)>>, of # {})

(* An interrupt that finds no turn                                         *)
SrvIgnore ==
    /\ halt /\ run.turn = 0 /\ halt' = FALSE
    /\ UNCHANGED clientVars /\ UNCHANGED <<frames, inbox, run, stored>>

-----------------------------------------------------------------------------
OnFrame == OnStart \/ OnDelta \/ OnTool \/ OnCompact \/ OnComplete \/ OnError \/ OnIdle

Server == SrvAccept \/ SrvRefuse \/ SrvText \/ SrvTool \/ SrvComplete \/ SrvSilent
          \/ SrvFail \/ SrvStopped \/ SrvIgnore

(* flushPendingViewState: what a step changes is painted with it           *)
Paint == screen' = Kept(chat'.msgs, screen)

Next == /\ \/ Submit \/ Stop \/ Restore \/ FlushTimer \/ OnFrame
           \/ Snap \/ Apply \/ GiveUp \/ Server
        /\ Paint

Spec == Init /\ [][Next]_vars

-----------------------------------------------------------------------------
RowType == [role : {"user", "assistant"}, id : Nat, of : SUBSET (1..Turns),
            saved : BOOLEAN, tool : BOOLEAN, pending : BOOLEAN, error : BOOLEAN]

(* The types of the variables                                              *)
TypeOK ==
    /\ ToSet(chat.msgs) \cup ToSet(screen) \subseteq RowType
    /\ {chat.busy, chat.awaiting, chat.interrupted, chat.saw} \subseteq BOOLEAN
    /\ chat.stream \in 0..chat.n
    /\ deltas \subseteq 1..Turns /\ run.turn \in 0..Turns
    /\ inbox.turn \in 0..Turns /\ inbox.cut \in BOOLEAN /\ inbox.keep \in Nat
    /\ {halt, compact, crossed, unread, muted} \subseteq BOOLEAN
    /\ stops \in 0..MaxActs /\ restores \in 0..MaxActs

(* Nothing is on its way                                                   *)
Quiet == /\ frames = <<>> /\ deltas = {} /\ reads = {}
         /\ inbox.turn = 0 /\ run.turn = 0 /\ ~halt

(* A row of the assistant holds text of one turn only: the late frames of  *)
(* a stopped turn, the delta timer and the row kept by streamId never mix  *)
(* two answers                                                             *)
NoMixedRows == \A i \in DOMAIN screen : Cardinality(screen[i].of) <= 1

(* When nothing is on its way the chat accepts a prompt and shows no       *)
(* spinner: neither busy nor awaiting nor a pending row is left over,      *)
(* whatever was stopped, failed, silent or reloaded                        *)
NoSpinnerLeft ==
    Quiet => /\ ~chat.busy /\ ~chat.awaiting
             /\ \A i \in DOMAIN screen : ~screen[i].pending

(* The questions and answers a reader sees: tool rows without text and     *)
(* failed turns set aside                                                  *)
Dialogue ==
    LET v == Where(screen, {i \in DOMAIN screen : screen[i].of # {} \/ screen[i].error})
        failed(i) == v[i].error \/ (i < Len(v) /\ v[i + 1].error /\ v[i].role = "user")
        kept == Where(v, {i \in DOMAIN v : ~failed(i)})
    IN  [i \in DOMAIN kept |-> <<kept[i].role, kept[i].of>>]

(* In a chat that was never interrupted the screen shows what the server   *)
(* stored, once and in its order: streamed, split by a tool, in one piece, *)
(* silent, reloaded or run again from an earlier prompt; unless the load   *)
(* that a silent turn is shown by failed, a load met a newer turn, or the  *)
(* user went back to or behind a prompt that failed                        *)
ScreenIsHistory ==
    Quiet /\ stops = 0 /\ ~crossed /\ ~unread =>
      LET rows == RowsOf(stored)
      IN  Dialogue = [i \in DOMAIN rows |-> <<rows[i].role, rows[i].of>>]

(* The text on the screen                                                  *)
Texts ==
    LET t == Where(screen, {i \in DOMAIN screen : screen[i].of # {}})
    IN  [i \in DOMAIN t |-> <<t[i].role, t[i].of>>]

(* Between a stop that comes behind the message.start of its turn and the  *)
(* next prompt the text on the screen changes only when the saved          *)
(* transcript is loaded: the delta timer, tool events and the completion   *)
(* of the stopped turn add nothing.  A stop that overtakes message.start   *)
(* has no such effect: the frame clears interrupted                        *)
StoppedFrozen == [][muted /\ muted' /\ ~Apply => Texts' = Texts]_vars
=============================================================================
