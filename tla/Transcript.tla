----------------------------- MODULE Transcript -----------------------------
(***************************************************************************)
(* The state of one chat in the web client (ClientSessionState) and the    *)
(* pure functions that change it: use-message-stream.ts, the optimistic    *)
(* rows of use-prompt-actions.ts, hydrateFromStoredSession.                *)
(*                                                                         *)
(* A turn is named by the prompt that started it.  A row keeps the set of  *)
(* turns its text comes from instead of the text; saved tells the rows     *)
(* read from the server from the client's own, whose ids differ.           *)
(***************************************************************************)
EXTENDS Naturals, Sequences, SequencesExt, FiniteSets

Row(role, id, of) == [role |-> role, id |-> id, of |-> of, saved |-> FALSE,
                      tool |-> FALSE, pending |-> FALSE, error |-> FALSE]

User(p) == Row("user", 0, {p})

Answer(of) == Row("assistant", 0, of)

Bubble(id, of, tool) ==
    [Row("assistant", id, of) EXCEPT !.tool = tool, !.pending = TRUE]

(* busy, awaitingResponse, interrupted, streamId (0: null),                *)
(* sawAssistantPayload, messages; n numbers the rows a stream creates      *)
EmptyChat == [busy |-> FALSE, awaiting |-> FALSE, interrupted |-> FALSE,
              stream |-> 0, saw |-> FALSE, msgs |-> <<>>, n |-> 0]

StreamRow(s) ==
    IF s.stream = 0 THEN 0 ELSE SelectInSeq(s.msgs, LAMBDA m : m.id = s.stream)

(* Mutant: the settled turn keeps its streamId                             *)
SettledLive(s) == [s EXCEPT !.busy = FALSE, !.awaiting = FALSE]

Settled(s) == [s EXCEPT !.busy = FALSE, !.awaiting = FALSE, !.stream = 0]

(* A turn begins: message.start, and what every submit does first          *)
Started(s) == [s EXCEPT !.busy = TRUE, !.awaiting = TRUE, !.saw = FALSE,
                        !.interrupted = FALSE]

(* seedOptimistic: the user's row, once                                    *)
Seed(s, p) ==
    [Started(s) EXCEPT !.msgs = IF Contains(@, User(p)) THEN @
                                ELSE Append(@, User(p))]

(* restoreToMessage: of the rows, those up to the i-th stay; when the call *)
(* fails they do so too                                                    *)
Rewound(s, i) ==
    [Started(s) EXCEPT !.msgs = SubSeq(@, 1, IF i < Len(@) THEN i ELSE Len(@))]

Released(s) == [s EXCEPT !.busy = FALSE, !.awaiting = FALSE]

(* The elements of s at the places in I, in their order                    *)
Where(s, I) ==
    LET rank(i) == Cardinality({j \in I : j <= i})
    IN  [k \in 1..Cardinality(I) |-> s[CHOOSE i \in I : rank(i) = k]]

(* finalizeMessages: live rows without text go, the others are final       *)
Finalized(s) ==
    LET live(m) == m.pending \/ (s.stream # 0 /\ m.id = s.stream)
        kept == Where(s.msgs, {i \in DOMAIN s.msgs :
                                 ~(live(s.msgs[i]) /\ s.msgs[i].of = {})})
    IN  [i \in DOMAIN kept |-> [kept[i] EXCEPT !.pending = FALSE]]

(* cancelRun                                                               *)
Cancelled(s) ==
    [Settled(s) EXCEPT !.msgs = Finalized(s), !.interrupted = TRUE]

(* mutateStream: text of the turns in of, or a tool; the first text after  *)
(* a tool opens a row of its own; after a stop nothing is applied          *)
Patched(s, of, tool) ==
    LET i == StreamRow(s)
        split == i # 0 /\ ~tool /\ s.msgs[i].tool /\ s.msgs[i].of = {}
        id == IF s.stream = 0 \/ split THEN s.n + 1 ELSE s.stream
        old == IF split THEN [s.msgs EXCEPT ![i].pending = FALSE] ELSE s.msgs
        msgs == IF i = 0 \/ split
                THEN Append(old, Bubble(id, of, tool))
                ELSE [s.msgs EXCEPT ![i].of = @ \cup of,
                                    ![i].tool = @ \/ tool,
                                    ![i].pending = TRUE]
    IN  IF of = {} /\ ~tool THEN s
        ELSE [s EXCEPT !.msgs = msgs, !.stream = id, !.saw = TRUE,
                       !.awaiting = FALSE, !.n = IF id > @ THEN id ELSE @]

Mutate(s, of, tool) == IF s.interrupted THEN s ELSE Patched(s, of, tool)

(* completeAssistantMessage: the final text replaces the text of the live  *)
(* row; without one the last answer is completed or a row is added         *)
Completed(s, final) ==
    LET i == StreamRow(s)
        last == SelectLastInSeq(s.msgs, LAMBDA m : m.role = "assistant")
        done(m) == [m EXCEPT !.of = final, !.pending = FALSE]
        whole(m) == m.tool /\ m.of = {} /\ final # {}
        same == last # 0 /\ (\/ s.msgs[last].pending
                             \/ final # {} /\ s.msgs[last].of = final)
        over(m) == [done(m) EXCEPT !.id = IF whole(m) THEN 0 ELSE m.id]
        msgs == CASE i # 0 -> [s.msgs EXCEPT ![i] = over(@)]
                  [] i = 0 /\ same -> [s.msgs EXCEPT ![last] = done(@)]
                  [] i = 0 /\ ~same /\ final # {} -> Append(s.msgs, Answer(final))
                  [] OTHER -> s.msgs
    IN  IF s.interrupted THEN Settled(s)
        ELSE [Settled(s) EXCEPT !.msgs = msgs]

(* Must the saved transcript be loaded?  c is the completed state          *)
NeedsHydrate(s, c, final) ==
    /\ ~s.interrupted
    /\ \A m \in ToSet(c.msgs) : ~m.error
    /\ c.msgs # <<>> => Last(c.msgs).role # "user"
    /\ \/ ~s.saw
       \/ final = {}
       \/ \A m \in ToSet(c.msgs) : m.role = "assistant" => ~final \subseteq m.of

(* failAssistantMessage                                                    *)
Failed(s) ==
    LET i == StreamRow(s)
        id == IF s.stream # 0 THEN s.stream ELSE s.n + 1
        msgs == IF i # 0 THEN s.msgs ELSE Append(s.msgs, Row("assistant", id, {}))
        at == IF i # 0 THEN i ELSE Len(msgs)
    IN  [Settled(s) EXCEPT
           !.saw = TRUE, !.n = IF id > @ THEN id ELSE @,
           !.msgs = [msgs EXCEPT ![at].pending = FALSE, ![at].error = TRUE]]

(* session.info with running: FALSE; the caller loads the saved            *)
(* transcript when the turn showed nothing                                 *)
Silent(s) == s.awaiting /\ ~s.saw

(* Mutant: a turn that is no longer busy is taken for settled              *)
IdledBusy(s) == IF s.busy THEN [s EXCEPT !.busy = FALSE] ELSE s

Idled(s) == IF s.busy \/ s.awaiting THEN Settled(s) ELSE s

(* toChatMessages of what the server stored                                *)
RowsOf(stored) ==
    LET row(i) == LET t == stored[(i + 1) \div 2]
                  IN  IF i % 2 = 1 THEN User(t) ELSE Answer({t})
    IN  [i \in 1..(2 * Len(stored)) |-> [row(i) EXCEPT !.saved = TRUE]]

(* preserveLocalAssistantErrors: behind the new rows, the error rows only  *)
(* the old ones have, each with the prompt right before it                 *)
Kept(new, old) ==
    LET last == SelectLastInSeq(new, LAMBDA m : m.role = "user")
        tail == IF last = 0 THEN {} ELSE new[last].of
        error == {i \in DOMAIN old :
                    old[i].error /\ \A m \in ToSet(new) : m.id # old[i].id}
        asked == {i \in DOMAIN old : /\ i + 1 \in error
                                     /\ old[i].role = "user" /\ old[i].of # tail
                                     /\ old[i] \notin ToSet(new)}
        rows == Where(old, error \cup asked)
    IN  new \o [i \in DOMAIN rows |-> [rows[i] EXCEPT !.pending = FALSE]]

Hydrated(s, stored) == [s EXCEPT !.msgs = Kept(RowsOf(stored), @)]
=============================================================================
