------------------------- MODULE MessageStream_proofs -------------------------
(* Theorems about MessageStream, for any number of turns, text frames,     *)
(* stops, and any window: no row mixes two turns, a quiet chat is released *)
(* with no row left pending, the text of a stopped chat stays, and a quiet *)
(* chat that nobody stopped shows the transcript the server stores.        *)
EXTENDS MessageStream, FiniteSetTheorems, SequenceTheorems, TLAPS

Turn == 1..Turns

Kinds == {"start", "delta", "tool", "compact", "complete", "error", "idle"}
FrameRec == [type : Kinds, turn : Turn, of : SUBSET Turn]
ReadRec == [needle : SUBSET Turn, turn : Turn, snap : Seq(Turn), done : BOOLEAN]
ChatRec == [busy : BOOLEAN, awaiting : BOOLEAN, interrupted : BOOLEAN, stream : Nat,
            saw : BOOLEAN, msgs : Seq(RowType), n : Nat]

(* At most one turn                                                        *)
Single(T) == \A a, b \in T : a = b

(* A row holds text of one turn; a prompt is never empty and has no id of  *)
(* the stream, so that no frame is written into it                         *)
RowOK(m) == Single(m.of) /\ (m.role = "user" => m.id = 0 /\ m.of # {})

(* Only the row of the stream is pending, and it is the only one with its  *)
(* id; the ids are the ones given out so far                               *)
MsgsOK(msgs, id, n) ==
    /\ \A i \in DOMAIN msgs : RowOK(msgs[i]) /\ msgs[i].id <= n
    /\ \A i \in DOMAIN msgs : msgs[i].pending => id # 0 /\ msgs[i].id = id
    /\ \A i, j \in DOMAIN msgs : i # j /\ msgs[i].id # 0 => msgs[i].id # msgs[j].id
ChatOK(c) ==
    /\ c \in ChatRec /\ c.stream <= c.n /\ MsgsOK(c.msgs, c.stream, c.n)
    /\ c.interrupted => c.stream = 0

(* The turns of the row the stream writes to, and with the text that waits *)
RowText(msgs, id) ==
    {t \in Turn : \E i \in DOMAIN msgs : id # 0 /\ msgs[i].id = id /\ t \in msgs[i].of}
TextOf(c) == RowText(c.msgs, c.stream)
LiveText == deltas \cup TextOf(chat)

ServerOK ==
    /\ inbox \in [turn : 0..Turns, cut : BOOLEAN, keep : Nat]
    /\ run \in [turn : 0..Turns, text : 0..MaxText, tool : BOOLEAN]
    /\ stored \in Seq(Turn) /\ halt \in BOOLEAN
FramesOK ==
    /\ frames \in Seq(FrameRec)
    /\ \A i \in DOMAIN frames : Single(frames[i].of) /\ frames[i].of \subseteq {frames[i].turn}
ClientOK ==
    /\ ChatOK(chat) /\ reads \subseteq ReadRec /\ compact \in BOOLEAN /\ crossed \in BOOLEAN
    /\ next \in 1..(Turns + 1)
    /\ stops \in 0..MaxActs /\ restores \in 0..MaxActs
ScreenOK ==
    /\ screen \in Seq(RowType)
    /\ \A i \in DOMAIN screen : RowOK(screen[i])
    /\ \A i \in DOMAIN screen :
          screen[i].pending => \E j \in DOMAIN chat.msgs : chat.msgs[j].pending

(* A text or tool frame opens the row of its turn; complete and error      *)
(* frames close it                                                         *)
Opens(f)  == f.type \in {"delta", "tool"}
Closes(f) == f.type \in {"complete", "error"}

(* A frame behind place i closes the row before place j                    *)
ClosedBefore(fs, i, j) == \E k \in (i + 1)..(j - 1) : Closes(fs[k])

(* The run has sent nothing that opens a row                               *)
Fresh(r) == r.turn = 0 \/ (r.text = MaxText /\ r.tool)

(* A row with text of the turns in T, open at place i of the frames, is    *)
(* closed before the turn is reported over and before another turn writes; *)
(* if it is not closed on the way, its turn still runs                     *)
Bounded(fs, r, i, T) ==
    /\ \A j \in (i + 1)..Len(fs) :
          (\/ fs[j].type = "idle"
           \/ Opens(fs[j]) /\ T # {} /\ fs[j].turn \notin T) => ClosedBefore(fs, i, j)
    /\ ClosedBefore(fs, i, Len(fs) + 1) \/ (~Fresh(r) /\ T \subseteq {r.turn})

LiveOK ==
    /\ Single(LiveText) /\ deltas \subseteq Turn
    /\ chat.stream # 0 \/ deltas # {} => Bounded(frames, run, 0, LiveText)
OpenersOK ==
    \A i \in DOMAIN frames : Opens(frames[i]) => Bounded(frames, run, i, {frames[i].turn})

(* A busy chat waits for a turn that ends, and so does a start frame       *)
IdleAhead(fs, r, i) == r.turn # 0 \/ \E j \in (i + 1)..Len(fs) : fs[j].type = "idle"
BusyOK ==
    /\ chat.busy \/ chat.awaiting => inbox.turn # 0 \/ IdleAhead(frames, run, 0)
    /\ \A i \in DOMAIN frames : frames[i].type = "start" => IdleAhead(frames, run, i)

IInv == ServerOK /\ FramesOK /\ ClientOK /\ ScreenOK /\ LiveOK /\ OpenersOK /\ BusyOK

-----------------------------------------------------------------------------
(* The operators of Transcript on sequences                                *)

(* The places in I, counted in their order, are 1..Cardinality(I)          *)
Rank(I, i) == Cardinality({j \in I : j <= i})

(* The ranks of the members of a set of places are 1, 2, ... without a gap  *)
LEMMA RankOK ==
    ASSUME NEW n \in Nat, NEW I \in SUBSET (1..n)
    PROVE  /\ Cardinality(I) \in Nat
           /\ \A k \in 1..Cardinality(I) : \E i \in I : Rank(I, i) = k
<1> DEFINE upTo(i) == {j \in I : j <= i}
           m == Cardinality(I)
           f == [i \in I |-> Rank(I, i)]
<1>1. IsFiniteSet(I) /\ m \in Nat
    <2>1. IsFiniteSet(1..n)
        BY FS_Interval
    <2> QED
        BY <2>1, FS_Subset, FS_CardinalityType
<1>2. ASSUME NEW i \in I
      PROVE  Rank(I, i) \in 1..m
    <2>1. IsFiniteSet(upTo(i)) /\ Cardinality(upTo(i)) <= m /\ Cardinality(upTo(i)) \in Nat
        BY <1>1, FS_Subset, FS_CardinalityType
    <2>2. upTo(i) # {}
        <3>1. i \in upTo(i)
            OBVIOUS
        <3> QED
            BY <3>1
    <2>3. Cardinality(upTo(i)) # 0
        BY <2>1, <2>2, FS_EmptySet
    <2> QED
        BY <1>1, <2>1, <2>3 DEF Rank
<1>3. ASSUME NEW i \in I, NEW j \in I, i < j
      PROVE  Rank(I, i) # Rank(I, j)
    <2>1. upTo(i) \subseteq upTo(j)
        <3>1. \A k \in I : k \in Int /\ (k <= i => k <= j)
            BY <1>3
        <3> QED
            BY <3>1
    <2>2. IsFiniteSet(upTo(j))
        BY <1>1, FS_Subset
    <2>3. j \in upTo(j) /\ j \notin upTo(i)
        BY <1>3
    <2> QED
        BY <2>1, <2>2, <2>3, FS_Subset DEF Rank
<1>4. \A i, j \in I : f[i] = f[j] => i = j
    BY <1>3
<1>5. f \in Injection(I, 1..m)
    BY <1>2, <1>4 DEF Injection, IsInjective
<1>6. IsFiniteSet(1..m) /\ Cardinality(1..m) = m
    BY <1>1, FS_Interval
<1>7. f \in Surjection(I, 1..m)
    BY <1>5, <1>6, FS_Injection
<1>8. \A k \in 1..m : \E i \in I : f[i] = k
    BY <1>7 DEF Surjection
<1> QED
    BY <1>1, <1>8

(* Where takes elements of s from the places in I, each place once         *)
LEMMA WhereOK ==
    ASSUME NEW S, NEW s \in Seq(S), NEW I \in SUBSET DOMAIN s
    PROVE  /\ Where(s, I) \in Seq(S)
           /\ \A k \in DOMAIN Where(s, I) : \E i \in I : Where(s, I)[k] = s[i]
           /\ \A k, l \in DOMAIN Where(s, I) : k # l =>
                \E i, j \in I : i # j /\ Where(s, I)[k] = s[i] /\ Where(s, I)[l] = s[j]
<1> DEFINE m == Cardinality(I)
           at(k) == CHOOSE i \in I : Rank(I, i) = k
<1>1. m \in Nat /\ \A k \in 1..m : \E i \in I : Rank(I, i) = k
    <2>1. Len(s) \in Nat /\ I \subseteq 1..Len(s)
        OBVIOUS
    <2> QED
        BY <2>1, RankOK
<1>2. Where(s, I) = [k \in 1..m |-> s[at(k)]]
    BY DEF Where, Rank
<1>3. \A k \in 1..m : at(k) \in I /\ Rank(I, at(k)) = k
    BY <1>1
<1>4. \A k, l \in 1..m : k # l => at(k) # at(l)
    BY <1>3
<1> HIDE DEF at, m
<1> DEFINE w == Where(s, I)
<1>5. w \in Seq(S)
    <2>1. \A k \in 1..m : s[at(k)] \in S
        BY <1>3
    <2> QED
        BY <1>1, <1>2, <2>1
<1>6. DOMAIN w = 1..m /\ \A k \in 1..m : w[k] = s[at(k)]
    BY <1>2
<1> QED
    BY <1>3, <1>4, <1>5, <1>6

(* A set of places has a first and a last one                              *)
LEMMA FirstPlace ==
    ASSUME NEW I \in SUBSET Nat, I # {}
    PROVE  \E i \in I : \A j \in I : i <= j
<1> DEFINE R == OpToRel(<, Nat)
<1>1. IsWellFoundedOn(R, Nat)
    BY NatLessThanWellFounded
<1>2. \A i, j \in Nat : j < i => <<j, i>> \in R
    BY DEF OpToRel
<1> HIDE DEF R
<1>3. PICK i \in I : \A j \in I : ~ (<<j, i>> \in R)
    BY <1>1, WFMin
<1>4. \A j \in I : ~(j < i)
    BY <1>2, <1>3
<1>5. \A j \in I : i \in Nat /\ j \in Nat
    OBVIOUS
<1> QED
    BY <1>4, <1>5

(* What SelectLastInSeq returns: the last place with the property, or 0     *)
LEMMA LastPlace ==
    ASSUME NEW n \in Nat, NEW I \in SUBSET (0..n), I # {}
    PROVE  \E i \in I : \A j \in I : j <= i
<1> DEFINE J == {k \in 0..n : n - k \in I}
<1>1. PICK i \in I : TRUE
    OBVIOUS
<1>2. n - i \in J
    BY <1>1
<1>3. PICK k \in J : \A j \in J : k <= j
    <2>1. J \in SUBSET Nat /\ J # {}
        BY <1>2
    <2> HIDE DEF J
    <2> QED
        BY <2>1, FirstPlace
<1>4. n - k \in I /\ \A j \in I : n - j \in J
    OBVIOUS
<1>5. \A j \in I : k <= n - j
    BY <1>3, <1>4
<1>6. \A j \in I : j <= n - k
    BY <1>5
<1> QED
    BY <1>4, <1>6

(* The row the stream writes to is the first with its id                   *)
LEMMA StreamRowOK ==
    ASSUME NEW c \in ChatRec
    PROVE  /\ StreamRow(c) \in 0..Len(c.msgs) /\ Len(c.msgs) \in Nat
           /\ StreamRow(c) # 0 => c.stream # 0 /\ c.msgs[StreamRow(c)].id = c.stream
           /\ StreamRow(c) = 0 => c.stream = 0 \/ \A j \in DOMAIN c.msgs : c.msgs[j].id # c.stream
<1> DEFINE I == {i \in 1..Len(c.msgs) : c.msgs[i].id = c.stream}
<1>1. /\ Len(c.msgs) \in Nat /\ DOMAIN c.msgs = 1..Len(c.msgs) /\ I \in SUBSET Nat
      /\ c.stream \in Nat
    BY DEF ChatRec
<1>2. StreamRow(c) = IF c.stream = 0 THEN 0 ELSE IF I # {} THEN Min(I) ELSE 0
    BY DEF StreamRow, SelectInSeq
<1>3. I # {} => Min(I) \in I
    <2>1. I # {} => \E i \in I : \A j \in I : i <= j
        BY <1>1, FirstPlace
    <2> QED
        BY <2>1 DEF Min
<1>4. CASE c.stream = 0
    BY <1>1, <1>2, <1>4
<1>5. CASE c.stream # 0 /\ I = {}
    BY <1>1, <1>2, <1>5
<1>6. CASE c.stream # 0 /\ I # {}
    BY <1>1, <1>2, <1>3, <1>6
<1> QED
    BY <1>4, <1>5, <1>6

(* The last row of the assistant                                           *)
LastAnswer(s) == SelectLastInSeq(s, LAMBDA m : m.role = "assistant")

(* The last answer is a row of the assistant, or there is none              *)
LEMMA LastAnswerOK ==
    ASSUME NEW s \in Seq(RowType)
    PROVE  /\ LastAnswer(s) \in 0..Len(s)
           /\ LastAnswer(s) # 0 => s[LastAnswer(s)].role = "assistant"
<1> DEFINE I == {i \in 1..Len(s) : s[i].role = "assistant"}
<1>1. Len(s) \in Nat /\ I \in SUBSET (0..Len(s))
    OBVIOUS
<1>2. LastAnswer(s) = IF I # {} THEN Max(I) ELSE 0
    BY DEF LastAnswer, SelectLastInSeq
<1>3. I # {} => Max(I) \in I
    <2>1. I # {} => \E i \in I : \A j \in I : j <= i
        BY <1>1, LastPlace
    <2>2. \A i, j \in I : j <= i <=> i >= j
        BY <1>1
    <2>3. I # {} => \E i \in I : \A j \in I : i >= j
        BY <2>1, <2>2
    <2> QED
        BY <2>3 DEF Max
<1> QED
    BY <1>1, <1>2, <1>3

(* A record with the fields of a row is a row                               *)
LEMMA RowIs ==
    ASSUME NEW role \in {"user", "assistant"}, NEW id \in Nat, NEW of \in SUBSET Turn,
           NEW saved \in BOOLEAN, NEW tool \in BOOLEAN, NEW pending \in BOOLEAN,
           NEW error \in BOOLEAN
    PROVE  [role |-> role, id |-> id, of |-> of, saved |-> saved, tool |-> tool,
            pending |-> pending, error |-> error] \in RowType
BY DEF RowType, Turn

(* A row read from the server has no id of the stream and is at rest        *)
LEMMA SavedRow ==
    ASSUME NEW role \in {"user", "assistant"}, NEW x \in Turn, NEW r,
           r = [Row(role, 0, {x}) EXCEPT !.saved = TRUE]
    PROVE  /\ r \in RowType /\ RowOK(r) /\ r.id = 0 /\ ~r.pending
           /\ r.role = role /\ r.of = {x} /\ ~r.error
<1>1. r = [role |-> role, id |-> 0, of |-> {x}, saved |-> TRUE, tool |-> FALSE,
           pending |-> FALSE, error |-> FALSE]
    BY DEF Row
<1>2. {x} \in SUBSET Turn /\ 0 \in Nat /\ TRUE \in BOOLEAN /\ FALSE \in BOOLEAN
    OBVIOUS
<1> DEFINE q == [role |-> role, id |-> 0, of |-> {x}, saved |-> TRUE, tool |-> FALSE,
                 pending |-> FALSE, error |-> FALSE]
<1>3. q \in RowType
    BY <1>2, RowIs
<1>5. r = q
    BY <1>1
<1>6. r \in RowType
    BY <1>3, <1>5, Zenon
<1>4. r.of = {x} /\ r.id = 0 /\ ~r.pending /\ r.role = role /\ ~r.error
    BY <1>1
<1> QED
    BY <1>4, <1>6 DEF RowOK, Single

(* The rows of a saved transcript: question and answer of each turn        *)
LEMMA RowsOfOK ==
    ASSUME NEW st \in Seq(Turn)
    PROVE  /\ RowsOf(st) \in Seq(RowType)
           /\ \A i \in DOMAIN RowsOf(st) :
                 RowOK(RowsOf(st)[i]) /\ RowsOf(st)[i].id = 0 /\ ~RowsOf(st)[i].pending
           /\ DOMAIN RowsOf(st) = 1..(2 * Len(st))
           /\ \A i \in DOMAIN RowsOf(st) :
                 /\ RowsOf(st)[i].role = IF i % 2 = 1 THEN "user" ELSE "assistant"
                 /\ RowsOf(st)[i].of = {st[(i + 1) \div 2]} /\ ~RowsOf(st)[i].error
<1> DEFINE t(i) == st[(i + 1) \div 2]
           row(i) == IF i % 2 = 1 THEN User(t(i)) ELSE Answer({t(i)})
           new(i) == [row(i) EXCEPT !.saved = TRUE]
           m == 2 * Len(st)
<1>1. Len(st) \in Nat /\ m \in Nat
    OBVIOUS
<1>2. RowsOf(st) = [i \in 1..m |-> new(i)]
    BY DEF RowsOf
<1>3. ASSUME NEW i \in 1..m
      PROVE  /\ new(i) \in RowType /\ RowOK(new(i)) /\ new(i).id = 0 /\ ~new(i).pending
             /\ new(i).role = IF i % 2 = 1 THEN "user" ELSE "assistant"
             /\ new(i).of = {t(i)} /\ ~new(i).error
    <2>1. (i + 1) \div 2 \in 1..Len(st)
        BY <1>1
    <2>2. t(i) \in Turn
        BY <2>1
    <2> HIDE DEF t
    <2>3. \/ i % 2 = 1 /\ new(i) = [User(t(i)) EXCEPT !.saved = TRUE]
          \/ i % 2 # 1 /\ new(i) = [Answer({t(i)}) EXCEPT !.saved = TRUE]
        OBVIOUS
    <2> HIDE DEF new
    <2> QED
        BY <2>2, <2>3, SavedRow DEF User, Answer
<1> DEFINE rows == RowsOf(st)
<1> HIDE DEF new, m, t
<1>4. rows \in Seq(RowType) /\ DOMAIN rows = 1..m /\ \A i \in 1..m : rows[i] = new(i)
    BY <1>1, <1>2, <1>3
<1> HIDE DEF rows
<1>5. \A i \in 1..m : /\ RowOK(rows[i]) /\ rows[i].id = 0 /\ ~rows[i].pending
                      /\ rows[i].role = (IF i % 2 = 1 THEN "user" ELSE "assistant")
                      /\ rows[i].of = {t(i)} /\ ~rows[i].error
    BY <1>3, <1>4
<1> QED
    BY <1>4, <1>5 DEF rows, m, t

(* The types of the fields of a row                                         *)
LEMMA RowFields ==
    ASSUME NEW r \in RowType
    PROVE  /\ r.id \in Nat /\ r.of \in SUBSET Turn /\ r.role \in {"user", "assistant"}
           /\ r.tool \in BOOLEAN /\ r.pending \in BOOLEAN /\ r.error \in BOOLEAN
           /\ r.saved \in BOOLEAN
BY DEF RowType, Turn

(* A row that is no longer pending                                         *)
Calm(m) == [m EXCEPT !.pending = FALSE]

(* A row put at rest keeps its role, id and text                            *)
LEMMA CalmOK ==
    ASSUME NEW m \in RowType
    PROVE  /\ Calm(m) \in RowType /\ ~Calm(m).pending /\ Calm(m).id = m.id
           /\ Calm(m).of = m.of /\ Calm(m).role = m.role
BY DEF RowType, Calm

(* all shows the new rows, and behind them old ones at different places,   *)
(* each a prompt or a row whose id no new row has                          *)
KeepsRows(all, new, old) ==
    /\ all \in Seq(RowType) /\ Len(new) \in Nat /\ Len(new) <= Len(all)
    /\ \A k \in 1..Len(new) : all[k] = new[k]
    /\ \A k \in (Len(new) + 1)..Len(all) : \E i \in DOMAIN old :
          /\ all[k] = Calm(old[i])
          /\ old[i].role = "user" \/ \A j \in DOMAIN new : new[j].id # old[i].id
    /\ \A k, l \in (Len(new) + 1)..Len(all) : k # l =>
          \E i, j \in DOMAIN old :
             i # j /\ all[k] = Calm(old[i]) /\ all[l] = Calm(old[j])

(* That is what Kept does                                                  *)
LEMMA KeptOK ==
    ASSUME NEW new \in Seq(RowType), NEW old \in Seq(RowType)
    PROVE  KeepsRows(Kept(new, old), new, old)
<1> DEFINE last == SelectLastInSeq(new, LAMBDA m : m.role = "user")
           tail == IF last = 0 THEN {} ELSE new[last].of
           error == {i \in DOMAIN old :
                       old[i].error /\ \A m \in ToSet(new) : m.id # old[i].id}
           asked == {i \in DOMAIN old : /\ i + 1 \in error
                                        /\ old[i].role = "user" /\ old[i].of # tail
                                        /\ old[i] \notin ToSet(new)}
           I == error \cup asked
           rows == Where(old, I)
           more == [i \in DOMAIN rows |-> Calm(rows[i])]
<1>1. Kept(new, old) = new \o more
    BY DEF Kept, Calm
<1>2. \A i \in I : \/ old[i].role = "user"
                   \/ \A j \in DOMAIN new : new[j].id # old[i].id
    BY DEF ToSet
<1>3. I \in SUBSET DOMAIN old
    OBVIOUS
<1> HIDE DEF I
<1>4. /\ rows \in Seq(RowType)
      /\ \A k \in DOMAIN rows : \E i \in I : rows[k] = old[i]
      /\ \A k, l \in DOMAIN rows : k # l =>
            \E i, j \in I : i # j /\ rows[k] = old[i] /\ rows[l] = old[j]
    BY <1>3, WhereOK
<1> HIDE DEF rows
<1>5. /\ more \in Seq(RowType) /\ Len(more) \in Nat /\ DOMAIN more = 1..Len(more)
      /\ DOMAIN rows = 1..Len(more)
      /\ \A k \in 1..Len(more) : more[k] = Calm(rows[k])
    <2>1. \A k \in DOMAIN rows : Calm(rows[k]) \in RowType
        BY <1>4, CalmOK
    <2>2. DOMAIN rows = 1..Len(rows) /\ Len(rows) \in Nat
        BY <1>4
    <2>3. Len(more) = Len(rows)
        BY <2>2
    <2> QED
        BY <2>1, <2>2, <2>3
<1> HIDE DEF more
<1> DEFINE all == new \o more
           n == Len(new)
<1>6. /\ all \in Seq(RowType) /\ n \in Nat /\ Len(all) = n + Len(more)
      /\ \A k \in 1..n : all[k] = new[k]
      /\ \A k \in (n + 1)..Len(all) : k - n \in 1..Len(more) /\ all[k] = more[k - n]
    BY <1>5
<1> HIDE DEF all, n
<1>7. \A k \in (n + 1)..Len(all) : k - n \in DOMAIN rows /\ all[k] = Calm(rows[k - n])
    BY <1>5, <1>6
<1>8. ASSUME NEW k \in (n + 1)..Len(all)
      PROVE  \E i \in DOMAIN old :
                /\ all[k] = Calm(old[i])
                /\ old[i].role = "user" \/ \A j \in DOMAIN new : new[j].id # old[i].id
    <2>1. PICK i \in I : rows[k - n] = old[i]
        BY <1>4, <1>7
    <2> QED
        BY <1>2, <1>3, <1>7, <2>1
<1>9. ASSUME NEW k \in (n + 1)..Len(all), NEW l \in (n + 1)..Len(all), k # l
      PROVE  \E i, j \in DOMAIN old :
                i # j /\ all[k] = Calm(old[i]) /\ all[l] = Calm(old[j])
    <2>1. k - n # l - n
        BY <1>6, <1>9
    <2>2. PICK i \in I, j \in I : i # j /\ rows[k - n] = old[i] /\ rows[l - n] = old[j]
        BY <1>4, <1>7, <2>1
    <2> QED
        BY <1>3, <1>7, <2>2
<1>10. n <= Len(all)
    BY <1>5, <1>6
<1>11. KeepsRows(all, new, old)
    BY <1>6, <1>8, <1>9, <1>10 DEF KeepsRows, n
<1>12. Kept(new, old) = all
    BY <1>1 DEF all
<1> QED
    BY <1>11, <1>12

-----------------------------------------------------------------------------
(* What the operators of Transcript make of the rows of a chat             *)
LEMMA Replaced ==
    ASSUME NEW msgs \in Seq(RowType), NEW id \in Nat, NEW n \in Nat, MsgsOK(msgs, id, n),
           NEW i \in DOMAIN msgs, NEW r \in RowType, RowOK(r), r.id \in {0, msgs[i].id},
           NEW id2 \in Nat, NEW n2 \in Nat, n <= n2,
           r.pending => id2 # 0 /\ r.id = id2,
           \A j \in DOMAIN msgs : j # i /\ msgs[j].pending => id2 # 0 /\ msgs[j].id = id2
    PROVE  /\ [msgs EXCEPT ![i] = r] \in Seq(RowType)
           /\ MsgsOK([msgs EXCEPT ![i] = r], id2, n2)
<1> DEFINE t == [msgs EXCEPT ![i] = r]
<1>1. /\ t \in Seq(RowType) /\ DOMAIN t = DOMAIN msgs /\ t[i] = r
      /\ \A j \in DOMAIN msgs : j # i => t[j] = msgs[j]
    OBVIOUS
<1> HIDE DEF t
<1>2. \A j \in DOMAIN msgs : msgs[j].id \in Nat
    BY RowFields
<1>3. \A j \in DOMAIN t : RowOK(t[j]) /\ t[j].id <= n2
    BY <1>1, <1>2 DEF MsgsOK
<1>4. \A j \in DOMAIN t : t[j].pending => id2 # 0 /\ t[j].id = id2
    BY <1>1
<1>5. \A j, k \in DOMAIN t : j # k /\ t[j].id # 0 => t[j].id # t[k].id
    BY SMTT(30), <1>1, <1>2 DEF MsgsOK
<1> QED
    BY <1>1, <1>3, <1>4, <1>5 DEF MsgsOK, t

(* A row behind the others keeps MsgsOK, if its id is 0 or new              *)
LEMMA Appended ==
    ASSUME NEW msgs \in Seq(RowType), NEW id \in Nat, NEW n \in Nat, MsgsOK(msgs, id, n),
           NEW r \in RowType, RowOK(r), r.id # 0 => \A j \in DOMAIN msgs : msgs[j].id # r.id,
           NEW id2 \in Nat, NEW n2 \in Nat, n <= n2, r.id <= n2,
           r.pending => id2 # 0 /\ r.id = id2,
           \A j \in DOMAIN msgs : msgs[j].pending => id2 # 0 /\ msgs[j].id = id2
    PROVE  /\ Append(msgs, r) \in Seq(RowType)
           /\ MsgsOK(Append(msgs, r), id2, n2)
<1> DEFINE t == Append(msgs, r)
           m == Len(msgs)
<1>1. /\ t \in Seq(RowType) /\ DOMAIN msgs = 1..m /\ DOMAIN t = 1..(m + 1) /\ m \in Nat
      /\ t[m + 1] = r /\ \A j \in DOMAIN msgs : t[j] = msgs[j]
    OBVIOUS
<1> HIDE DEF t, m
<1>2. \A j \in DOMAIN t : j \in DOMAIN msgs \/ j = m + 1
    BY <1>1
<1>3. \A j \in DOMAIN msgs : msgs[j].id \in Nat
    BY RowFields
<1>4. \A j \in DOMAIN t : RowOK(t[j]) /\ t[j].id <= n2
    BY <1>1, <1>2, <1>3 DEF MsgsOK
<1>5. \A j \in DOMAIN t : t[j].pending => id2 # 0 /\ t[j].id = id2
    BY <1>1, <1>2
<1>6. \A j, k \in DOMAIN t : j # k /\ t[j].id # 0 => t[j].id # t[k].id
    BY <1>1, <1>2, <1>3 DEF MsgsOK
<1> QED
    BY <1>1, <1>4, <1>5, <1>6 DEF MsgsOK, t

(* The types of the fields of a chat                                        *)
LEMMA ChatFields ==
    ASSUME NEW c \in ChatRec
    PROVE  /\ c.msgs \in Seq(RowType) /\ c.stream \in Nat /\ c.n \in Nat
           /\ c.busy \in BOOLEAN /\ c.awaiting \in BOOLEAN /\ c.interrupted \in BOOLEAN
           /\ c.saw \in BOOLEAN
BY DEF ChatRec

(* A row of the stream ends: no row is pending without it                  *)
LEMMA SettledOK ==
    ASSUME NEW c \in ChatRec
    PROVE  /\ Settled(c) \in ChatRec /\ Settled(c).stream = 0 /\ Settled(c).n = c.n
           /\ Settled(c).msgs = c.msgs /\ ~Settled(c).busy /\ ~Settled(c).awaiting
           /\ Settled(c).interrupted = c.interrupted
BY DEF ChatRec, Settled

(* A chat without a stream has no row that is written to                    *)
LEMMA NoText ==
    ASSUME NEW c, c.stream = 0
    PROVE  TextOf(c) = {}
BY DEF TextOf, RowText

(* message.start, and the first step of every submit, change no row         *)
LEMMA StartedOK ==
    ASSUME NEW c, ChatOK(c)
    PROVE  /\ ChatOK(Started(c)) /\ TextOf(Started(c)) = TextOf(c)
           /\ Started(c).stream = c.stream /\ Started(c).n = c.n /\ ~Started(c).interrupted
<1>1. /\ Started(c) \in ChatRec /\ Started(c).stream = c.stream /\ Started(c).n = c.n
      /\ Started(c).msgs = c.msgs /\ ~Started(c).interrupted
    BY DEF ChatOK, ChatRec, Started
<1> QED
    BY <1>1 DEF ChatOK, TextOf

(* The report that no turn runs releases a chat without a stream            *)
LEMMA IdledOK ==
    ASSUME NEW c, ChatOK(c), c.stream = 0
    PROVE  /\ ChatOK(Idled(c)) /\ Idled(c).stream = 0 /\ TextOf(Idled(c)) = {}
           /\ ~Idled(c).busy /\ ~Idled(c).awaiting
           /\ Idled(c).msgs = c.msgs /\ Idled(c).n = c.n
           /\ Idled(c).interrupted = c.interrupted
<1>1. c \in ChatRec /\ c.busy \in BOOLEAN /\ c.awaiting \in BOOLEAN
    BY ChatFields DEF ChatOK
<1>2. CASE c.busy \/ c.awaiting
    <2>1. Idled(c) = Settled(c)
        BY <1>2 DEF Idled
    <2>2. ChatOK(Settled(c))
        BY <1>1, SettledOK DEF ChatOK
    <2> QED
        BY <1>1, <2>1, <2>2, SettledOK, NoText
<1>3. CASE ~(c.busy \/ c.awaiting)
    <2>1. Idled(c) = c
        BY <1>3 DEF Idled
    <2> QED
        BY <1>3, <2>1, NoText
<1> QED
    BY <1>2, <1>3

(* A prompt the server refuses releases the chat and changes no row         *)
LEMMA ReleasedOK ==
    ASSUME NEW c, ChatOK(c), NEW d, d = Released(c)
    PROVE  /\ ChatOK(d) /\ TextOf(d) = TextOf(c) /\ d.stream = c.stream
           /\ d.msgs = c.msgs /\ d.n = c.n /\ ~d.busy /\ ~d.awaiting
<1>1. /\ d \in ChatRec /\ d.stream = c.stream /\ d.n = c.n /\ d.msgs = c.msgs
      /\ d.interrupted = c.interrupted /\ ~d.busy /\ ~d.awaiting
    BY DEF ChatOK, ChatRec, Released
<1> QED
    BY <1>1 DEF ChatOK, TextOf

(* The user's row holds its prompt and has no id of the stream              *)
LEMMA PromptRow ==
    ASSUME NEW p \in Turn
    PROVE  /\ User(p) \in RowType /\ RowOK(User(p)) /\ User(p).id = 0
           /\ ~User(p).pending
<1>1. User(p) = [role |-> "user", id |-> 0, of |-> {p}, saved |-> FALSE, tool |-> FALSE,
                 pending |-> FALSE, error |-> FALSE]
    BY DEF User, Row
<1>2. {p} \in SUBSET Turn /\ 0 \in Nat
    OBVIOUS
<1>3. User(p) \in RowType
    BY <1>1, <1>2 DEF RowType, Turn
<1>4. User(p).of = {p} /\ User(p).id = 0 /\ ~User(p).pending
    BY <1>1
<1> QED
    BY <1>3, <1>4 DEF RowOK, Single

(* A prompt is added to the rows, or is there already                      *)
LEMMA SeedOK ==
    ASSUME NEW c, ChatOK(c), NEW p \in Turn
    PROVE  /\ ChatOK(Seed(c, p)) /\ TextOf(Seed(c, p)) = TextOf(c)
           /\ Seed(c, p).stream = c.stream /\ Seed(c, p).n = c.n /\ ~Seed(c, p).interrupted
<1> DEFINE s == Started(c)
           d == Seed(c, p)
<1>1. /\ s \in ChatRec /\ s.stream = c.stream /\ s.n = c.n /\ s.msgs = c.msgs
      /\ s.stream <= s.n /\ MsgsOK(s.msgs, s.stream, s.n) /\ ~s.interrupted
    BY DEF ChatOK, ChatRec, Started
<1>2. CASE d = [s EXCEPT !.msgs = s.msgs]
    <2>1. d = s
        BY <1>1, <1>2 DEF ChatRec
    <2> QED
        BY <1>1, <2>1, StartedOK
<1>3. CASE d = [s EXCEPT !.msgs = Append(s.msgs, User(p))]
    <2>1. s.msgs \in Seq(RowType) /\ s.stream \in Nat /\ s.n \in Nat
        BY <1>1, ChatFields
    <2>2. \A i \in DOMAIN s.msgs : s.msgs[i].pending => s.stream # 0 /\ s.msgs[i].id = s.stream
        BY <1>1 DEF MsgsOK
    <2>3. /\ Append(s.msgs, User(p)) \in Seq(RowType)
          /\ MsgsOK(Append(s.msgs, User(p)), s.stream, s.n)
        BY <1>1, <2>1, <2>2, PromptRow, Appended
    <2>4. /\ d \in ChatRec /\ d.stream = s.stream /\ d.n = s.n /\ ~d.interrupted
          /\ d.msgs = Append(s.msgs, User(p))
        BY <1>1, <1>3, <2>3 DEF ChatRec
    <2>5. RowText(d.msgs, d.stream) = RowText(s.msgs, s.stream)
        <3> DEFINE t == Append(s.msgs, User(p))
                   m == Len(s.msgs)
        <3>1. /\ m \in Nat /\ DOMAIN s.msgs = 1..m /\ DOMAIN t = 1..(m + 1)
              /\ \A j \in 1..m : t[j] = s.msgs[j]
              /\ t[m + 1].id = 0
            BY <2>1, PromptRow
        <3> HIDE DEF t, m
        <3>2. RowText(t, s.stream) = RowText(s.msgs, s.stream)
            BY <2>1, <3>1 DEF RowText
        <3> QED
            BY <2>4, <3>2 DEF t
    <2>6. ChatOK(d)
        BY <1>1, <2>3, <2>4 DEF ChatOK
    <2> QED
        BY <1>1, <2>4, <2>5, <2>6 DEF TextOf
<1> QED
    BY <1>2, <1>3 DEF Seed

(* Rows that go take nothing with them                                     *)
LEMMA RewoundOK ==
    ASSUME NEW c, ChatOK(c), NEW i \in Nat
    PROVE  /\ ChatOK(Rewound(c, i)) /\ TextOf(Rewound(c, i)) \subseteq TextOf(c)
           /\ Rewound(c, i).stream = c.stream /\ Rewound(c, i).n = c.n
           /\ ~Rewound(c, i).interrupted
<1> DEFINE s == Started(c)
           m == Len(s.msgs)
           k == IF i < m THEN i ELSE m
           t == SubSeq(s.msgs, 1, k)
           d == Rewound(c, i)
<1>1. /\ s \in ChatRec /\ s.stream = c.stream /\ s.n = c.n /\ s.msgs = c.msgs
      /\ s.stream <= s.n /\ MsgsOK(s.msgs, s.stream, s.n) /\ ~s.interrupted
    BY DEF ChatOK, ChatRec, Started
<1>2. s.msgs \in Seq(RowType) /\ s.stream \in Nat /\ s.n \in Nat
    BY <1>1, ChatFields
<1>3. /\ t \in Seq(RowType) /\ DOMAIN t \subseteq DOMAIN s.msgs
      /\ \A j \in DOMAIN t : t[j] = s.msgs[j]
    BY <1>2
<1>4. d = [s EXCEPT !.msgs = t]
    BY DEF Rewound
<1> HIDE DEF t
<1>5. d \in ChatRec /\ d.stream = s.stream /\ d.n = s.n /\ d.msgs = t /\ ~d.interrupted
    BY <1>1, <1>3, <1>4 DEF ChatRec
<1>6. MsgsOK(t, s.stream, s.n)
    BY <1>1, <1>3 DEF MsgsOK
<1>7. RowText(t, s.stream) \subseteq RowText(s.msgs, s.stream)
    BY <1>3 DEF RowText
<1> QED
    BY <1>1, <1>5, <1>6, <1>7 DEF ChatOK, TextOf

(* A stop leaves no row pending and no stream                              *)
LEMMA CancelledOK ==
    ASSUME NEW c, ChatOK(c)
    PROVE  /\ ChatOK(Cancelled(c)) /\ TextOf(Cancelled(c)) = {} /\ Cancelled(c).stream = 0
           /\ ~Cancelled(c).busy /\ ~Cancelled(c).awaiting /\ Cancelled(c).n = c.n
<1> DEFINE live(m) == m.pending \/ (c.stream # 0 /\ m.id = c.stream)
           I == {i \in DOMAIN c.msgs : ~(live(c.msgs[i]) /\ c.msgs[i].of = {})}
           kept == Where(c.msgs, I)
           t == [i \in DOMAIN kept |-> Calm(kept[i])]
           d == Cancelled(c)
<1>1. c \in ChatRec /\ c.msgs \in Seq(RowType) /\ I \in SUBSET DOMAIN c.msgs
    BY ChatFields DEF ChatOK
<1>2. Finalized(c) = t
    BY DEF Finalized, Calm
<1> HIDE DEF I
<1>3. /\ kept \in Seq(RowType)
      /\ \A k \in DOMAIN kept : \E i \in I : kept[k] = c.msgs[i]
      /\ \A k, l \in DOMAIN kept : k # l =>
            \E i, j \in I : i # j /\ kept[k] = c.msgs[i] /\ kept[l] = c.msgs[j]
    <2> DEFINE s == c.msgs
    <2>1. s \in Seq(RowType) /\ I \in SUBSET DOMAIN s
        BY <1>1
    <2> HIDE DEF s
    <2>2. /\ Where(s, I) \in Seq(RowType)
          /\ \A k \in DOMAIN Where(s, I) : \E i \in I : Where(s, I)[k] = s[i]
          /\ \A k, l \in DOMAIN Where(s, I) : k # l =>
                \E i, j \in I : i # j /\ Where(s, I)[k] = s[i] /\ Where(s, I)[l] = s[j]
        BY <2>1, WhereOK
    <2> QED
        BY <2>2 DEF s
<1> HIDE DEF kept
<1>4. /\ t \in Seq(RowType) /\ DOMAIN t = DOMAIN kept
      /\ \A k \in DOMAIN t : t[k] = Calm(kept[k]) /\ kept[k] \in RowType
    <2>1. \A k \in DOMAIN kept : kept[k] \in RowType /\ Calm(kept[k]) \in RowType
        BY <1>3, CalmOK
    <2> QED
        BY <1>3, <2>1
<1> HIDE DEF t
<1>5. \A k \in DOMAIN t : t[k].id = kept[k].id /\ t[k].of = kept[k].of
                          /\ t[k].role = kept[k].role /\ ~t[k].pending
    BY <1>4, CalmOK
<1>6. \A k \in DOMAIN t : RowOK(t[k]) /\ t[k].id <= c.n
    <2> TAKE k \in DOMAIN t
    <2>1. PICK i \in I : kept[k] = c.msgs[i]
        BY <1>3, <1>4
    <2>2. RowOK(c.msgs[i]) /\ c.msgs[i].id <= c.n
        BY <1>1 DEF ChatOK, MsgsOK
    <2> QED
        BY <1>5, <2>1, <2>2 DEF RowOK
<1>7. \A k, l \in DOMAIN t : k # l /\ t[k].id # 0 => t[k].id # t[l].id
    <2> SUFFICES ASSUME NEW k \in DOMAIN t, NEW l \in DOMAIN t, k # l, t[k].id # 0
                 PROVE  t[k].id # t[l].id
        OBVIOUS
    <2>1. PICK i \in I, j \in I : i # j /\ kept[k] = c.msgs[i] /\ kept[l] = c.msgs[j]
        BY <1>3, <1>4
    <2>2. c.msgs[i].id # 0 => c.msgs[i].id # c.msgs[j].id
        BY <1>1, <2>1 DEF ChatOK, MsgsOK
    <2> QED
        BY <1>5, <2>1, <2>2
<1>8. d = [Settled(c) EXCEPT !.msgs = t, !.interrupted = TRUE]
    BY <1>2 DEF Cancelled
<1>9. /\ d \in ChatRec /\ d.stream = 0 /\ d.n = c.n /\ d.msgs = t
      /\ ~d.busy /\ ~d.awaiting
    <2> DEFINE s == Settled(c)
    <2>1. s \in ChatRec /\ s.stream = 0 /\ s.n = c.n /\ ~s.busy /\ ~s.awaiting
        BY <1>1, SettledOK
    <2>2. d = [s EXCEPT !.msgs = t, !.interrupted = TRUE]
        BY <1>8
    <2> HIDE DEF s, d
    <2> QED
        BY <1>4, <2>1, <2>2 DEF ChatRec
<1>10. MsgsOK(t, 0, c.n)
    BY <1>5, <1>6, <1>7 DEF MsgsOK
<1>11. c.n \in Nat
    BY <1>1, ChatFields
<1> QED
    BY <1>9, <1>10, <1>11, NoText DEF ChatOK

(* The rows of the saved transcript have no id, so that the old rows kept  *)
(* behind them keep theirs                                                 *)
LEMMA HydratedOK ==
    ASSUME NEW c, ChatOK(c), NEW st \in Seq(Turn)
    PROVE  /\ ChatOK(Hydrated(c, st)) /\ TextOf(Hydrated(c, st)) \subseteq TextOf(c)
           /\ Hydrated(c, st).stream = c.stream /\ Hydrated(c, st).busy = c.busy
           /\ Hydrated(c, st).awaiting = c.awaiting /\ Hydrated(c, st).n = c.n
           /\ Hydrated(c, st).interrupted = c.interrupted
           /\ \A i \in DOMAIN Hydrated(c, st).msgs : ~Hydrated(c, st).msgs[i].pending
<1> DEFINE new == RowsOf(st)
           old == c.msgs
           t == Kept(new, old)
           m == Len(new)
           d == Hydrated(c, st)
<1>1. /\ c \in ChatRec /\ old \in Seq(RowType) /\ c.stream \in Nat /\ c.n \in Nat
      /\ c.stream <= c.n
    BY ChatFields DEF ChatOK
<1>2. /\ new \in Seq(RowType)
      /\ \A i \in DOMAIN new : RowOK(new[i]) /\ new[i].id = 0 /\ ~new[i].pending
    BY RowsOfOK
<1> HIDE DEF new
<1>3. /\ t \in Seq(RowType) /\ m \in Nat /\ m <= Len(t)
      /\ \A k \in 1..m : t[k] = new[k]
      /\ \A k \in (m + 1)..Len(t) : \E i \in DOMAIN old : t[k] = Calm(old[i])
      /\ \A k, l \in (m + 1)..Len(t) : k # l =>
            \E i, j \in DOMAIN old : i # j /\ t[k] = Calm(old[i]) /\ t[l] = Calm(old[j])
    <2>1. KeepsRows(t, new, old)
        BY <1>1, <1>2, KeptOK
    <2> HIDE DEF old, t
    <2> QED
        BY <2>1 DEF KeepsRows
<1>4. d = [c EXCEPT !.msgs = t]
    BY DEF Hydrated, new
<1> HIDE DEF t
<1>5. /\ d \in ChatRec /\ d.stream = c.stream /\ d.n = c.n /\ d.msgs = t
      /\ d.busy = c.busy /\ d.awaiting = c.awaiting /\ d.interrupted = c.interrupted
    BY <1>1, <1>3, <1>4 DEF ChatRec
<1>6. DOMAIN new = 1..m /\ DOMAIN t = 1..Len(t) /\ Len(t) \in Nat
    BY <1>2, <1>3
<1> HIDE DEF m
<1>7. \A k \in DOMAIN t : \/ k \in 1..m /\ t[k] = new[k]
                          \/ k \in (m + 1)..Len(t)
    BY <1>3, <1>6
<1>8. \A i \in DOMAIN old : /\ Calm(old[i]).id = old[i].id /\ Calm(old[i]).of = old[i].of
                            /\ Calm(old[i]).role = old[i].role /\ ~Calm(old[i]).pending
                            /\ RowOK(old[i]) /\ old[i].id <= c.n
    BY <1>1, CalmOK DEF ChatOK, MsgsOK
<1>9. \A k \in DOMAIN t : RowOK(t[k]) /\ t[k].id <= c.n /\ ~t[k].pending
    <2> TAKE k \in DOMAIN t
    <2>1. CASE k \in 1..m /\ t[k] = new[k]
        BY <1>1, <1>2, <1>6, <2>1
    <2>2. CASE k \in (m + 1)..Len(t)
        <3>1. PICK i \in DOMAIN old : t[k] = Calm(old[i])
            BY <1>3, <2>2
        <3> QED
            BY <1>8, <3>1 DEF RowOK
    <2> QED
        BY <1>7, <2>1, <2>2
<1>10. ASSUME NEW k \in DOMAIN t, NEW l \in DOMAIN t, k # l, t[k].id # 0
       PROVE  t[k].id # t[l].id
    <2>1. k \in (m + 1)..Len(t)
        BY <1>2, <1>6, <1>7, <1>10
    <2>2. CASE l \in (m + 1)..Len(t)
        <3>1. PICK i \in DOMAIN old, j \in DOMAIN old :
                   i # j /\ t[k] = Calm(old[i]) /\ t[l] = Calm(old[j])
            BY <1>3, <1>10, <2>1, <2>2
        <3>2. old[i].id # 0 => old[i].id # old[j].id
            BY <3>1 DEF ChatOK, MsgsOK
        <3> QED
            BY <1>8, <1>10, <3>1, <3>2
    <2>3. CASE l \in 1..m /\ t[l] = new[l]
        BY <1>2, <1>6, <1>10, <2>3
    <2> QED
        BY <1>7, <2>2, <2>3
<1>11. MsgsOK(t, c.stream, c.n)
    BY <1>9, <1>10 DEF MsgsOK
<1>12. RowText(t, c.stream) \subseteq RowText(old, c.stream)
    <2> SUFFICES ASSUME NEW x \in RowText(t, c.stream)
                 PROVE  x \in RowText(old, c.stream)
        OBVIOUS
    <2>1. PICK k \in DOMAIN t : c.stream # 0 /\ t[k].id = c.stream /\ x \in t[k].of
        BY DEF RowText
    <2>2. k \in (m + 1)..Len(t)
        BY <1>2, <1>6, <1>7, <2>1
    <2>3. PICK i \in DOMAIN old : t[k] = Calm(old[i])
        BY <1>3, <2>2
    <2>4. old[i].id = c.stream /\ x \in old[i].of /\ x \in Turn
        BY <1>8, <2>1, <2>3 DEF RowText
    <2> QED
        BY <2>1, <2>4 DEF RowText
<1> QED
    BY <1>1, <1>5, <1>9, <1>11, <1>12 DEF ChatOK, TextOf

(* The fields of a row that a stream opens                                  *)
LEMMA BubbleOK ==
    ASSUME NEW id \in Nat, NEW of \in SUBSET Turn, NEW tool \in BOOLEAN, Single(of)
    PROVE  /\ Bubble(id, of, tool) \in RowType /\ RowOK(Bubble(id, of, tool))
           /\ Bubble(id, of, tool).id = id /\ Bubble(id, of, tool).of = of
<1> DEFINE r == Row("assistant", id, of)
<1>1. r = [role |-> "assistant", id |-> id, of |-> of, saved |-> FALSE, tool |-> FALSE,
           pending |-> FALSE, error |-> FALSE]
    BY DEF Row
<1>2. Bubble(id, of, tool) = [r EXCEPT !.tool = tool, !.pending = TRUE]
    BY DEF Bubble
<1> HIDE DEF r
<1>3. Bubble(id, of, tool)
        = [role |-> "assistant", id |-> id, of |-> of, saved |-> FALSE, tool |-> tool,
           pending |-> TRUE, error |-> FALSE]
    BY <1>1, <1>2
<1>4. Bubble(id, of, tool) \in RowType
    BY <1>3 DEF RowType, Turn
<1> QED
    BY <1>3, <1>4 DEF RowOK

(* The row the stream writes to is the only one with its id                *)
LEMMA OnlyStreamRow ==
    ASSUME NEW c, ChatOK(c)
    PROVE  LET i == StreamRow(c)
           IN  /\ c.msgs \in Seq(RowType) /\ c.stream \in Nat /\ c.n \in Nat
               /\ c.stream <= c.n
               /\ i # 0 => /\ i \in DOMAIN c.msgs /\ c.stream # 0 /\ c.msgs[i].id = c.stream
                           /\ TextOf(c) = c.msgs[i].of
                           /\ \A j \in DOMAIN c.msgs : j # i => ~c.msgs[j].pending
                                                       /\ c.msgs[j].id # c.stream
               /\ i = 0 => /\ \A j \in DOMAIN c.msgs : ~c.msgs[j].pending
                           /\ c.stream # 0 => \A j \in DOMAIN c.msgs : c.msgs[j].id # c.stream
                           /\ TextOf(c) = {}
<1> DEFINE i == StreamRow(c)
           s == c.msgs
           id == c.stream
<1>1. /\ c \in ChatRec /\ s \in Seq(RowType) /\ id \in Nat /\ c.n \in Nat /\ id <= c.n
      /\ MsgsOK(s, id, c.n)
    BY ChatFields DEF ChatOK
<1>2. /\ i \in 0..Len(s) /\ Len(s) \in Nat
      /\ i # 0 => id # 0 /\ s[i].id = id
      /\ i = 0 => id = 0 \/ \A j \in DOMAIN s : s[j].id # id
    BY <1>1, StreamRowOK
<1>3. TextOf(c) = RowText(s, id)
    BY DEF TextOf
<1> HIDE DEF i, s, id
<1>4. DOMAIN s = 1..Len(s)
    BY <1>1
<1>5. CASE i # 0
    <2>1. i \in DOMAIN s /\ s[i] \in RowType /\ s[i].of \in SUBSET Turn
        BY <1>1, <1>2, <1>4, <1>5, RowFields
    <2>2. \A j \in DOMAIN s : j # i => s[j].id # id
        BY <1>1, <1>2, <1>5, <2>1 DEF MsgsOK
    <2>3. \A j \in DOMAIN s : j # i => ~s[j].pending
        BY <1>1, <2>2 DEF MsgsOK
    <2>4. RowText(s, id) = s[i].of
        BY <1>2, <1>5, <2>1, <2>2 DEF RowText
    <2> QED
        BY <1>1, <1>2, <1>3, <1>5, <2>1, <2>2, <2>3, <2>4 DEF i, s, id
<1>6. CASE i = 0
    <2>1. \A j \in DOMAIN s : ~s[j].pending
        BY <1>1, <1>2, <1>6 DEF MsgsOK
    <2>2. RowText(s, id) = {}
        BY <1>2, <1>6 DEF RowText
    <2> QED
        BY <1>1, <1>2, <1>3, <1>6, <2>1, <2>2 DEF i, s, id
<1> QED
    BY <1>5, <1>6

(* A part of at most one turn is at most one turn                           *)
LEMMA SingleSubset ==
    ASSUME NEW T, NEW S, S \subseteq T, Single(T)
    PROVE  Single(S)
BY DEF Single

(* A row is opened behind rows that are not pending                        *)
LEMMA Opened ==
    ASSUME NEW msgs \in Seq(RowType), NEW st \in Nat, NEW n \in Nat, MsgsOK(msgs, st, n),
           \A j \in DOMAIN msgs : ~msgs[j].pending,
           NEW id \in Nat, id # 0, NEW n2 \in Nat, n <= n2, id <= n2,
           \A j \in DOMAIN msgs : msgs[j].id # id,
           NEW of \in SUBSET Turn, NEW tool \in BOOLEAN, Single(of),
           NEW t, t = Append(msgs, Bubble(id, of, tool))
    PROVE  t \in Seq(RowType) /\ MsgsOK(t, id, n2) /\ RowText(t, id) \subseteq of
<1> DEFINE b == Bubble(id, of, tool)
<1>1. b \in RowType /\ RowOK(b) /\ b.id = id /\ b.of = of
    BY BubbleOK
<1> HIDE DEF b
<1>2. t = Append(msgs, b)
    BY DEF b
<1>3. t \in Seq(RowType) /\ MsgsOK(t, id, n2)
    BY <1>1, <1>2, Appended
<1>4. \A j \in DOMAIN t : t[j].id = id => t[j].of = of
    BY <1>1, <1>2
<1> QED
    BY <1>3, <1>4 DEF RowText

(* A row ends, and no row is pending any more                              *)
LEMMA Ended ==
    ASSUME NEW msgs \in Seq(RowType), NEW st \in Nat, NEW n \in Nat, MsgsOK(msgs, st, n),
           NEW i \in DOMAIN msgs, \A j \in DOMAIN msgs : j # i => ~msgs[j].pending,
           NEW r \in RowType, RowOK(r), ~r.pending, r.id \in {0, msgs[i].id}
    PROVE  LET t == [msgs EXCEPT ![i] = r]
           IN  t \in Seq(RowType) /\ MsgsOK(t, 0, n)
<1> DEFINE z == 0
<1>1. z \in Nat /\ n <= n /\ (r.pending => z # 0 /\ r.id = z)
      /\ \A j \in DOMAIN msgs : j # i /\ msgs[j].pending => z # 0 /\ msgs[j].id = z
    OBVIOUS
<1> HIDE DEF z
<1>2. [msgs EXCEPT ![i] = r] \in Seq(RowType) /\ MsgsOK([msgs EXCEPT ![i] = r], z, n)
    BY <1>1, Replaced
<1> QED
    BY <1>2 DEF z

(* The row of the stream is closed                                         *)
LEMMA RowClosed ==
    ASSUME NEW msgs \in Seq(RowType), NEW st \in Nat, NEW n \in Nat, MsgsOK(msgs, st, n),
           NEW i \in DOMAIN msgs, \A j \in DOMAIN msgs : j # i => ~msgs[j].pending,
           NEW t, t = [msgs EXCEPT ![i] = Calm(msgs[i])]
    PROVE  /\ t \in Seq(RowType) /\ MsgsOK(t, 0, n)
           /\ \A j \in DOMAIN t : ~t[j].pending /\ t[j].id <= n /\ t[j].id \in Nat
<1> DEFINE r == Calm(msgs[i])
<1>1. msgs[i] \in RowType /\ RowOK(msgs[i])
    BY DEF MsgsOK
<1>2. /\ r \in RowType /\ ~r.pending /\ r.id = msgs[i].id
      /\ r.of = msgs[i].of /\ r.role = msgs[i].role
    BY <1>1, CalmOK
<1>3. RowOK(r) /\ r.id \in {0, msgs[i].id}
    BY <1>1, <1>2 DEF RowOK
<1> HIDE DEF r
<1>4. t = [msgs EXCEPT ![i] = r]
    BY DEF r
<1>5. LET u == [msgs EXCEPT ![i] = r] IN u \in Seq(RowType) /\ MsgsOK(u, 0, n)
    BY <1>2, <1>3, Ended
<1>6. t \in Seq(RowType) /\ MsgsOK(t, 0, n)
    BY <1>4, <1>5
<1> QED
    BY <1>6, RowFields DEF MsgsOK

(* Text or a tool is added to the row of the stream                        *)
Extended(m, of, tool) ==
    [m EXCEPT !.of = m.of \cup of, !.tool = m.tool \/ tool, !.pending = TRUE]

(* A row that text is written to keeps its role and id                      *)
LEMMA ExtendedOK ==
    ASSUME NEW m \in RowType, NEW of \in SUBSET Turn, NEW tool \in BOOLEAN
    PROVE  LET r == Extended(m, of, tool)
           IN  /\ r \in RowType /\ r.id = m.id /\ r.of = m.of \cup of /\ r.role = m.role
<1>1. m.of \cup of \in SUBSET Turn /\ (m.tool \/ tool) \in BOOLEAN
    BY RowFields
<1> QED
    BY <1>1 DEF RowType, Turn, Extended

(* With the row of the stream extended, the rows are still in order         *)
LEMMA RowExtended ==
    ASSUME NEW msgs \in Seq(RowType), NEW st \in Nat, NEW n \in Nat, MsgsOK(msgs, st, n),
           NEW i \in DOMAIN msgs, msgs[i].id = st, st # 0,
           \A j \in DOMAIN msgs : j # i => ~msgs[j].pending /\ msgs[j].id # st,
           NEW T, Single(T), NEW r \in RowType, r.id = st, r.of = T,
           r.role = msgs[i].role, msgs[i].of \subseteq T
    PROVE  LET t == [msgs EXCEPT ![i] = r]
           IN  t \in Seq(RowType) /\ MsgsOK(t, st, n) /\ RowText(t, st) \subseteq T
<1> DEFINE t == [msgs EXCEPT ![i] = r]
<1>1. RowOK(msgs[i])
    BY DEF MsgsOK
<1>2. RowOK(r)
    BY <1>1 DEF RowOK
<1>3. /\ n <= n /\ r.id \in {0, msgs[i].id} /\ (r.pending => st # 0 /\ r.id = st)
      /\ \A j \in DOMAIN msgs : j # i /\ msgs[j].pending => st # 0 /\ msgs[j].id = st
    OBVIOUS
<1>4. t \in Seq(RowType) /\ MsgsOK(t, st, n)
    BY <1>2, <1>3, Replaced
<1>5. \A j \in DOMAIN t : t[j].id = st => t[j].of = T
    OBVIOUS
<1> QED
    BY <1>4, <1>5 DEF RowText

(* Text or a tool goes to the row of the stream or opens one; no row mixes *)
(* turns if the text that comes and the text of that row are of one turn   *)
LEMMA PatchedOK ==
    ASSUME NEW c, ChatOK(c), NEW of \in SUBSET Turn, NEW tool \in BOOLEAN,
           Single(of \cup TextOf(c)), of # {} \/ tool, ~c.interrupted
    PROVE  LET d == Patched(c, of, tool)
           IN  /\ ChatOK(d) /\ TextOf(d) \subseteq of \cup TextOf(c)
               /\ d.busy = c.busy /\ ~d.awaiting /\ c.n <= d.n /\ ~d.interrupted
<1> DEFINE i == StreamRow(c)
           ms == c.msgs
           st == c.stream
           n0 == c.n
           split == i # 0 /\ ~tool /\ ms[i].tool /\ ms[i].of = {}
           id == IF st = 0 \/ split THEN n0 + 1 ELSE st
           n == IF id > n0 THEN id ELSE n0
           old == IF split THEN [ms EXCEPT ![i].pending = FALSE] ELSE ms
           msgs == IF i = 0 \/ split THEN Append(old, Bubble(id, of, tool))
                   ELSE [ms EXCEPT ![i].of = @ \cup of, ![i].tool = @ \/ tool,
                                   ![i].pending = TRUE]
           d == Patched(c, of, tool)
           T == of \cup TextOf(c)
<1>1. /\ ms \in Seq(RowType) /\ st \in Nat /\ n0 \in Nat /\ st <= n0
      /\ c \in ChatRec /\ MsgsOK(ms, st, n0)
    BY OnlyStreamRow DEF ChatOK
<1>2. i # 0 => /\ i \in DOMAIN ms /\ st # 0 /\ ms[i].id = st /\ TextOf(c) = ms[i].of
               /\ \A j \in DOMAIN ms : j # i => ~ms[j].pending /\ ms[j].id # st
    BY OnlyStreamRow
<1>3. i = 0 => /\ \A j \in DOMAIN ms : ~ms[j].pending
               /\ st # 0 => \A j \in DOMAIN ms : ms[j].id # st
    BY OnlyStreamRow
<1>4. d = [c EXCEPT !.msgs = msgs, !.stream = id, !.saw = TRUE, !.awaiting = FALSE, !.n = n]
    BY DEF Patched
<1> HIDE DEF i, ms, st, n0
<1>5. Single(of) /\ id \in Nat /\ id # 0 /\ n \in Nat /\ n0 <= n /\ id <= n
    BY <1>1 DEF Single
<1>6. \A j \in DOMAIN ms : ms[j].id \in Nat /\ ms[j].id <= n0
    BY <1>1, RowFields DEF MsgsOK
<1> DEFINE Good == msgs \in Seq(RowType) /\ MsgsOK(msgs, id, n) /\ RowText(msgs, id) \subseteq T
<1>7. ASSUME i = 0
      PROVE  Good
    <2>1. \A j \in DOMAIN ms : ms[j].id # id
        BY <1>1, <1>3, <1>6, <1>7
    <2>2. msgs = Append(ms, Bubble(id, of, tool))
        BY <1>7
    <2> HIDE DEF msgs, id, n
    <2>3. msgs \in Seq(RowType) /\ MsgsOK(msgs, id, n) /\ RowText(msgs, id) \subseteq of
        <3>1. \A j \in DOMAIN ms : ~ms[j].pending
            BY <1>3, <1>7
        <3>2. /\ ms \in Seq(RowType) /\ st \in Nat /\ n0 \in Nat /\ MsgsOK(ms, st, n0)
              /\ id \in Nat /\ id # 0 /\ n \in Nat /\ n0 <= n /\ id <= n
              /\ of \in SUBSET Turn /\ tool \in BOOLEAN /\ Single(of)
            BY <1>1, <1>5
        <3>4. \A t : t = Append(ms, Bubble(id, of, tool)) =>
                 t \in Seq(RowType) /\ MsgsOK(t, id, n) /\ RowText(t, id) \subseteq of
            <4> HIDE DEF d, T
            <4> QED
                BY <2>1, <3>1, <3>2, Opened
        <3> QED
            BY <2>2, <3>4
    <2> QED
        BY <2>3
<1>8. ASSUME split
      PROVE  Good
    <2> DEFINE s == [ms EXCEPT ![i] = Calm(ms[i])]
    <2>1. msgs = Append(s, Bubble(id, of, tool)) /\ id = n0 + 1 /\ i # 0
        BY <1>8 DEF Calm
    <2>2. s \in Seq(RowType) /\ MsgsOK(s, 0, n0)
          /\ \A j \in DOMAIN s : ~s[j].pending /\ s[j].id <= n0 /\ s[j].id \in Nat
        BY <1>1, <1>2, <2>1, RowClosed
    <2> HIDE DEF msgs, id, n, s
    <2>3. \A j \in DOMAIN s : s[j].id # id
        BY <1>1, <2>1, <2>2
    <2>4. msgs \in Seq(RowType) /\ MsgsOK(msgs, id, n) /\ RowText(msgs, id) \subseteq of
        <3> DEFINE z == 0
        <3>1. /\ s \in Seq(RowType) /\ z \in Nat /\ n0 \in Nat /\ MsgsOK(s, z, n0)
              /\ id \in Nat /\ id # 0 /\ n \in Nat /\ n0 <= n /\ id <= n
              /\ \A j \in DOMAIN s : ~s[j].pending
              /\ of \in SUBSET Turn /\ tool \in BOOLEAN /\ Single(of)
            BY <1>1, <1>5, <2>2
        <3> HIDE DEF z, d, T
        <3>2. \A t : t = Append(s, Bubble(id, of, tool)) =>
                 t \in Seq(RowType) /\ MsgsOK(t, id, n) /\ RowText(t, id) \subseteq of
            BY <2>3, <3>1, Opened
        <3> QED
            BY <2>1, <3>2
    <2> QED
        BY <2>4
<1>9. ASSUME i # 0, ~split
      PROVE  Good
    <2>1. id = st /\ n = n0 /\ st # 0
        BY <1>1, <1>2, <1>9
    <2>2. msgs = [ms EXCEPT ![i].of = @ \cup of, ![i].tool = @ \/ tool, ![i].pending = TRUE]
        BY <1>9
    <2>3. Single(of \cup ms[i].of) /\ T = of \cup ms[i].of
        BY <1>2, <1>9
    <2> HIDE DEF msgs, id, n, T
    <2>4. msgs \in Seq(RowType) /\ MsgsOK(msgs, st, n0)
          /\ RowText(msgs, st) \subseteq of \cup ms[i].of
        <3> DEFINE m == ms[i]
                   r == Extended(m, of, tool)
                   S == of \cup m.of
        <3>1. msgs = [ms EXCEPT ![i] = r]
            BY <2>2 DEF Extended
        <3>2. /\ ms \in Seq(RowType) /\ st \in Nat /\ n0 \in Nat /\ MsgsOK(ms, st, n0)
              /\ i \in DOMAIN ms /\ m \in RowType /\ m.id = st /\ st # 0
              /\ \A j \in DOMAIN ms : j # i => ~ms[j].pending /\ ms[j].id # st
              /\ Single(S) /\ m.of \subseteq S
            BY <1>1, <1>2, <1>9, <2>3
        <3> HIDE DEF r, d
        <3>3. r \in RowType /\ r.id = st /\ r.of = S /\ r.role = m.role
            <4> HIDE DEF m
            <4>1. /\ r \in RowType /\ r.id = m.id /\ r.of = m.of \cup of /\ r.role = m.role
                BY <3>2, ExtendedOK DEF r
            <4>2. m.of \cup of = of \cup m.of
                OBVIOUS
            <4> QED
                BY <3>2, <4>1, <4>2
        <3> HIDE DEF S
        <3>4. LET t == [ms EXCEPT ![i] = r]
              IN  t \in Seq(RowType) /\ MsgsOK(t, st, n0) /\ RowText(t, st) \subseteq S
            BY <3>2, <3>3, RowExtended
        <3> QED
            BY <3>1, <3>4 DEF S
    <2> QED
        BY <2>1, <2>3, <2>4
<1>10. Good
    BY <1>7, <1>8, <1>9
<1> HIDE DEF d, msgs, id, n
<1>11. /\ d \in ChatRec /\ d.msgs = msgs /\ d.stream = id /\ d.n = n
       /\ d.busy = c.busy /\ ~d.awaiting /\ ~d.interrupted
    BY <1>1, <1>4, <1>5, <1>10 DEF ChatRec
<1> QED
    BY <1>5, <1>10, <1>11 DEF ChatOK, TextOf, d, n0

(* mutateStream writes the text that waits into the row of the stream only  *)
LEMMA MutateOK ==
    ASSUME NEW c, ChatOK(c), NEW of \in SUBSET Turn, NEW tool \in BOOLEAN,
           Single(of \cup TextOf(c))
    PROVE  LET d == Mutate(c, of, tool)
           IN  /\ ChatOK(d) /\ TextOf(d) \subseteq of \cup TextOf(c)
               /\ d.stream # 0 => c.stream # 0 \/ of # {} \/ tool
               /\ d.busy = c.busy /\ (d.awaiting => c.awaiting) /\ c.n <= d.n
               /\ d.interrupted = c.interrupted /\ (c.interrupted => d = c)
<1>1. CASE c.interrupted \/ (of = {} /\ ~tool)
    <2>1. Mutate(c, of, tool) = c
        BY <1>1 DEF Mutate, Patched
    <2>2. c.n \in Nat
        BY ChatFields DEF ChatOK
    <2> QED
        BY <2>1, <2>2
<1>2. CASE ~(c.interrupted \/ (of = {} /\ ~tool))
    <2>1. Mutate(c, of, tool) = Patched(c, of, tool)
        BY <1>2 DEF Mutate
    <2>2. c.interrupted \in BOOLEAN /\ ~c.interrupted
        BY <1>2, ChatFields DEF ChatOK
    <2>3. Patched(c, of, tool).interrupted \in BOOLEAN
        BY <1>2, PatchedOK, ChatFields DEF ChatOK
    <2> QED
        BY <1>2, <2>1, <2>2, <2>3, PatchedOK
<1> QED
    BY <1>1, <1>2

(* The final text takes the place of the live row's, or of the last        *)
(* answer's, or comes as a row of its own; a prompt's row stays            *)
LEMMA CompletedOK ==
    ASSUME NEW c, ChatOK(c), NEW final \in SUBSET Turn, Single(final)
    PROVE  LET d == Completed(c, final)
           IN  /\ ChatOK(d) /\ d.stream = 0 /\ TextOf(d) = {} /\ ~d.busy /\ ~d.awaiting
               /\ d.n = c.n /\ d.interrupted = c.interrupted
               /\ c.interrupted => d.msgs = c.msgs
<1> DEFINE i == StreamRow(c)
           ms == c.msgs
           st == c.stream
           n == c.n
           last == LastAnswer(ms)
           done(m) == [m EXCEPT !.of = final, !.pending = FALSE]
           whole(m) == m.tool /\ m.of = {} /\ final # {}
           same == last # 0 /\ (\/ ms[last].pending
                                \/ final # {} /\ ms[last].of = final)
           over(m) == [done(m) EXCEPT !.id = IF whole(m) THEN 0 ELSE m.id]
           msgs == CASE i # 0 -> [ms EXCEPT ![i] = over(@)]
                     [] i = 0 /\ same -> [ms EXCEPT ![last] = done(@)]
                     [] i = 0 /\ ~same /\ final # {} -> Append(ms, Answer(final))
                     [] OTHER -> ms
           s == Settled(c)
           d == Completed(c, final)
<1>1. /\ ms \in Seq(RowType) /\ st \in Nat /\ n \in Nat /\ st <= n
      /\ c \in ChatRec /\ MsgsOK(ms, st, n) /\ (c.interrupted => st = 0)
    BY OnlyStreamRow DEF ChatOK
<1>2. i # 0 => /\ i \in DOMAIN ms /\ st # 0 /\ ms[i].id = st
               /\ \A j \in DOMAIN ms : j # i => ~ms[j].pending
    BY OnlyStreamRow
<1>3. i = 0 => \A j \in DOMAIN ms : ~ms[j].pending
    BY OnlyStreamRow
<1>4. d = IF c.interrupted THEN s ELSE [s EXCEPT !.msgs = msgs]
    BY DEF Completed, LastAnswer
<1>5. /\ s \in ChatRec /\ s.stream = 0 /\ s.n = n /\ s.msgs = ms /\ ~s.busy /\ ~s.awaiting
      /\ s.interrupted = c.interrupted
    BY <1>1, SettledOK
<1>6. ASSUME NEW m \in RowType
      PROVE  /\ done(m) \in RowType /\ ~done(m).pending /\ done(m).id = m.id
             /\ over(m) \in RowType /\ ~over(m).pending /\ over(m).id \in {0, m.id}
             /\ m.role # "user" => RowOK(done(m)) /\ RowOK(over(m))
    <2> DEFINE a == done(m)
               b == over(m)
    <2>1. /\ a \in RowType /\ ~a.pending /\ a.id = m.id /\ a.of = final /\ a.role = m.role
        BY DEF RowType, Turn
    <2> HIDE DEF a
    <2>2. \E id \in {0, m.id} : b = [a EXCEPT !.id = id]
        BY DEF a
    <2> HIDE DEF b
    <2>3. m.id \in Nat
        BY RowFields
    <2>4. /\ b \in RowType /\ ~b.pending /\ b.id \in {0, m.id} /\ b.of = final
          /\ b.role = m.role
        BY <2>1, <2>2, <2>3 DEF RowType
    <2>5. m.role # "user" => RowOK(a) /\ RowOK(b)
        BY <2>1, <2>4 DEF RowOK
    <2> QED
        BY <2>1, <2>4, <2>5 DEF a, b
<1>7. last \in 0..Len(ms) /\ (last # 0 => ms[last].role = "assistant")
    BY <1>1, LastAnswerOK
<1>8. /\ Answer(final) \in RowType /\ RowOK(Answer(final)) /\ Answer(final).id = 0
      /\ ~Answer(final).pending
    <2>1. Answer(final)
            = [role |-> "assistant", id |-> 0, of |-> final, saved |-> FALSE, tool |-> FALSE,
               pending |-> FALSE, error |-> FALSE]
        BY DEF Answer, Row
    <2>2. Answer(final) \in RowType
        BY <2>1 DEF RowType, Turn
    <2> QED
        BY <2>1, <2>2 DEF RowOK
<1>9. st = 0 => i = 0
    BY <1>2
<1> HIDE DEF i, ms, st, n, last, s, d
<1>10. ASSUME \A j \in DOMAIN ms : ~ms[j].pending
       PROVE  MsgsOK(ms, 0, n)
    BY <1>1, <1>10 DEF MsgsOK
<1>11. ASSUME i # 0
       PROVE  msgs \in Seq(RowType) /\ MsgsOK(msgs, 0, n)
    <2> DEFINE r == over(ms[i])
    <2>1. ms[i] \in RowType /\ ms[i].role # "user"
        BY SMTT(30), <1>1, <1>2, <1>11 DEF MsgsOK, RowOK
    <2>2. r \in RowType /\ ~r.pending /\ r.id \in {0, ms[i].id} /\ RowOK(r)
        BY <1>6, <2>1
    <2>3. msgs = [ms EXCEPT ![i] = r]
        BY <1>11
    <2> HIDE DEF r, msgs, over, done
    <2>4. i \in DOMAIN ms /\ \A j \in DOMAIN ms : j # i => ~ms[j].pending
        BY <1>2, <1>11
    <2>5. LET t == [ms EXCEPT ![i] = r] IN t \in Seq(RowType) /\ MsgsOK(t, 0, n)
        BY <1>1, <2>2, <2>4, Ended
    <2> QED
        BY <2>3, <2>5
<1>12. ASSUME i = 0, same
       PROVE  msgs \in Seq(RowType) /\ MsgsOK(msgs, 0, n)
    <2> DEFINE r == done(ms[last])
    <2>1. last \in DOMAIN ms /\ ms[last] \in RowType /\ ms[last].role # "user"
        BY <1>1, <1>7, <1>12
    <2>2. r \in RowType /\ ~r.pending /\ r.id \in {0, ms[last].id} /\ RowOK(r)
        BY <1>6, <2>1
    <2>3. msgs = [ms EXCEPT ![last] = r]
        BY <1>12
    <2> HIDE DEF r, msgs, over, done
    <2>4. \A j \in DOMAIN ms : j # last => ~ms[j].pending
        BY <1>3, <1>12
    <2>5. LET t == [ms EXCEPT ![last] = r] IN t \in Seq(RowType) /\ MsgsOK(t, 0, n)
        BY <1>1, <2>1, <2>2, <2>4, Ended
    <2> QED
        BY <2>3, <2>5
<1>13. ASSUME i = 0, ~same
       PROVE  msgs \in Seq(RowType) /\ MsgsOK(msgs, 0, n)
    <2>1. \A j \in DOMAIN ms : ~ms[j].pending
        BY <1>3, <1>13
    <2>2. MsgsOK(ms, 0, n)
        BY <1>10, <2>1
    <2>3. msgs = ms \/ msgs = Append(ms, Answer(final))
        BY <1>13
    <2> DEFINE b == Answer(final)
               z == 0
    <2>4. /\ z \in Nat /\ MsgsOK(ms, z, n) /\ n <= n /\ b.id <= n
          /\ (b.pending => z # 0 /\ b.id = z) /\ b \in RowType /\ RowOK(b)
          /\ (b.id # 0 => \A j \in DOMAIN ms : ms[j].id # b.id)
          /\ \A j \in DOMAIN ms : ms[j].pending => z # 0 /\ ms[j].id = z
        BY <1>1, <1>8, <2>1, <2>2
    <2> HIDE DEF b, z, msgs
    <2>5. Append(ms, b) \in Seq(RowType) /\ MsgsOK(Append(ms, b), z, n)
        BY <1>1, <2>4, Appended
    <2> QED
        BY <1>1, <2>2, <2>3, <2>5 DEF b, z
<1>14. msgs \in Seq(RowType) /\ MsgsOK(msgs, 0, n)
    BY <1>11, <1>12, <1>13
<1> HIDE DEF msgs
<1>15. CASE c.interrupted
    <2>1. d = s /\ MsgsOK(ms, 0, n)
        BY <1>1, <1>3, <1>4, <1>9, <1>10, <1>15
    <2>2. ChatOK(d)
        BY <1>1, <1>5, <2>1 DEF ChatOK
    <2> QED
        BY <1>5, <2>1, <2>2, NoText DEF d, ms, n
<1>16. CASE ~c.interrupted
    <2>1. /\ d \in ChatRec /\ d.stream = 0 /\ d.n = n /\ d.msgs = msgs /\ ~d.busy
          /\ ~d.awaiting /\ d.interrupted = c.interrupted
        BY <1>4, <1>5, <1>14, <1>16 DEF ChatRec
    <2>2. ChatOK(d)
        BY <1>1, <1>14, <2>1 DEF ChatOK
    <2> QED
        BY <1>16, <2>1, <2>2, NoText DEF d, n
<1> QED
    BY <1>15, <1>16

(* A row without text is added behind the others, with a new id            *)
AddsMark(c, d) ==
    \E e \in RowType : /\ d.msgs = Append(c.msgs, e) /\ e.role = "assistant"
                       /\ e.of = {} /\ c.n < e.id

(* A failed turn marks the live row, or a row of its own                   *)
LEMMA FailedOK ==
    ASSUME NEW c, ChatOK(c)
    PROVE  LET d == Failed(c)
           IN  /\ ChatOK(d) /\ d.stream = 0 /\ TextOf(d) = {} /\ ~d.busy /\ ~d.awaiting
               /\ c.n <= d.n /\ d.interrupted = c.interrupted
               /\ c.stream = 0 => AddsMark(c, d)
<1> DEFINE i == StreamRow(c)
           ms == c.msgs
           st == c.stream
           n0 == c.n
           id == IF st # 0 THEN st ELSE n0 + 1
           n == IF id > n0 THEN id ELSE n0
           new == Row("assistant", id, {})
           rows == IF i # 0 THEN ms ELSE Append(ms, new)
           at == IF i # 0 THEN i ELSE Len(rows)
           msgs == [rows EXCEPT ![at].pending = FALSE, ![at].error = TRUE]
           s == Settled(c)
           d == Failed(c)
           mark(m) == [m EXCEPT !.pending = FALSE, !.error = TRUE]
<1>1. /\ ms \in Seq(RowType) /\ st \in Nat /\ n0 \in Nat /\ st <= n0
      /\ c \in ChatRec /\ MsgsOK(ms, st, n0)
    BY OnlyStreamRow DEF ChatOK
<1>2. i # 0 => /\ i \in DOMAIN ms /\ st # 0
               /\ \A j \in DOMAIN ms : j # i => ~ms[j].pending
    BY OnlyStreamRow
<1>3. i = 0 => /\ \A j \in DOMAIN ms : ~ms[j].pending
               /\ st # 0 => \A j \in DOMAIN ms : ms[j].id # st
    BY OnlyStreamRow
<1>4. d = [s EXCEPT !.saw = TRUE, !.n = IF id > s.n THEN id ELSE s.n, !.msgs = msgs]
    BY DEF Failed
<1>5. /\ s \in ChatRec /\ s.stream = 0 /\ s.n = n0 /\ ~s.busy /\ ~s.awaiting
      /\ s.interrupted = c.interrupted
    BY <1>1, SettledOK
<1>6. id \in Nat /\ id # 0 /\ n \in Nat /\ n0 <= n /\ id <= n
    BY <1>1
<1>7. ASSUME NEW m \in RowType
      PROVE  /\ mark(m) \in RowType /\ ~mark(m).pending /\ mark(m).id = m.id
             /\ mark(m).of = m.of /\ mark(m).role = m.role
    BY DEF RowType
<1> HIDE DEF i, ms, st, n0, s, d
<1>8. ASSUME i # 0
      PROVE  msgs \in Seq(RowType) /\ MsgsOK(msgs, 0, n)
    <2> DEFINE r == mark(ms[i])
    <2>1. ms[i] \in RowType /\ RowOK(ms[i]) /\ i \in DOMAIN ms
        BY <1>1, <1>2, <1>8 DEF MsgsOK
    <2>2. /\ r \in RowType /\ ~r.pending /\ r.id = ms[i].id /\ r.of = ms[i].of
          /\ r.role = ms[i].role
        BY <1>7, <2>1
    <2>3. msgs = [ms EXCEPT ![i] = r] /\ n = n0
        <3>1. rows = ms /\ at = i /\ id = st
            BY <1>2, <1>8
        <3>2. n = n0
            BY <1>1, <3>1
        <3> HIDE DEF rows, at
        <3>3. msgs = [rows EXCEPT ![at] = mark(rows[at])]
            OBVIOUS
        <3> HIDE DEF mark, msgs
        <3> QED
            BY <3>1, <3>2, <3>3
    <2> HIDE DEF r, msgs, mark, n
    <2>4. RowOK(r) /\ r.id \in {0, ms[i].id}
        BY <2>1, <2>2 DEF RowOK
    <2>5. \A j \in DOMAIN ms : j # i => ~ms[j].pending
        BY <1>2, <1>8
    <2>6. LET t == [ms EXCEPT ![i] = r] IN t \in Seq(RowType) /\ MsgsOK(t, 0, n0)
        BY <1>1, <2>1, <2>2, <2>4, <2>5, Ended
    <2> QED
        BY <2>3, <2>6
<1>9. ASSUME i = 0
      PROVE  /\ msgs \in Seq(RowType) /\ MsgsOK(msgs, 0, n)
             /\ \E e \in RowType : /\ msgs = Append(ms, e) /\ e.role = "assistant"
                                   /\ e.of = {} /\ e.id = id
    <2> DEFINE z == 0
               r == mark(new)
    <2>1. new = [role |-> "assistant", id |-> id, of |-> {}, saved |-> FALSE, tool |-> FALSE,
                 pending |-> FALSE, error |-> FALSE]
        BY DEF Row
    <2>2. new \in RowType /\ new.id = id /\ new.of = {} /\ new.role = "assistant"
        <3>1. {} \in SUBSET Turn /\ FALSE \in BOOLEAN
            OBVIOUS
        <3> HIDE DEF id
        <3>2. new \in RowType
            BY <1>6, <3>1, RowIs DEF Row
        <3> QED
            BY <2>1, <3>2
    <2>3. r \in RowType /\ ~r.pending /\ r.id = id /\ r.of = {} /\ r.role = "assistant"
        <3> HIDE DEF new, mark, id
        <3> QED
            BY <1>7, <2>2
    <2>4. RowOK(r)
        BY <2>3 DEF RowOK, Single
    <2>5. \A j \in DOMAIN ms : ~ms[j].pending /\ ms[j].id # id
        BY <1>1, <1>3, <1>9, RowFields DEF MsgsOK
    <2>6. msgs = Append(ms, r)
        <3>1. rows = Append(ms, new) /\ at = Len(rows)
            BY <1>9
        <3> HIDE DEF new, rows, at
        <3>2. msgs = [rows EXCEPT ![at] = mark(rows[at])]
            OBVIOUS
        <3> HIDE DEF mark, msgs
        <3>3. /\ rows \in Seq(RowType) /\ at \in DOMAIN rows /\ at = Len(ms) + 1
              /\ Len(rows) = Len(ms) + 1 /\ rows[at] = new
              /\ \A j \in 1..Len(ms) : rows[j] = ms[j]
            BY <1>1, <2>2, <3>1
        <3>4. msgs = [rows EXCEPT ![at] = r]
            BY <3>2, <3>3
        <3>5. Append(ms, r) \in Seq(RowType) /\ Len(Append(ms, r)) = Len(ms) + 1
              /\ Append(ms, r)[at] = r /\ \A j \in 1..Len(ms) : Append(ms, r)[j] = ms[j]
            BY <1>1, <2>3, <3>3
        <3> HIDE DEF r
        <3>6. msgs \in Seq(RowType) /\ Len(msgs) = Len(ms) + 1 /\ Len(ms) \in Nat
              /\ \A j \in 1..(Len(ms) + 1) : msgs[j] = Append(ms, r)[j]
            BY <1>1, <2>3, <3>3, <3>4, <3>5
        <3> QED
            BY <3>5, <3>6, SeqEqual
    <2>7. /\ z \in Nat /\ (r.pending => z # 0 /\ r.id = z) /\ r.id <= n
          /\ (r.id # 0 => \A j \in DOMAIN ms : ms[j].id # r.id)
          /\ \A j \in DOMAIN ms : ms[j].pending => z # 0 /\ ms[j].id = z
        BY <1>6, <2>3, <2>5
    <2> HIDE DEF r, z, n, id, mark, new, rows, at, msgs
    <2>8. Append(ms, r) \in Seq(RowType) /\ MsgsOK(Append(ms, r), z, n)
        <3>1. ms \in Seq(RowType) /\ st \in Nat /\ n0 \in Nat /\ n \in Nat /\ MsgsOK(ms, st, n0)
              /\ r \in RowType /\ n0 <= n
            BY <1>1, <1>6, <2>3, <2>4
        <3> QED
            BY <2>4, <2>7, <3>1, Appended
    <2> QED
        BY <2>3, <2>6, <2>8 DEF z
<1>10. st = 0 => i = 0 /\ id = n0 + 1 /\ n0 < id
    BY <1>1, <1>2
<1>11. msgs \in Seq(RowType) /\ MsgsOK(msgs, 0, n)
    BY <1>8, <1>9, Zenon
<1> HIDE DEF msgs, id
<1>12. d \in ChatRec /\ d.stream = 0 /\ d.n = n /\ d.msgs = msgs /\ ~d.busy /\ ~d.awaiting
       /\ d.interrupted = c.interrupted
    BY <1>4, <1>5, <1>6, <1>11 DEF ChatRec
<1>13. ChatOK(d)
    BY <1>6, <1>11, <1>12 DEF ChatOK
<1>14. ASSUME st = 0
       PROVE  AddsMark(c, d)
    <2>1. PICK e \in RowType :
             msgs = Append(ms, e) /\ e.role = "assistant" /\ e.of = {} /\ e.id = id
        BY <1>9, <1>10, <1>14
    <2>2. d.msgs = Append(c.msgs, e) /\ c.n < e.id
        BY <1>10, <1>12, <1>14, <2>1 DEF ms, n0
    <2> QED
        BY <2>1, <2>2 DEF AddsMark
<1> QED
    BY <1>6, <1>12, <1>13, <1>14, NoText DEF d, st, n0

-----------------------------------------------------------------------------
(* Frames that are received or sent                                        *)
LEMMA TailPlaces ==
    ASSUME NEW fs \in Seq(FrameRec), fs # <<>>
    PROVE  /\ Tail(fs) \in Seq(FrameRec) /\ Len(fs) \in Nat /\ Len(fs) # 0
           /\ Len(Tail(fs)) = Len(fs) - 1 /\ Head(fs) = fs[1] /\ 1 \in DOMAIN fs
           /\ Head(fs) \in FrameRec
           /\ \A j \in 1..Len(Tail(fs)) : Tail(fs)[j] = fs[j + 1]
OBVIOUS

(* The places behind a received frame are one less                         *)
LEMMA TailClosed ==
    ASSUME NEW fs \in Seq(FrameRec), fs # <<>>, NEW i \in Nat, NEW j \in Nat,
           j <= Len(fs), ClosedBefore(fs, i, j + 1), i # 0 \/ ~Closes(Head(fs))
    PROVE  ClosedBefore(Tail(fs), IF i = 0 THEN 0 ELSE i - 1, j)
<1>1. PICK k \in (i + 1)..j : Closes(fs[k])
    BY DEF ClosedBefore
<1>2. k # 1
    <2>1. CASE i = 0
        BY <1>1, <2>1, TailPlaces
    <2>2. CASE i # 0
        BY <1>1, <2>2
    <2> QED
        BY <2>1, <2>2
<1>3. k - 1 \in 1..Len(Tail(fs)) /\ Tail(fs)[k - 1] = fs[k]
    BY <1>1, <1>2, TailPlaces
<1>4. k - 1 \in ((IF i = 0 THEN 0 ELSE i - 1) + 1)..(j - 1)
    BY <1>1, <1>2
<1> QED
    BY <1>1, <1>3, <1>4 DEF ClosedBefore

(* A row that ends in time still does after a frame is received             *)
LEMMA TailBounded ==
    ASSUME NEW fs \in Seq(FrameRec), fs # <<>>, NEW r, NEW T, NEW i \in 0..Len(fs),
           i # 0 \/ ~Closes(Head(fs)), Bounded(fs, r, i, T)
    PROVE  Bounded(Tail(fs), r, IF i = 0 THEN 0 ELSE i - 1, T)
<1> DEFINE gs == Tail(fs)
           h == IF i = 0 THEN 0 ELSE i - 1
<1>1. /\ Len(fs) \in Nat /\ Len(gs) = Len(fs) - 1 /\ i \in Nat /\ Len(fs) # 0
      /\ \A j \in 1..Len(gs) : gs[j] = fs[j + 1]
    BY TailPlaces
<1>2. ASSUME NEW j \in (h + 1)..Len(gs),
             \/ gs[j].type = "idle"
             \/ Opens(gs[j]) /\ T # {} /\ gs[j].turn \notin T
      PROVE  ClosedBefore(gs, h, j)
    <2>1. j \in Nat /\ j <= Len(fs) /\ j + 1 \in (i + 1)..Len(fs) /\ gs[j] = fs[j + 1]
        BY <1>1
    <2>2. ClosedBefore(fs, i, j + 1)
        BY <1>2, <2>1 DEF Bounded
    <2> QED
        BY <1>1, <2>1, <2>2, TailClosed
<1>3. ClosedBefore(gs, h, Len(gs) + 1) \/ (~Fresh(r) /\ T \subseteq {r.turn})
    <2>1. CASE ClosedBefore(fs, i, Len(fs) + 1)
        <3>1. ClosedBefore(gs, h, Len(fs))
            BY <1>1, <2>1, TailClosed
        <3> QED
            BY <1>1, <3>1
    <2>2. CASE ~Fresh(r) /\ T \subseteq {r.turn}
        BY <2>2
    <2> QED
        BY <2>1, <2>2 DEF Bounded
<1> QED
    BY <1>2, <1>3 DEF Bounded

(* With no row open before it, a frame is neither the end of a turn nor of *)
(* another turn                                                            *)
LEMMA HeadBounded ==
    ASSUME NEW fs \in Seq(FrameRec), fs # <<>>, NEW r, NEW T, Bounded(fs, r, 0, T)
    PROVE  /\ Head(fs).type # "idle"
           /\ Opens(Head(fs)) /\ T # {} => Head(fs).turn \in T
<1>1. 1 \in (0 + 1)..Len(fs) /\ Head(fs) = fs[1]
    BY TailPlaces
<1>2. ~ClosedBefore(fs, 0, 1)
    BY DEF ClosedBefore
<1> QED
    BY <1>1, <1>2 DEF Bounded

(* A row that ends in time for some turns does so for fewer                 *)
LEMMA SubBounded ==
    ASSUME NEW fs, NEW r, NEW i, NEW T, Single(T), NEW S \in SUBSET T, Bounded(fs, r, i, T)
    PROVE  Bounded(fs, r, i, S)
<1>1. S = {} \/ S = T
    BY DEF Single
<1>2. CASE S = {}
    BY <1>2 DEF Bounded
<1>3. CASE S = T
    BY <1>3
<1> QED
    BY <1>1, <1>2, <1>3

(* Frames es are sent behind fs                                            *)
LEMMA SentPlaces ==
    ASSUME NEW fs \in Seq(FrameRec), NEW es \in Seq(FrameRec)
    PROVE  /\ fs \o es \in Seq(FrameRec) /\ Len(fs) \in Nat /\ Len(es) \in Nat
           /\ Len(fs \o es) = Len(fs) + Len(es)
           /\ \A j \in 1..Len(fs) : (fs \o es)[j] = fs[j]
           /\ \A j \in 1..Len(es) : (fs \o es)[Len(fs) + j] = es[j]
OBVIOUS

(* A row that ends in time still does after frames are sent                 *)
LEMMA SentBounded ==
    ASSUME NEW fs \in Seq(FrameRec), NEW es \in Seq(FrameRec), NEW r, NEW r2, NEW T,
           NEW i \in 0..Len(fs), Bounded(fs, r, i, T),
           ~Fresh(r) /\ T \subseteq {r.turn} => Bounded(es, r2, 0, T)
    PROVE  Bounded(fs \o es, r2, i, T)
<1> DEFINE gs == fs \o es
           n == Len(fs)
<1>1. /\ n \in Nat /\ Len(es) \in Nat /\ Len(gs) = n + Len(es) /\ i \in Nat /\ i <= n
      /\ \A j \in 1..n : gs[j] = fs[j]
      /\ \A j \in 1..Len(es) : gs[n + j] = es[j]
    BY SentPlaces
<1> HIDE DEF gs, n
<1>2. ASSUME NEW j \in 1..(n + 1), ClosedBefore(fs, i, j), NEW l \in Nat, j <= l
      PROVE  ClosedBefore(gs, i, l)
    BY <1>1, <1>2 DEF ClosedBefore
<1>3. ASSUME NEW j \in Nat, ClosedBefore(es, 0, j), j <= Len(es) + 1
      PROVE  ClosedBefore(gs, i, n + j)
    <2>1. PICK k \in 1..(j - 1) : Closes(es[k])
        BY <1>3 DEF ClosedBefore
    <2>2. n + k \in (i + 1)..((n + j) - 1) /\ gs[n + k] = es[k]
        BY <1>1, <1>3, <2>1
    <2> QED
        BY <2>1, <2>2 DEF ClosedBefore
<1>4. ASSUME NEW j \in (i + 1)..Len(gs),
             \/ gs[j].type = "idle"
             \/ Opens(gs[j]) /\ T # {} /\ gs[j].turn \notin T
      PROVE  ClosedBefore(gs, i, j)
    <2>1. CASE j <= n
        <3>1. ClosedBefore(fs, i, j)
            BY <1>1, <1>4, <2>1 DEF Bounded, n
        <3> QED
            BY <1>1, <1>2, <2>1, <3>1
    <2>2. CASE ~(j <= n) /\ ClosedBefore(fs, i, n + 1)
        BY <1>1, <1>2, <2>2
    <2>3. CASE ~(j <= n) /\ ~ClosedBefore(fs, i, n + 1)
        <3>1. Bounded(es, r2, 0, T)
            BY <2>3 DEF Bounded, n
        <3>2. j - n \in (0 + 1)..Len(es) /\ gs[j] = es[j - n] /\ n + (j - n) = j
            BY <1>1, <2>3
        <3>3. ClosedBefore(es, 0, j - n)
            BY <1>4, <3>1, <3>2 DEF Bounded
        <3>4. j - n \in Nat /\ j - n <= Len(es) + 1
            BY <1>1, <3>2
        <3> QED
            BY <1>3, <3>2, <3>3, <3>4
    <2> QED
        BY <2>1, <2>2, <2>3
<1>5. ClosedBefore(gs, i, Len(gs) + 1) \/ (~Fresh(r2) /\ T \subseteq {r2.turn})
    <2>1. CASE ClosedBefore(fs, i, n + 1)
        BY <1>1, <1>2, <2>1
    <2>2. CASE ~ClosedBefore(fs, i, n + 1)
        <3>1. Bounded(es, r2, 0, T)
            BY <2>2 DEF Bounded, n
        <3>2. ClosedBefore(es, 0, Len(es) + 1) => ClosedBefore(gs, i, Len(gs) + 1)
            <4>1. n + (Len(es) + 1) = Len(gs) + 1 /\ Len(es) + 1 \in Nat
                BY <1>1
            <4> QED
                BY <1>3, <4>1
        <3> QED
            BY <3>1, <3>2 DEF Bounded
    <2> QED
        BY <2>1, <2>2
<1> QED
    BY <1>4, <1>5 DEF Bounded, gs

(* A row opened by a new frame ends in time if it does among the new ones   *)
LEMMA NewBounded ==
    ASSUME NEW fs \in Seq(FrameRec), NEW es \in Seq(FrameRec), NEW r, NEW T,
           NEW k \in 1..Len(es), Bounded(es, r, k, T)
    PROVE  Bounded(fs \o es, r, Len(fs) + k, T)
<1> DEFINE gs == fs \o es
           n == Len(fs)
<1>1. /\ n \in Nat /\ Len(es) \in Nat /\ Len(gs) = n + Len(es)
      /\ \A j \in 1..Len(es) : gs[n + j] = es[j]
    BY SentPlaces
<1> HIDE DEF gs, n
<1>2. ASSUME NEW j \in Nat, ClosedBefore(es, k, j), j <= Len(es) + 1
      PROVE  ClosedBefore(gs, n + k, n + j)
    <2>1. PICK l \in (k + 1)..(j - 1) : Closes(es[l])
        BY <1>2 DEF ClosedBefore
    <2>2. n + l \in ((n + k) + 1)..((n + j) - 1) /\ gs[n + l] = es[l]
        BY <1>1, <1>2, <2>1
    <2> QED
        BY <2>1, <2>2 DEF ClosedBefore
<1>3. ASSUME NEW j \in ((n + k) + 1)..Len(gs),
             \/ gs[j].type = "idle"
             \/ Opens(gs[j]) /\ T # {} /\ gs[j].turn \notin T
      PROVE  ClosedBefore(gs, n + k, j)
    <2>1. /\ j - n \in (k + 1)..Len(es) /\ gs[j] = es[j - n] /\ n + (j - n) = j
          /\ j - n \in Nat /\ j - n <= Len(es) + 1
        BY <1>1
    <2>2. ClosedBefore(es, k, j - n)
        BY <1>3, <2>1 DEF Bounded
    <2> QED
        BY <1>2, <2>1, <2>2
<1>4. ClosedBefore(gs, n + k, Len(gs) + 1) \/ (~Fresh(r) /\ T \subseteq {r.turn})
    <2>1. ClosedBefore(es, k, Len(es) + 1) => ClosedBefore(gs, n + k, Len(gs) + 1)
        <3>1. n + (Len(es) + 1) = Len(gs) + 1 /\ Len(es) + 1 \in Nat
            BY <1>1
        <3> QED
            BY <1>2, <3>1
    <2> QED
        BY <2>1 DEF Bounded
<1> QED
    BY <1>3, <1>4 DEF Bounded, gs, n

(* The end of a turn stays ahead                                           *)
LEMMA TailIdle ==
    ASSUME NEW fs \in Seq(FrameRec), fs # <<>>, NEW r, NEW i \in 0..Len(fs),
           i # 0 \/ Head(fs).type # "idle", IdleAhead(fs, r, i)
    PROVE  IdleAhead(Tail(fs), r, IF i = 0 THEN 0 ELSE i - 1)
<1>1. CASE r.turn # 0
    BY <1>1 DEF IdleAhead
<1>2. CASE r.turn = 0
    <2>1. PICK j \in (i + 1)..Len(fs) : fs[j].type = "idle"
        BY <1>2 DEF IdleAhead
    <2>2. j # 1
        BY <2>1, TailPlaces
    <2>3. /\ j - 1 \in ((IF i = 0 THEN 0 ELSE i - 1) + 1)..Len(Tail(fs))
          /\ Tail(fs)[j - 1] = fs[j]
        BY <2>1, <2>2, TailPlaces
    <2> QED
        BY <2>1, <2>3 DEF IdleAhead
<1> QED
    BY <1>1, <1>2

(* The end of a turn that is ahead of a place stays ahead when more is sent *)
LEMMA SentIdle ==
    ASSUME NEW fs \in Seq(FrameRec), NEW es \in Seq(FrameRec), NEW r, NEW r2,
           NEW i \in 0..Len(fs), IdleAhead(fs, r, i), r.turn # 0 => IdleAhead(es, r2, 0)
    PROVE  IdleAhead(fs \o es, r2, i)
<1> DEFINE gs == fs \o es
           n == Len(fs)
<1>1. /\ n \in Nat /\ Len(es) \in Nat /\ Len(gs) = n + Len(es) /\ i \in Nat /\ i <= n
      /\ \A j \in 1..n : gs[j] = fs[j]
      /\ \A j \in 1..Len(es) : gs[n + j] = es[j]
    BY SentPlaces
<1> HIDE DEF gs, n
<1>2. CASE r.turn # 0
    <2>1. CASE r2.turn # 0
        BY <2>1 DEF IdleAhead
    <2>2. CASE r2.turn = 0
        <3>1. PICK j \in 1..Len(es) : es[j].type = "idle"
            BY <1>2, <2>2 DEF IdleAhead
        <3>2. n + j \in (i + 1)..Len(gs) /\ gs[n + j] = es[j]
            BY <1>1
        <3> QED
            BY <3>1, <3>2 DEF IdleAhead, gs
    <2> QED
        BY <2>1, <2>2
<1>3. CASE r.turn = 0
    <2>1. PICK j \in (i + 1)..n : fs[j].type = "idle"
        BY <1>3 DEF IdleAhead, n
    <2>2. j \in (i + 1)..Len(gs) /\ gs[j] = fs[j]
        BY <1>1
    <2> QED
        BY <2>1, <2>2 DEF IdleAhead, gs
<1> QED
    BY <1>2, <1>3

(* The same for a place among the new frames                                *)
LEMMA NewIdle ==
    ASSUME NEW fs \in Seq(FrameRec), NEW es \in Seq(FrameRec), NEW r,
           NEW k \in 1..Len(es), IdleAhead(es, r, k)
    PROVE  IdleAhead(fs \o es, r, Len(fs) + k)
<1>1. CASE r.turn # 0
    BY <1>1 DEF IdleAhead
<1>2. CASE r.turn = 0
    <2>1. PICK j \in (k + 1)..Len(es) : es[j].type = "idle"
        BY <1>2 DEF IdleAhead
    <2>2. Len(fs) + j \in ((Len(fs) + k) + 1)..Len(fs \o es) /\ (fs \o es)[Len(fs) + j] = es[j]
        BY <2>1, SentPlaces
    <2> QED
        BY <2>1, <2>2 DEF IdleAhead
<1> QED
    BY <1>1, <1>2

(* What the server may send when its run changes from r to r2              *)
Sends(es, r, r2) ==
    /\ es \in Seq(FrameRec)
    /\ \A k \in DOMAIN es : Single(es[k].of) /\ es[k].of \subseteq {es[k].turn}
    /\ \A T : ~Fresh(r) /\ T \subseteq {r.turn} => Bounded(es, r2, 0, T)
    /\ \A k \in DOMAIN es : Opens(es[k]) => Bounded(es, r2, k, {es[k].turn})
    /\ r.turn # 0 => IdleAhead(es, r2, 0)
    /\ \A k \in DOMAIN es : es[k].type = "start" => IdleAhead(es, r2, k)

(* What Sends allows keeps the part of the invariant about frames           *)
LEMMA SentFrames ==
    ASSUME FramesOK, LiveOK, OpenersOK, BusyOK,
           NEW es, frames' = frames \o es, Sends(es, run, run'),
           UNCHANGED <<chat, deltas>>,
           inbox'.turn # 0 \/ inbox' = inbox \/ run'.turn # 0
    PROVE  FramesOK' /\ LiveOK' /\ OpenersOK' /\ BusyOK'
<1> DEFINE n == Len(frames)
<1>1. frames \in Seq(FrameRec) /\ es \in Seq(FrameRec) /\ n \in Nat /\ 0 \in 0..n
    BY DEF FramesOK, Sends
<1>2. /\ frames' \in Seq(FrameRec) /\ DOMAIN frames = 1..n /\ DOMAIN es = 1..Len(es)
      /\ \A i \in 1..n : frames'[i] = frames[i]
      /\ \A k \in 1..Len(es) : frames'[n + k] = es[k]
      /\ \A i \in DOMAIN frames' : i \in 1..n \/ \E k \in 1..Len(es) : i = n + k
    <2>1. /\ Len(frames') = n + Len(es) /\ Len(es) \in Nat /\ frames' \in Seq(FrameRec)
          /\ \A i \in 1..n : frames'[i] = frames[i]
          /\ \A k \in 1..Len(es) : frames'[n + k] = es[k]
        BY <1>1, SentPlaces
    <2>2. ASSUME NEW i \in DOMAIN frames', i \notin 1..n
          PROVE  \E k \in 1..Len(es) : i = n + k
        <3>1. i - n \in 1..Len(es) /\ i = n + (i - n)
            BY <1>1, <2>1, <2>2
        <3> QED
            BY <3>1
    <2> QED
        BY <1>1, <2>1, <2>2
<1> HIDE DEF n
<1>3. FramesOK'
    <2>1. ASSUME NEW i \in DOMAIN frames'
          PROVE  Single(frames'[i].of) /\ frames'[i].of \subseteq {frames'[i].turn}
        <3>1. CASE i \in 1..n
            BY <1>2, <3>1 DEF FramesOK
        <3>2. CASE \E k \in 1..Len(es) : i = n + k
            <4>1. PICK k \in 1..Len(es) : i = n + k
                BY <3>2
            <4> QED
                BY <1>2, <4>1 DEF Sends
        <3> QED
            BY <1>2, <3>1, <3>2
    <2> QED
        BY <1>2, <2>1 DEF FramesOK
<1>4. ASSUME NEW i \in 0..n, NEW T, Bounded(frames, run, i, T)
      PROVE  Bounded(frames', run', i, T)
    <2>1. ~Fresh(run) /\ T \subseteq {run.turn} => Bounded(es, run', 0, T)
        BY DEF Sends
    <2> QED
        BY <1>1, <1>4, <2>1, SentBounded DEF n
<1>5. LiveOK'
    <2>1. LiveText' = LiveText
        BY DEF LiveText, TextOf, RowText
    <2>2. chat.stream # 0 \/ deltas # {} => Bounded(frames', run', 0, LiveText)
        BY <1>1, <1>4 DEF LiveOK
    <2> QED
        BY <2>1, <2>2 DEF LiveOK
<1>6. OpenersOK'
    <2>1. ASSUME NEW i \in DOMAIN frames', Opens(frames'[i])
          PROVE  Bounded(frames', run', i, {frames'[i].turn})
        <3>1. CASE i \in 1..n
            <4>1. Bounded(frames, run, i, {frames[i].turn})
                BY <1>2, <2>1, <3>1 DEF OpenersOK
            <4>2. i \in 0..n
                BY <1>1, <3>1
            <4> QED
                BY <1>2, <1>4, <3>1, <4>1, <4>2
        <3>2. CASE \E k \in 1..Len(es) : i = n + k
            <4>1. PICK k \in 1..Len(es) : i = n + k
                BY <3>2
            <4>2. Bounded(es, run', k, {es[k].turn}) /\ frames'[i] = es[k]
                BY <1>2, <2>1, <4>1 DEF Sends
            <4>3. Bounded(frames \o es, run', Len(frames) + k, {es[k].turn})
                BY <1>1, <4>2, NewBounded
            <4> QED
                BY <4>1, <4>2, <4>3 DEF n
        <3> QED
            BY <1>2, <3>1, <3>2
    <2> QED
        BY <2>1 DEF OpenersOK
<1>7. ASSUME NEW i \in 0..n, IdleAhead(frames, run, i)
      PROVE  IdleAhead(frames', run', i)
    <2>1. run.turn # 0 => IdleAhead(es, run', 0)
        BY DEF Sends
    <2> QED
        BY <1>1, <1>7, <2>1, SentIdle DEF n
<1>8. BusyOK'
    <2>1. ASSUME chat.busy \/ chat.awaiting
          PROVE  inbox'.turn # 0 \/ IdleAhead(frames', run', 0)
        <3>1. CASE run'.turn # 0 \/ inbox'.turn # 0
            BY <3>1 DEF IdleAhead
        <3>2. CASE inbox' = inbox
            <4>1. inbox.turn # 0 \/ IdleAhead(frames, run, 0)
                BY <2>1 DEF BusyOK
            <4> QED
                BY <1>1, <1>7, <3>2, <4>1
        <3> QED
            BY <3>1, <3>2
    <2>2. ASSUME NEW i \in DOMAIN frames', frames'[i].type = "start"
          PROVE  IdleAhead(frames', run', i)
        <3>1. CASE i \in 1..n
            <4>1. IdleAhead(frames, run, i) /\ i \in 0..n
                BY <1>1, <1>2, <2>2, <3>1 DEF BusyOK
            <4> QED
                BY <1>7, <4>1
        <3>2. CASE \E k \in 1..Len(es) : i = n + k
            <4>1. PICK k \in 1..Len(es) : i = n + k
                BY <3>2
            <4>2. IdleAhead(es, run', k)
                BY <1>2, <2>2, <4>1 DEF Sends
            <4>3. IdleAhead(frames \o es, run', Len(frames) + k)
                BY <1>1, <4>2, NewIdle
            <4> QED
                BY <4>1, <4>3 DEF n
        <3> QED
            BY <1>2, <3>1, <3>2
    <2> QED
        BY <2>1, <2>2 DEF BusyOK
<1> QED
    BY <1>3, <1>5, <1>6, <1>8

(* What each step of the server sends                                      *)
LEMMA FrameIs ==
    ASSUME NEW type \in Kinds, NEW t \in Turn, NEW of \in SUBSET {t}
    PROVE  /\ Frame(type, t, of) \in FrameRec /\ Frame(type, t, of).type = type
           /\ Frame(type, t, of).turn = t /\ Frame(type, t, of).of = of
           /\ Single(Frame(type, t, of).of)
BY DEF Frame, FrameRec, Single

(* A turn begins: its start frame may be sent                               *)
LEMMA StartSends ==
    ASSUME NEW r, r.turn = 0, NEW r2, r2.turn # 0, NEW t \in Turn
    PROVE  Sends(<<Frame("start", t, {})>>, r, r2)
<1> DEFINE f == Frame("start", t, {})
           es == <<f>>
<1>1. f \in FrameRec /\ f.type = "start" /\ f.of = {} /\ Single(f.of)
    BY FrameIs DEF Kinds
<1> HIDE DEF f
<1>2. es \in Seq(FrameRec) /\ Len(es) = 1 /\ \A k \in DOMAIN es : es[k] = f
    BY <1>1
<1> HIDE DEF es
<1>3. Fresh(r) /\ IdleAhead(es, r2, 0) /\ \A k \in DOMAIN es : IdleAhead(es, r2, k)
    BY DEF Fresh, IdleAhead
<1> QED
    BY <1>1, <1>2, <1>3 DEF Sends, Opens, es, f

(* A text frame, a tool frame and the mark of a compaction                 *)
LEMMA RowSends ==
    ASSUME NEW r, NEW r2, r2.turn = r.turn, r.turn \in Turn, ~Fresh(r2),
           NEW type \in {"delta", "tool", "compact"}, NEW of \in SUBSET {r.turn}
    PROVE  Sends(<<Frame(type, r.turn, of)>>, r, r2)
<1> DEFINE f == Frame(type, r.turn, of)
           es == <<f>>
<1>1. f \in FrameRec /\ f.type = type /\ f.turn = r.turn /\ f.of = of /\ Single(f.of)
    BY FrameIs DEF Kinds
<1> HIDE DEF f
<1>2. es \in Seq(FrameRec) /\ Len(es) = 1 /\ DOMAIN es = 1..1 /\ es[1] = f
    BY <1>1
<1> HIDE DEF es
<1>3. r.turn # 0 /\ IdleAhead(es, r2, 0)
    BY DEF Turn, IdleAhead
<1>4. ASSUME NEW T, T \subseteq {r.turn}
      PROVE  Bounded(es, r2, 0, T)
    <2>1. T = {} \/ f.turn \in T
        BY <1>1, <1>4
    <2> QED
        BY <1>1, <1>2, <1>4, <2>1 DEF Bounded
<1>5. Bounded(es, r2, 1, {f.turn})
    BY <1>1, <1>2 DEF Bounded
<1> QED
    BY <1>1, <1>2, <1>3, <1>4, <1>5 DEF Sends, es, f

(* The end of a turn: the frame that closes its row and the report         *)
LEMMA EndSends ==
    ASSUME NEW r, r.turn \in Turn, NEW type \in {"complete", "error"},
           NEW of \in SUBSET {r.turn}
    PROVE  Sends(<<Frame(type, r.turn, of), Frame("idle", r.turn, {})>>, r, NoRun)
<1> DEFINE f == Frame(type, r.turn, of)
           g == Frame("idle", r.turn, {})
           es == <<f, g>>
<1>1. f \in FrameRec /\ f.type = type /\ f.turn = r.turn /\ f.of = of /\ Single(f.of)
    BY FrameIs DEF Kinds
<1>2. g \in FrameRec /\ g.type = "idle" /\ g.turn = r.turn /\ g.of = {} /\ Single(g.of)
    BY FrameIs DEF Kinds
<1> HIDE DEF f, g
<1>3. es \in Seq(FrameRec) /\ Len(es) = 2 /\ DOMAIN es = 1..2 /\ es[1] = f /\ es[2] = g
    BY <1>1, <1>2
<1> HIDE DEF es
<1>4. \A j \in Nat : j >= 2 => ClosedBefore(es, 0, j)
    BY <1>1, <1>3 DEF ClosedBefore, Closes
<1>5. ~Opens(es[1]) /\ es[1].type # "idle" /\ \A k \in DOMAIN es : ~Opens(es[k])
    BY <1>1, <1>2, <1>3 DEF Opens
<1>6. ASSUME NEW T
      PROVE  Bounded(es, NoRun, 0, T)
    <2>1. ClosedBefore(es, 0, Len(es) + 1)
        BY <1>3, <1>4
    <2>2. \A j \in (0 + 1)..Len(es) : j = 1 \/ ClosedBefore(es, 0, j)
        BY <1>3, <1>4
    <2> QED
        BY <1>5, <2>1, <2>2 DEF Bounded
<1>7. IdleAhead(es, NoRun, 0)
    BY <1>2, <1>3 DEF IdleAhead
<1>8. \A k \in DOMAIN es : /\ es[k].type # "start" /\ Single(es[k].of)
                           /\ es[k].of \subseteq {es[k].turn}
    <2>1. \A k \in DOMAIN es : es[k] = f \/ es[k] = g
        BY <1>3
    <2> QED
        BY <1>1, <1>2, <2>1
<1> QED
    BY <1>3, <1>5, <1>6, <1>7, <1>8 DEF Sends, es, f, g

(* A silent turn may send the report that it is over and nothing else       *)
LEMMA IdleSends ==
    ASSUME NEW r, r.turn \in Turn, Fresh(r)
    PROVE  Sends(<<Frame("idle", r.turn, {})>>, r, NoRun)
<1> DEFINE f == Frame("idle", r.turn, {})
           es == <<f>>
<1>1. f \in FrameRec /\ f.type = "idle" /\ f.of = {} /\ Single(f.of)
    BY FrameIs DEF Kinds
<1> HIDE DEF f
<1>2. es \in Seq(FrameRec) /\ Len(es) = 1 /\ DOMAIN es = 1..1 /\ es[1] = f
    BY <1>1
<1> HIDE DEF es
<1>3. IdleAhead(es, NoRun, 0)
    BY <1>1, <1>2 DEF IdleAhead
<1> QED
    BY <1>1, <1>2, <1>3 DEF Sends, Opens, es, f

-----------------------------------------------------------------------------
(* A frame is received                                                     *)
LEMMA ReceivedFrames ==
    ASSUME FramesOK, OpenersOK, BusyOK, Receive
    PROVE  /\ FramesOK' /\ OpenersOK'
           /\ frames \in Seq(FrameRec) /\ frames # <<>> /\ frames' = Tail(frames)
           /\ run' = run /\ inbox' = inbox
           /\ Head(frames) \in FrameRec
           /\ Single(Head(frames).of) /\ Head(frames).of \subseteq {Head(frames).turn}
           /\ Opens(Head(frames)) => Bounded(frames', run', 0, {Head(frames).turn})
           /\ Head(frames).type = "start" => IdleAhead(frames', run', 0)
           /\ \A i \in DOMAIN frames' : frames'[i].type = "start" => IdleAhead(frames', run', i)
           /\ Head(frames).type # "idle" /\ IdleAhead(frames, run, 0)
                 => IdleAhead(frames', run', 0)
<1>1. /\ frames \in Seq(FrameRec) /\ frames # <<>> /\ frames' = Tail(frames)
      /\ run' = run /\ inbox' = inbox
    BY DEF FramesOK, Receive, serverVars
<1>2. /\ frames' \in Seq(FrameRec) /\ Len(frames) \in Nat /\ Len(frames') = Len(frames) - 1
      /\ Head(frames) = frames[1] /\ 1 \in DOMAIN frames /\ Head(frames) \in FrameRec
      /\ \A j \in 1..Len(frames') : frames'[j] = frames[j + 1]
      /\ DOMAIN frames = 1..Len(frames) /\ DOMAIN frames' = 1..Len(frames')
    BY <1>1, TailPlaces
<1>3. \A i \in DOMAIN frames' : /\ i + 1 \in DOMAIN frames /\ i + 1 \in 0..Len(frames)
                                /\ frames'[i] = frames[i + 1] /\ i + 1 # 0
                                /\ (i + 1) - 1 = i
    BY <1>2
<1>4. FramesOK'
    BY <1>2, <1>3 DEF FramesOK
<1>5. ASSUME NEW i \in DOMAIN frames, Opens(frames[i])
      PROVE  /\ Bounded(frames', run', i - 1, {frames[i].turn})
             /\ i = 1 => Bounded(frames', run', 0, {frames[i].turn})
    <2>1. Bounded(frames, run, i, {frames[i].turn}) /\ i \in 0..Len(frames) /\ i # 0
        BY <1>2, <1>5 DEF OpenersOK
    <2>2. Bounded(frames', run', i - 1, {frames[i].turn})
        BY <1>1, <2>1, TailBounded
    <2>3. i = 1 => i - 1 = 0
        OBVIOUS
    <2> QED
        BY <2>2, <2>3
<1>6. OpenersOK'
    BY <1>3, <1>5 DEF OpenersOK
<1>7. ASSUME NEW i \in DOMAIN frames, frames[i].type = "start"
      PROVE  IdleAhead(frames', run', i - 1)
    <2>1. IdleAhead(frames, run, i) /\ i \in 0..Len(frames) /\ i # 0
        BY <1>2, <1>7 DEF BusyOK
    <2> QED
        BY <1>1, <2>1, TailIdle
<1>8. \A i \in DOMAIN frames' : frames'[i].type = "start" => IdleAhead(frames', run', i)
    BY <1>3, <1>7
<1>9. Head(frames).type # "idle" /\ IdleAhead(frames, run, 0) => IdleAhead(frames', run', 0)
    <2>1. 0 \in 0..Len(frames)
        BY <1>2
    <2> QED
        BY <1>1, <2>1, TailIdle
<1>10. Single(Head(frames).of) /\ Head(frames).of \subseteq {Head(frames).turn}
    BY <1>2 DEF FramesOK
<1>11. Opens(Head(frames)) => Bounded(frames', run', 0, {Head(frames).turn})
    BY <1>2, <1>5
<1>12. Head(frames).type = "start" => IdleAhead(frames', run', 0)
    BY <1>2, <1>7
<1> QED
    BY <1>1, <1>2, <1>4, <1>6, <1>8, <1>9, <1>10, <1>11, <1>12

(* What a step that leaves the frames alone may do to the live text        *)
LEMMA LiveKept ==
    ASSUME LiveOK, UNCHANGED <<frames, run>>, deltas' \subseteq Turn,
           deltas' \cup TextOf(chat') \subseteq LiveText,
           chat'.stream # 0 \/ deltas' # {} => chat.stream # 0 \/ deltas # {}
    PROVE  LiveOK'
<1>1. LiveText' = deltas' \cup TextOf(chat')
    BY DEF LiveText, TextOf, RowText
<1>2. Single(LiveText')
    BY <1>1, SingleSubset DEF LiveOK
<1>3. chat'.stream # 0 \/ deltas' # {} => Bounded(frames', run', 0, LiveText')
    <2> SUFFICES ASSUME chat'.stream # 0 \/ deltas' # {}
                 PROVE  Bounded(frames, run, 0, LiveText')
        OBVIOUS
    <2>1. Bounded(frames, run, 0, LiveText) /\ Single(LiveText)
        BY DEF LiveOK
    <2> QED
        BY <1>1, <2>1, SubBounded
<1> QED
    BY <1>2, <1>3 DEF LiveOK

(* The screen after a step shows the rows of the chat and old rows at rest *)
LEMMA Painted ==
    ASSUME ScreenOK, ChatOK(chat'), Paint
    PROVE  ScreenOK'
<1> DEFINE new == chat'.msgs
           all == screen'
           n == Len(new)
<1>1. new \in Seq(RowType) /\ screen \in Seq(RowType) /\ all = Kept(new, screen)
    BY ChatFields DEF ChatOK, ScreenOK, Paint
<1>2. \A i \in DOMAIN new : RowOK(new[i])
    BY DEF ChatOK, MsgsOK
<1>3. \A i \in DOMAIN screen : RowOK(screen[i]) /\ screen[i] \in RowType
    BY <1>1 DEF ScreenOK
<1> HIDE DEF new, all
<1>4. /\ all \in Seq(RowType) /\ n \in Nat /\ DOMAIN new = 1..n
      /\ \A k \in 1..n : all[k] = new[k]
      /\ \A k \in (n + 1)..Len(all) : \E i \in DOMAIN screen : all[k] = Calm(screen[i])
      /\ \A k \in DOMAIN all : k \in 1..n \/ k \in (n + 1)..Len(all)
    <2>1. KeepsRows(all, new, screen)
        BY <1>1, KeptOK
    <2> QED
        BY <1>1, <2>1 DEF KeepsRows
<1> HIDE DEF n
<1>5. ASSUME NEW k \in DOMAIN all
      PROVE  RowOK(all[k]) /\ (all[k].pending => \E j \in DOMAIN new : new[j].pending)
    <2>1. CASE k \in 1..n
        BY <1>2, <1>4, <2>1
    <2>2. CASE k \in (n + 1)..Len(all)
        <3>1. PICK i \in DOMAIN screen : all[k] = Calm(screen[i])
            BY <1>4, <2>2
        <3>2. /\ ~Calm(screen[i]).pending /\ Calm(screen[i]).id = screen[i].id
              /\ Calm(screen[i]).of = screen[i].of /\ Calm(screen[i]).role = screen[i].role
            BY <1>3, CalmOK
        <3> QED
            BY <1>3, <3>1, <3>2 DEF RowOK
    <2> QED
        BY <1>4, <2>1, <2>2
<1> QED
    BY <1>4, <1>5 DEF ScreenOK, all, new

-----------------------------------------------------------------------------
(* Every step preserves the invariant                                      *)
Core == ServerOK /\ FramesOK /\ ClientOK /\ LiveOK /\ OpenersOK /\ BusyOK

(* A step that leaves frames and run alone keeps FramesOK and OpenersOK     *)
LEMMA FramesKept ==
    ASSUME FramesOK, OpenersOK, UNCHANGED <<frames, run>>
    PROVE  FramesOK' /\ OpenersOK'
BY DEF FramesOK, OpenersOK

(* Such a step keeps BusyOK if it releases the chat or leaves it as it is   *)
LEMMA BusyKept ==
    ASSUME BusyOK, UNCHANGED <<frames, run>>,
           \/ inbox'.turn # 0
           \/ ~chat'.busy /\ ~chat'.awaiting
           \/ (chat'.busy \/ chat'.awaiting => chat.busy \/ chat.awaiting) /\ inbox' = inbox
    PROVE  BusyOK'
BY DEF BusyOK

(* The rows after the text that waits is written                           *)
LEMMA FlushedOK ==
    ASSUME ClientOK, LiveOK
    PROVE  /\ ChatOK(Flushed) /\ TextOf(Flushed) \subseteq LiveText
           /\ Flushed.stream # 0 => chat.stream # 0 \/ deltas # {}
           /\ Flushed.busy = chat.busy /\ (Flushed.awaiting => chat.awaiting)
           /\ chat.n <= Flushed.n /\ Flushed.interrupted = chat.interrupted
           /\ chat.interrupted => Flushed = chat
<1>1. ChatOK(chat) /\ deltas \in SUBSET Turn /\ FALSE \in BOOLEAN
      /\ Single(deltas \cup TextOf(chat))
    BY DEF ClientOK, LiveOK, LiveText
<1>2. LET d == Mutate(chat, deltas, FALSE)
      IN  /\ ChatOK(d) /\ TextOf(d) \subseteq deltas \cup TextOf(chat)
          /\ d.stream # 0 => chat.stream # 0 \/ deltas # {} \/ FALSE
          /\ d.busy = chat.busy /\ (d.awaiting => chat.awaiting)
          /\ chat.n <= d.n /\ d.interrupted = chat.interrupted
          /\ chat.interrupted => d = chat
    BY <1>1, MutateOK
<1> QED
    BY <1>2 DEF Flushed, LiveText

(* A submit preserves the invariant                                         *)
LEMMA SubmitStep ==
    ASSUME IInv, Submit
    PROVE  Core'
<1>1. /\ ServerOK /\ FramesOK /\ ClientOK /\ LiveOK /\ OpenersOK /\ BusyOK
    BY DEF IInv
<1>2. next \in Turn /\ next' = next + 1 /\ next' \in 1..(Turns + 1) /\ Turns \in Nat
    BY <1>1, StreamAssumption DEF Submit, ClientOK, Turn
<1>3. ChatOK(chat') /\ TextOf(chat') = TextOf(chat) /\ chat'.stream = chat.stream
    BY <1>1, <1>2, SeedOK DEF Submit, ClientOK
<1>4. inbox' \in [turn : 0..Turns, cut : BOOLEAN, keep : Nat] /\ inbox'.turn # 0
    BY <1>2 DEF Submit, Turn
<1>5. ServerOK' /\ ClientOK'
    BY <1>1, <1>2, <1>3, <1>4 DEF Submit, ServerOK, ClientOK
<1>6. UNCHANGED <<frames, run, deltas>>
    BY DEF Submit
<1>7. LiveOK'
    BY <1>1, <1>3, <1>6, LiveKept DEF LiveOK, LiveText
<1> QED
    BY <1>1, <1>4, <1>5, <1>6, <1>7, FramesKept, BusyKept DEF Core

(* cancelRun preserves the invariant: it drops the stream                   *)
LEMMA StopStep ==
    ASSUME IInv, Stop
    PROVE  Core'
<1>1. /\ ServerOK /\ FramesOK /\ ClientOK /\ LiveOK /\ OpenersOK /\ BusyOK
    BY DEF IInv
<1>2. /\ ChatOK(chat') /\ TextOf(chat') = {} /\ chat'.stream = 0 /\ ~chat'.busy
      /\ ~chat'.awaiting
    BY <1>1, CancelledOK DEF Stop, ClientOK
<1>3. stops' \in 0..MaxActs
    BY <1>1, StreamAssumption DEF Stop, ClientOK
<1>4. ServerOK' /\ ClientOK'
    BY <1>1, <1>2, <1>3 DEF Stop, ServerOK, ClientOK
<1>5. UNCHANGED <<frames, run, deltas>>
    BY DEF Stop
<1>6. LiveOK'
    BY <1>1, <1>2, <1>5, LiveKept DEF LiveOK, LiveText
<1> QED
    BY <1>1, <1>2, <1>4, <1>5, <1>6, FramesKept, BusyKept DEF Core

(* visibleUserOrdinal is a natural number                                   *)
LEMMA OrdinalOK ==
    ASSUME NEW i \in Nat
    PROVE  Ordinal(i + 1) \in Nat
<1>1. {k \in 1..i : screen[k].role = "user"} \in SUBSET (1..i) /\ IsFiniteSet(1..i)
    BY FS_Interval
<1>2. UserRows(i) \in Nat
    BY <1>1, FS_Subset, FS_CardinalityType DEF UserRows
<1>3. (i + 1) - 1 = i
    OBVIOUS
<1> QED
    BY <1>2, <1>3 DEF Ordinal

(* restoreToMessage preserves the invariant: the stream stays as it is      *)
LEMMA RestoreStep ==
    ASSUME IInv, Restore
    PROVE  Core'
<1>1. /\ ServerOK /\ FramesOK /\ ClientOK /\ LiveOK /\ OpenersOK /\ BusyOK /\ ScreenOK
    BY DEF IInv
<1> DEFINE p(i) == CHOOSE t \in screen[i].of : TRUE
<1>2. PICK i \in DOMAIN screen :
         /\ screen[i].role = "user" /\ stops + restores < MaxActs
         /\ chat' = Rewound(chat, i)
         /\ inbox' = [turn |-> p(i), cut |-> TRUE, keep |-> Ordinal(i)]
         /\ halt' = (halt \/ chat.busy)
         /\ stops' = IF chat.busy THEN stops + 1 ELSE stops
         /\ restores' = restores + 1
         /\ crossed' = (\/ crossed \/ Len(chat.msgs) < i \/ p(i) \notin ToSet(stored)
                        \/ \E j \in 1..i : screen[j].error)
         /\ UNCHANGED <<deltas, frames, reads, compact, next, run, stored>>
    BY DEF Restore
<1>3. i \in Nat /\ i # 0 /\ screen[i].of # {} /\ screen[i].of \in SUBSET Turn
    <2>1. screen \in Seq(RowType) /\ RowOK(screen[i]) /\ screen[i] \in RowType
        BY <1>1 DEF ScreenOK
    <2> QED
        BY <1>2, <2>1, RowFields DEF RowOK
<1>4. p(i) \in Turn
    BY <1>3
<1> HIDE DEF p
<1>5. Ordinal(i) \in Nat
    <2>1. i - 1 \in Nat /\ (i - 1) + 1 = i
        BY <1>3
    <2>2. Ordinal((i - 1) + 1) \in Nat
        BY <2>1, OrdinalOK
    <2> QED
        BY <2>1, <2>2
<1>6. inbox' \in [turn : 0..Turns, cut : BOOLEAN, keep : Nat] /\ inbox'.turn # 0
    BY <1>2, <1>4, <1>5 DEF Turn
<1>7. /\ ChatOK(chat') /\ TextOf(chat') \subseteq TextOf(chat) /\ chat'.stream = chat.stream
      /\ chat.busy \in BOOLEAN
    BY <1>1, <1>2, <1>3, RewoundOK, ChatFields DEF ClientOK, ChatOK
<1>8. stops' \in 0..MaxActs /\ restores' \in 0..MaxActs /\ crossed' \in BOOLEAN
    BY <1>1, <1>2, StreamAssumption DEF ClientOK
<1>9. halt' \in BOOLEAN
    BY <1>1, <1>2 DEF ServerOK
<1>10. ServerOK' /\ ClientOK'
    BY <1>1, <1>2, <1>6, <1>7, <1>8, <1>9 DEF ServerOK, ClientOK
<1>11. LiveOK'
    BY <1>1, <1>2, <1>7, LiveKept DEF LiveOK, LiveText
<1> QED
    BY <1>1, <1>2, <1>6, <1>10, <1>11, FramesKept, BusyKept DEF Core

(* The delta timer preserves the invariant                                  *)
LEMMA FlushStep ==
    ASSUME IInv, FlushTimer
    PROVE  Core'
<1>1. /\ ServerOK /\ FramesOK /\ ClientOK /\ LiveOK /\ OpenersOK /\ BusyOK
    BY DEF IInv
<1>2. chat' = Flushed /\ deltas' = {} /\ UNCHANGED <<frames, run, inbox, halt, stored>>
      /\ UNCHANGED <<reads, compact, next, stops, restores, crossed>>
    BY DEF FlushTimer, serverVars
<1>3. /\ ChatOK(chat') /\ TextOf(chat') \subseteq LiveText
      /\ chat'.stream # 0 => chat.stream # 0 \/ deltas # {}
      /\ chat'.busy = chat.busy /\ (chat'.awaiting => chat.awaiting)
    BY <1>1, <1>2, FlushedOK
<1>4. ServerOK' /\ ClientOK'
    BY <1>1, <1>2, <1>3 DEF ServerOK, ClientOK
<1>5. LiveOK'
    BY <1>1, <1>2, <1>3, LiveKept
<1> QED
    BY <1>1, <1>2, <1>3, <1>4, <1>5, FramesKept, BusyKept DEF Core

(* hydrateFromStoredSession, asked, applied or given up, preserves it       *)
LEMMA ReadStep ==
    ASSUME IInv, Snap \/ Apply \/ GiveUp
    PROVE  Core'
<1>1. /\ ServerOK /\ FramesOK /\ ClientOK /\ LiveOK /\ OpenersOK /\ BusyOK
    BY DEF IInv
<1>2. UNCHANGED <<frames, run, inbox, halt, stored, deltas, compact, next, stops, restores>>
    BY DEF Snap, Apply, GiveUp, serverVars
<1>3. CASE Snap \/ GiveUp
    <2>1. chat' = chat /\ crossed' = crossed /\ reads' \subseteq ReadRec
        <3>1. CASE Snap
            <4>1. PICK r \in reads :
                     reads' = (reads \ {r}) \cup {[r EXCEPT !.snap = stored, !.done = TRUE]}
                BY <3>1 DEF Snap
            <4>2. r \in ReadRec /\ stored \in Seq(Turn)
                BY <1>1 DEF ClientOK, ServerOK
            <4>3. [r EXCEPT !.snap = stored, !.done = TRUE] \in ReadRec
                BY <4>2 DEF ReadRec
            <4> QED
                BY <1>1, <3>1, <4>1, <4>3 DEF Snap, ClientOK
        <3>2. CASE GiveUp
            BY <1>1, <3>2 DEF GiveUp, ClientOK
        <3> QED
            BY <1>3, <3>1, <3>2
    <2>2. ServerOK' /\ ClientOK'
        BY <1>1, <1>2, <2>1 DEF ServerOK, ClientOK
    <2>3. LiveOK'
        BY <1>1, <1>2, <2>1, LiveKept DEF LiveOK, LiveText
    <2> QED
        BY <1>1, <1>2, <2>1, <2>2, <2>3, FramesKept, BusyKept DEF Core
<1>4. CASE Apply
    <2>1. PICK r \in reads : /\ chat' = Hydrated(chat, r.snap) /\ reads' = reads \ {r}
                             /\ crossed' = (crossed \/ next # r.turn + 1 \/ restores > 0)
        BY <1>4 DEF Apply
    <2>2. r.snap \in Seq(Turn) /\ ChatOK(chat) /\ crossed' \in BOOLEAN
        BY <1>1, <2>1 DEF ClientOK, ReadRec
    <2>3. /\ ChatOK(chat') /\ TextOf(chat') \subseteq TextOf(chat)
          /\ chat'.stream = chat.stream /\ chat'.busy = chat.busy
          /\ chat'.awaiting = chat.awaiting
        BY <2>1, <2>2, HydratedOK
    <2>4. ServerOK' /\ ClientOK'
        BY <1>1, <1>2, <2>1, <2>2, <2>3 DEF ServerOK, ClientOK
    <2>5. LiveOK'
        BY <1>1, <1>2, <2>3, LiveKept DEF LiveOK, LiveText
    <2> QED
        BY <1>1, <1>2, <2>3, <2>4, <2>5, FramesKept, BusyKept DEF Core
<1> QED
    BY <1>3, <1>4

(* A refused prompt preserves the invariant                                 *)
LEMMA RefuseStep ==
    ASSUME IInv, SrvRefuse
    PROVE  Core'
<1>1. /\ ServerOK /\ FramesOK /\ ClientOK /\ LiveOK /\ OpenersOK /\ BusyOK
    BY DEF IInv
<1>2. /\ UNCHANGED <<frames, run, halt, stored, deltas>> /\ inbox' = NoPrompt
      /\ chat' = Released(chat)
      /\ UNCHANGED <<reads, compact, next, stops, restores, crossed>>
    BY DEF SrvRefuse
<1>3. /\ ChatOK(chat') /\ TextOf(chat') = TextOf(chat) /\ chat'.stream = chat.stream
      /\ ~chat'.busy /\ ~chat'.awaiting
    BY <1>1, <1>2, ReleasedOK DEF ClientOK
<1>4. inbox' \in [turn : 0..Turns, cut : BOOLEAN, keep : Nat]
    BY <1>2, StreamAssumption DEF NoPrompt
<1>5. ServerOK' /\ ClientOK'
    BY <1>1, <1>2, <1>3, <1>4 DEF ServerOK, ClientOK
<1>6. LiveOK'
    BY <1>1, <1>2, <1>3, LiveKept DEF LiveOK, LiveText
<1> QED
    BY <1>1, <1>2, <1>3, <1>5, <1>6, FramesKept, BusyKept DEF Core

(* The steps in which the server sends                                     *)
LEMMA ServerStep ==
    ASSUME IInv, NEW es, frames' = frames \o es, Sends(es, run, run'), ServerOK',
           UNCHANGED clientVars, inbox' = inbox \/ run'.turn # 0
    PROVE  Core'
<1>1. /\ ServerOK /\ FramesOK /\ ClientOK /\ LiveOK /\ OpenersOK /\ BusyOK
    BY DEF IInv
<1>2. UNCHANGED <<chat, deltas, reads, compact, next, stops, restores, crossed>>
    BY DEF clientVars
<1>3. ClientOK'
    BY <1>1, <1>2 DEF ClientOK
<1>4. FramesOK' /\ LiveOK' /\ OpenersOK' /\ BusyOK'
    BY <1>1, <1>2, SentFrames
<1> QED
    BY <1>3, <1>4 DEF Core

(* An accepted prompt preserves the invariant                               *)
LEMMA AcceptStep ==
    ASSUME IInv, SrvAccept
    PROVE  Core'
<1>1. ServerOK
    BY DEF IInv
<1>2. /\ inbox.turn # 0 /\ run.turn = 0 /\ (inbox.cut => inbox.keep < Len(stored))
      /\ run' = [turn |-> inbox.turn, text |-> MaxText, tool |-> TRUE]
      /\ stored' = (IF inbox.cut THEN SubSeq(stored, 1, inbox.keep) ELSE stored)
      /\ inbox' = NoPrompt /\ halt' = halt
      /\ frames' = frames \o <<Frame("start", inbox.turn, {})>> /\ UNCHANGED clientVars
    BY DEF SrvAccept, Emit
<1>3. /\ inbox.turn \in Turn /\ inbox.keep \in Nat /\ inbox.cut \in BOOLEAN
      /\ run'.turn = inbox.turn
      /\ run' \in [turn : 0..Turns, text : 0..MaxText, tool : BOOLEAN]
      /\ inbox' \in [turn : 0..Turns, cut : BOOLEAN, keep : Nat]
    BY SMTT(30), <1>1, <1>2, StreamAssumption DEF ServerOK, Turn, NoPrompt
<1>4. stored' \in Seq(Turn)
    <2>1. stored \in Seq(Turn)
        BY <1>1 DEF ServerOK
    <2> QED
        BY <1>2, <1>3, <2>1
<1>5. ServerOK'
    BY <1>1, <1>2, <1>3, <1>4 DEF ServerOK
<1>6. Sends(<<Frame("start", inbox.turn, {})>>, run, run')
    BY <1>2, <1>3, StartSends
<1> QED
    BY <1>2, <1>3, <1>5, <1>6, ServerStep

(* A text frame is sent: the turn it is of still runs                       *)
LEMMA TextStep ==
    ASSUME IInv, SrvText
    PROVE  Core'
<1>1. ServerOK /\ MaxText \in Nat
    BY StreamAssumption DEF IInv
<1>2. /\ run.turn # 0 /\ run.text > 0 /\ run' = [run EXCEPT !.text = @ - 1]
      /\ frames' = frames \o <<Frame("delta", run.turn, {run.turn})>>
      /\ UNCHANGED clientVars /\ inbox' = inbox /\ halt' = halt /\ stored' = stored
    BY DEF SrvText, Emit
<1>3. /\ run.turn \in Turn /\ run'.turn = run.turn
      /\ run' \in [turn : 0..Turns, text : 0..MaxText, tool : BOOLEAN]
      /\ run'.text # MaxText
    <2>1. /\ run \in [turn : 0..Turns, text : 0..MaxText, tool : BOOLEAN]
          /\ run.turn \in 0..Turns /\ run.text \in 0..MaxText /\ run.tool \in BOOLEAN
        BY <1>1 DEF ServerOK
    <2>2. run' = [turn |-> run.turn, text |-> run.text - 1, tool |-> run.tool]
        BY <1>2, <2>1
    <2>3. run.turn \in 1..Turns /\ run.text - 1 \in 0..MaxText /\ run.text - 1 # MaxText
        BY <1>1, <1>2, <2>1, StreamAssumption
    <2> QED
        BY <2>1, <2>2, <2>3 DEF Turn
<1>4. ServerOK'
    BY <1>1, <1>2, <1>3 DEF ServerOK
<1>5. ~Fresh(run')
    BY <1>2, <1>3 DEF Fresh
<1>6. Sends(<<Frame("delta", run.turn, {run.turn})>>, run, run')
    <2>1. "delta" \in {"delta", "tool", "compact"} /\ {run.turn} \in SUBSET {run.turn}
        OBVIOUS
    <2> QED
        BY <1>3, <1>5, <2>1, RowSends
<1> QED
    BY <1>2, <1>4, <1>6, ServerStep

(* A tool or compaction frame is sent: the turn it is of still runs         *)
LEMMA ToolStep ==
    ASSUME IInv, SrvTool
    PROVE  Core'
<1>1. ServerOK
    BY DEF IInv
<1>2. PICK t \in {"tool", "compact"} : frames' = frames \o <<Frame(t, run.turn, {})>>
    BY DEF SrvTool, Emit
<1>3. /\ run.turn # 0 /\ run' = [run EXCEPT !.tool = FALSE]
      /\ UNCHANGED clientVars /\ inbox' = inbox /\ halt' = halt /\ stored' = stored
    BY DEF SrvTool
<1>4. /\ run.turn \in Turn /\ run'.turn = run.turn
      /\ run' \in [turn : 0..Turns, text : 0..MaxText, tool : BOOLEAN]
      /\ ~run'.tool
    <2>1. /\ run \in [turn : 0..Turns, text : 0..MaxText, tool : BOOLEAN]
          /\ run.turn \in 0..Turns /\ run.text \in 0..MaxText
        BY <1>1 DEF ServerOK
    <2>2. run' = [turn |-> run.turn, text |-> run.text, tool |-> FALSE]
        BY <1>3, <2>1
    <2>3. run.turn \in 1..Turns
        BY <1>3, <2>1, StreamAssumption
    <2> QED
        BY <2>1, <2>2, <2>3 DEF Turn
<1>5. ServerOK'
    BY <1>1, <1>3, <1>4 DEF ServerOK
<1>6. ~Fresh(run')
    BY <1>3, <1>4 DEF Fresh
<1>7. Sends(<<Frame(t, run.turn, {})>>, run, run')
    <2>1. t \in {"delta", "tool", "compact"} /\ {} \in SUBSET {run.turn}
        OBVIOUS
    <2> QED
        BY <1>4, <1>6, <2>1, RowSends
<1> QED
    BY <1>2, <1>3, <1>5, <1>7, ServerStep

(* Two frames in a row                                                     *)
LEMMA PairIs ==
    ASSUME NEW f, NEW g
    PROVE  Append(<<f>>, g) = <<f, g>>
<1> DEFINE S == {f, g}
           a == Append(<<f>>, g)
           b == <<f, g>>
<1>1. <<f>> \in Seq(S) /\ g \in S /\ Len(<<f>>) = 1 /\ <<f>>[1] = f
    OBVIOUS
<1>2. a \in Seq(S) /\ Len(a) = 2 /\ a[1] = f /\ a[2] = g
    BY <1>1
<1>3. b \in Seq(S) /\ Len(b) = 2 /\ b[1] = f /\ b[2] = g
    OBVIOUS
<1> HIDE DEF a, b, S
<1>4. Len(a) = Len(b) /\ \A k \in 1..Len(a) : a[k] = b[k]
    BY <1>2, <1>3
<1>5. a = b
    BY <1>2, <1>3, <1>4, SeqEqual
<1> QED
    BY <1>5 DEF a, b

(* The ways a turn ends                                                    *)
LEMMA EndStep ==
    ASSUME IInv, NEW fs, NEW saved, SrvEnd(fs, saved), halt' \in BOOLEAN,
           \/ fs = <<>> /\ Fresh(run)
           \/ \E type \in {"complete", "error"}, of \in SUBSET {run.turn} :
                 fs = <<Frame(type, run.turn, of)>>
    PROVE  Core'
<1>1. ServerOK
    BY DEF IInv
<1> DEFINE idle == Frame("idle", run.turn, {})
<1>2. /\ run.turn # 0 /\ run' = NoRun /\ frames' = frames \o Append(fs, idle)
      /\ stored' = IF saved THEN Append(stored, run.turn) ELSE stored
      /\ UNCHANGED clientVars /\ inbox' = inbox
    BY DEF SrvEnd, Emit
<1>3. /\ run.turn \in Turn
      /\ run' \in [turn : 0..Turns, text : 0..MaxText, tool : BOOLEAN]
    BY <1>1, <1>2, StreamAssumption DEF ServerOK, NoRun, Turn
<1>4. stored' \in Seq(Turn)
    <2>1. stored \in Seq(Turn)
        BY <1>1 DEF ServerOK
    <2> QED
        BY <1>2, <1>3, <2>1
<1>5. ServerOK'
    BY <1>1, <1>2, <1>3, <1>4 DEF ServerOK
<1>6. Sends(Append(fs, idle), run, run')
    <2>1. CASE fs = <<>> /\ Fresh(run)
        <3>1. Append(fs, idle) = <<idle>>
            BY <2>1
        <3> QED
            BY <1>2, <1>3, <2>1, <3>1, IdleSends
    <2>2. CASE \E type \in {"complete", "error"}, of \in SUBSET {run.turn} :
                  fs = <<Frame(type, run.turn, of)>>
        <3>1. PICK type \in {"complete", "error"}, of \in SUBSET {run.turn} :
                     fs = <<Frame(type, run.turn, of)>>
            BY <2>2
        <3>2. Append(fs, idle) = <<Frame(type, run.turn, of), idle>>
            <4> DEFINE g == Frame(type, run.turn, of)
            <4>1. fs = <<g>>
                BY <3>1
            <4> HIDE DEF g, idle
            <4>2. Append(<<g>>, idle) = <<g, idle>>
                BY PairIs
            <4> QED
                BY <4>1, <4>2 DEF g
        <3>3. Sends(<<Frame(type, run.turn, of), Frame("idle", run.turn, {})>>, run, NoRun)
            BY <1>3, EndSends
        <3> QED
            BY <1>2, <3>2, <3>3
    <2> QED
        BY <2>1, <2>2
<1> QED
    BY <1>2, <1>5, <1>6, ServerStep

(* All four ends of a turn preserve the invariant                           *)
LEMMA EndsStep ==
    ASSUME IInv, SrvComplete \/ SrvSilent \/ SrvFail \/ SrvStopped
    PROVE  Core'
<1>1. halt \in BOOLEAN
    BY DEF IInv, ServerOK
<1>2. CASE SrvComplete
    <2>1. /\ SrvEnd(<<Frame("complete", run.turn, {run.turn})>>, TRUE) /\ halt' \in BOOLEAN
          /\ {run.turn} \in SUBSET {run.turn}
        BY <1>1, <1>2 DEF SrvComplete
    <2> QED
        BY <2>1, EndStep
<1>3. CASE SrvSilent
    <2>1. SrvEnd(<<>>, TRUE) /\ halt' \in BOOLEAN /\ Fresh(run)
        BY <1>1, <1>3 DEF SrvSilent, Fresh
    <2> QED
        BY <2>1, EndStep
<1>4. CASE SrvFail
    <2>1. /\ SrvEnd(<<Frame("error", run.turn, {})>>, FALSE) /\ halt' \in BOOLEAN
          /\ {} \in SUBSET {run.turn}
        BY <1>1, <1>4 DEF SrvFail
    <2> QED
        BY <2>1, EndStep
<1>5. CASE SrvStopped
    <2>1. PICK of \in {{}, {run.turn}} :
                 SrvEnd(<<Frame("complete", run.turn, of)>>, of # {})
        BY <1>5 DEF SrvStopped
    <2>2. of \in SUBSET {run.turn} /\ halt' \in BOOLEAN
        BY <1>5 DEF SrvStopped
    <2> QED
        BY <2>1, <2>2, EndStep
<1> QED
    BY <1>2, <1>3, <1>4, <1>5

(* An interrupt that finds no turn preserves the invariant                  *)
LEMMA IgnoreStep ==
    ASSUME IInv, SrvIgnore
    PROVE  Core'
<1>1. /\ ServerOK /\ FramesOK /\ ClientOK /\ LiveOK /\ OpenersOK /\ BusyOK
    BY DEF IInv
<1>2. /\ UNCHANGED <<chat, deltas, reads, compact, next, stops, restores, crossed>>
      /\ UNCHANGED <<frames, inbox, run, stored>> /\ halt' = FALSE
    BY DEF SrvIgnore, clientVars
<1>3. ServerOK' /\ ClientOK'
    BY <1>1, <1>2 DEF ServerOK, ClientOK
<1>4. LiveOK'
    BY <1>1, <1>2, LiveKept DEF LiveOK, LiveText
<1> QED
    BY <1>1, <1>2, <1>3, <1>4, FramesKept, BusyKept DEF Core

-----------------------------------------------------------------------------
(* The steps in which the client receives                                  *)
LEMMA LiveReceived ==
    ASSUME LiveOK, FramesOK, OpenersOK, BusyOK, Receive, ~Closes(Head(frames)),
           deltas' \subseteq Turn, ChatOK(chat),
           \/ Opens(Head(frames))
              /\ deltas' \cup TextOf(chat') \subseteq LiveText \cup Head(frames).of
           \/ /\ deltas' \cup TextOf(chat') \subseteq LiveText
              /\ chat'.stream # 0 \/ deltas' # {} => chat.stream # 0 \/ deltas # {}
    PROVE  LiveOK'
<1> DEFINE f == Head(frames)
           T == deltas' \cup TextOf(chat')
<1>1. LiveText' = T
    BY DEF LiveText, TextOf, RowText
<1>2. /\ frames \in Seq(FrameRec) /\ frames # <<>> /\ frames' = Tail(frames) /\ run' = run
      /\ Single(f.of) /\ f.of \subseteq {f.turn}
      /\ Opens(f) => Bounded(frames', run', 0, {f.turn})
    BY ReceivedFrames
<1> HIDE DEF f, T
<1>3. Single(LiveText) /\ Single({f.turn})
    BY DEF LiveOK, Single
<1>4. CASE chat.stream # 0 \/ deltas # {}
    <2>1. Bounded(frames, run, 0, LiveText) /\ 0 \in 0..Len(frames)
        BY <1>2, <1>4 DEF LiveOK
    <2>2. Bounded(frames', run', 0, LiveText)
        BY <1>2, <2>1, TailBounded
    <2>3. Opens(f) /\ LiveText # {} => f.turn \in LiveText
        BY <1>2, <2>1, HeadBounded DEF f
    <2>4. T \subseteq LiveText \/ (Opens(f) /\ T \subseteq {f.turn})
        BY <1>2, <2>3 DEF f, T
    <2>5. CASE T \subseteq LiveText
        <3>1. Single(T) /\ Bounded(frames', run', 0, T)
            BY <1>3, <2>2, <2>5, SingleSubset, SubBounded
        <3> QED
            BY <1>1, <3>1 DEF LiveOK
    <2>6. CASE Opens(f) /\ T \subseteq {f.turn}
        <3>1. Single(T) /\ Bounded(frames', run', 0, T)
            BY <1>2, <1>3, <2>6, SingleSubset, SubBounded
        <3> QED
            BY <1>1, <3>1 DEF LiveOK
    <2> QED
        BY <2>4, <2>5, <2>6
<1>5. CASE ~(chat.stream # 0 \/ deltas # {})
    <2>1. LiveText = {}
        BY <1>5, NoText DEF LiveText
    <2>2. T \subseteq f.of \/ (T = {} /\ chat'.stream = 0 /\ deltas' = {})
        BY <1>5, <2>1 DEF T, f
    <2>3. CASE T = {} /\ chat'.stream = 0 /\ deltas' = {}
        BY <1>1, <2>3 DEF LiveOK, Single
    <2>4. CASE ~(T = {} /\ chat'.stream = 0 /\ deltas' = {})
        <3>1. T \subseteq {f.turn} /\ Opens(f)
            BY <1>2, <1>5, <2>1, <2>2, <2>4 DEF T, f
        <3>2. Single(T) /\ Bounded(frames', run', 0, T)
            BY <1>2, <1>3, <3>1, SingleSubset, SubBounded
        <3> QED
            BY <1>1, <3>2 DEF LiveOK
    <2> QED
        BY <2>3, <2>4
<1> QED
    BY <1>4, <1>5

(* With no row open, nothing waits to be written                           *)
LEMMA LiveEmpty ==
    ASSUME deltas' = {}, chat'.stream = 0
    PROVE  LiveOK'
<1>1. LiveText' = deltas' \cup TextOf(chat') /\ TextOf(chat') = {}
    BY NoText DEF LiveText, TextOf, RowText
<1> QED
    BY <1>1 DEF LiveOK, Single

(* The part of the invariant that is the same for all frames               *)
LEMMA ReceiveStep ==
    ASSUME IInv, Receive, ChatOK(chat'), reads' \subseteq ReadRec, compact' \in BOOLEAN, LiveOK',
           chat'.busy \/ chat'.awaiting =>
              \/ Head(frames).type = "start"
              \/ Head(frames).type # "idle" /\ (chat.busy \/ chat.awaiting)
    PROVE  Core'
<1>1. /\ ServerOK /\ FramesOK /\ ClientOK /\ OpenersOK /\ BusyOK
    BY DEF IInv
<1>2. UNCHANGED <<inbox, run, halt, stored, next, stops, restores, crossed>>
    BY DEF Receive, serverVars
<1>3. ServerOK' /\ ClientOK'
    BY <1>1, <1>2 DEF ServerOK, ClientOK
<1>4. /\ FramesOK' /\ OpenersOK'
      /\ Head(frames).type = "start" => IdleAhead(frames', run', 0)
      /\ \A i \in DOMAIN frames' : frames'[i].type = "start" => IdleAhead(frames', run', i)
      /\ Head(frames).type # "idle" /\ IdleAhead(frames, run, 0)
            => IdleAhead(frames', run', 0)
    BY <1>1, ReceivedFrames
<1>5. chat'.busy \/ chat'.awaiting => inbox'.turn # 0 \/ IdleAhead(frames', run', 0)
    BY <1>1, <1>2, <1>4 DEF BusyOK
<1>6. BusyOK'
    BY <1>4, <1>5 DEF BusyOK
<1> QED
    BY <1>3, <1>4, <1>6 DEF Core

(* message.start preserves the invariant                                    *)
LEMMA StartStep ==
    ASSUME IInv, OnStart
    PROVE  Core'
<1>1. /\ FramesOK /\ ClientOK /\ LiveOK /\ OpenersOK /\ BusyOK
    BY DEF IInv
<1>2. /\ Receive /\ Head(frames).type = "start" /\ chat' = Started(Flushed)
      /\ deltas' = {} /\ compact' = FALSE /\ reads' = reads
    BY DEF OnStart
<1>3. /\ ChatOK(Flushed) /\ TextOf(Flushed) \subseteq LiveText
      /\ Flushed.stream # 0 => chat.stream # 0 \/ deltas # {}
    BY <1>1, FlushedOK
<1>4. ChatOK(chat') /\ TextOf(chat') = TextOf(Flushed) /\ chat'.stream = Flushed.stream
    BY <1>2, <1>3, StartedOK
<1>5. ChatOK(chat) /\ reads' \subseteq ReadRec /\ ~Closes(Head(frames))
    BY <1>1, <1>2 DEF ClientOK, Closes
<1>6. LiveOK'
    BY <1>1, <1>2, <1>3, <1>4, <1>5, LiveReceived
<1> QED
    BY <1>2, <1>4, <1>5, <1>6, ReceiveStep

(* message.delta preserves it: the text that waits is of the open row       *)
LEMMA DeltaStep ==
    ASSUME IInv, OnDelta
    PROVE  Core'
<1>1. /\ FramesOK /\ ClientOK /\ LiveOK /\ OpenersOK /\ BusyOK
    BY DEF IInv
<1>2. /\ Receive /\ Head(frames).type = "delta" /\ deltas' = deltas \cup Head(frames).of
      /\ chat' = chat /\ compact' = compact /\ reads' = reads
    BY DEF OnDelta
<1>3. Head(frames) \in FrameRec
    BY <1>1, <1>2, ReceivedFrames
<1>4. ChatOK(chat') /\ ChatOK(chat) /\ reads' \subseteq ReadRec /\ compact' \in BOOLEAN
    BY <1>1, <1>2 DEF ClientOK
<1>5. Opens(Head(frames)) /\ ~Closes(Head(frames)) /\ deltas' \subseteq Turn
    BY <1>1, <1>2, <1>3 DEF Opens, Closes, FrameRec, LiveOK
<1>6. deltas' \cup TextOf(chat') \subseteq LiveText \cup Head(frames).of
    BY <1>2 DEF LiveText
<1>7. LiveOK'
    BY <1>1, <1>2, <1>4, <1>5, <1>6, LiveReceived
<1> QED
    BY <1>2, <1>4, <1>7, ReceiveStep

(* A tool event preserves it: the row it opens is of the running turn       *)
LEMMA ToolFrameStep ==
    ASSUME IInv, OnTool
    PROVE  Core'
<1>1. /\ FramesOK /\ ClientOK /\ LiveOK /\ OpenersOK /\ BusyOK
    BY DEF IInv
<1> DEFINE f == Flushed
           d == Mutate(f, {}, TRUE)
<1>2. /\ Receive /\ Head(frames).type = "tool" /\ chat' = d
      /\ deltas' = {} /\ compact' = compact /\ reads' = reads
    BY DEF OnTool
<1>3. /\ ChatOK(f) /\ TextOf(f) \subseteq LiveText
      /\ f.busy = chat.busy /\ (f.awaiting => chat.awaiting)
    BY <1>1, FlushedOK
<1> HIDE DEF f
<1>4. {} \in SUBSET Turn /\ TRUE \in BOOLEAN /\ Single({} \cup TextOf(f))
    BY <1>1, <1>3, SingleSubset DEF LiveOK
<1>5. /\ ChatOK(d) /\ TextOf(d) \subseteq {} \cup TextOf(f)
      /\ d.busy = f.busy /\ (d.awaiting => f.awaiting)
    BY <1>3, <1>4, MutateOK
<1> HIDE DEF d
<1>6. ChatOK(chat) /\ reads' \subseteq ReadRec /\ compact' \in BOOLEAN
    BY <1>1, <1>2 DEF ClientOK
<1>7. Opens(Head(frames)) /\ ~Closes(Head(frames))
    BY <1>2 DEF Opens, Closes
<1>8. deltas' \cup TextOf(chat') \subseteq LiveText \cup Head(frames).of
    BY <1>2, <1>3, <1>5
<1>9. deltas' \subseteq Turn
    BY <1>2
<1>10. LiveOK'
    BY <1>1, <1>2, <1>6, <1>7, <1>8, <1>9, LiveReceived
<1>11. ChatOK(chat') /\ Head(frames).type # "idle"
       /\ (chat'.busy \/ chat'.awaiting => chat.busy \/ chat.awaiting)
    BY <1>2, <1>3, <1>5
<1> QED
    BY <1>2, <1>6, <1>10, <1>11, ReceiveStep

(* The mark of a compaction preserves the invariant                         *)
LEMMA CompactStep ==
    ASSUME IInv, OnCompact
    PROVE  Core'
<1>1. /\ FramesOK /\ ClientOK /\ LiveOK /\ OpenersOK /\ BusyOK
    BY DEF IInv
<1>2. /\ Receive /\ Head(frames).type = "compact" /\ chat' = chat
      /\ deltas' = deltas /\ compact' = TRUE /\ reads' = reads
    BY DEF OnCompact
<1>3. ChatOK(chat') /\ ChatOK(chat) /\ reads' \subseteq ReadRec /\ compact' \in BOOLEAN
    BY <1>1, <1>2 DEF ClientOK
<1>4. /\ ~Closes(Head(frames)) /\ deltas' \subseteq Turn
      /\ deltas' \cup TextOf(chat') \subseteq LiveText
      /\ chat'.stream # 0 \/ deltas' # {} => chat.stream # 0 \/ deltas # {}
    BY <1>1, <1>2 DEF Closes, LiveOK, LiveText
<1>5. LiveOK'
    BY <1>1, <1>2, <1>3, <1>4, LiveReceived
<1> QED
    BY <1>2, <1>3, <1>5, ReceiveStep

(* A new call of hydrateFromStoredSession                                  *)
LEMMA ReadOK ==
    ASSUME NEW needle \in SUBSET Turn, NEW turn \in Turn
    PROVE  Read(needle, turn) \in ReadRec
<1>1. <<>> \in Seq(Turn)
    OBVIOUS
<1> QED
    BY <1>1 DEF Read, ReadRec

(* message.complete preserves the invariant: the row is closed              *)
LEMMA CompleteStep ==
    ASSUME IInv, OnComplete
    PROVE  Core'
<1>1. /\ FramesOK /\ ClientOK /\ LiveOK /\ OpenersOK /\ BusyOK
    BY DEF IInv
<1> DEFINE f == Flushed
           final == Head(frames).of
           d == Completed(f, final)
<1>2. /\ Receive /\ Head(frames).type = "complete" /\ chat' = d
      /\ deltas' = {} /\ compact' = FALSE
      /\ reads' \in {reads, reads \cup {Read(final, Head(frames).turn)}}
    BY DEF OnComplete
<1>3. Head(frames) \in FrameRec /\ Single(final)
    BY <1>1, <1>2, ReceivedFrames
<1>4. final \in SUBSET Turn /\ Head(frames).turn \in Turn
    BY <1>3 DEF FrameRec
<1>5. ChatOK(f)
    BY <1>1, FlushedOK
<1> HIDE DEF f, final
<1>6. ChatOK(d) /\ d.stream = 0 /\ ~d.busy /\ ~d.awaiting
    BY <1>3, <1>4, <1>5, CompletedOK
<1> HIDE DEF d
<1>7. reads' \subseteq ReadRec
    BY <1>1, <1>2, <1>4, ReadOK DEF ClientOK
<1>8. LiveOK'
    BY <1>2, <1>6, LiveEmpty
<1> QED
    BY <1>2, <1>6, <1>7, <1>8, ReceiveStep

(* error preserves the invariant: the row is closed                         *)
LEMMA ErrorStep ==
    ASSUME IInv, OnError
    PROVE  Core'
<1>1. /\ FramesOK /\ ClientOK /\ LiveOK /\ OpenersOK /\ BusyOK
    BY DEF IInv
<1> DEFINE f == Flushed
           d == Failed(f)
<1>2. /\ Receive /\ chat' = d /\ deltas' = {} /\ compact' = FALSE /\ reads' = reads
    BY DEF OnError
<1>3. ChatOK(f)
    BY <1>1, FlushedOK
<1> HIDE DEF f
<1>4. ChatOK(d) /\ d.stream = 0 /\ ~d.busy /\ ~d.awaiting
    BY <1>3, FailedOK
<1> HIDE DEF d
<1>5. reads' \subseteq ReadRec
    BY <1>1, <1>2 DEF ClientOK
<1>6. LiveOK'
    BY <1>2, <1>4, LiveEmpty
<1> QED
    BY <1>2, <1>4, <1>5, <1>6, ReceiveStep

(* When a turn is reported over, its row is closed and nothing waits       *)
LEMMA IdleStep ==
    ASSUME IInv, OnIdle
    PROVE  Core'
<1>1. /\ FramesOK /\ ClientOK /\ LiveOK /\ OpenersOK /\ BusyOK
    BY DEF IInv
<1>2. /\ Receive /\ Head(frames).type = "idle" /\ chat' = Idled(chat)
      /\ deltas' = deltas /\ compact' = compact
      /\ reads' \in {reads, reads \cup {Read({}, Head(frames).turn)}}
    BY DEF OnIdle
<1>3. frames \in Seq(FrameRec) /\ frames # <<>> /\ Head(frames) \in FrameRec
    BY <1>1, <1>2, ReceivedFrames
<1>4. chat.stream = 0 /\ deltas = {}
    BY <1>1, <1>2, <1>3, HeadBounded DEF LiveOK
<1>5. ChatOK(chat) /\ compact' \in BOOLEAN /\ Head(frames).turn \in Turn
    BY <1>1, <1>2, <1>3 DEF ClientOK, FrameRec
<1>6. ChatOK(chat') /\ chat'.stream = 0 /\ ~chat'.busy /\ ~chat'.awaiting
    BY <1>2, <1>4, <1>5, IdledOK
<1>7. reads' \subseteq ReadRec
    BY <1>1, <1>2, <1>5, ReadOK DEF ClientOK
<1>8. LiveOK'
    BY <1>2, <1>4, <1>6, LiveEmpty
<1> QED
    BY <1>2, <1>5, <1>6, <1>7, <1>8, ReceiveStep

-----------------------------------------------------------------------------
(* The invariant holds at the start and after every step                   *)
LEMMA EmptyChatOK == ChatOK(EmptyChat)
<1> DEFINE c == EmptyChat
<1>1. <<>> \in Seq(RowType) /\ Len(<<>>) = 0 /\ DOMAIN <<>> = {}
    OBVIOUS
<1>2. /\ c.busy = FALSE /\ c.awaiting = FALSE /\ c.interrupted = FALSE /\ c.stream = 0
      /\ c.saw = FALSE /\ c.msgs = <<>> /\ c.n = 0
    BY DEF EmptyChat
<1>3. c \in ChatRec
    BY <1>1 DEF ChatRec, EmptyChat
<1> HIDE DEF c
<1>4. MsgsOK(c.msgs, c.stream, c.n)
    BY <1>1, <1>2 DEF MsgsOK
<1> QED
    BY <1>2, <1>3, <1>4 DEF ChatOK, c

(* The invariant holds at the start                                         *)
LEMMA InitOK == Init => IInv
<1> SUFFICES ASSUME Init
             PROVE  IInv
    OBVIOUS
<1>1. /\ chat = EmptyChat /\ screen = <<>> /\ deltas = {} /\ frames = <<>> /\ reads = {}
      /\ compact = FALSE /\ next = 1
      /\ inbox = NoPrompt /\ run = NoRun /\ halt = FALSE /\ stored = <<>>
      /\ stops = 0 /\ restores = 0 /\ crossed = FALSE
    BY DEF Init
<1>2. DOMAIN <<>> = {} /\ \A S : <<>> \in Seq(S)
    OBVIOUS
<1>3. Turns \in Nat /\ MaxText \in Nat /\ MaxActs \in Nat
    BY StreamAssumption
<1>4. ServerOK
    <2>1. 0 \in 0..Turns /\ 0 \in 0..MaxText /\ 0 \in Nat
        BY <1>3
    <2>2. /\ inbox = [turn |-> 0, cut |-> FALSE, keep |-> 0]
          /\ run = [turn |-> 0, text |-> 0, tool |-> FALSE]
        BY <1>1 DEF NoPrompt, NoRun
    <2>3. /\ inbox \in [turn : 0..Turns, cut : BOOLEAN, keep : Nat]
          /\ run \in [turn : 0..Turns, text : 0..MaxText, tool : BOOLEAN]
        BY <2>1, <2>2
    <2>4. stored \in Seq(Turn) /\ halt \in BOOLEAN
        BY <1>1, <1>2
    <2> QED
        BY <2>3, <2>4 DEF ServerOK
<1>5. FramesOK /\ OpenersOK /\ ScreenOK
    BY <1>1, <1>2 DEF FramesOK, OpenersOK, ScreenOK
<1>6. ClientOK
    <2>1. 1 \in 1..(Turns + 1) /\ 0 \in 0..MaxActs
        BY <1>3
    <2>2. ChatOK(chat)
        BY <1>1, EmptyChatOK
    <2> QED
        BY <1>1, <2>1, <2>2 DEF ClientOK
<1>7. chat.stream = 0 /\ ~chat.busy /\ ~chat.awaiting
    BY <1>1 DEF EmptyChat
<1>8. LiveText = {}
    BY <1>1, <1>7, NoText DEF LiveText
<1>9. LiveOK /\ BusyOK
    BY <1>1, <1>2, <1>7, <1>8 DEF LiveOK, BusyOK, Single
<1> QED
    BY <1>4, <1>5, <1>6, <1>9 DEF IInv

(* Every frame received preserves the invariant but for the screen          *)
LEMMA FrameStep ==
    ASSUME IInv, OnFrame
    PROVE  Core'
BY StartStep, DeltaStep, ToolFrameStep, CompactStep, CompleteStep, ErrorStep, IdleStep
   DEF OnFrame

(* Every step of the server preserves the invariant but for the screen      *)
LEMMA ServerSteps ==
    ASSUME IInv, Server
    PROVE  Core'
BY AcceptStep, RefuseStep, TextStep, ToolStep, EndsStep, IgnoreStep DEF Server

(* Every step preserves the invariant                                       *)
LEMMA NextOK == IInv /\ Next => IInv'
<1> SUFFICES ASSUME IInv, Next
             PROVE  IInv'
    OBVIOUS
<1>1. \/ Submit \/ Stop \/ Restore \/ FlushTimer \/ OnFrame
      \/ Snap \/ Apply \/ GiveUp \/ Server
    BY DEF Next
<1>2. Core'
    BY <1>1, SubmitStep, StopStep, RestoreStep, FlushStep, ReadStep, FrameStep, ServerSteps
<1>3. ScreenOK /\ ChatOK(chat') /\ Paint
    BY <1>2 DEF IInv, Core, ClientOK, Next
<1>4. ScreenOK'
    BY <1>3, Painted
<1> QED
    BY <1>2, <1>4 DEF Core, IInv

(* A step that changes nothing preserves the invariant                      *)
LEMMA StutterOK == IInv /\ UNCHANGED vars => IInv'
<1> SUFFICES ASSUME IInv, UNCHANGED vars
             PROVE  IInv'
    OBVIOUS
<1>1. UNCHANGED <<chat, screen, deltas, frames, reads, compact, next, inbox, run, halt,
                  stored, stops, restores, crossed>>
    BY DEF vars
<1>2. ServerOK' /\ FramesOK' /\ ClientOK' /\ ScreenOK'
    BY <1>1 DEF IInv, ServerOK, FramesOK, ClientOK, ScreenOK
<1>3. LiveText' = LiveText
    BY <1>1 DEF LiveText, TextOf, RowText
<1>4. LiveOK' /\ OpenersOK' /\ BusyOK'
    BY <1>1, <1>3 DEF IInv, LiveOK, OpenersOK, BusyOK
<1> QED
    BY <1>2, <1>4 DEF IInv

(* Every reachable state satisfies the inductive invariant: the frames on  *)
(* their way, the text that waits and the row that is written are of one   *)
(* turn, and a busy chat has a turn that ends before it                    *)
THEOREM IInvAlways == Spec => []IInv
<1>1. IInv /\ [Next]_vars => IInv'
    BY NextOK, StutterOK
<1> QED
    BY InitOK, <1>1, PTL DEF Spec

(* The histories of a load that failed and of a stop                       *)
FlagsOK == unread \in BOOLEAN /\ muted \in BOOLEAN

(* They are TRUE or FALSE                                                  *)
LEMMA FlagsAlways == Spec => []FlagsOK
<1>1. Init => FlagsOK
    BY DEF Init, FlagsOK
<1>2. ASSUME FlagsOK, Next
      PROVE  FlagsOK'
    <2>1. Submit \/ Stop \/ Restore \/ FlushTimer => FlagsOK'
        BY <1>2 DEF Submit, Stop, Restore, FlushTimer, FlagsOK
    <2>2. OnFrame => FlagsOK'
        BY <1>2 DEF OnFrame, OnStart, OnDelta, OnTool, OnCompact, OnComplete, OnError,
                    OnIdle, Receive, FlagsOK
    <2>3. Snap \/ Apply \/ GiveUp => FlagsOK'
        BY <1>2 DEF Snap, Apply, GiveUp, FlagsOK
    <2>4. Server => FlagsOK'
        BY <1>2 DEF Server, clientVars, SrvAccept, SrvRefuse, SrvText, SrvTool, SrvEnd,
                    SrvComplete, SrvSilent, SrvFail, SrvStopped, SrvIgnore, FlagsOK
    <2> QED
        BY <1>2, <2>1, <2>2, <2>3, <2>4 DEF Next
<1>3. ASSUME FlagsOK, UNCHANGED vars
      PROVE  FlagsOK'
    BY <1>3 DEF vars, FlagsOK
<1> QED
    BY <1>1, <1>2, <1>3, PTL DEF Spec

(* The variables keep their types                                          *)
THEOREM TypeCorrect == Spec => []TypeOK
<1>1. ASSUME IInv, FlagsOK
      PROVE  TypeOK
    <2>1. ServerOK /\ ClientOK /\ ScreenOK /\ LiveOK
        BY <1>1 DEF IInv
    <2>2. /\ chat.msgs \in Seq(RowType) /\ chat.stream \in Nat /\ chat.n \in Nat
          /\ {chat.busy, chat.awaiting, chat.interrupted, chat.saw} \subseteq BOOLEAN
          /\ chat.stream \in 0..chat.n
        <3>1. chat \in ChatRec /\ chat.stream <= chat.n
            BY <2>1 DEF ClientOK, ChatOK
        <3> QED
            BY <3>1, ChatFields
    <2>3. ToSet(chat.msgs) \subseteq RowType /\ ToSet(screen) \subseteq RowType
        BY <2>1, <2>2 DEF ToSet, ScreenOK
    <2>4. /\ deltas \subseteq 1..Turns /\ inbox.turn \in 0..Turns /\ inbox.cut \in BOOLEAN
          /\ inbox.keep \in Nat
          /\ run.turn \in 0..Turns
        BY <2>1 DEF ServerOK, LiveOK, Turn
    <2>5. {halt, compact, crossed, unread, muted} \subseteq BOOLEAN
          /\ stops \in 0..MaxActs /\ restores \in 0..MaxActs
        BY <1>1, <2>1 DEF ServerOK, ClientOK, FlagsOK
    <2> QED
        BY <2>2, <2>3, <2>4, <2>5 DEF TypeOK
<1> QED
    BY <1>1, IInvAlways, FlagsAlways, PTL

(* A set with at most one turn has at most one element                     *)
LEMMA SingleCardinality ==
    ASSUME NEW T, Single(T)
    PROVE  Cardinality(T) <= 1
<1>1. CASE T = {}
    BY <1>1, FS_EmptySet
<1>2. CASE T # {}
    <2>1. PICK t \in T : T = {t}
        BY <1>2 DEF Single
    <2> QED
        BY SMTT(30), <2>1, FS_Singleton
<1> QED
    BY <1>1, <1>2

(* No row on the screen holds text of two turns, whatever is stopped,      *)
(* late, reloaded or sent again                                            *)
THEOREM NoMixedRowsAlways == Spec => []NoMixedRows
<1>1. IInv => NoMixedRows
    BY SingleCardinality DEF IInv, ScreenOK, RowOK, NoMixedRows
<1> QED
    BY <1>1, IInvAlways, PTL

(* A chat with nothing on its way is released and shows no pending row     *)
THEOREM NoSpinnerLeftAlways == Spec => []NoSpinnerLeft
<1>1. ASSUME IInv, Quiet
      PROVE  ~chat.busy /\ ~chat.awaiting /\ \A i \in DOMAIN screen : ~screen[i].pending
    <2>1. ClientOK /\ ScreenOK /\ LiveOK /\ BusyOK
        BY <1>1 DEF IInv
    <2>2. frames = <<>> /\ deltas = {} /\ inbox.turn = 0 /\ run.turn = 0
        BY <1>1 DEF Quiet
    <2>3. Len(frames) = 0
        BY <2>2
    <2>4. ~IdleAhead(frames, run, 0) /\ ~ClosedBefore(frames, 0, Len(frames) + 1)
        BY <2>2, <2>3 DEF IdleAhead, ClosedBefore
    <2>5. ~chat.busy /\ ~chat.awaiting
        BY <2>1, <2>2, <2>4 DEF BusyOK
    <2>6. ~Bounded(frames, run, 0, LiveText)
        BY <2>2, <2>4 DEF Bounded, Fresh
    <2>7. chat.stream = 0
        BY <2>1, <2>6 DEF LiveOK
    <2>8. \A j \in DOMAIN chat.msgs : ~chat.msgs[j].pending
        BY <2>1, <2>7 DEF ClientOK, ChatOK, MsgsOK
    <2> QED
        BY <2>1, <2>5, <2>8 DEF ScreenOK
<1>2. IInv => NoSpinnerLeft
    BY <1>1 DEF NoSpinnerLeft
<1> QED
    BY <1>2, IInvAlways, PTL

-----------------------------------------------------------------------------
(* A stopped chat shows the same text: the rows behind those of the chat    *)
(* are the ones preserveLocalAssistantErrors keeps, and stay               *)

(* The text of the newest prompt                                           *)
TailOf(new) ==
    LET last == SelectLastInSeq(new, LAMBDA m : m.role = "user")
    IN  IF last = 0 THEN {} ELSE new[last].of

(* Place i of s has an error row whose id no new row has, or the prompt of *)
(* one                                                                     *)
Lost(new, s, i) ==
    i \in DOMAIN s /\ s[i].error /\ \A j \in DOMAIN new : new[j].id # s[i].id
Asked(new, s, i) ==
    /\ i \in DOMAIN s /\ Lost(new, s, i + 1) /\ s[i].role = "user"
    /\ s[i].of # TailOf(new) /\ \A j \in DOMAIN new : new[j] # s[i]
LostRows(new, s) == {i \in DOMAIN s : Lost(new, s, i) \/ Asked(new, s, i)}

(* s is what the screen shows of the rows new                              *)
Shows(new, s) ==
    /\ Len(new) <= Len(s) /\ \A k \in 1..Len(new) : s[k] = new[k]
    /\ \A k \in (Len(new) + 1)..Len(s) : k \in LostRows(new, s) /\ ~s[k].pending

(* Kept puts the lost rows behind the new ones                             *)
LEMMA KeptIs ==
    ASSUME NEW new \in Seq(RowType), NEW old \in Seq(RowType)
    PROVE  LET rows == Where(old, LostRows(new, old))
           IN  Kept(new, old) = new \o [i \in DOMAIN rows |-> Calm(rows[i])]
<1> DEFINE last == SelectLastInSeq(new, LAMBDA m : m.role = "user")
           tail == IF last = 0 THEN {} ELSE new[last].of
           error == {i \in DOMAIN old :
                       old[i].error /\ \A m \in ToSet(new) : m.id # old[i].id}
           asked == {i \in DOMAIN old : /\ i + 1 \in error
                                        /\ old[i].role = "user" /\ old[i].of # tail
                                        /\ old[i] \notin ToSet(new)}
           rows == Where(old, error \cup asked)
<1>1. Kept(new, old) = new \o [i \in DOMAIN rows |-> Calm(rows[i])]
    BY DEF Kept, Calm
<1>2. \A m : m \in ToSet(new) <=> \E j \in DOMAIN new : new[j] = m
    BY DEF ToSet
<1>3. tail = TailOf(new)
    BY DEF TailOf
<1> HIDE DEF tail
<1>4. \A i : i \in error <=> Lost(new, old, i)
    BY <1>2 DEF Lost
<1> HIDE DEF error
<1>5. \A i : i \in asked <=> Asked(new, old, i)
    BY <1>2, <1>3, <1>4 DEF Asked, Lost
<1> HIDE DEF asked
<1>6. error \cup asked = LostRows(new, old)
    BY <1>4, <1>5 DEF LostRows, Lost, Asked
<1> QED
    BY <1>1, <1>6

(* The places a set of them numbers: each once, neighbours one after the   *)
(* other                                                                   *)
LEMMA RanksOK ==
    ASSUME NEW n \in Nat, NEW I \in SUBSET (1..n)
    PROVE  /\ \A i \in I : Rank(I, i) \in 1..Cardinality(I)
           /\ \A i, j \in I : Rank(I, i) = Rank(I, j) => i = j
           /\ \A i \in I : i + 1 \in I => Rank(I, i + 1) = Rank(I, i) + 1
<1> DEFINE upTo(i) == {j \in I : j <= i}
<1>1. IsFiniteSet(I) /\ Cardinality(I) \in Nat
    <2>1. IsFiniteSet(1..n)
        BY FS_Interval
    <2> QED
        BY <2>1, FS_Subset, FS_CardinalityType
<1>2. \A i \in I : IsFiniteSet(upTo(i)) /\ Cardinality(upTo(i)) \in Nat
    BY <1>1, FS_Subset, FS_CardinalityType
<1>3. ASSUME NEW i \in I
      PROVE  Rank(I, i) \in 1..Cardinality(I)
    <2>1. Cardinality(upTo(i)) <= Cardinality(I)
        BY <1>1, FS_Subset
    <2>2. i \in upTo(i)
        OBVIOUS
    <2>3. Cardinality(upTo(i)) # 0
        BY <1>2, <2>2, FS_EmptySet
    <2> QED
        BY <1>1, <1>2, <2>1, <2>3 DEF Rank
<1>4. ASSUME NEW i \in I, NEW j \in I, i < j
      PROVE  Rank(I, i) # Rank(I, j)
    <2>1. upTo(i) \subseteq upTo(j)
        <3>1. \A k \in I : k \in Int /\ (k <= i => k <= j)
            BY <1>4
        <3> QED
            BY <3>1
    <2>2. j \in upTo(j) /\ j \notin upTo(i)
        BY <1>4
    <2> QED
        BY <1>2, <2>1, <2>2, FS_Subset DEF Rank
<1>5. ASSUME NEW i \in I, i + 1 \in I
      PROVE  Rank(I, i + 1) = Rank(I, i) + 1
    <2>1. upTo(i + 1) = upTo(i) \cup {i + 1}
        <3>1. \A k \in I : k \in Int /\ (k <= i + 1 <=> k <= i \/ k = i + 1)
            OBVIOUS
        <3> QED
            BY <1>5, <3>1
    <2>2. i + 1 \notin upTo(i)
        OBVIOUS
    <2> QED
        BY <1>2, <2>1, <2>2, FS_AddElement DEF Rank
<1>6. ASSUME NEW i \in I, NEW j \in I, Rank(I, i) = Rank(I, j)
      PROVE  i = j
    <2>1. ~(i < j) /\ ~(j < i)
        BY <1>4, <1>6
    <2> QED
        BY <2>1
<1> QED
    BY <1>3, <1>5, <1>6

(* Where numbers the places by their rank                                  *)
LEMMA WhereIs ==
    ASSUME NEW S, NEW s \in Seq(S), NEW I \in SUBSET DOMAIN s
    PROVE  /\ Cardinality(I) \in Nat /\ DOMAIN Where(s, I) = 1..Cardinality(I)
           /\ Where(s, I) \in Seq(S) /\ Len(Where(s, I)) = Cardinality(I)
           /\ \A k \in 1..Cardinality(I) : \E i \in I : Rank(I, i) = k
           /\ \A i \in I : /\ Rank(I, i) \in 1..Cardinality(I)
                           /\ Where(s, I)[Rank(I, i)] = s[i]
           /\ \A i \in I : i + 1 \in I => Rank(I, i + 1) = Rank(I, i) + 1
<1> DEFINE m == Cardinality(I)
           at(k) == CHOOSE i \in I : Rank(I, i) = k
<1>1. Len(s) \in Nat /\ I \in SUBSET (1..Len(s))
    OBVIOUS
<1>2. m \in Nat /\ \A k \in 1..m : \E i \in I : Rank(I, i) = k
    BY <1>1, RankOK
<1>3. /\ \A i \in I : Rank(I, i) \in 1..m
      /\ \A i, j \in I : Rank(I, i) = Rank(I, j) => i = j
      /\ \A i \in I : i + 1 \in I => Rank(I, i + 1) = Rank(I, i) + 1
    BY <1>1, RanksOK
<1>4. Where(s, I) = [k \in 1..m |-> s[at(k)]]
    BY DEF Where, Rank
<1>5. \A k \in 1..m : at(k) \in I /\ Rank(I, at(k)) = k
    BY <1>2
<1>6. \A i \in I : at(Rank(I, i)) = i
    BY <1>3, <1>5
<1> HIDE DEF at, m
<1>7. DOMAIN Where(s, I) = 1..m /\ \A k \in 1..m : Where(s, I)[k] = s[at(k)]
    BY <1>4
<1>8. Where(s, I) \in Seq(S) /\ Len(Where(s, I)) = m
    <2>1. \A k \in 1..m : s[at(k)] \in S
        BY <1>5
    <2>2. [k \in 1..m |-> s[at(k)]] \in Seq(S) /\ Len([k \in 1..m |-> s[at(k)]]) = m
        BY <1>2, <2>1
    <2> QED
        BY <1>4, <2>2
<1> QED
    BY <1>2, <1>3, <1>6, <1>7, <1>8 DEF m

(* A row at rest is its own calm form, and a calm row is still an error    *)
LEMMA CalmSame ==
    ASSUME NEW m \in RowType
    PROVE  /\ Calm(m).error = m.error
           /\ ~m.pending => Calm(m) = m
BY DEF RowType, Calm

(* What is painted shows the rows                                          *)
LEMMA KeptShows ==
    ASSUME NEW new \in Seq(RowType), NEW old \in Seq(RowType),
           \A i \in DOMAIN old : old[i].role = "user" => ~old[i].pending
    PROVE  Shows(new, Kept(new, old))
<1> DEFINE I == LostRows(new, old)
           rows == Where(old, I)
           more == [i \in DOMAIN rows |-> Calm(rows[i])]
           all == new \o more
           n == Len(new)
           m == Cardinality(I)
<1>1. Kept(new, old) = all
    BY KeptIs
<1>2. I \in SUBSET DOMAIN old /\ \A i \in I : Lost(new, old, i) \/ Asked(new, old, i)
    BY DEF LostRows
<1>3. \A i \in DOMAIN old : Lost(new, old, i) => i \in I
    BY DEF LostRows
<1> HIDE DEF I
<1>4. /\ m \in Nat /\ DOMAIN rows = 1..m /\ rows \in Seq(RowType)
      /\ \A k \in 1..m : \E i \in I : Rank(I, i) = k
      /\ \A i \in I : Rank(I, i) \in 1..m /\ rows[Rank(I, i)] = old[i]
      /\ \A i \in I : i + 1 \in I => Rank(I, i + 1) = Rank(I, i) + 1
    BY <1>2, WhereIs
<1> HIDE DEF rows, m
<1>5. /\ more \in Seq(RowType) /\ Len(more) = m /\ \A k \in 1..m : more[k] = Calm(rows[k])
    <2>1. \A k \in 1..m : Calm(rows[k]) \in RowType
        BY <1>4, CalmOK
    <2>2. more = [k \in 1..m |-> Calm(rows[k])]
        BY <1>4
    <2> HIDE DEF more
    <2> QED
        BY <1>4, <2>1, <2>2
<1> HIDE DEF more
<1>6. /\ n \in Nat /\ Len(all) = n + m /\ \A k \in 1..n : all[k] = new[k]
      /\ \A k \in 1..m : all[n + k] = more[k]
      /\ DOMAIN all = 1..(n + m)
    <2>1. new \in Seq(RowType) /\ more \in Seq(RowType) /\ n \in Nat
        BY <1>5
    <2>2. /\ all \in Seq(RowType) /\ Len(all) = n + Len(more)
          /\ \A k \in 1..n : all[k] = new[k]
          /\ \A k \in 1..Len(more) : all[n + k] = more[k]
        BY <2>1
    <2>3. DOMAIN all = 1..Len(all)
        BY <2>2
    <2> HIDE DEF all, n
    <2> QED
        BY <1>5, <2>1, <2>2, <2>3
<1> HIDE DEF all, n
<1>7. ASSUME NEW i \in I
      PROVE  n + Rank(I, i) \in DOMAIN all /\ all[n + Rank(I, i)] = Calm(old[i])
    BY <1>4, <1>5, <1>6, <1>7
<1>8. ASSUME NEW i \in I, Lost(new, old, i)
      PROVE  Lost(new, all, n + Rank(I, i))
    <2>1. old[i] \in RowType
        BY <1>2
    <2>2. Calm(old[i]).id = old[i].id /\ Calm(old[i]).error = old[i].error
        BY <2>1, CalmOK, CalmSame
    <2> QED
        BY <1>7, <1>8, <2>2 DEF Lost
<1>9. ASSUME NEW i \in I, Asked(new, old, i)
      PROVE  Asked(new, all, n + Rank(I, i))
    <2>1. i + 1 \in I /\ Lost(new, old, i + 1)
        BY <1>3, <1>9 DEF Asked, Lost
    <2>2. Lost(new, all, n + Rank(I, i + 1))
        BY <1>8, <2>1
    <2>3. n + Rank(I, i + 1) = (n + Rank(I, i)) + 1
        BY <1>4, <1>6, <2>1
    <2>4. old[i] \in RowType /\ old[i].role = "user" /\ ~old[i].pending
        BY <1>2, <1>9 DEF Asked
    <2>5. all[n + Rank(I, i)] = old[i]
        BY <1>7, <2>4, CalmSame
    <2> QED
        BY <1>7, <1>9, <2>2, <2>3, <2>5 DEF Asked
<1>10. ASSUME NEW k \in (n + 1)..Len(all)
       PROVE  k \in LostRows(new, all) /\ ~all[k].pending
    <2>1. k - n \in 1..m
        BY <1>4, <1>6
    <2>2. PICK i \in I : Rank(I, i) = k - n
        BY <1>4, <2>1
    <2>3. n + Rank(I, i) = k
        BY <1>4, <1>6, <2>1, <2>2
    <2>4. Lost(new, all, k) \/ Asked(new, all, k)
        BY <1>2, <1>8, <1>9, <2>3
    <2>5. old[i] \in RowType /\ all[k] = Calm(old[i])
        BY <1>2, <1>7, <2>3
    <2>6. ~all[k].pending
        BY <2>5, CalmOK
    <2> QED
        BY <2>4, <2>6 DEF LostRows, Lost, Asked
<1>11. n <= Len(all)
    BY <1>4, <1>6
<1> QED
    BY <1>1, <1>6, <1>10, <1>11 DEF Shows, n

(* f takes the places I of s to the places J of t, in their order and with *)
(* their elements                                                          *)
Moves(f, s, I, t, J) ==
    /\ I \in SUBSET DOMAIN s /\ J \in SUBSET DOMAIN t
    /\ f \in [I -> J] /\ \A j \in J : \E i \in I : f[i] = j
    /\ \A i, j \in I : i <= j <=> f[i] <= f[j]
    /\ \A i \in I : t[f[i]] = s[i]

(* Places that keep their order and their elements give the same sequence  *)
LEMMA WhereMoved ==
    ASSUME NEW S, NEW s \in Seq(S), NEW t \in Seq(S), NEW I, NEW J, NEW f,
           Moves(f, s, I, t, J)
    PROVE  Where(s, I) = Where(t, J)
<1>0. /\ I \in SUBSET DOMAIN s /\ J \in SUBSET DOMAIN t
      /\ f \in [I -> J] /\ \A j \in J : \E i \in I : f[i] = j
      /\ \A i, j \in I : i <= j <=> f[i] <= f[j]
      /\ \A i \in I : t[f[i]] = s[i]
    BY DEF Moves
<1> DEFINE w == Where(s, I)
           v == Where(t, J)
           m == Cardinality(I)
<1>1. /\ Len(s) \in Nat /\ Len(t) \in Nat /\ I \subseteq 1..Len(s) /\ J \subseteq 1..Len(t)
    BY <1>0
<1>2. IsFiniteSet(I) /\ \A i \in I : IsFiniteSet({j \in I : j <= i})
    <2>1. IsFiniteSet(1..Len(s))
        BY <1>1, FS_Interval
    <2> QED
        BY <1>1, <2>1, FS_Subset
<1>3. ASSUME NEW A \in SUBSET I, NEW B \in SUBSET J, IsFiniteSet(A),
             \A i \in A : f[i] \in B, \A j \in B : \E i \in A : f[i] = j
      PROVE  Cardinality(B) = Cardinality(A)
    <2> DEFINE g == [i \in A |-> f[i]]
    <2>1. \A i, j \in A : f[i] = f[j] => i = j
        <3> SUFFICES ASSUME NEW i \in A, NEW j \in A, f[i] = f[j]
                     PROVE  i = j
            OBVIOUS
        <3>1. f[i] \in Int /\ f[j] \in Int /\ i \in Int /\ j \in Int
            BY <1>0, <1>1
        <3>2. f[i] <= f[j] /\ f[j] <= f[i]
            BY <3>1
        <3>3. i <= j /\ j <= i
            BY <1>0, <3>2
        <3> QED
            BY <3>1, <3>3
    <2>2. g \in Bijection(A, B)
        BY <1>0, <1>3, <2>1 DEF Bijection, Injection, Surjection, IsInjective
    <2>3. ExistsBijection(A, B)
        BY <2>2 DEF ExistsBijection
    <2> QED
        BY <1>3, <2>3, FS_Bijection
<1>4. Cardinality(J) = m
    BY <1>0, <1>2, <1>3
<1>5. ASSUME NEW i \in I
      PROVE  Rank(J, f[i]) = Rank(I, i)
    <2> DEFINE A == {j \in I : j <= i}
               B == {j \in J : j <= f[i]}
    <2>1. A \in SUBSET I /\ B \in SUBSET J /\ IsFiniteSet(A)
        BY <1>2
    <2>2. \A j \in A : f[j] \in B
        BY <1>0
    <2>3. \A j \in B : \E k \in A : f[k] = j
        BY <1>0
    <2>4. Cardinality(B) = Cardinality(A)
        <3> HIDE DEF A, B
        <3> QED
            BY <1>3, <2>1, <2>2, <2>3
    <2> QED
        BY <2>4 DEF Rank
<1>6. /\ m \in Nat /\ w \in Seq(S) /\ Len(w) = m
      /\ \A k \in 1..m : \E i \in I : Rank(I, i) = k
      /\ \A i \in I : w[Rank(I, i)] = s[i]
    BY <1>0, WhereIs
<1>7. v \in Seq(S) /\ Len(v) = m /\ \A j \in J : v[Rank(J, j)] = t[j]
    <2>1. /\ Where(t, J) \in Seq(S) /\ Len(Where(t, J)) = Cardinality(J)
          /\ \A j \in J : Where(t, J)[Rank(J, j)] = t[j]
        BY <1>0, WhereIs
    <2> QED
        BY <1>4, <2>1
<1> HIDE DEF w, v, m
<1>8. ASSUME NEW k \in 1..Len(w)
      PROVE  w[k] = v[k]
    <2>1. PICK i \in I : Rank(I, i) = k
        BY <1>6
    <2>2. w[k] = s[i] /\ f[i] \in J /\ v[Rank(J, f[i])] = t[f[i]]
        BY <1>0, <1>6, <1>7, <2>1
    <2> QED
        BY <1>0, <1>5, <2>1, <2>2
<1>9. Len(w) = Len(v)
    BY <1>6, <1>7
<1>10. w = v
    BY <1>6, <1>7, <1>8, <1>9, SeqEqual
<1> QED
    BY <1>10 DEF w, v

(* All places behind the n-th                                              *)
LEMMA WhereBehind ==
    ASSUME NEW S, NEW s \in Seq(S), NEW n \in Nat, n <= Len(s)
    PROVE  LET w == Where(s, (n + 1)..Len(s))
           IN  /\ w \in Seq(S) /\ Len(w) = Len(s) - n
               /\ \A k \in 1..(Len(s) - n) : w[k] = s[n + k]
<1> DEFINE I == (n + 1)..Len(s)
           w == Where(s, I)
<1>1. Len(s) \in Nat /\ I \in SUBSET DOMAIN s
    OBVIOUS
<1>2. Cardinality(I) = Len(s) - n
    <2>1. n + 1 \in Int /\ Len(s) \in Int
        BY <1>1
    <2>2. Cardinality(I) = IF n + 1 > Len(s) THEN 0 ELSE Len(s) - (n + 1) + 1
        BY <2>1, FS_Interval
    <2> HIDE DEF I
    <2> QED
        BY <1>1, <2>2
<1>3. ASSUME NEW i \in I
      PROVE  Rank(I, i) = i - n
    <2>1. {j \in I : j <= i} = (n + 1)..i
        BY <1>1
    <2>2. Cardinality((n + 1)..i) = i - n
        BY <1>1, FS_Interval
    <2> QED
        BY <2>1, <2>2 DEF Rank
<1> HIDE DEF I
<1>4. /\ w \in Seq(S) /\ Len(w) = Cardinality(I)
      /\ \A i \in I : w[Rank(I, i)] = s[i]
    BY <1>1, WhereIs
<1>5. ASSUME NEW k \in 1..(Len(s) - n)
      PROVE  w[k] = s[n + k]
    <2>1. n + k \in I /\ (n + k) - n = k
        BY <1>1 DEF I
    <2>2. Rank(I, n + k) = k
        BY <1>3, <2>1
    <2> QED
        BY <1>4, <2>1, <2>2
<1> QED
    BY <1>2, <1>4, <1>5 DEF I

(* Painted again, the rows behind those of the chat stay, if they are lost *)
(* for the new rows too                                                    *)
LEMMA KeptAgain ==
    ASSUME NEW new \in Seq(RowType), NEW s \in Seq(RowType), Shows(new, s),
           NEW new2 \in Seq(RowType),
           \A j \in DOMAIN new : \E k \in DOMAIN new2 : new2[k] = new[j],
           \A k \in DOMAIN s : Lost(new, s, k) => Lost(new2, s, k),
           \A k \in DOMAIN s : Asked(new, s, k) => Asked(new2, s, k)
    PROVE  LET all == Kept(new2, s)
               n2 == Len(new2)
               l == Len(s) - Len(new)
           IN  /\ all \in Seq(RowType) /\ Len(all) = n2 + l
               /\ n2 \in Nat /\ l \in Nat
               /\ \A k \in 1..n2 : all[k] = new2[k]
               /\ \A k \in 1..l : all[n2 + k] = s[Len(new) + k]
<1> DEFINE I == LostRows(new2, s)
           rows == Where(s, I)
           more == [i \in DOMAIN rows |-> Calm(rows[i])]
           all == new2 \o more
           n == Len(new)
           n2 == Len(new2)
           l == Len(s) - n
<1>1. /\ n \in Nat /\ Len(s) \in Nat /\ n2 \in Nat /\ l \in Nat /\ n <= Len(s)
      /\ DOMAIN s = 1..Len(s) /\ DOMAIN new = 1..n
      /\ \A k \in 1..n : s[k] = new[k]
      /\ \A k \in (n + 1)..Len(s) : k \in LostRows(new, s) /\ ~s[k].pending
    <2>1. n \in Nat /\ Len(s) \in Nat /\ n2 \in Nat
        OBVIOUS
    <2>2. n <= Len(s)
        BY DEF Shows
    <2> QED
        BY <2>1, <2>2 DEF Shows
<1>2. Kept(new2, s) = all
    BY KeptIs
<1>3. I = (n + 1)..Len(s)
    <2>1. ASSUME NEW k \in 1..n
          PROVE  k \notin I
        <3>1. PICK j \in DOMAIN new2 : new2[j] = s[k]
            BY <1>1, <2>1
        <3> QED
            BY <3>1 DEF LostRows, Lost, Asked
    <2>2. ASSUME NEW k \in (n + 1)..Len(s)
          PROVE  k \in I
        BY <1>1, <2>2 DEF LostRows
    <2>3. \A k \in I : k \in 1..Len(s)
        BY <1>1 DEF LostRows
    <2> HIDE DEF I
    <2>4. \A k \in 1..Len(s) : k \in 1..n \/ k \in (n + 1)..Len(s)
        BY <1>1
    <2> QED
        BY <2>1, <2>2, <2>3, <2>4
<1>4. rows \in Seq(RowType) /\ Len(rows) = l /\ \A k \in 1..l : rows[k] = s[n + k]
    <2>1. rows = Where(s, (n + 1)..Len(s))
        BY <1>3
    <2> HIDE DEF n, rows
    <2>2. s \in Seq(RowType) /\ n \in Nat /\ n <= Len(s)
        BY <1>1
    <2>3. LET w == Where(s, (n + 1)..Len(s))
          IN  /\ w \in Seq(RowType) /\ Len(w) = Len(s) - n
              /\ \A k \in 1..(Len(s) - n) : w[k] = s[n + k]
        BY <2>2, WhereBehind
    <2> QED
        BY <2>1, <2>3
<1> HIDE DEF rows
<1>5. more \in Seq(RowType) /\ Len(more) = l /\ \A k \in 1..l : more[k] = s[n + k]
    <2>1. \A k \in 1..l : n + k \in (n + 1)..Len(s) /\ n + k \in DOMAIN s
        BY <1>1
    <2>2. \A k \in 1..l : s[n + k] \in RowType /\ ~s[n + k].pending
        BY <1>1, <2>1
    <2>3. \A k \in 1..l : Calm(rows[k]) = s[n + k]
        BY <1>4, <2>2, CalmSame
    <2>4. DOMAIN rows = 1..l
        BY <1>1, <1>4
    <2> DEFINE g == [k \in 1..l |-> s[n + k]]
    <2>5. more = g
        BY <2>3, <2>4
    <2>6. l \in Nat /\ \A k \in 1..l : s[n + k] \in RowType
        BY <1>1, <2>2
    <2>7. (\A k \in 1..l : g[k] = s[n + k]) /\ DOMAIN g = 1..l
        OBVIOUS
    <2> HIDE DEF more, l, n
    <2>8. g \in Seq(RowType) /\ Len(g) = l
        BY <2>6
    <2> HIDE DEF g
    <2> QED
        BY <2>5, <2>7, <2>8
<1> HIDE DEF more
<1>6. /\ all \in Seq(RowType) /\ Len(all) = n2 + Len(more)
      /\ \A k \in 1..n2 : all[k] = new2[k]
      /\ \A k \in 1..Len(more) : all[n2 + k] = more[k]
    <2>1. new2 \in Seq(RowType) /\ more \in Seq(RowType)
        BY <1>5
    <2> QED
        BY <2>1
<1> HIDE DEF all
<1>7. /\ all \in Seq(RowType) /\ Len(all) = n2 + l
      /\ n2 \in Nat /\ l \in Nat
      /\ \A k \in 1..n2 : all[k] = new2[k]
      /\ \A k \in 1..l : all[n2 + k] = s[n + k]
    <2> HIDE DEF n, n2, l
    <2> QED
        BY <1>1, <1>5, <1>6
<1> QED
    BY <1>2, <1>7

(* With the same rows of the chat the screen stays as it is                *)
LEMMA KeptSame ==
    ASSUME NEW new \in Seq(RowType), NEW s \in Seq(RowType), Shows(new, s)
    PROVE  Kept(new, s) = s
<1> DEFINE all == Kept(new, s)
           n == Len(new)
           l == Len(s) - n
<1>1. /\ n \in Nat /\ Len(s) \in Nat /\ \A k \in 1..n : s[k] = new[k]
    BY DEF Shows
<1>2. \A j \in DOMAIN new : \E k \in DOMAIN new : new[k] = new[j]
    OBVIOUS
<1>3. /\ all \in Seq(RowType) /\ Len(all) = n + l /\ l \in Nat
      /\ \A k \in 1..n : all[k] = new[k]
      /\ \A k \in 1..l : all[n + k] = s[n + k]
    BY <1>2, KeptAgain
<1> HIDE DEF all
<1>4. Len(all) = Len(s)
    BY <1>1, <1>3
<1> HIDE DEF n
<1>5. ASSUME NEW k \in 1..Len(all)
      PROVE  all[k] = s[k]
    <2>1. CASE k \in 1..n
        BY <1>1, <1>3, <2>1
    <2>2. CASE ~(k \in 1..n)
        <3>1. k - n \in 1..l /\ n + (k - n) = k
            BY <1>1, <1>3, <1>4, <2>2
        <3> QED
            BY <1>3, <3>1
    <2> QED
        BY <2>1, <2>2
<1>6. all = s
    BY <1>3, <1>4, <1>5, SeqEqual
<1> QED
    BY <1>6 DEF all

(* A row that is not of the user leaves the newest prompt as it is         *)
LEMMA TailAdded ==
    ASSUME NEW new \in Seq(RowType), NEW e \in RowType, e.role = "assistant"
    PROVE  TailOf(Append(new, e)) = TailOf(new)
<1> DEFINE t == Append(new, e)
           n == Len(new)
           I == {i \in 1..Len(new) : new[i].role = "user"}
           J == {i \in 1..Len(t) : t[i].role = "user"}
           last == SelectLastInSeq(new, LAMBDA m : m.role = "user")
           last2 == SelectLastInSeq(t, LAMBDA m : m.role = "user")
<1>1. n \in Nat /\ Len(t) = n + 1 /\ t[n + 1] = e /\ \A i \in 1..n : t[i] = new[i]
    OBVIOUS
<1>2. /\ last = IF I # {} THEN Max(I) ELSE 0
      /\ last2 = IF J # {} THEN Max(J) ELSE 0
    BY DEF SelectLastInSeq
<1>3. TailOf(new) = IF last = 0 THEN {} ELSE new[last].of
    BY DEF TailOf
<1>4. TailOf(t) = IF last2 = 0 THEN {} ELSE t[last2].of
    BY DEF TailOf
<1> HIDE DEF last, last2, t
<1>5. I = J
    <2>1. \A i : i \in 1..(n + 1) => i \in 1..n \/ i = n + 1
        BY <1>1
    <2>2. \A i : i \in 1..n => i \in 1..(n + 1) /\ i # n + 1
        BY <1>1
    <2> QED
        BY <1>1, <2>1, <2>2
<1>6. last2 = last
    BY <1>2, <1>5
<1>7. last # 0 => last \in 1..n
    <2>1. I \in SUBSET (0..n)
        BY <1>1
    <2>2. I # {} => \E i \in I : \A j \in I : j <= i
        BY <1>1, <2>1, LastPlace
    <2>3. \A i, j \in I : j <= i <=> i >= j
        BY <1>1
    <2>4. I # {} => \E i \in I : \A j \in I : i >= j
        BY <2>2, <2>3
    <2>5. I # {} => Max(I) \in I
        BY <2>4 DEF Max
    <2> QED
        BY <1>2, <2>5
<1>8. last # 0 => t[last] = new[last]
    BY <1>1, <1>7
<1> QED
    BY <1>3, <1>4, <1>6, <1>8 DEF t

(* The rows with text                                                      *)
TextRows(s) == Where(s, {i \in DOMAIN s : s[i].of # {}})

(* A mark without text behind the rows of the chat adds no text            *)
LEMMA MarkedTexts ==
    ASSUME NEW new \in Seq(RowType), NEW s \in Seq(RowType), Shows(new, s),
           NEW e \in RowType, e.role = "assistant", e.of = {},
           \A k \in DOMAIN s : s[k].id # e.id
    PROVE  TextRows(Kept(Append(new, e), s)) = TextRows(s)
<1> DEFINE new2 == Append(new, e)
           n == Len(new)
           all == Kept(new2, s)
           l == Len(s) - n
<1>1. /\ new2 \in Seq(RowType) /\ n \in Nat /\ Len(new2) = n + 1
      /\ DOMAIN new2 = 1..(n + 1) /\ DOMAIN new = 1..n /\ new2[n + 1] = e
      /\ \A k \in 1..n : new2[k] = new[k]
    OBVIOUS
<1>2. TailOf(new2) = TailOf(new)
    BY TailAdded
<1> HIDE DEF new2
<1>3. \A j \in DOMAIN new : \E k \in DOMAIN new2 : new2[k] = new[j]
    BY <1>1
<1>4. \A j \in DOMAIN new2 : (j \in DOMAIN new /\ new2[j] = new[j]) \/ new2[j] = e
    BY <1>1
<1>5. \A k : Lost(new, s, k) => Lost(new2, s, k)
    BY <1>4 DEF Lost
<1>6. \A k : Asked(new, s, k) => Asked(new2, s, k)
    BY <1>2, <1>4, <1>5 DEF Asked
<1>7. /\ all \in Seq(RowType) /\ Len(all) = (n + 1) + l /\ l \in Nat
      /\ \A k \in 1..(n + 1) : all[k] = new2[k]
      /\ \A k \in 1..l : all[(n + 1) + k] = s[n + k]
    <2>1. /\ new2 \in Seq(RowType)
          /\ \A j \in DOMAIN new : \E k \in DOMAIN new2 : new2[k] = new[j]
          /\ \A k \in DOMAIN s : Lost(new, s, k) => Lost(new2, s, k)
          /\ \A k \in DOMAIN s : Asked(new, s, k) => Asked(new2, s, k)
        BY <1>1, <1>3, <1>5, <1>6
    <2>2. LET a == Kept(new2, s)
              n2 == Len(new2)
              r == Len(s) - Len(new)
          IN  /\ a \in Seq(RowType) /\ Len(a) = n2 + r
              /\ n2 \in Nat /\ r \in Nat
              /\ \A k \in 1..n2 : a[k] = new2[k]
              /\ \A k \in 1..r : a[n2 + k] = s[Len(new) + k]
        BY <2>1, KeptAgain
    <2> QED
        BY <1>1, <2>2
<1> HIDE DEF all
<1>8. /\ Len(s) \in Nat /\ Len(s) = n + l /\ \A k \in 1..n : s[k] = new[k]
      /\ DOMAIN s = 1..Len(s)
    BY <1>1 DEF Shows
<1> HIDE DEF n, l
<1>9. /\ \A k \in 1..n : k \in DOMAIN all /\ all[k] = s[k]
      /\ all[n + 1].of = {}
      /\ \A k \in (n + 1)..(n + l) : k + 1 \in DOMAIN all /\ all[k + 1] = s[k]
      /\ DOMAIN all = 1..((n + 1) + l)
    <2>1. DOMAIN all = 1..((n + 1) + l)
        BY <1>7
    <2>2. ASSUME NEW k \in (n + 1)..(n + l)
          PROVE  k + 1 \in DOMAIN all /\ all[k + 1] = s[k]
        <3>1. k - n \in 1..l /\ (n + 1) + (k - n) = k + 1 /\ n + (k - n) = k
            BY <1>1, <1>7
        <3>2. k + 1 \in 1..((n + 1) + l)
            BY <1>1, <1>7
        <3> QED
            BY <1>7, <2>1, <3>1, <3>2
    <2>3. all[n + 1].of = {}
        BY <1>1, <1>7
    <2> QED
        BY <1>1, <1>7, <1>8, <2>1, <2>2, <2>3
<1> DEFINE I == {i \in DOMAIN s : s[i].of # {}}
           J == {i \in DOMAIN all : all[i].of # {}}
           f == [i \in I |-> IF i <= n THEN i ELSE i + 1]
<1>10. ASSUME NEW i \in DOMAIN s
       PROVE  \/ i \in 1..n /\ i <= n
              \/ i \in (n + 1)..(n + l) /\ ~(i <= n)
    BY <1>1, <1>8
<1>11. ASSUME NEW i \in I
       PROVE  f[i] \in J /\ all[f[i]] = s[i]
    BY <1>9, <1>10
<1>12. ASSUME NEW j \in J
       PROVE  \E i \in I : f[i] = j
    <2>1. j \in 1..((n + 1) + l) /\ j # n + 1
        BY <1>9
    <2>2. CASE j <= n
        <3>1. j \in 1..n /\ j \in DOMAIN s
            BY <1>1, <1>7, <1>8, <2>1, <2>2
        <3>2. j \in I
            BY <1>9, <3>1
        <3> QED
            BY <2>2, <3>2
    <2>3. CASE ~(j <= n)
        <3>1. j - 1 \in (n + 1)..(n + l) /\ j - 1 \in DOMAIN s /\ (j - 1) + 1 = j
              /\ ~(j - 1 <= n)
            BY <1>1, <1>7, <1>8, <2>1, <2>3
        <3>2. j - 1 \in I
            BY <1>9, <3>1
        <3>3. f[j - 1] = j
            BY <3>1, <3>2
        <3> QED
            BY <3>2, <3>3
    <2> QED
        BY <2>2, <2>3
<1>13. \A i, j \in I : i <= j <=> f[i] <= f[j]
    <2>1. \A i \in I : i \in Int
        BY <1>8
    <2> QED
        BY <1>1, <2>1
<1>14. f \in [I -> J] /\ I \in SUBSET DOMAIN s /\ J \in SUBSET DOMAIN all
    BY <1>11
<1> HIDE DEF I, J, f
<1>15. Where(s, I) = Where(all, J)
    <2>1. Moves(f, s, I, all, J)
        BY <1>11, <1>12, <1>13, <1>14 DEF Moves
    <2>2. s \in Seq(RowType) /\ all \in Seq(RowType)
        BY <1>7
    <2> QED
        BY <2>1, <2>2, WhereMoved
<1> QED
    BY <1>15 DEF I, J, TextRows, all, new2

(* From chat c to chat d: ids are given out once, and a chat that is        *)
(* interrupted and busy was so before                                      *)
Follows(c, d) == c.n <= d.n /\ (d.interrupted /\ d.busy => c.interrupted /\ c.busy)

(* An interrupted chat keeps its rows and gets at most a mark               *)
Frozen(c, d) == c.interrupted /\ d.interrupted => d.msgs = c.msgs \/ AddsMark(c, d)

(* A chat that only ends its turn follows                                  *)
LEMMA EndsFollows ==
    ASSUME NEW c, NEW d, c.n <= d.n, ~d.busy
    PROVE  Follows(c, d)
BY DEF Follows

(* A chat that stays as it is follows itself                               *)
LEMMA SameFollows ==
    ASSUME NEW c, ChatOK(c)
    PROVE  Follows(c, c) /\ Frozen(c, c)
<1>1. c.n \in Nat
    BY ChatFields DEF ChatOK
<1> QED
    BY <1>1 DEF Follows, Frozen

(* A chat that begins a turn is not interrupted                            *)
LEMMA BeginsFollows ==
    ASSUME NEW c, NEW d, c.n <= d.n, ~d.interrupted
    PROVE  Follows(c, d) /\ Frozen(c, d)
BY DEF Follows, Frozen

(* What the user does                                                      *)
LEMMA UserFollows ==
    ASSUME IInv, chat.interrupted => ~chat.busy, Submit \/ Stop \/ Restore
    PROVE  Follows(chat, chat') /\ Frozen(chat, chat')
<1>1. ChatOK(chat) /\ chat.n \in Nat
    BY ChatFields DEF IInv, ClientOK, ChatOK
<1>2. CASE Submit
    <2>1. next \in Turn
        BY <1>2, StreamAssumption DEF IInv, ClientOK, Submit, Turn
    <2>2. chat'.n = chat.n /\ ~chat'.interrupted
        BY <1>1, <1>2, <2>1, SeedOK DEF Submit
    <2> QED
        BY <1>1, <2>2, BeginsFollows
<1>3. CASE Stop
    <2>1. chat.busy /\ chat'.n = chat.n /\ ~chat'.busy
        BY <1>1, <1>3, CancelledOK DEF Stop
    <2> QED
        BY <1>1, <2>1 DEF Follows, Frozen
<1>4. CASE Restore
    <2>1. PICK i \in DOMAIN screen : chat' = Rewound(chat, i)
        BY <1>4 DEF Restore
    <2>2. i \in Nat
        BY <2>1 DEF IInv, ScreenOK
    <2>3. chat'.n = chat.n /\ ~chat'.interrupted
        BY <1>1, <2>1, <2>2, RewoundOK
    <2> QED
        BY <1>1, <2>3, BeginsFollows
<1> QED
    BY <1>2, <1>3, <1>4

(* What a frame or the delta timer does                                    *)
LEMMA FrameFollows ==
    ASSUME IInv, FlushTimer \/ OnFrame
    PROVE  Follows(chat, chat') /\ Frozen(chat, chat')
<1>1. /\ ChatOK(chat) /\ chat.n \in Nat /\ ClientOK /\ LiveOK /\ FramesOK
      /\ OpenersOK /\ BusyOK
    BY ChatFields DEF IInv, ClientOK, ChatOK
<1> DEFINE f == Flushed
<1>2. /\ ChatOK(f) /\ TextOf(f) \subseteq LiveText /\ f.busy = chat.busy
      /\ chat.n <= f.n /\ f.interrupted = chat.interrupted
      /\ chat.interrupted => f = chat
    BY <1>1, FlushedOK
<1>3. f.n \in Nat
    BY <1>2, ChatFields DEF ChatOK
<1>4. CASE FlushTimer
    <2>1. chat' = f
        BY <1>4 DEF FlushTimer
    <2> QED
        BY <1>2, <2>1 DEF Follows, Frozen
<1>5. CASE OnStart
    <2>1. chat' = Started(f)
        BY <1>5 DEF OnStart
    <2> HIDE DEF f
    <2>2. chat'.n = f.n /\ ~chat'.interrupted
        BY <1>2, <2>1, StartedOK
    <2> QED
        BY <1>2, <2>2, BeginsFollows
<1>6. CASE OnDelta \/ OnCompact
    <2>1. chat' = chat
        BY <1>6 DEF OnDelta, OnCompact
    <2> QED
        BY <1>1, <2>1, SameFollows
<1>7. CASE OnTool
    <2> DEFINE d == Mutate(f, {}, TRUE)
    <2>1. chat' = d
        BY <1>7 DEF OnTool
    <2> HIDE DEF f
    <2>2. {} \in SUBSET Turn /\ TRUE \in BOOLEAN /\ Single({} \cup TextOf(f))
        BY <1>1, <1>2, SingleSubset DEF LiveOK
    <2>3. /\ ChatOK(d) /\ d.busy = f.busy /\ f.n <= d.n
          /\ d.interrupted = f.interrupted /\ (f.interrupted => d = f)
        BY <1>2, <2>2, MutateOK
    <2>4. d.n \in Nat
        BY <2>3, ChatFields DEF ChatOK
    <2> HIDE DEF d
    <2> QED
        BY <1>1, <1>2, <1>3, <2>1, <2>3, <2>4 DEF Follows, Frozen
<1>8. CASE OnComplete
    <2> DEFINE final == Head(frames).of
               d == Completed(f, final)
    <2>1. chat' = d /\ Receive
        BY <1>8 DEF OnComplete
    <2>2. Head(frames) \in FrameRec /\ Single(final)
        BY <1>1, <2>1, ReceivedFrames
    <2>3. final \in SUBSET Turn
        BY <2>2 DEF FrameRec
    <2> HIDE DEF f, final
    <2>4. /\ ~d.busy /\ d.n = f.n /\ d.interrupted = f.interrupted
          /\ f.interrupted => d.msgs = f.msgs
        BY <1>2, <2>2, <2>3, CompletedOK
    <2> HIDE DEF d
    <2>5. Frozen(chat, chat')
        BY <1>2, <2>1, <2>4 DEF Frozen
    <2> QED
        BY <1>2, <2>1, <2>4, <2>5, EndsFollows
<1>9. CASE OnError
    <2> DEFINE d == Failed(f)
    <2>1. chat' = d
        BY <1>9 DEF OnError
    <2> HIDE DEF f
    <2>2. /\ ChatOK(d) /\ ~d.busy /\ f.n <= d.n /\ d.interrupted = f.interrupted
          /\ f.stream = 0 => AddsMark(f, d)
        BY <1>2, FailedOK
    <2>3. d.n \in Nat
        BY <2>2, ChatFields DEF ChatOK
    <2> HIDE DEF d
    <2>4. chat.interrupted => chat.stream = 0
        BY <1>1 DEF ChatOK
    <2>5. Frozen(chat, chat')
        BY <1>2, <2>1, <2>2, <2>4 DEF Frozen
    <2>6. chat.n <= chat'.n
        BY <1>1, <1>2, <1>3, <2>1, <2>2, <2>3
    <2> QED
        BY <2>1, <2>2, <2>5, <2>6, EndsFollows
<1>10. CASE OnIdle
    <2>1. Receive /\ Head(frames).type = "idle" /\ chat' = Idled(chat)
        BY <1>10 DEF OnIdle
    <2>2. frames \in Seq(FrameRec) /\ frames # <<>>
        BY <1>1, <2>1, ReceivedFrames
    <2>3. chat.stream = 0
        BY <1>1, <2>1, <2>2, HeadBounded DEF LiveOK
    <2>4. ~chat'.busy /\ chat'.msgs = chat.msgs /\ chat'.n = chat.n
        BY <1>1, <2>1, <2>3, IdledOK
    <2> QED
        BY <1>1, <2>4, EndsFollows DEF Frozen
<1> QED
    BY <1>4, <1>5, <1>6, <1>7, <1>8, <1>9, <1>10 DEF OnFrame

(* What a load of the saved transcript or the server does                  *)
LEMMA OtherFollows ==
    ASSUME IInv, Snap \/ Apply \/ GiveUp \/ Server
    PROVE  Follows(chat, chat') /\ (~Apply => Frozen(chat, chat'))
<1>1. ChatOK(chat) /\ chat.n \in Nat /\ reads \subseteq ReadRec
    BY ChatFields DEF IInv, ClientOK, ChatOK
<1>2. CASE Apply
    <2>1. PICK r \in reads : chat' = Hydrated(chat, r.snap)
        BY <1>2 DEF Apply
    <2>2. r.snap \in Seq(Turn)
        BY <1>1, <2>1 DEF ReadRec
    <2>3. /\ chat'.n = chat.n /\ chat'.busy = chat.busy
          /\ chat'.interrupted = chat.interrupted
        BY <1>1, <2>1, <2>2, HydratedOK
    <2> QED
        BY <1>1, <1>2, <2>3 DEF Follows
<1>3. CASE SrvRefuse
    <2>1. chat' = Released(chat)
        BY <1>3 DEF SrvRefuse
    <2>2. chat'.msgs = chat.msgs /\ chat'.n = chat.n /\ ~chat'.busy
        BY <1>1, <2>1, ReleasedOK
    <2> QED
        BY <1>1, <2>2, EndsFollows DEF Frozen
<1>4. CASE \/ Snap \/ GiveUp \/ SrvAccept \/ SrvText \/ SrvTool \/ SrvComplete
           \/ SrvSilent \/ SrvFail \/ SrvStopped \/ SrvIgnore
    <2>1. chat' = chat
        BY <1>4 DEF Snap, GiveUp, SrvAccept, SrvText, SrvTool, SrvComplete, SrvSilent,
                    SrvFail, SrvStopped, SrvIgnore, SrvEnd, clientVars
    <2> QED
        BY SMTT(30), <1>1, <2>1, SameFollows
<1> QED
    BY <1>2, <1>3, <1>4 DEF Server

-----------------------------------------------------------------------------
(* The screen and the chat: it shows the rows of the chat and behind them  *)
(* lost error rows only; its ids are given out; a prompt on it is at rest; *)
(* an interrupted chat is not busy                                         *)
ShapeOK ==
    /\ Shows(chat.msgs, screen)
    /\ \A k \in DOMAIN screen :
          screen[k].id <= chat.n /\ (screen[k].role = "user" => ~screen[k].pending)
    /\ chat.interrupted => ~chat.busy

(* It holds at the start                                                   *)
LEMMA ShapeInit == Init => ShapeOK
<1> SUFFICES ASSUME Init
             PROVE  ShapeOK
    OBVIOUS
<1>1. chat = EmptyChat /\ screen = <<>> /\ chat.msgs = <<>> /\ ~chat.interrupted
    BY DEF Init, EmptyChat
<1>2. Len(<<>>) = 0 /\ DOMAIN <<>> = {}
    OBVIOUS
<1>3. Shows(<<>>, <<>>)
    BY <1>2 DEF Shows
<1> QED
    BY <1>1, <1>2, <1>3 DEF ShapeOK

(* A step that follows paints such a screen                                *)
LEMMA ShapePainted ==
    ASSUME IInv, IInv', ShapeOK, Paint, Follows(chat, chat')
    PROVE  ShapeOK'
<1> DEFINE new == chat'.msgs
           all == screen'
           n == Len(new)
<1>1. /\ ChatOK(chat) /\ ChatOK(chat') /\ chat.n \in Nat /\ chat'.n \in Nat
      /\ chat.n <= chat'.n
    BY ChatFields DEF IInv, ClientOK, ChatOK, Follows
<1>2. /\ new \in Seq(RowType) /\ screen \in Seq(RowType) /\ all = Kept(new, screen)
      /\ all \in Seq(RowType)
    BY <1>1, ChatFields DEF IInv, ChatOK, ScreenOK, Paint
<1>3. \A i \in DOMAIN screen :
         /\ screen[i] \in RowType /\ screen[i].id \in Nat /\ screen[i].id <= chat.n
         /\ screen[i].role = "user" => ~screen[i].pending
    BY <1>2, RowFields DEF ShapeOK
<1>4. \A i \in DOMAIN new :
         /\ new[i].id <= chat'.n
         /\ new[i].role = "user" => ~new[i].pending
    BY <1>1 DEF ChatOK, MsgsOK, RowOK
<1> HIDE DEF new, all
<1>5. Shows(new, all)
    BY <1>2, <1>3, KeptShows
<1>6. /\ n \in Nat /\ DOMAIN new = 1..n
      /\ \A k \in 1..n : all[k] = new[k]
      /\ \A k \in (n + 1)..Len(all) : \E i \in DOMAIN screen : all[k] = Calm(screen[i])
      /\ \A k \in DOMAIN all : k \in 1..n \/ k \in (n + 1)..Len(all)
    <2>1. KeepsRows(all, new, screen)
        BY <1>2, KeptOK
    <2> QED
        BY <1>2, <2>1 DEF KeepsRows
<1> HIDE DEF n
<1>7. ASSUME NEW k \in DOMAIN all
      PROVE  all[k].id <= chat'.n /\ (all[k].role = "user" => ~all[k].pending)
    <2>1. CASE k \in 1..n
        BY <1>4, <1>6, <2>1
    <2>2. CASE k \in (n + 1)..Len(all)
        <3>1. PICK i \in DOMAIN screen : all[k] = Calm(screen[i])
            BY <1>6, <2>2
        <3>2. ~all[k].pending /\ all[k].id = screen[i].id
            BY <1>3, <3>1, CalmOK
        <3> QED
            BY <1>1, <1>3, <3>2
    <2> QED
        BY <1>6, <2>1, <2>2
<1>8. chat'.interrupted => ~chat'.busy
    BY DEF Follows, ShapeOK
<1> QED
    BY <1>5, <1>7, <1>8 DEF ShapeOK, new, all

(* Every step follows                                                      *)
LEMMA NextFollows ==
    ASSUME IInv, ShapeOK, Next
    PROVE  Follows(chat, chat') /\ (~Apply => Frozen(chat, chat'))
<1>1. chat.interrupted => ~chat.busy
    BY DEF ShapeOK
<1>2. \/ Submit \/ Stop \/ Restore \/ FlushTimer \/ OnFrame
      \/ Snap \/ Apply \/ GiveUp \/ Server
    BY DEF Next
<1>3. (Submit \/ Stop \/ Restore) => Follows(chat, chat') /\ Frozen(chat, chat')
    BY <1>1, UserFollows
<1>4. (FlushTimer \/ OnFrame) => Follows(chat, chat') /\ Frozen(chat, chat')
    BY FrameFollows
<1>5. (Snap \/ Apply \/ GiveUp \/ Server)
         => Follows(chat, chat') /\ (~Apply => Frozen(chat, chat'))
    BY OtherFollows
<1> QED
    BY <1>2, <1>3, <1>4, <1>5

(* The text on the screen depends on its rows with text only               *)
LEMMA TextsAre == Texts = [i \in DOMAIN TextRows(screen) |->
                             <<TextRows(screen)[i].role, TextRows(screen)[i].of>>]
BY DEF Texts, TextRows

(* A frozen chat paints the same text                                      *)
LEMMA FrozenTexts ==
    ASSUME IInv, ShapeOK, Paint, chat'.msgs = chat.msgs \/ AddsMark(chat, chat')
    PROVE  Texts' = Texts
<1> DEFINE new == chat.msgs
<1>1. new \in Seq(RowType) /\ screen \in Seq(RowType) /\ Shows(new, screen)
      /\ chat.n \in Nat
    BY ChatFields DEF IInv, ClientOK, ChatOK, ScreenOK, ShapeOK
<1>2. screen' = Kept(chat'.msgs, screen)
    BY DEF Paint
<1>3. \A k \in DOMAIN screen : screen[k].id \in Nat /\ screen[k].id <= chat.n
    BY <1>1, RowFields DEF ShapeOK
<1>4. CASE chat'.msgs = new
    <2>1. screen' = screen
        BY <1>1, <1>2, <1>4, KeptSame
    <2> QED
        BY <2>1 DEF Texts
<1>5. CASE AddsMark(chat, chat')
    <2>1. PICK e \in RowType : /\ chat'.msgs = Append(new, e) /\ e.role = "assistant"
                               /\ e.of = {} /\ chat.n < e.id
        BY <1>5 DEF AddsMark
    <2>2. e.id \in Nat
        BY RowFields
    <2>3. \A k \in DOMAIN screen : screen[k].id # e.id
        BY <1>1, <1>3, <2>1, <2>2
    <2> HIDE DEF new
    <2>4. TextRows(Kept(Append(new, e), screen)) = TextRows(screen)
        BY <1>1, <2>1, <2>3, MarkedTexts
    <2>5. TextRows(screen') = TextRows(screen)
        BY <1>2, <2>1, <2>4
    <2>6. Texts' = [i \in DOMAIN TextRows(screen') |->
                      <<TextRows(screen')[i].role, TextRows(screen')[i].of>>]
        BY DEF Texts, TextRows
    <2> QED
        BY <2>5, <2>6, TextsAre
<1> QED
    BY <1>4, <1>5

(* Every step keeps the screen in the shape of the state                   *)
LEMMA ShapeNext == IInv /\ ShapeOK /\ [Next]_vars => ShapeOK'
<1>1. ASSUME IInv, ShapeOK, Next
      PROVE  ShapeOK'
    <2>1. IInv' /\ Follows(chat, chat') /\ Paint
        BY <1>1, NextOK, NextFollows DEF Next
    <2> QED
        BY <1>1, <2>1, ShapePainted
<1>2. ASSUME ShapeOK, UNCHANGED vars
      PROVE  ShapeOK'
    BY <1>2 DEF vars, ShapeOK
<1> QED
    BY <1>1, <1>2

(* A step of an interrupted chat that is no message.start leaves it so     *)
LEMMA StaysInterrupted ==
    ASSUME IInv, chat.interrupted, FlushTimer \/ OnFrame, ~OnStart
    PROVE  chat'.interrupted
<1>1. ChatOK(chat) /\ chat \in ChatRec
    BY DEF IInv, ClientOK, ChatOK
<1>2. Flushed = chat
    BY DEF Flushed, Mutate
<1>3. CASE FlushTimer
    BY <1>2, <1>3 DEF FlushTimer
<1>4. CASE OnDelta \/ OnCompact
    BY <1>4 DEF OnDelta, OnCompact
<1>5. CASE OnTool
    BY <1>2, <1>5 DEF OnTool, Mutate
<1>6. CASE OnComplete
    <2>1. chat' = Settled(chat)
        BY <1>2, <1>6 DEF OnComplete, Completed
    <2> QED
        BY <1>1, <2>1 DEF Settled, ChatRec
<1>7. CASE OnError
    BY <1>1, <1>2, <1>7, FailedOK DEF OnError
<1>8. CASE OnIdle
    BY <1>1, <1>8 DEF OnIdle, Idled, Settled, ChatRec
<1> QED
    BY <1>3, <1>4, <1>5, <1>6, <1>7, <1>8 DEF OnFrame

(* Behind a muting stop no message.start is on its way, and no prompt that *)
(* would be followed by one                                                *)
MutedOK ==
    muted => /\ chat.interrupted /\ inbox.turn = 0
             /\ \A i \in DOMAIN frames : frames[i].type # "start"

(* What the user does mutes the chat or ends that                          *)
LEMMA MutedUser ==
    ASSUME IInv, Submit \/ Stop \/ Restore
    PROVE  MutedOK'
<1>1. CASE Submit \/ Restore
    BY <1>1 DEF Submit, Restore, MutedOK
<1>2. CASE Stop
    <2>1. chat \in ChatRec
        BY DEF IInv, ClientOK, ChatOK
    <2>2. Settled(chat) \in ChatRec
        BY <2>1, SettledOK
    <2>3. chat'.interrupted
        <3> DEFINE s == Settled(chat)
                   t == Finalized(chat)
        <3>1. chat' = [s EXCEPT !.msgs = t, !.interrupted = TRUE]
            BY <1>2 DEF Stop, Cancelled
        <3> HIDE DEF s, t
        <3> QED
            BY <2>2, <3>1 DEF ChatRec, s
    <2>4. muted' => \A i \in DOMAIN frames : frames[i].type # "start"
        BY <1>2 DEF Stop, ToSet
    <2>5. inbox'.turn = 0 /\ frames' = frames
        BY <1>2 DEF Stop
    <2> QED
        BY <2>3, <2>4, <2>5 DEF MutedOK
<1> QED
    BY <1>1, <1>2

(* A frame or the delta timer                                              *)
LEMMA MutedFrame ==
    ASSUME IInv, MutedOK, FlushTimer \/ OnFrame
    PROVE  MutedOK'
<1> SUFFICES ASSUME muted'
             PROVE  /\ chat'.interrupted /\ inbox'.turn = 0
                    /\ \A i \in DOMAIN frames' : frames'[i].type # "start"
    BY DEF MutedOK
<1>1. muted' = muted /\ inbox' = inbox
    BY DEF FlushTimer, OnFrame, OnStart, OnDelta, OnTool, OnCompact, OnComplete, OnError,
           OnIdle, Receive, serverVars
<1>2. /\ chat.interrupted /\ inbox'.turn = 0
      /\ \A i \in DOMAIN frames : frames[i].type # "start"
    BY <1>1 DEF MutedOK
<1>3. CASE FlushTimer
    <2>1. frames' = frames
        BY <1>3 DEF FlushTimer
    <2>2. ~OnStart
        BY <1>2, <1>3, TailPlaces DEF OnStart, Receive, IInv, FramesOK
    <2> QED
        BY <1>2, <1>3, <2>1, <2>2, StaysInterrupted
<1>4. CASE OnFrame
    <2>1. frames # <<>> /\ frames' = Tail(frames) /\ frames \in Seq(FrameRec)
        BY <1>4 DEF OnFrame, OnStart, OnDelta, OnTool, OnCompact, OnComplete, OnError,
                    OnIdle, Receive, IInv, FramesOK
    <2>2. /\ 1 \in DOMAIN frames /\ Head(frames) = frames[1]
          /\ \A i \in DOMAIN frames' : i + 1 \in DOMAIN frames /\ frames'[i] = frames[i + 1]
        BY <2>1
    <2>3. ~OnStart
        BY <1>2, <2>2 DEF OnStart
    <2> QED
        BY <1>2, <1>4, <2>2, <2>3, StaysInterrupted
<1> QED
    BY <1>3, <1>4

(* Only an accepted prompt is followed by a message.start                  *)
LEMMA ServerSends ==
    ASSUME IInv, Server, ~SrvAccept, ~SrvRefuse
    PROVE  \E es \in Seq(FrameRec) : /\ frames' = frames \o es
                                    /\ \A i \in DOMAIN es : es[i].type # "start"
<1>1. /\ run.turn # 0 => run.turn \in Turn
      /\ frames \in Seq(FrameRec)
    BY StreamAssumption DEF IInv, ServerOK, FramesOK, Turn
<1>2. \A t \in Turn, k \in Kinds : \A of \in SUBSET {t} :
         Frame(k, t, of) \in FrameRec /\ Frame(k, t, of).type = k
    BY FrameIs
<1>3. \A k \in {"delta", "tool", "compact", "complete", "error", "idle"} :
         k \in Kinds /\ k # "start"
    BY DEF Kinds
<1>4. \A t : {} \in SUBSET {t} /\ {t} \in SUBSET {t}
    OBVIOUS
<1>5. ASSUME NEW k \in {"delta", "tool", "compact"}, NEW of \in {{}, {run.turn}},
             run.turn # 0, frames' = frames \o <<Frame(k, run.turn, of)>>
      PROVE  \E es \in Seq(FrameRec) : /\ frames' = frames \o es
                                      /\ \A i \in DOMAIN es : es[i].type # "start"
    <2> DEFINE f == Frame(k, run.turn, of)
    <2>1. f \in FrameRec /\ f.type # "start"
        BY <1>1, <1>2, <1>3, <1>4, <1>5
    <2>2. frames' = frames \o <<f>>
        BY <1>5
    <2> HIDE DEF f
    <2>3. <<f>> \in Seq(FrameRec) /\ \A i \in DOMAIN <<f>> : <<f>>[i].type # "start"
        BY <2>1
    <2> QED
        BY <2>2, <2>3
<1>6. CASE SrvText \/ SrvTool
    BY <1>5, <1>6 DEF SrvText, SrvTool, Emit
<1>7. CASE SrvComplete \/ SrvSilent \/ SrvFail \/ SrvStopped
    <2> DEFINE e == Frame("idle", run.turn, {})
    <2>1. PICK fs : /\ run.turn # 0 /\ frames' = frames \o Append(fs, e)
                    /\ \/ fs = <<>>
                       \/ \E k \in {"complete", "error"}, of \in {{}, {run.turn}} :
                             fs = <<Frame(k, run.turn, of)>>
        BY <1>7 DEF SrvComplete, SrvSilent, SrvFail, SrvStopped, SrvEnd, Emit
    <2>2. e \in FrameRec /\ e.type # "start"
        BY <1>1, <1>2, <1>3, <1>4, <2>1
    <2> HIDE DEF e
    <2>3. fs \in Seq(FrameRec) /\ \A i \in DOMAIN fs : fs[i].type # "start"
        <3>1. CASE fs = <<>>
            BY <3>1
        <3>2. CASE fs # <<>>
            <4>1. PICK k \in {"complete", "error"}, of \in {{}, {run.turn}} :
                     fs = <<Frame(k, run.turn, of)>>
                BY <2>1, <3>2
            <4> DEFINE f == Frame(k, run.turn, of)
            <4>2. f \in FrameRec /\ f.type # "start" /\ fs = <<f>>
                BY <1>1, <1>2, <1>3, <1>4, <2>1, <4>1
            <4> HIDE DEF f
            <4> QED
                BY <4>2
        <3> QED
            BY <3>1, <3>2
    <2>4. /\ Append(fs, e) \in Seq(FrameRec)
          /\ \A i \in DOMAIN Append(fs, e) : Append(fs, e)[i].type # "start"
        BY <2>2, <2>3
    <2> QED
        BY <2>1, <2>4
<1>8. CASE SrvIgnore
    <2>1. frames' = frames \o <<>> /\ <<>> \in Seq(FrameRec) /\ DOMAIN <<>> = {}
        BY <1>1, <1>8 DEF SrvIgnore
    <2> QED
        BY <2>1
<1> QED
    BY <1>6, <1>7, <1>8 DEF Server

(* A load of the saved transcript or the server                            *)
LEMMA MutedOther ==
    ASSUME IInv, MutedOK, Snap \/ Apply \/ GiveUp \/ Server
    PROVE  MutedOK'
<1> SUFFICES ASSUME muted'
             PROVE  /\ chat'.interrupted /\ inbox'.turn = 0
                    /\ \A i \in DOMAIN frames' : frames'[i].type # "start"
    BY DEF MutedOK
<1>1. muted' = muted
    BY DEF Snap, Apply, GiveUp, Server, clientVars, SrvAccept, SrvRefuse, SrvText, SrvTool,
           SrvEnd, SrvComplete, SrvSilent, SrvFail, SrvStopped, SrvIgnore
<1>2. /\ chat.interrupted /\ inbox.turn = 0
      /\ \A i \in DOMAIN frames : frames[i].type # "start"
    BY <1>1 DEF MutedOK
<1>3. CASE Snap \/ GiveUp
    BY <1>2, <1>3 DEF Snap, GiveUp, serverVars
<1>4. CASE Apply
    <2>1. PICK r \in reads : chat' = Hydrated(chat, r.snap)
        BY <1>4 DEF Apply
    <2>2. chat \in ChatRec
        BY DEF IInv, ClientOK, ChatOK
    <2>3. chat'.interrupted
        BY <1>2, <2>1, <2>2 DEF Hydrated, ChatRec
    <2>4. frames' = frames /\ inbox' = inbox
        BY <1>4 DEF Apply, serverVars
    <2> QED
        BY <1>2, <2>3, <2>4
<1>5. CASE Server
    <2>1. ~SrvAccept /\ ~SrvRefuse
        BY <1>2 DEF SrvAccept, SrvRefuse
    <2>2. chat' = chat /\ inbox' = inbox
        BY <1>5, <2>1 DEF Server, clientVars, SrvText, SrvTool, SrvEnd, SrvComplete,
                          SrvSilent, SrvFail, SrvStopped, SrvIgnore
    <2>3. \E es \in Seq(FrameRec) : /\ frames' = frames \o es
                                   /\ \A i \in DOMAIN es : es[i].type # "start"
        BY <1>5, <2>1, ServerSends
    <2>4. PICK es \in Seq(FrameRec) : /\ frames' = frames \o es
                                     /\ \A i \in DOMAIN es : es[i].type # "start"
        BY <2>3
    <2>5. frames \in Seq(FrameRec)
        BY DEF IInv, FramesOK
    <2>6. \A i \in DOMAIN frames' : frames'[i].type # "start"
        BY <1>2, <2>4, <2>5
    <2> QED
        BY <1>2, <2>2, <2>6
<1> QED
    BY <1>3, <1>4, <1>5

(* Every step keeps a muted chat interrupted                               *)
LEMMA MutedNext == IInv /\ MutedOK /\ [Next]_vars => MutedOK'
<1>1. ASSUME IInv, MutedOK, Next
      PROVE  MutedOK'
    BY <1>1, MutedUser, MutedFrame, MutedOther DEF Next
<1>2. ASSUME MutedOK, UNCHANGED vars
      PROVE  MutedOK'
    BY <1>2 DEF vars, MutedOK
<1> QED
    BY <1>1, <1>2

(* Between a stop that comes behind the message.start of its turn and the  *)
(* next prompt the text on the screen changes only when a saved transcript *)
(* is loaded: no frame of the turn, however late, takes the stop back      *)
THEOREM StoppedFrozenAlways == Spec => StoppedFrozen
<1>1. Init => MutedOK
    BY DEF Init, MutedOK
<1>2. IInv /\ ShapeOK /\ MutedOK /\ MutedOK' /\ [Next]_vars
         => [muted /\ muted' /\ ~Apply => Texts' = Texts]_vars
    <2>1. ASSUME IInv, ShapeOK, MutedOK, MutedOK', Next, muted, muted', ~Apply
          PROVE  Texts' = Texts
        <3>1. chat.interrupted /\ chat'.interrupted
            BY <2>1 DEF MutedOK
        <3>2. (chat'.msgs = chat.msgs \/ AddsMark(chat, chat')) /\ Paint
            BY <2>1, <3>1, NextFollows DEF Frozen, Next
        <3> QED
            BY <2>1, <3>2, FrozenTexts
    <2> QED
        BY <2>1
<1>3. Spec => []IInv
    BY IInvAlways
<1> QED
    BY ShapeInit, ShapeNext, MutedNext, <1>1, <1>2, <1>3, PTL DEF Spec, StoppedFrozen

-----------------------------------------------------------------------------
(* The dialogue on the screen: the places of the questions and answers     *)

(* Ranks keep the order of the places, and places with none between them   *)
(* have neighbouring ranks                                                 *)
LEMMA RanksOrder ==
    ASSUME NEW n \in Nat, NEW I \in SUBSET (1..n)
    PROVE  /\ \A i, j \in I : i <= j <=> Rank(I, i) <= Rank(I, j)
           /\ \A i, j \in I : i < j /\ (\A k \in I : ~(i < k /\ k < j))
                                 => Rank(I, j) = Rank(I, i) + 1
<1> DEFINE upTo(i) == {j \in I : j <= i}
<1>0. \A i \in I : i \in Int
    OBVIOUS
<1>1. IsFiniteSet(I)
    <2>1. IsFiniteSet(1..n)
        BY FS_Interval
    <2> QED
        BY <2>1, FS_Subset
<1>2. \A i \in I : IsFiniteSet(upTo(i)) /\ Cardinality(upTo(i)) \in Nat
    BY <1>1, FS_Subset, FS_CardinalityType
<1>3. ASSUME NEW i \in I, NEW j \in I, i <= j
      PROVE  Rank(I, i) <= Rank(I, j)
    <2>1. upTo(i) \subseteq upTo(j)
        <3>1. \A k \in I : k \in Int /\ (k <= i => k <= j)
            BY <1>0, <1>3
        <3> QED
            BY <3>1
    <2> QED
        BY <1>2, <2>1, FS_Subset DEF Rank
<1>4. \A i, j \in I : Rank(I, i) = Rank(I, j) => i = j
    BY RanksOK
<1>5. ASSUME NEW i \in I, NEW j \in I, Rank(I, i) <= Rank(I, j)
      PROVE  i <= j
    <2> SUFFICES ASSUME j < i
                 PROVE  FALSE
        BY <1>0
    <2>1. Rank(I, j) <= Rank(I, i)
        BY <1>0, <1>3
    <2>2. Rank(I, i) \in Nat /\ Rank(I, j) \in Nat
        BY <1>2 DEF Rank
    <2>3. Rank(I, i) = Rank(I, j)
        BY <1>5, <2>1, <2>2
    <2> QED
        BY <1>0, <1>4, <2>3
<1>6. ASSUME NEW i \in I, NEW j \in I, i < j, \A k \in I : ~(i < k /\ k < j)
      PROVE  Rank(I, j) = Rank(I, i) + 1
    <2>1. upTo(j) = upTo(i) \cup {j}
        <3>1. \A k \in I : k <= j <=> k <= i \/ k = j
            BY <1>0, <1>6
        <3> QED
            BY <3>1
    <2>2. j \notin upTo(i)
        BY <1>0, <1>6
    <2> QED
        BY <1>2, <2>1, <2>2, FS_AddElement DEF Rank
<1> QED
    BY <1>3, <1>5, <1>6

(* All places of s give s                                                  *)
LEMMA WhereAll ==
    ASSUME NEW S, NEW s \in Seq(S)
    PROVE  Where(s, 1..Len(s)) = s
<1> DEFINE w == Where(s, 1..Len(s))
<1>1. LET x == Where(s, (0 + 1)..Len(s))
      IN  /\ x \in Seq(S) /\ Len(x) = Len(s) - 0
          /\ \A k \in 1..(Len(s) - 0) : x[k] = s[0 + k]
    <2>1. 0 \in Nat /\ 0 <= Len(s)
        OBVIOUS
    <2> QED
        BY <2>1, WhereBehind
<1>2. w \in Seq(S) /\ Len(w) = Len(s) /\ \A k \in 1..Len(s) : w[k] = s[k]
    BY <1>1
<1> HIDE DEF w
<1>3. w = s
    BY <1>2, SeqEqual
<1> QED
    BY <1>3 DEF w

(* A row that shows nothing; a row that shows what row r of a transcript   *)
(* holds; a row of a failed turn, before place b                           *)
Blank(m) == m.of = {} /\ ~m.error
Same(m, r) == m.role = r.role /\ m.of = r.of /\ ~m.error
Lone(msgs, b, x) ==
    \/ msgs[x].error
    \/ /\ msgs[x].role = "user"
       /\ \E j \in (x + 1)..b : msgs[j].error /\ \A l \in (x + 1)..(j - 1) : Blank(msgs[l])

(* g takes the rows of a transcript, in their order, to the places of      *)
(* 1..b that show them; the other places show nothing or failed turns, and *)
(* between a question and its answer they show nothing                     *)
Places(g, rows, msgs, b) ==
    /\ g \in [DOMAIN rows -> 1..b]
    /\ \A i, j \in DOMAIN rows : i < j => g[i] < g[j]
    /\ \A i \in DOMAIN rows : Same(msgs[g[i]], rows[i])
    /\ \A x \in 1..b : (\E i \in DOMAIN rows : x = g[i]) \/ Blank(msgs[x]) \/ Lone(msgs, b, x)
    /\ \A i \in DOMAIN rows : rows[i].role = "user" =>
          \A x \in (g[i] + 1)..(g[i + 1] - 1) : Blank(msgs[x])

(* The first b rows show the turns st, finished, and failed ones           *)
Past(msgs, st, b) == \E g : Places(g, RowsOf(st), msgs, b)

(* A question has its answer behind it, an answer its question before it   *)
LEMMA RowsAlternate ==
    ASSUME NEW st \in Seq(Turn)
    PROVE  /\ Len(RowsOf(st)) = 2 * Len(st) /\ Len(st) \in Nat
           /\ DOMAIN RowsOf(st) = 1..(2 * Len(st)) /\ RowsOf(st) \in Seq(RowType)
           /\ \A i \in DOMAIN RowsOf(st) : RowsOf(st)[i].of # {} /\ ~RowsOf(st)[i].error
           /\ \A i \in DOMAIN RowsOf(st) :
                 /\ RowsOf(st)[i].of = {st[(i + 1) \div 2]}
                 /\ RowsOf(st)[i].role \in {"user", "assistant"}
                 /\ RowsOf(st)[i].role = "user" <=> i % 2 = 1
           /\ \A i \in DOMAIN RowsOf(st) : RowsOf(st)[i].role = "user" =>
                 i + 1 \in DOMAIN RowsOf(st) /\ RowsOf(st)[i + 1].role = "assistant"
           /\ \A i \in DOMAIN RowsOf(st) : RowsOf(st)[i].role = "assistant" =>
                 /\ i - 1 \in DOMAIN RowsOf(st) /\ RowsOf(st)[i - 1].role = "user"
                 /\ RowsOf(st)[i - 1].of = RowsOf(st)[i].of
<1> DEFINE rows == RowsOf(st)
           m == 2 * Len(st)
<1>1. /\ rows \in Seq(RowType) /\ DOMAIN rows = 1..m /\ Len(st) \in Nat
      /\ \A i \in DOMAIN rows :
            /\ rows[i].role = IF i % 2 = 1 THEN "user" ELSE "assistant"
            /\ rows[i].of = {st[(i + 1) \div 2]} /\ ~rows[i].error
    BY RowsOfOK
<1> HIDE DEF rows
<1>2. Len(rows) = m
    BY <1>1
<1>3. ASSUME NEW i \in 1..m
      PROVE  /\ i % 2 = 1 => i + 1 \in 1..m /\ (i + 1) % 2 # 1
             /\ i % 2 # 1 => /\ i - 1 \in 1..m /\ (i - 1) % 2 = 1
                             /\ ((i - 1) + 1) \div 2 = (i + 1) \div 2
    <2>1. PICK l \in Nat : l = Len(st)
        BY <1>1
    <2>2. i \in Int /\ 1 <= i /\ i <= 2 * l /\ m = 2 * l
        BY <2>1, <1>1
    <2> HIDE DEF m
    <2>3. i % 2 = 1 => i # 2 * l
        BY <2>1, <2>2
    <2>4. i % 2 = 1 => (i + 1) % 2 # 1
        BY <2>2
    <2>5. i % 2 # 1 => i # 1 /\ (i - 1) % 2 = 1 /\ ((i - 1) + 1) \div 2 = (i + 1) \div 2
        BY <2>2
    <2> QED
        BY <2>1, <2>2, <2>3, <2>4, <2>5
<1> HIDE DEF m
<1>4. \A i \in 1..m : /\ rows[i].of # {} /\ ~rows[i].error
                      /\ rows[i].of = {st[(i + 1) \div 2]}
                      /\ rows[i].role \in {"user", "assistant"}
                      /\ rows[i].role = "user" <=> i % 2 = 1
    BY <1>1
<1>5. \A i \in 1..m : rows[i].role = "user" => i + 1 \in 1..m /\ rows[i + 1].role = "assistant"
    BY <1>3, <1>4
<1>6. \A i \in 1..m : rows[i].role = "assistant" =>
         i - 1 \in 1..m /\ rows[i - 1].role = "user" /\ rows[i - 1].of = rows[i].of
    BY <1>3, <1>4
<1> QED
    BY <1>1, <1>2, <1>4, <1>5, <1>6 DEF rows, m

(* The same, with the places counted                                       *)
Pairs(rows, st, l) ==
    /\ l \in Nat /\ DOMAIN rows = 1..(2 * l)
    /\ \A q \in 1..(2 * l) : rows[q].of # {} /\ ~rows[q].error
    /\ \A q \in 1..(2 * l) :
          /\ rows[q].of = {st[(q + 1) \div 2]}
          /\ rows[q].role \in {"user", "assistant"}
          /\ rows[q].role = "user" <=> q % 2 = 1
    /\ \A q \in 1..(2 * l) : rows[q].role = "user" =>
          q + 1 \in 1..(2 * l) /\ rows[q + 1].role = "assistant"
    /\ \A q \in 1..(2 * l) : rows[q].role = "assistant" =>
          q - 1 \in 1..(2 * l) /\ rows[q - 1].role = "user" /\ rows[q - 1].of = rows[q].of

(* The rows of a stored transcript pair up                                 *)
LEMMA RowsAre ==
    ASSUME NEW st \in Seq(Turn)
    PROVE  Pairs(RowsOf(st), st, Len(st))
<1> DEFINE rows == RowsOf(st)
           l == Len(st)
<1>1. DOMAIN rows = 1..(2 * l) /\ l \in Nat
    BY RowsAlternate
<1>2. /\ \A i \in DOMAIN rows : rows[i].of # {} /\ ~rows[i].error
      /\ \A i \in DOMAIN rows : rows[i].role = "user" =>
            i + 1 \in DOMAIN rows /\ rows[i + 1].role = "assistant"
      /\ \A i \in DOMAIN rows : rows[i].role = "assistant" =>
            i - 1 \in DOMAIN rows /\ rows[i - 1].role = "user" /\ rows[i - 1].of = rows[i].of
    BY RowsAlternate
<1>3. \A i \in DOMAIN rows :
         /\ rows[i].of = {st[(i + 1) \div 2]}
         /\ rows[i].role \in {"user", "assistant"}
         /\ rows[i].role = "user" <=> i % 2 = 1
    BY RowsAlternate
<1> HIDE DEF rows, l
<1>4. Pairs(rows, st, l)
    BY <1>1, <1>2, <1>3 DEF Pairs
<1> QED
    BY <1>4 DEF rows, l

(* The dialogue a sequence of rows shows                                   *)
Visible(s) == {i \in DOMAIN s : s[i].of # {} \/ s[i].error}
FailedAt(v, i) == v[i].error \/ (i < Len(v) /\ v[i + 1].error /\ v[i].role = "user")
Talk(s) ==
    LET v == Where(s, Visible(s))
    IN  Where(v, {i \in DOMAIN v : ~FailedAt(v, i)})

(* Rows that show finished turns, and failed ones, show the transcript:    *)
(* what is left of them are the rows at the places                         *)
LEMMA PastTalk ==
    ASSUME NEW st \in Seq(Turn), NEW s \in Seq(RowType), Past(s, st, Len(s)),
           \A i \in DOMAIN s : s[i].role = "user" => s[i].of # {}
    PROVE  LET rows == RowsOf(st)
               talk == Talk(s)
           IN  /\ DOMAIN talk = DOMAIN rows
               /\ \A i \in DOMAIN rows : Same(talk[i], rows[i])
<1> DEFINE rows == RowsOf(st)
           V == Visible(s)
           v == Where(s, V)
           J == {i \in DOMAIN v : ~FailedAt(v, i)}
           n == Len(s)
           m == Len(rows)
<1>1. PICK g : Places(g, rows, s, n)
    BY DEF Past
<1>2. /\ m \in Nat /\ DOMAIN rows = 1..m
      /\ \A i \in 1..m : /\ rows[i].of # {}
                         /\ rows[i].role = "user" =>
                               i + 1 \in 1..m /\ rows[i + 1].role = "assistant"
    <2>1. /\ Len(RowsOf(st)) = 2 * Len(st) /\ Len(st) \in Nat
          /\ DOMAIN RowsOf(st) = 1..(2 * Len(st))
        BY RowsAlternate
    <2>3. /\ \A i \in DOMAIN RowsOf(st) : RowsOf(st)[i].of # {}
          /\ \A i \in DOMAIN RowsOf(st) : RowsOf(st)[i].role = "user" =>
                i + 1 \in DOMAIN RowsOf(st) /\ RowsOf(st)[i + 1].role = "assistant"
        BY RowsAlternate
    <2>2. m \in Nat /\ DOMAIN rows = 1..m
        BY <2>1
    <2> QED
        BY <2>2, <2>3
<1> HIDE DEF rows, m
<1>3. /\ n \in Nat /\ DOMAIN s = 1..n /\ V \in SUBSET (1..n)
      /\ \A i \in 1..n : i \in V <=> s[i].of # {} \/ s[i].error
    BY DEF Visible
<1> HIDE DEF n, V
<1>4. /\ g \in [1..m -> 1..n]
      /\ \A i, j \in 1..m : i < j => g[i] < g[j]
      /\ \A i \in 1..m : Same(s[g[i]], rows[i])
      /\ \A x \in 1..n : (\E i \in 1..m : x = g[i]) \/ Blank(s[x]) \/ Lone(s, n, x)
      /\ \A i \in 1..m : rows[i].role = "user" =>
            \A x \in (g[i] + 1)..(g[i + 1] - 1) : Blank(s[x])
    BY <1>1, <1>2 DEF Places
<1>5. \A i, j \in 1..m : i <= j <=> g[i] <= g[j]
    <2> SUFFICES ASSUME NEW i \in 1..m, NEW j \in 1..m
                 PROVE  i <= j <=> g[i] <= g[j]
        OBVIOUS
    <2>1. g[i] \in Int /\ g[j] \in Int /\ i \in Int /\ j \in Int
        BY <1>2, <1>3, <1>4
    <2>2. (i < j => g[i] < g[j]) /\ (j < i => g[j] < g[i])
        BY <1>4
    <2> QED
        BY <2>1, <2>2
<1> DEFINE c == Cardinality(V)
<1>6. /\ c \in Nat /\ DOMAIN v = 1..c
      /\ v \in Seq(RowType) /\ Len(v) = c
      /\ \A k \in 1..c : \E i \in V : Rank(V, i) = k
      /\ \A i \in V : Rank(V, i) \in 1..c /\ v[Rank(V, i)] = s[i]
    <2>1. s \in Seq(RowType) /\ V \in SUBSET DOMAIN s
        BY <1>3
    <2>2. /\ Cardinality(V) \in Nat /\ DOMAIN Where(s, V) = 1..Cardinality(V)
          /\ Where(s, V) \in Seq(RowType) /\ Len(Where(s, V)) = Cardinality(V)
          /\ \A k \in 1..Cardinality(V) : \E i \in V : Rank(V, i) = k
          /\ \A i \in V : /\ Rank(V, i) \in 1..Cardinality(V)
                          /\ Where(s, V)[Rank(V, i)] = s[i]
        BY <2>1, WhereIs
    <2> QED
        BY <2>2
<1>7. /\ \A i, j \in V : i <= j <=> Rank(V, i) <= Rank(V, j)
      /\ \A i, j \in V : i < j /\ (\A k \in V : ~(i < k /\ k < j))
                            => Rank(V, j) = Rank(V, i) + 1
    BY <1>3, RanksOrder
<1> HIDE DEF v, c
<1> DEFINE t == [i \in 1..m |-> s[g[i]]]
           f == [i \in 1..m |-> Rank(V, g[i])]
<1>8. \A i \in 1..m : g[i] \in V /\ g[i] \in 1..n /\ ~s[g[i]].error /\ s[g[i]].of = rows[i].of
                      /\ s[g[i]].role = rows[i].role
    BY <1>2, <1>3, <1>4 DEF Same
<1>9. ASSUME NEW i \in 1..m
      PROVE  f[i] \in J
    <2> DEFINE k == Rank(V, g[i])
    <2>1. k \in 1..c /\ v[k] = s[g[i]] /\ ~v[k].error
        BY <1>6, <1>8
    <2>2. ASSUME k < Len(v), v[k + 1].error, v[k].role = "user"
          PROVE  FALSE
        <3>1. rows[i].role = "user" /\ i + 1 \in 1..m
            BY <1>2, <1>8, <2>1, <2>2
        <3>2. g[i] < g[i + 1]
            BY <1>2, <1>4, <3>1
        <3>3. \A x \in V : ~(g[i] < x /\ x < g[i + 1])
            <4>1. \A x \in (g[i] + 1)..(g[i + 1] - 1) : Blank(s[x])
                BY <1>4, <3>1
            <4>2. ASSUME NEW x \in V, g[i] < x, x < g[i + 1]
                  PROVE  FALSE
                <5>1. x \in 1..n /\ g[i] \in 1..n /\ g[i + 1] \in 1..n
                    BY <1>3, <1>8, <3>1
                <5>2. x \in (g[i] + 1)..(g[i + 1] - 1)
                    BY <1>3, <4>2, <5>1
                <5> QED
                    BY <1>3, <4>1, <5>1, <5>2 DEF Blank
            <4> QED
                BY <4>2
        <3>4. Rank(V, g[i + 1]) = k + 1
            BY <1>7, <1>8, <3>1, <3>2, <3>3
        <3>5. v[k + 1] = s[g[i + 1]]
            BY <1>6, <1>8, <3>1, <3>4
        <3> QED
            BY <1>8, <2>2, <3>1, <3>5
    <2>3. ~FailedAt(v, k)
        BY <2>1, <2>2 DEF FailedAt
    <2> QED
        BY <1>6, <2>1, <2>3
<1>10. ASSUME NEW k \in J
       PROVE  \E i \in 1..m : f[i] = k
    <2>1. k \in 1..c /\ ~FailedAt(v, k)
        BY <1>6
    <2>2. PICK x \in V : Rank(V, x) = k
        BY <1>6, <2>1
    <2>3. v[k] = s[x] /\ x \in 1..n
        BY <1>3, <1>6, <2>2
    <2>4. ~Blank(s[x]) /\ ~s[x].error
        BY <1>3, <2>1, <2>3 DEF FailedAt, Blank
    <2>5. ASSUME Lone(s, n, x)
          PROVE  FALSE
        <3>1. /\ s[x].role = "user"
              /\ \E j \in (x + 1)..n : s[j].error /\ \A l \in (x + 1)..(j - 1) : Blank(s[l])
            BY <2>4, <2>5 DEF Lone
        <3>2. PICK j \in (x + 1)..n :
                 s[j].error /\ \A l \in (x + 1)..(j - 1) : Blank(s[l])
            BY <3>1
        <3>3. j \in V /\ x < j /\ j \in 1..n
            BY <1>3, <2>3, <3>2
        <3>4. \A y \in V : ~(x < y /\ y < j)
            <4>1. ASSUME NEW y \in V, x < y, y < j
                  PROVE  FALSE
                <5>1. y \in 1..n /\ y \in (x + 1)..(j - 1)
                    BY <1>3, <2>3, <3>3, <4>1
                <5> QED
                    BY <1>3, <3>2, <5>1 DEF Blank
            <4> QED
                BY <4>1
        <3>5. Rank(V, j) = k + 1
            BY <1>7, <2>2, <3>3, <3>4
        <3>6. k + 1 \in 1..c /\ v[k + 1] = s[j]
            BY <1>6, <3>3, <3>5
        <3>7. k < Len(v)
            BY <1>6, <2>1, <3>6
        <3> QED
            BY <2>1, <2>3, <3>1, <3>2, <3>6, <3>7 DEF FailedAt
    <2>6. PICK i \in 1..m : x = g[i]
        BY <1>4, <2>3, <2>4, <2>5
    <2> QED
        BY <2>2, <2>6
<1>11. /\ t \in Seq(RowType) /\ Len(t) = m /\ \A i \in 1..m : t[i] = s[g[i]]
    <2>1. \A i \in 1..m : s[g[i]] \in RowType
        BY <1>3, <1>8
    <2>2. DOMAIN t = 1..m /\ \A i \in 1..m : t[i] = s[g[i]]
        OBVIOUS
    <2>3. t \in Seq(RowType) /\ Len(t) = m
        BY <1>2, <2>1
    <2> QED
        BY <2>2, <2>3
<1>12. Moves(f, t, 1..m, v, J)
    <2>1. 1..m \in SUBSET DOMAIN t
        BY <1>2, <1>11
    <2>2. J \in SUBSET DOMAIN v /\ f \in [1..m -> J]
        BY <1>9
    <2>3. \A i, j \in 1..m : i <= j <=> f[i] <= f[j]
        BY <1>5, <1>7, <1>8
    <2>4. \A i \in 1..m : v[f[i]] = t[i]
        BY <1>6, <1>8, <1>11
    <2> HIDE DEF f, t, J
    <2> QED
        BY <1>10, <2>1, <2>2, <2>3, <2>4 DEF Moves
<1> HIDE DEF f, J, t
<1>13. Where(t, 1..m) = Where(v, J)
    BY <1>6, <1>11, <1>12, WhereMoved
<1>14. Where(t, 1..m) = t
    BY <1>11, WhereAll
<1>15. Talk(s) = t
    BY <1>13, <1>14 DEF Talk, v, V, J
<1>16. DOMAIN Talk(s) = 1..m
    BY <1>2, <1>11, <1>15
<1>17. ASSUME NEW i \in 1..m PROVE Same(Talk(s)[i], rows[i])
    <2>1. Talk(s)[i] = s[g[i]]
        BY <1>11, <1>15
    <2>2. Same(s[g[i]], rows[i])
        BY <1>4
    <2> HIDE DEF Same, rows, m
    <2> QED
        BY <2>1, <2>2
<1> QED
    BY <1>2, <1>16, <1>17 DEF rows

-----------------------------------------------------------------------------
(* What keeps Past                                                         *)

(* Places that agree, and behind them rows that show nothing or failed     *)
(* turns                                                                   *)
LEMMA PastMore ==
    ASSUME NEW st \in Seq(Turn), NEW msgs, NEW b \in Nat, Past(msgs, st, b),
           NEW s, NEW n \in Nat, b <= n, \A k \in 1..b : s[k] = msgs[k],
           \A x \in (b + 1)..n : Blank(s[x]) \/ Lone(s, n, x)
    PROVE  Past(s, st, n)
<1> DEFINE rows == RowsOf(st)
           m == 2 * Len(st)
<1>1. PICK g : Places(g, rows, msgs, b)
    BY DEF Past
<1>2. /\ m \in Nat /\ DOMAIN rows = 1..m
      /\ \A i \in 1..m : rows[i].role = "user" => i + 1 \in 1..m
    <2>1. Pairs(rows, st, Len(st))
        BY RowsAre
    <2> HIDE DEF rows
    <2> QED
        BY <2>1 DEF Pairs
<1> HIDE DEF rows, m
<1>3. /\ g \in [1..m -> 1..b]
      /\ \A i, j \in 1..m : i < j => g[i] < g[j]
      /\ \A i \in 1..m : Same(msgs[g[i]], rows[i])
      /\ \A x \in 1..b : (\E i \in 1..m : x = g[i]) \/ Blank(msgs[x]) \/ Lone(msgs, b, x)
      /\ \A i \in 1..m : rows[i].role = "user" =>
            \A x \in (g[i] + 1)..(g[i + 1] - 1) : Blank(msgs[x])
    BY <1>1, <1>2 DEF Places
<1>4. 1..b \subseteq 1..n /\ g \in [1..m -> 1..n]
    BY <1>3
<1>5. \A i \in 1..m : Same(s[g[i]], rows[i])
    BY <1>3
<1>6. ASSUME NEW x \in 1..b, Lone(msgs, b, x)
      PROVE  Lone(s, n, x)
    <2>1. s[x] = msgs[x]
        OBVIOUS
    <2>2. CASE msgs[x].error
        BY <2>1, <2>2 DEF Lone
    <2>3. CASE ~msgs[x].error
        <3>1. PICK j \in (x + 1)..b :
                 msgs[j].error /\ \A l \in (x + 1)..(j - 1) : Blank(msgs[l])
            BY <1>6, <2>3 DEF Lone
        <3>2. j \in (x + 1)..n /\ s[j].error
            BY <3>1
        <3>3. \A l \in (x + 1)..(j - 1) : l \in 1..b
            BY <3>1
        <3>4. \A l \in (x + 1)..(j - 1) : Blank(s[l])
            BY <3>1, <3>3
        <3>5. msgs[x].role = "user"
            BY <1>6, <2>3 DEF Lone
        <3> QED
            BY <2>1, <3>2, <3>4, <3>5 DEF Lone
    <2> QED
        BY <2>2, <2>3
<1>7. \A x \in 1..n : (\E i \in 1..m : x = g[i]) \/ Blank(s[x]) \/ Lone(s, n, x)
    <2>1. \A x \in 1..n : x \in 1..b \/ x \in (b + 1)..n
        OBVIOUS
    <2> QED
        BY <1>3, <1>6, <2>1
<1>8. ASSUME NEW i \in 1..m, rows[i].role = "user"
      PROVE  \A x \in (g[i] + 1)..(g[i + 1] - 1) : Blank(s[x])
    <2>1. g[i] \in 1..b /\ g[i + 1] \in 1..b
        BY <1>2, <1>3, <1>8
    <2>2. \A x \in (g[i] + 1)..(g[i + 1] - 1) : x \in 1..b
        BY <2>1
    <2> QED
        BY <1>3, <1>8, <2>2
<1>9. Places(g, rows, s, n)
    BY <1>2, <1>3, <1>4, <1>5, <1>7, <1>8 DEF Places
<1> QED
    BY <1>9 DEF Past, rows

(* What the screen shows of such rows                                      *)
LEMMA PastShown ==
    ASSUME NEW st \in Seq(Turn), NEW new \in Seq(RowType), NEW s \in Seq(RowType),
           Past(new, st, Len(new)), Shows(new, s)
    PROVE  Past(s, st, Len(s))
<1> DEFINE b == Len(new)
           n == Len(s)
<1>1. /\ b \in Nat /\ n \in Nat /\ b <= n /\ DOMAIN s = 1..n
      /\ \A k \in 1..b : s[k] = new[k]
      /\ \A k \in (b + 1)..n : k \in LostRows(new, s)
    BY DEF Shows
<1>2. Past(new, st, b)
    OBVIOUS
<1> HIDE DEF b, n
<1>3. ASSUME NEW x \in (b + 1)..n
      PROVE  Lone(s, n, x)
    <2>1. x \in Int /\ (Lost(new, s, x) \/ Asked(new, s, x))
        BY <1>1 DEF LostRows
    <2>2. CASE Lost(new, s, x)
        BY <2>2 DEF Lost, Lone
    <2>3. CASE Asked(new, s, x)
        <3>1. s[x].role = "user" /\ s[x + 1].error /\ x + 1 \in 1..n
            BY <1>1, <2>3 DEF Asked, Lost
        <3>2. x + 1 \in (x + 1)..n /\ (x + 1)..((x + 1) - 1) = {}
            BY <1>1, <2>1, <3>1
        <3> QED
            BY <3>1, <3>2 DEF Lone
    <2> QED
        BY <2>1, <2>2, <2>3
<1>4. Past(s, st, n)
    BY <1>1, <1>2, <1>3, PastMore
<1> QED
    BY <1>4 DEF n

(* The rows of a saved transcript show it                                  *)
LEMMA PastSaved ==
    ASSUME NEW st \in Seq(Turn)
    PROVE  Past(RowsOf(st), st, Len(RowsOf(st)))
<1> DEFINE rows == RowsOf(st)
           m == 2 * Len(st)
           g == [i \in 1..m |-> i]
<1>1. /\ m \in Nat /\ DOMAIN rows = 1..m /\ Len(rows) = m
      /\ \A i \in 1..m : ~rows[i].error
    BY RowsAlternate
<1> HIDE DEF rows, m
<1>2. Places(g, rows, rows, m)
    <2>1. g \in [1..m -> 1..m] /\ \A i \in 1..m : g[i] = i
        OBVIOUS
    <2> HIDE DEF g
    <2>2. \A i \in 1..m : \A x \in (i + 1)..((i + 1) - 1) : FALSE
        BY <1>1
    <2>3. ASSUME NEW i \in 1..m, NEW x \in (g[i] + 1)..(g[i + 1] - 1), rows[i].role = "user"
          PROVE  Blank(rows[x])
        <3>1. i + 1 \in 1..m
            <4>1. \A j \in DOMAIN RowsOf(st) : RowsOf(st)[j].role = "user" =>
                     j + 1 \in DOMAIN RowsOf(st)
                BY RowsAlternate
            <4> QED
                BY <1>1, <2>3, <4>1 DEF rows
        <3> QED
            BY <2>1, <2>2, <2>3, <3>1
    <2>4. \A i, j \in 1..m : i < j => g[i] < g[j]
        BY <2>1
    <2>5. \A i \in 1..m : Same(rows[g[i]], rows[i])
        BY <1>1, <2>1 DEF Same
    <2>6. \A x \in 1..m : \E i \in 1..m : x = g[i]
        BY <2>1
    <2> QED
        BY <1>1, <2>1, <2>3, <2>4, <2>5, <2>6 DEF Places
<1> QED
    BY <1>1, <1>2 DEF Past, rows

(* On a screen that shows them they are the dialogue                       *)
LEMMA DialogueIs ==
    ASSUME NEW st \in Seq(Turn), screen \in Seq(RowType), Past(screen, st, Len(screen)),
           \A i \in DOMAIN screen : RowOK(screen[i])
    PROVE  LET rows == RowsOf(st)
           IN  Dialogue = [i \in DOMAIN rows |-> <<rows[i].role, rows[i].of>>]
<1> DEFINE rows == RowsOf(st)
           talk == Talk(screen)
<1>1. DOMAIN talk = DOMAIN rows /\ \A i \in DOMAIN rows : Same(talk[i], rows[i])
    BY PastTalk DEF RowOK
<1>2. Dialogue = [i \in DOMAIN talk |-> <<talk[i].role, talk[i].of>>]
    BY DEF Dialogue, Talk, Visible, FailedAt
<1> HIDE DEF talk, rows
<1>3. \A i \in DOMAIN rows : talk[i].role = rows[i].role /\ talk[i].of = rows[i].of
    BY <1>1 DEF Same
<1>4. Dialogue = [i \in DOMAIN rows |-> <<rows[i].role, rows[i].of>>]
    BY <1>1, <1>2, <1>3
<1> QED
    BY <1>4 DEF rows

(* A finished turn behind them: its question, and one answer among rows    *)
(* that show nothing                                                       *)
LEMMA PastTurn ==
    ASSUME NEW st \in Seq(Turn), NEW p \in Turn, NEW msgs, NEW b \in Nat, NEW n \in Nat,
           b + 1 <= n, Past(msgs, st, b),
           msgs[b + 1].role = "user", msgs[b + 1].of = {p}, ~msgs[b + 1].error,
           NEW j \in (b + 2)..n,
           msgs[j].role = "assistant", msgs[j].of = {p}, ~msgs[j].error,
           \A k \in (b + 2)..n : k # j => Blank(msgs[k])
    PROVE  Past(msgs, Append(st, p), n)
<1> DEFINE rows == RowsOf(st)
           st2 == Append(st, p)
           rows2 == RowsOf(st2)
           l == Len(st)
<1>1. l \in Nat /\ st2 \in Seq(Turn) /\ Len(st2) = l + 1 /\ st2[l + 1] = p
      /\ \A k \in 1..l : st2[k] = st[k]
    OBVIOUS
<1>2. /\ DOMAIN rows = 1..(2 * l)
      /\ \A i \in 1..(2 * l) : /\ rows[i].of = {st[(i + 1) \div 2]}
                               /\ rows[i].role \in {"user", "assistant"}
                               /\ rows[i].role = "user" <=> i % 2 = 1
    BY RowsAlternate
<1>3. /\ DOMAIN rows2 = 1..(2 * (l + 1))
      /\ \A i \in 1..(2 * (l + 1)) : /\ rows2[i].of = {st2[(i + 1) \div 2]}
                                     /\ rows2[i].role \in {"user", "assistant"}
                                     /\ rows2[i].role = "user" <=> i % 2 = 1
    <2>1. Pairs(rows2, st2, l + 1)
        BY <1>1, RowsAre
    <2> HIDE DEF rows2
    <2> QED
        BY <2>1 DEF Pairs
<1> HIDE DEF rows, rows2, st2
<1>4. PICK g : Places(g, rows, msgs, b)
    BY DEF Past, rows
<1> DEFINE m == 2 * l
<1>5. /\ m \in Nat /\ 2 * (l + 1) = m + 2
      /\ \A i \in 1..m : (i + 1) \div 2 \in 1..l
      /\ ((m + 1) + 1) \div 2 = l + 1 /\ ((m + 2) + 1) \div 2 = l + 1
      /\ (m + 1) % 2 = 1 /\ (m + 2) % 2 # 1
      /\ \A i \in 1..m : i % 2 = 1 => i + 1 \in 1..m
    <2>1. PICK k \in Nat : k = l
        BY <1>1
    <2>2. \A i \in 1..(2 * k) : (i + 1) \div 2 \in 1..k
        OBVIOUS
    <2>3. ((2 * k + 1) + 1) \div 2 = k + 1 /\ ((2 * k + 2) + 1) \div 2 = k + 1
        OBVIOUS
    <2>4. (2 * k + 1) % 2 = 1 /\ (2 * k + 2) % 2 # 1
        OBVIOUS
    <2>5. ASSUME NEW i \in 1..(2 * k), i % 2 = 1
          PROVE  i + 1 \in 1..(2 * k)
        <3>1. i # 2 * k
            BY <2>5
        <3> QED
            BY <2>5, <3>1
    <2> QED
        BY <2>1, <2>2, <2>3, <2>4, <2>5
<1> HIDE DEF l, m
<1>6. /\ g \in [1..m -> 1..b]
      /\ \A i, k \in 1..m : i < k => g[i] < g[k]
      /\ \A i \in 1..m : Same(msgs[g[i]], rows[i])
      /\ \A x \in 1..b : (\E i \in 1..m : x = g[i]) \/ Blank(msgs[x]) \/ Lone(msgs, b, x)
      /\ \A i \in 1..m : rows[i].role = "user" =>
            \A x \in (g[i] + 1)..(g[i + 1] - 1) : Blank(msgs[x])
    BY <1>2, <1>4 DEF Places, m
<1>7. \A i \in 1..m : rows2[i].role = rows[i].role /\ rows2[i].of = rows[i].of
    <2> SUFFICES ASSUME NEW i \in 1..m
                 PROVE  rows2[i].role = rows[i].role /\ rows2[i].of = rows[i].of
        OBVIOUS
    <2>1. i \in 1..(2 * (l + 1)) /\ i \in 1..(2 * l) /\ (i + 1) \div 2 \in 1..l
        BY <1>1, <1>5 DEF m
    <2>2. PICK q \in 1..l : q = (i + 1) \div 2
        BY <2>1
    <2>3. st2[q] = st[q]
        BY <1>1
    <2>4. rows2[i].of = {st2[q]} /\ rows[i].of = {st[q]}
        BY <1>2, <1>3, <2>1, <2>2
    <2>5. /\ rows2[i].role = "user" <=> rows[i].role = "user"
          /\ rows2[i].role \in {"user", "assistant"} /\ rows[i].role \in {"user", "assistant"}
        BY <1>2, <1>3, <2>1
    <2> QED
        BY <2>3, <2>4, <2>5
<1>8. /\ rows2[m + 1].role = "user" /\ rows2[m + 1].of = {p}
      /\ rows2[m + 2].role = "assistant" /\ rows2[m + 2].of = {p}
      /\ DOMAIN rows2 = 1..(m + 2)
    <2>1. m + 1 \in 1..(2 * (l + 1)) /\ m + 2 \in 1..(2 * (l + 1))
        BY <1>5
    <2> QED
        BY <1>1, <1>3, <1>5, <2>1
<1> DEFINE h == [i \in 1..(m + 2) |-> IF i <= m THEN g[i] ELSE IF i = m + 1 THEN b + 1 ELSE j]
<1>9. /\ \A i \in 1..m : h[i] = g[i] /\ h[i] \in 1..b
      /\ h[m + 1] = b + 1 /\ h[m + 2] = j
      /\ \A i \in 1..(m + 2) : i \in 1..m \/ i = m + 1 \/ i = m + 2
      /\ DOMAIN h = 1..(m + 2)
    BY <1>5, <1>6
<1>10. h \in [1..(m + 2) -> 1..n]
    <2>3. \A i \in 1..b : i \in 1..n
        OBVIOUS
    <2>4. b + 1 \in 1..n /\ j \in 1..n
        OBVIOUS
    <2>1. \A i \in 1..(m + 2) : h[i] \in 1..n
        <3> HIDE DEF h
        <3> QED
            BY <1>9, <2>3, <2>4
    <2>2. h = [i \in 1..(m + 2) |-> h[i]]
        OBVIOUS
    <2> QED
        BY <2>1, <2>2
<1> HIDE DEF h
<1>11. \A i, k \in 1..(m + 2) : i < k => h[i] < h[k]
    <2> SUFFICES ASSUME NEW i \in 1..(m + 2), NEW k \in 1..(m + 2), i < k
                 PROVE  h[i] < h[k]
        OBVIOUS
    <2>1. CASE k \in 1..m
        <3>1. i \in 1..m
            BY <1>5, <2>1
        <3> QED
            BY <1>6, <1>9, <2>1, <3>1
    <2>2. CASE k = m + 1
        <3>1. i \in 1..m
            BY <1>5, <2>2
        <3> QED
            BY <1>9, <2>2, <3>1
    <2>3. CASE k = m + 2
        <3>1. i \in 1..m \/ i = m + 1
            BY <1>5, <1>9, <2>3
        <3> QED
            BY <1>9, <2>3, <3>1
    <2> QED
        BY <1>9, <2>1, <2>2, <2>3
<1>12. \A i \in 1..(m + 2) : Same(msgs[h[i]], rows2[i])
    <2> SUFFICES ASSUME NEW i \in 1..(m + 2)
                 PROVE  Same(msgs[h[i]], rows2[i])
        OBVIOUS
    <2>1. CASE i \in 1..m
        BY <1>6, <1>7, <1>9, <2>1 DEF Same
    <2>2. CASE i = m + 1 \/ i = m + 2
        BY <1>8, <1>9, <2>2 DEF Same
    <2> QED
        BY <1>9, <2>1, <2>2
<1>13. ASSUME NEW x \in 1..n
       PROVE  (\E i \in 1..(m + 2) : x = h[i]) \/ Blank(msgs[x]) \/ Lone(msgs, n, x)
    <2>1. CASE x \in 1..b
        <3>1. CASE \E i \in 1..m : x = g[i]
            <4>1. PICK i \in 1..m : x = g[i]
                BY <3>1
            <4>2. i \in 1..(m + 2) /\ x = h[i]
                BY <1>5, <1>9, <4>1
            <4> QED
                BY <4>2
        <3>2. CASE Lone(msgs, b, x)
            <4>1. (x + 1)..b \subseteq (x + 1)..n
                OBVIOUS
            <4> QED
                BY <3>2, <4>1 DEF Lone
        <3> QED
            BY <1>6, <2>1, <3>1, <3>2
    <2>2. CASE x = b + 1 \/ x = j
        <3>1. m + 1 \in 1..(m + 2) /\ m + 2 \in 1..(m + 2)
            BY <1>5
        <3> QED
            BY <1>9, <2>2, <3>1
    <2>3. CASE x \in (b + 2)..n /\ x # j
        BY <2>3
    <2> QED
        BY <2>1, <2>2, <2>3
<1>14. ASSUME NEW i \in 1..(m + 2), rows2[i].role = "user"
       PROVE  \A x \in (h[i] + 1)..(h[i + 1] - 1) : Blank(msgs[x])
    <2>1. CASE i \in 1..m
        <3>1. i + 1 \in 1..m /\ rows[i].role = "user"
            BY <1>2, <1>5, <1>7, <1>14, <2>1 DEF m
        <3> QED
            BY <1>6, <1>9, <2>1, <3>1
    <2>2. CASE i = m + 1
        <3>1. i + 1 = m + 2 /\ h[i] = b + 1 /\ h[i + 1] = j
            BY <1>5, <1>9, <2>2
        <3>2. \A x \in ((b + 1) + 1)..(j - 1) : x \in (b + 2)..n /\ x # j
            OBVIOUS
        <3> QED
            BY <3>1, <3>2
    <2>3. CASE i = m + 2
        BY <1>8, <1>14, <2>3
    <2> QED
        BY <1>9, <2>1, <2>2, <2>3
<1>15. Places(h, rows2, msgs, n)
    BY <1>8, <1>10, <1>11, <1>12, <1>13, <1>14 DEF Places
<1> QED
    BY <1>15 DEF Past, rows2, st2

(* Cut before a question that no failed turn precedes, the rows show the   *)
(* first turns: as many as there are questions before it, which is what    *)
(* visibleUserOrdinal counts                                               *)
LEMMA PastCut ==
    ASSUME NEW st \in Seq(Turn), NEW msgs \in Seq(RowType), Past(msgs, st, Len(msgs)),
           \A x \in DOMAIN msgs : msgs[x].role = "user" => msgs[x].of # {},
           NEW i \in DOMAIN msgs, msgs[i].role = "user",
           \A x \in 1..i : ~msgs[x].error,
           NEW c, c = Cardinality({x \in 1..(i - 1) : msgs[x].role = "user"})
    PROVE  /\ c \in Nat /\ c <= Len(st) /\ SubSeq(st, 1, c) \in Seq(Turn)
           /\ Past(msgs, SubSeq(st, 1, c), i - 1)
<1> DEFINE rows == RowsOf(st)
           l == Len(st)
           n == Len(msgs)
           U == {x \in 1..(i - 1) : msgs[x].role = "user"}
<1>1. /\ l \in Nat /\ DOMAIN rows = 1..(2 * l)
      /\ \A q \in 1..(2 * l) : rows[q].of # {}
      /\ \A q \in 1..(2 * l) : /\ rows[q].of = {st[(q + 1) \div 2]}
                               /\ rows[q].role \in {"user", "assistant"}
                               /\ rows[q].role = "user" <=> q % 2 = 1
      /\ \A q \in 1..(2 * l) : rows[q].role = "user" =>
            q + 1 \in 1..(2 * l) /\ rows[q + 1].role = "assistant"
    <2>1. Pairs(rows, st, l)
        BY RowsAre
    <2> HIDE DEF rows, l
    <2> QED
        BY <2>1 DEF Pairs
<1>2. n \in Nat /\ DOMAIN msgs = 1..n /\ i \in 1..n
    OBVIOUS
<1>3. PICK g : Places(g, rows, msgs, n)
    BY DEF Past
<1> HIDE DEF rows, n, l
<1>4. /\ g \in [1..(2 * l) -> 1..n]
      /\ \A q, k \in 1..(2 * l) : q < k => g[q] < g[k]
      /\ \A q \in 1..(2 * l) : Same(msgs[g[q]], rows[q])
      /\ \A x \in 1..n : (\E q \in 1..(2 * l) : x = g[q]) \/ Blank(msgs[x]) \/ Lone(msgs, n, x)
      /\ \A q \in 1..(2 * l) : rows[q].role = "user" =>
            \A x \in (g[q] + 1)..(g[q + 1] - 1) : Blank(msgs[x])
    BY <1>1, <1>3 DEF Places
<1>5. ~Blank(msgs[i])
    BY <1>2 DEF Blank
<1>6. ASSUME NEW x \in 1..(i - 1), ~Blank(msgs[x])
      PROVE  \E q \in 1..(2 * l) : x = g[q]
    <2>1. x \in 1..n /\ ~msgs[x].error
        BY <1>2
    <2>2. ASSUME Lone(msgs, n, x)
          PROVE  FALSE
        <3>1. PICK j \in (x + 1)..n :
                 msgs[j].error /\ \A k \in (x + 1)..(j - 1) : Blank(msgs[k])
            BY <2>1, <2>2 DEF Lone
        <3>2. ~(j \in 1..i)
            BY <3>1
        <3>3. i \in (x + 1)..(j - 1)
            BY <1>2, <3>2
        <3> QED
            BY <1>5, <3>1, <3>3
    <2> QED
        BY <1>4, <1>6, <2>1, <2>2
(* The rows before place i are those of whole turns                        *)
<1>7. \E a \in 0..l : \A q \in 1..(2 * l) : g[q] < i <=> q <= 2 * a
    <2> DEFINE A == {a \in 0..l : \A q \in 1..(2 * a) : g[q] < i}
    <2>1. A \in SUBSET (0..l) /\ A # {}
        <3>1. 0 \in A
            BY <1>1
        <3> QED
            BY <3>1
    <2>2. PICK a \in A : \A k \in A : k <= a
        <3> HIDE DEF A
        <3> QED
            BY <1>1, <2>1, LastPlace
    <2>3. ASSUME NEW q \in 1..(2 * l), q > 2 * a
          PROVE  ~(g[q] < i)
        <3>1. a \in Nat /\ a < l /\ a + 1 \in 0..l
            BY <1>1, <2>3
        <3>2. a + 1 \notin A
            <4>1. ~(a + 1 <= a)
                BY <3>1
            <4> QED
                BY <2>2, <4>1
        <3>3. PICK k \in 1..(2 * (a + 1)) : ~(g[k] < i)
            BY <3>1, <3>2
        <3>4. k \in 1..(2 * l) /\ k > 2 * a
            <4>1. \A y \in 1..(2 * a) : g[y] < i
                BY <2>2
            <4> QED
                BY <1>1, <3>1, <3>3, <4>1
        <3> DEFINE u == 2 * a + 1
        <3>5. u \in 1..(2 * l) /\ u % 2 = 1 /\ (k = u \/ k = u + 1) /\ u <= q
            BY <1>1, <2>3, <3>1, <3>3, <3>4
        <3>6. rows[u].role = "user" /\ u + 1 \in 1..(2 * l) /\ rows[u + 1].role = "assistant"
            BY <1>1, <3>5
        <3> HIDE DEF u
        <3>7. /\ \A y \in 1..(2 * l) : g[y] \in 1..n
              /\ g[u] \in 1..n /\ g[u + 1] \in 1..n /\ g[q] \in 1..n /\ g[k] \in 1..n
            BY <1>4, <3>4, <3>5, <3>6
        <3>8. ~(g[u] < i)
            <4> SUFFICES ASSUME g[u] < i
                         PROVE  FALSE
                OBVIOUS
            <4>1. k = u + 1 /\ ~(g[u + 1] < i)
                BY <3>3, <3>5
            <4>2. g[u + 1] # i
                <5>1. msgs[g[u + 1]].role = "assistant"
                    BY <1>4, <3>6 DEF Same
                <5> QED
                    BY <5>1
            <4>3. i \in (g[u] + 1)..(g[u + 1] - 1)
                BY SMTT(30), <1>2, <3>7, <4>1, <4>2
            <4> QED
                BY <1>4, <1>5, <3>5, <3>6, <4>3
        <3>9. g[u] <= g[q]
            <4>1. u < q => g[u] < g[q]
                BY <1>4, <3>5
            <4>2. u = q \/ u < q
                BY <3>5
            <4> QED
                BY <3>7, <4>1, <4>2
        <3> QED
            BY <1>2, <3>7, <3>8, <3>9
    <2>4. a \in 0..l /\ \A q \in 1..(2 * l) : g[q] < i <=> q <= 2 * a
        <3>1. \A q \in 1..(2 * l) : q <= 2 * a => q \in 1..(2 * a)
            BY <1>1
        <3>2. \A q \in 1..(2 * a) : g[q] < i
            OBVIOUS
        <3>3. \A q \in 1..(2 * l) : q <= 2 * a \/ q > 2 * a
            BY <1>1
        <3> HIDE DEF A
        <3> QED
            BY <2>1, <2>3, <3>1, <3>2, <3>3
    <2> QED
        BY <2>4
<1>8. PICK a \in 0..l : \A q \in 1..(2 * l) : g[q] < i <=> q <= 2 * a
    BY <1>7
(* One question for each of them                                           *)
<1>9. Cardinality(U) = a
    <2> DEFINE h == [k \in 1..a |-> g[2 * k - 1]]
    <2>1. \A k \in 1..a : 2 * k - 1 \in 1..(2 * l) /\ 2 * k - 1 <= 2 * a /\ (2 * k - 1) % 2 = 1
        BY <1>1
    <2>2. ASSUME NEW k \in 1..a
          PROVE  h[k] \in U
        <3>1. g[2 * k - 1] < i /\ g[2 * k - 1] \in 1..n
            BY <1>4, <1>8, <2>1
        <3>2. msgs[g[2 * k - 1]].role = "user"
            BY <1>1, <1>4, <2>1 DEF Same
        <3> QED
            BY <1>2, <3>1, <3>2
    <2>3. ASSUME NEW k \in 1..a, NEW y \in 1..a, h[k] = h[y]
          PROVE  k = y
        <3>1. /\ 2 * k - 1 \in 1..(2 * l) /\ 2 * y - 1 \in 1..(2 * l)
              /\ g[2 * k - 1] \in 1..n /\ g[2 * k - 1] = g[2 * y - 1]
            BY <1>4, <2>1, <2>3
        <3>2. ~(2 * k - 1 < 2 * y - 1) /\ ~(2 * y - 1 < 2 * k - 1)
            BY <1>2, <1>4, <3>1
        <3> QED
            BY <1>1, <3>2
    <2>4. ASSUME NEW x \in U
          PROVE  \E k \in 1..a : h[k] = x
        <3>1. x \in 1..(i - 1) /\ x \in 1..n /\ msgs[x].role = "user" /\ ~Blank(msgs[x])
            BY <1>2 DEF Blank
        <3>2. PICK q \in 1..(2 * l) : x = g[q]
            BY <1>6, <3>1
        <3>3. q <= 2 * a
            BY <1>2, <1>8, <3>1, <3>2
        <3>4. rows[q].role = "user"
            BY <1>4, <3>1, <3>2 DEF Same
        <3>5. q % 2 = 1
            BY <1>1, <3>4
        <3>6. \E k \in 1..a : q = 2 * k - 1
            <4> DEFINE k == (q + 1) \div 2
            <4>1. q \in Nat /\ a \in Nat /\ 1 <= q
                BY <1>1
            <4>2. k \in Nat /\ q = 2 * k - 1
                BY <3>5, <4>1
            <4> HIDE DEF k
            <4>3. k \in 1..a
                BY <3>3, <4>1, <4>2
            <4> QED
                BY <4>2, <4>3
        <3> QED
            BY <3>2, <3>6
    <2>5. h \in Bijection(1..a, U)
        <3>1. h \in [1..a -> U]
            BY <2>2
        <3> HIDE DEF h, U
        <3> QED
            BY <2>3, <2>4, <3>1 DEF Bijection, Injection, Surjection, IsInjective
    <2>6. a \in Nat /\ IsFiniteSet(1..a) /\ Cardinality(1..a) = a
        <3>1. a \in Nat
            BY <1>1
        <3> QED
            BY <3>1, FS_Interval
    <2>7. ExistsBijection(1..a, U)
        BY <2>5 DEF ExistsBijection
    <2> HIDE DEF U
    <2> QED
        BY <2>6, <2>7, FS_Bijection
<1>10. c = a
    BY <1>9
<1> HIDE DEF U
<1> DEFINE st2 == SubSeq(st, 1, a)
           rows2 == RowsOf(st2)
<1>11. st2 \in Seq(Turn) /\ Len(st2) = a /\ \A k \in 1..a : st2[k] = st[k]
    BY <1>1 DEF l
<1> HIDE DEF st2
<1>12. /\ DOMAIN rows2 = 1..(2 * a)
       /\ \A q \in 1..(2 * a) : /\ rows2[q].of = {st2[(q + 1) \div 2]}
                                /\ rows2[q].role \in {"user", "assistant"}
                                /\ rows2[q].role = "user" <=> q % 2 = 1
       /\ \A q \in 1..(2 * a) : rows2[q].role = "user" => q + 1 \in 1..(2 * a)
    <2>1. Pairs(rows2, st2, a)
        BY <1>11, RowsAre
    <2> HIDE DEF rows2
    <2> QED
        BY <2>1 DEF Pairs
<1> HIDE DEF rows2
<1>13. ASSUME NEW q \in 1..(2 * a)
       PROVE  q \in 1..(2 * l) /\ rows2[q].role = rows[q].role /\ rows2[q].of = rows[q].of
    <2>1. q \in 1..(2 * l)
        BY <1>1
    <2>2. (q + 1) \div 2 \in 1..a
        <3>1. a \in Nat
            BY <1>1
        <3> QED
            BY <3>1
    <2>3. PICK k \in 1..a : k = (q + 1) \div 2
        BY <2>2
    <2>4. rows2[q].of = {st2[k]} /\ rows[q].of = {st[k]}
        BY <1>1, <1>12, <2>1, <2>3
    <2>5. /\ rows2[q].role = "user" <=> rows[q].role = "user"
          /\ rows2[q].role \in {"user", "assistant"} /\ rows[q].role \in {"user", "assistant"}
        BY <1>1, <1>12, <2>1
    <2> QED
        BY <1>11, <2>1, <2>4, <2>5
<1> DEFINE f == [q \in 1..(2 * a) |-> g[q]]
<1>14. /\ f \in [1..(2 * a) -> 1..(i - 1)]
       /\ \A q \in 1..(2 * a) : f[q] = g[q]
    <2>1. ASSUME NEW q \in 1..(2 * a)
          PROVE  g[q] \in 1..(i - 1)
        <3>1. q \in 1..(2 * l) /\ q <= 2 * a /\ g[q] \in 1..n
            BY <1>1, <1>4, <1>13
        <3>2. g[q] < i
            BY <1>8, <3>1
        <3> QED
            BY <1>2, <3>1, <3>2
    <2> QED
        BY <2>1
<1> HIDE DEF f
<1>15. \A q, k \in 1..(2 * a) : q < k => f[q] < f[k]
    BY <1>4, <1>13, <1>14
<1>16. \A q \in 1..(2 * a) : Same(msgs[f[q]], rows2[q])
    BY <1>4, <1>13, <1>14 DEF Same
<1>17. ASSUME NEW x \in 1..(i - 1), ~Blank(msgs[x])
       PROVE  \E q \in 1..(2 * a) : x = f[q]
    <2>1. PICK q \in 1..(2 * l) : x = g[q]
        BY <1>6, <1>17
    <2>2. q <= 2 * a
        BY <1>2, <1>8, <2>1
    <2>3. q \in 1..(2 * a)
        BY <1>1, <2>2
    <2> QED
        BY <1>14, <2>1, <2>3
<1>18. ASSUME NEW q \in 1..(2 * a), rows2[q].role = "user"
       PROVE  \A x \in (f[q] + 1)..(f[q + 1] - 1) : Blank(msgs[x])
    BY <1>4, <1>12, <1>13, <1>14, <1>18
<1>19. Places(f, rows2, msgs, i - 1)
    <2>1. DOMAIN rows2 = 1..(2 * a) /\ f \in [DOMAIN rows2 -> 1..(i - 1)]
        BY <1>12, <1>14
    <2>2. \A x \in 1..(i - 1) : (\E q \in DOMAIN rows2 : x = f[q]) \/ Blank(msgs[x])
        BY <1>17, <2>1
    <2>3. \A q \in DOMAIN rows2 : rows2[q].role = "user" =>
             \A x \in (f[q] + 1)..(f[q + 1] - 1) : Blank(msgs[x])
        BY <1>18, <2>1
    <2> QED
        BY <1>15, <1>16, <2>1, <2>2, <2>3 DEF Places
<1>20. Past(msgs, st2, i - 1)
    BY <1>19 DEF Past, rows2
<1> QED
    <2>1. c \in Nat /\ c <= Len(st)
        BY <1>1, <1>10 DEF l
    <2>2. SubSeq(st, 1, c) = st2
        BY <1>10 DEF st2
    <2> QED
        BY <1>10, <1>11, <1>20, <2>1, <2>2

-----------------------------------------------------------------------------
(* The prompts of a chat                                                   *)

(* The rows hold turns before n, and no two rows of the user ask the same  *)
(* turn                                                                    *)
Known(msgs, n) ==
    /\ \A i \in DOMAIN msgs : \A t \in msgs[i].of : t < n
    /\ \A i, j \in DOMAIN msgs :
          i # j /\ msgs[i].role = "user" /\ msgs[j].role = "user" => msgs[i].of # msgs[j].of

(* A question that no failed turn precedes is not asked or answered before *)
LEMMA PastDistinct ==
    ASSUME NEW st \in Seq(Turn), NEW msgs \in Seq(RowType), NEW n, Known(msgs, n),
           \A x \in DOMAIN msgs : RowOK(msgs[x]),
           NEW i \in DOMAIN msgs, Past(msgs, st, i - 1), msgs[i].role = "user",
           \A x \in 1..i : ~msgs[x].error,
           NEW p, msgs[i].of = {p}
    PROVE  \A x \in 1..(i - 1) : p \notin msgs[x].of
<1> DEFINE rows == RowsOf(st)
           l == Len(st)
<1>1. /\ l \in Nat /\ DOMAIN rows = 1..(2 * l)
      /\ \A q \in 1..(2 * l) : rows[q].role \in {"user", "assistant"}
      /\ \A q \in 1..(2 * l) : rows[q].role = "assistant" =>
            q - 1 \in 1..(2 * l) /\ rows[q - 1].role = "user" /\ rows[q - 1].of = rows[q].of
    <2>1. Pairs(rows, st, l)
        BY RowsAre
    <2> HIDE DEF rows, l
    <2> QED
        BY <2>1 DEF Pairs
<1>2. PICK g : Places(g, rows, msgs, i - 1)
    BY DEF Past
<1> HIDE DEF rows, l
<1>3. /\ g \in [1..(2 * l) -> 1..(i - 1)]
      /\ \A q \in 1..(2 * l) : Same(msgs[g[q]], rows[q])
      /\ \A x \in 1..(i - 1) :
            (\E q \in 1..(2 * l) : x = g[q]) \/ Blank(msgs[x]) \/ Lone(msgs, i - 1, x)
    BY <1>1, <1>2 DEF Places
<1>4. i \in Nat /\ \A x \in 1..(i - 1) : x \in DOMAIN msgs /\ x # i /\ x \in 1..i
    OBVIOUS
<1>5. \A x \in 1..(i - 1) : msgs[x].role = "user" => msgs[x].of # {p}
    BY <1>4 DEF Known
<1> SUFFICES ASSUME NEW x \in 1..(i - 1), p \in msgs[x].of
             PROVE  FALSE
    OBVIOUS
<1>6. msgs[x].of = {p}
    <2>1. Single(msgs[x].of)
        BY <1>4 DEF RowOK
    <2> QED
        BY <2>1 DEF Single
<1>7. msgs[x].role # "user"
    BY <1>5, <1>6
<1>8. PICK q \in 1..(2 * l) : x = g[q]
    <2>1. ~Blank(msgs[x]) /\ ~Lone(msgs, i - 1, x)
        BY <1>4, <1>6, <1>7 DEF Blank, Lone
    <2> QED
        BY <1>3, <2>1
<1>9. rows[q].role = "assistant" /\ rows[q].of = {p}
    BY <1>1, <1>3, <1>6, <1>7, <1>8 DEF Same
<1>10. q - 1 \in 1..(2 * l) /\ rows[q - 1].role = "user" /\ rows[q - 1].of = {p}
    BY <1>1, <1>9
<1>11. /\ g[q - 1] \in 1..(i - 1) /\ msgs[g[q - 1]].role = "user"
       /\ msgs[g[q - 1]].of = {p}
    BY <1>3, <1>10 DEF Same
<1> QED
    BY <1>5, <1>11

(* Each turn of st is asked by a row that did not fail, nor was followed by *)
(* a failure; no turn is there twice                                       *)
AsksAll(msgs, st) ==
    /\ \A k \in DOMAIN st : \E x \in DOMAIN msgs :
          /\ msgs[x].role = "user" /\ msgs[x].of = {st[k]} /\ ~msgs[x].error
          /\ x + 1 \in DOMAIN msgs => ~msgs[x + 1].error
    /\ \A k, y \in DOMAIN st : st[k] = st[y] => k = y

(* One of the first b rows holds the turn t                                *)
HasTurn(msgs, b, t) == \E x \in 1..b : msgs[x].of = {t}

(* Rows that show finished turns ask them all                              *)
LEMMA PastAsks ==
    ASSUME NEW st \in Seq(Turn), NEW msgs \in Seq(RowType), NEW n, Known(msgs, n),
           NEW b \in Nat, b <= Len(msgs), Past(msgs, st, b)
    PROVE  /\ AsksAll(msgs, st)
           /\ \A k \in DOMAIN st : HasTurn(msgs, b, st[k])
<1> DEFINE rows == RowsOf(st)
           l == Len(st)
<1>1. /\ l \in Nat /\ DOMAIN rows = 1..(2 * l)
      /\ \A q \in 1..(2 * l) : /\ rows[q].of = {st[(q + 1) \div 2]}
                               /\ rows[q].role \in {"user", "assistant"}
                               /\ rows[q].role = "user" <=> q % 2 = 1
      /\ \A q \in 1..(2 * l) : rows[q].role = "user" =>
            q + 1 \in 1..(2 * l) /\ rows[q + 1].role = "assistant"
    <2>1. Pairs(rows, st, l)
        BY RowsAre
    <2> HIDE DEF rows, l
    <2> QED
        BY <2>1 DEF Pairs
<1>2. PICK g : Places(g, rows, msgs, b)
    BY DEF Past
<1>0. DOMAIN st = 1..l
    OBVIOUS
<1> HIDE DEF rows, l
<1>3. /\ g \in [1..(2 * l) -> 1..b]
      /\ \A q, k \in 1..(2 * l) : q < k => g[q] < g[k]
      /\ \A q \in 1..(2 * l) : Same(msgs[g[q]], rows[q])
      /\ \A q \in 1..(2 * l) : rows[q].role = "user" =>
            \A x \in (g[q] + 1)..(g[q + 1] - 1) : Blank(msgs[x])
    BY <1>1, <1>2 DEF Places
<1>4. 1..b \subseteq DOMAIN msgs
    OBVIOUS
<1>5. ASSUME NEW k \in 1..l
      PROVE  LET u == 2 * k - 1
             IN  /\ u \in 1..(2 * l) /\ u + 1 \in 1..(2 * l) /\ g[u] \in 1..b
                 /\ msgs[g[u]].role = "user" /\ msgs[g[u]].of = {st[k]} /\ ~msgs[g[u]].error
                 /\ g[u] + 1 \in DOMAIN msgs => ~msgs[g[u] + 1].error
    <2> DEFINE u == 2 * k - 1
    <2>1. u \in 1..(2 * l) /\ u % 2 = 1 /\ (u + 1) \div 2 = k
        BY SMTT(30), <1>1
    <2> HIDE DEF u
    <2>2. rows[u].role = "user" /\ rows[u].of = {st[k]}
        BY <1>1, <2>1
    <2>3. u + 1 \in 1..(2 * l)
        BY <1>1, <2>1, <2>2
    <2>4. g[u] \in 1..b /\ g[u + 1] \in 1..b /\ g[u] < g[u + 1]
        BY <1>3, <2>1, <2>3
    <2>5. /\ msgs[g[u]].role = "user" /\ msgs[g[u]].of = {st[k]} /\ ~msgs[g[u]].error
          /\ ~msgs[g[u + 1]].error
        BY <1>3, <2>1, <2>2, <2>3 DEF Same
    <2>6. ~msgs[g[u] + 1].error
        <3>1. CASE g[u] + 1 = g[u + 1]
            BY <2>5, <3>1
        <3>2. CASE g[u] + 1 # g[u + 1]
            <4>1. g[u] + 1 \in (g[u] + 1)..(g[u + 1] - 1)
                BY <2>4, <3>2
            <4> QED
                BY <1>3, <2>1, <2>2, <4>1 DEF Blank
        <3> QED
            BY <3>1, <3>2
    <2> QED
        BY <2>1, <2>3, <2>4, <2>5, <2>6 DEF u
<1>6. ASSUME NEW k \in 1..l, NEW y \in 1..l, st[k] = st[y]
      PROVE  k = y
    <2> DEFINE u == 2 * k - 1
               v == 2 * y - 1
    <2>1. /\ u \in 1..(2 * l) /\ v \in 1..(2 * l) /\ g[u] \in 1..b /\ g[v] \in 1..b
          /\ msgs[g[u]].role = "user" /\ msgs[g[u]].of = {st[k]}
          /\ msgs[g[v]].role = "user" /\ msgs[g[v]].of = {st[y]}
        BY <1>5
    <2> HIDE DEF u, v
    <2>2. g[u] = g[v]
        BY <1>4, <1>6, <2>1 DEF Known
    <2>3. ~(u < v) /\ ~(v < u)
        BY <1>3, <2>1, <2>2
    <2>4. u = v
        BY <2>1, <2>3
    <2> QED
        BY <1>1, <2>4 DEF u, v
<1>7. AsksAll(msgs, st)
    BY <1>0, <1>4, <1>5, <1>6 DEF AsksAll
<1>8. \A k \in 1..l : HasTurn(msgs, b, st[k])
    BY <1>5 DEF HasTurn
<1> QED
    BY <1>0, <1>7, <1>8

(* So does one that was asked behind them and has no answer yet            *)
LEMMA OpenAsks ==
    ASSUME NEW st \in Seq(Turn), NEW msgs \in Seq(RowType), NEW n, Known(msgs, n),
           NEW b \in Nat, Len(msgs) = b + 1, Past(msgs, st, b),
           NEW p \in Turn, msgs[b + 1].role = "user", msgs[b + 1].of = {p},
           ~msgs[b + 1].error, \A x \in 1..b : p \notin msgs[x].of
    PROVE  AsksAll(msgs, Append(st, p))
<1>1. b <= Len(msgs) /\ DOMAIN msgs = 1..(b + 1)
    OBVIOUS
<1>2. AsksAll(msgs, st) /\ \A k \in DOMAIN st : HasTurn(msgs, b, st[k])
    BY <1>1, PastAsks
<1> DEFINE st2 == Append(st, p)
           l == Len(st)
<1>3. /\ l \in Nat /\ DOMAIN st = 1..l /\ DOMAIN st2 = 1..(l + 1) /\ st2[l + 1] = p
      /\ \A k \in 1..l : st2[k] = st[k]
    OBVIOUS
<1> HIDE DEF st2, l
<1>4. \A k \in 1..(l + 1) : k \in 1..l \/ k = l + 1
    BY <1>3
<1>5. ASSUME NEW k \in 1..(l + 1)
      PROVE  \E x \in DOMAIN msgs :
                /\ msgs[x].role = "user" /\ msgs[x].of = {st2[k]} /\ ~msgs[x].error
                /\ x + 1 \in DOMAIN msgs => ~msgs[x + 1].error
    <2>1. CASE k \in 1..l
        <3>1. PICK x \in DOMAIN msgs :
                 /\ msgs[x].role = "user" /\ msgs[x].of = {st[k]} /\ ~msgs[x].error
                 /\ x + 1 \in DOMAIN msgs => ~msgs[x + 1].error
            BY <1>2, <1>3, <2>1 DEF AsksAll
        <3>2. st2[k] = st[k]
            BY <1>3, <2>1
        <3> QED
            BY <3>1, <3>2
    <2>2. CASE k = l + 1
        <3>1. b + 1 \in DOMAIN msgs /\ (b + 1) + 1 \notin DOMAIN msgs
            BY <1>1
        <3> QED
            BY <1>3, <2>2, <3>1
    <2> QED
        BY <1>4, <2>1, <2>2
<1>6. \A k \in 1..l : st[k] # p
    BY <1>2, <1>3 DEF HasTurn
<1>7. ASSUME NEW k \in 1..(l + 1), NEW y \in 1..(l + 1), st2[k] = st2[y]
      PROVE  k = y
    <2>1. (k \in 1..l /\ y \in 1..l) \/ (k = l + 1 /\ y = l + 1)
        BY <1>3, <1>4, <1>6, <1>7
    <2> QED
        BY <1>2, <1>3, <1>7, <2>1 DEF AsksAll
<1> QED
    BY <1>3, <1>5, <1>7 DEF AsksAll, st2

(* The saved transcript of these turns, loaded, asks each of them once: the *)
(* prompts kept behind it are those of failed turns                        *)
LEMMA HydratedKnown ==
    ASSUME NEW st \in Seq(Turn), NEW old \in Seq(RowType), NEW n, Known(old, n),
           AsksAll(old, st)
    PROVE  Known(Kept(RowsOf(st), old), n)
<1> DEFINE new == RowsOf(st)
           all == Kept(new, old)
           I == LostRows(new, old)
           rows == Where(old, I)
           more == [k \in DOMAIN rows |-> Calm(rows[k])]
           l == Len(st)
           m == 2 * l
           w == Len(rows)
<1>1. /\ l \in Nat /\ DOMAIN new = 1..m /\ new \in Seq(RowType) /\ Len(new) = m
      /\ \A q \in 1..m : /\ new[q].of = {st[(q + 1) \div 2]}
                         /\ new[q].role = "user" <=> q % 2 = 1
    <2>1. Pairs(new, st, l)
        BY RowsAre
    <2>2. new \in Seq(RowType)
        BY RowsAlternate
    <2> HIDE DEF new, l
    <2>3. /\ l \in Nat /\ DOMAIN new = 1..m
          /\ \A q \in 1..m : /\ new[q].of = {st[(q + 1) \div 2]}
                             /\ new[q].role = "user" <=> q % 2 = 1
        BY <2>1 DEF Pairs
    <2>4. Len(new) = m
        BY <2>2, <2>3
    <2> QED
        BY <2>2, <2>3, <2>4
<1>0. DOMAIN st = 1..l
    OBVIOUS
<1>2. all = new \o more
    BY <1>1, KeptIs
<1>3. KeepsRows(all, new, old)
    BY <1>1, KeptOK
<1> HIDE DEF new, all, l
<1>4. I \in SUBSET DOMAIN old
    BY DEF LostRows, Lost, Asked
<1> HIDE DEF I
<1>5. /\ rows \in Seq(RowType) /\ DOMAIN rows = 1..w /\ w \in Nat
      /\ \A k \in DOMAIN rows : \E i \in I : rows[k] = old[i]
    <2>1. /\ rows \in Seq(RowType)
          /\ \A k \in DOMAIN rows : \E i \in I : rows[k] = old[i]
        BY <1>4, WhereOK
    <2> QED
        BY <2>1
<1> HIDE DEF rows, w
<1>6. /\ more \in Seq(RowType) /\ Len(more) = w /\ \A k \in 1..w : more[k] = Calm(rows[k])
    <2>1. \A k \in 1..w : Calm(rows[k]) \in RowType
        BY <1>5, CalmOK
    <2>2. more = [k \in 1..w |-> Calm(rows[k])]
        BY <1>5
    <2> HIDE DEF more
    <2> QED
        BY <1>5, <2>1, <2>2
<1> HIDE DEF more, m
<1>7. /\ DOMAIN all = 1..(m + w) /\ m \in Nat /\ \A k \in 1..m : all[k] = new[k]
      /\ \A k \in (m + 1)..(m + w) : \E i \in I : all[k] = Calm(old[i])
    <2>1. /\ all \in Seq(RowType) /\ Len(all) = m + w /\ m \in Nat
          /\ \A k \in 1..m : all[k] = new[k]
          /\ \A k \in 1..w : all[m + k] = more[k]
        <3>1. /\ new \in Seq(RowType) /\ more \in Seq(RowType) /\ Len(new) = m /\ Len(more) = w
              /\ m \in Nat
            BY <1>1, <1>5, <1>6 DEF m
        <3>2. LET a == new \o more
              IN  /\ a \in Seq(RowType) /\ Len(a) = Len(new) + Len(more)
                  /\ \A k \in 1..Len(new) : a[k] = new[k]
                  /\ \A k \in 1..Len(more) : a[Len(new) + k] = more[k]
            BY <3>1
        <3> QED
            BY <1>2, <3>1, <3>2
    <2>2. ASSUME NEW k \in (m + 1)..(m + w)
          PROVE  \E i \in I : all[k] = Calm(old[i])
        <3>1. k - m \in 1..w /\ m + (k - m) = k
            BY <1>5, <2>1
        <3>2. all[k] = Calm(rows[k - m])
            BY <1>6, <2>1, <3>1
        <3> QED
            BY <1>5, <3>1, <3>2
    <2> QED
        BY <2>1, <2>2
<1>8. ASSUME NEW i \in DOMAIN old
      PROVE  Calm(old[i]).of = old[i].of /\ Calm(old[i]).role = old[i].role
    BY CalmOK
(* A prompt kept is none of these turns'                                   *)
<1>9. ASSUME NEW i \in I, old[i].role = "user", NEW k \in 1..l
      PROVE  old[i].of # {st[k]}
    <2>1. PICK x \in DOMAIN old :
             /\ old[x].role = "user" /\ old[x].of = {st[k]} /\ ~old[x].error
             /\ x + 1 \in DOMAIN old => ~old[x + 1].error
        BY <1>0 DEF AsksAll
    <2>2. old[i].error \/ (i + 1 \in DOMAIN old /\ old[i + 1].error)
        BY DEF I, LostRows, Lost, Asked
    <2>3. i # x /\ i \in DOMAIN old
        BY <1>4, <2>1, <2>2
    <2> QED
        BY <1>9, <2>1, <2>3 DEF Known
<1>10. \A q \in 1..m : (q + 1) \div 2 \in 1..l
    BY <1>1 DEF m
<1>11. ASSUME NEW k \in DOMAIN all, NEW t \in all[k].of
       PROVE  t < n
    <2>1. CASE k \in 1..m
        <3>1. PICK y \in 1..l : all[k].of = {st[y]}
            BY <1>1, <1>7, <1>10, <2>1
        <3>2. PICK x \in DOMAIN old : old[x].of = {st[y]}
            BY <1>0 DEF AsksAll
        <3> QED
            BY <3>1, <3>2 DEF Known
    <2>2. CASE k \in (m + 1)..(m + w)
        <3>1. PICK i \in I : all[k] = Calm(old[i])
            BY <1>7, <2>2
        <3> QED
            BY <1>4, <1>8, <3>1 DEF Known
    <2> QED
        BY <1>5, <1>7, <2>1, <2>2
<1>12. ASSUME NEW i \in DOMAIN all, NEW j \in DOMAIN all, i # j,
              all[i].role = "user", all[j].role = "user", all[i].of = all[j].of
       PROVE  FALSE
    <2>1. ASSUME NEW a \in 1..m, NEW k \in (m + 1)..(m + w),
                 all[a].role = "user", all[k].role = "user", all[a].of = all[k].of
          PROVE  FALSE
        <3>1. PICK y \in 1..l : all[a].of = {st[y]}
            BY <1>1, <1>7, <1>10
        <3>2. PICK x \in I : all[k] = Calm(old[x])
            BY <1>7
        <3>3. old[x].role = "user" /\ old[x].of = {st[y]}
            BY <1>4, <1>8, <2>1, <3>1, <3>2
        <3> QED
            BY <1>9, <3>3
    <2>2. CASE i \in 1..m /\ j \in 1..m
        <3>1. i % 2 = 1 /\ j % 2 = 1 /\ all[i].of = {st[(i + 1) \div 2]}
              /\ all[j].of = {st[(j + 1) \div 2]}
            BY <1>1, <1>7, <1>12, <2>2
        <3>2. PICK x, y \in 1..l : x = (i + 1) \div 2 /\ y = (j + 1) \div 2
            BY <1>10, <2>2
        <3>3. st[x] = st[y]
            <4>1. {st[x]} = {st[y]}
                BY <1>12, <3>1, <3>2
            <4> QED
                BY <4>1
        <3>7. x = y
            BY <1>0, <3>3 DEF AsksAll
        <3>4. i \in Nat /\ j \in Nat
            BY <2>2
        <3>6. \A a, c \in Nat :
                 a % 2 = 1 /\ c % 2 = 1 /\ (a + 1) \div 2 = (c + 1) \div 2 => a = c
            OBVIOUS
        <3>5. i = j
            BY <3>1, <3>2, <3>4, <3>6, <3>7
        <3> QED
            BY <1>12, <3>5
    <2>3. CASE i \in (m + 1)..(m + w) /\ j \in (m + 1)..(m + w)
        <3>1. Len(new) = m /\ Len(all) = m + w
            <4>1. all \in Seq(RowType)
                BY <1>3 DEF KeepsRows
            <4> QED
                BY <1>1, <1>5, <1>7, <4>1 DEF m
        <3>2. PICK x, y \in DOMAIN old :
                 x # y /\ all[i] = Calm(old[x]) /\ all[j] = Calm(old[y])
            BY <1>3, <1>12, <2>3, <3>1 DEF KeepsRows
        <3> QED
            BY <1>8, <1>12, <3>2 DEF Known
    <2> QED
        BY <1>5, <1>7, <1>12, <2>1, <2>2, <2>3
<1> QED
    BY <1>11, <1>12 DEF Known, all, new

-----------------------------------------------------------------------------
(* The turn in progress: its question and the rows of its answer           *)

(* Row b + 1 asks p, which no row before it does; behind it are rows of    *)
(* the answer, and only the one with the id of the stream has text         *)
OpenRows(ms, id, p, b) ==
    /\ b \in Nat /\ b + 1 \in DOMAIN ms
    /\ ms[b + 1].role = "user" /\ ms[b + 1].of = {p} /\ ~ms[b + 1].error
    /\ \A x \in 1..b : p \notin ms[x].of
    /\ \A x \in (b + 2)..Len(ms) :
          /\ ms[x].role = "assistant" /\ ~ms[x].error /\ ms[x].of \subseteq {p}
          /\ ms[x].of # {} => id # 0 /\ ms[x].id = id
    /\ id # 0 => \A x \in 1..(b + 1) : ms[x].id # id
OpenTurn(c, p, b) == OpenRows(c.msgs, c.stream, p, b)

(* The rows of the answer to p, behind row b + 1, are all that changed     *)
Grown(old, new, p, b) ==
    /\ b + 1 <= Len(new) /\ \A k \in 1..(b + 1) : new[k] = old[k]
    /\ \A k \in (b + 2)..Len(new) : new[k].role = "assistant" /\ new[k].of \subseteq {p}

(* The finished turns before stay, and each prompt is asked once           *)
LEMMA GrownOK ==
    ASSUME NEW old \in Seq(RowType), NEW new \in Seq(RowType), NEW p, NEW b \in Nat,
           b + 1 <= Len(old), Grown(old, new, p, b)
    PROVE  /\ \A n \in Nat : Known(old, n) /\ p < n => Known(new, n)
           /\ \A st \in Seq(Turn) : Past(old, st, b) => Past(new, st, b)
<1>1. /\ DOMAIN old = 1..Len(old) /\ DOMAIN new = 1..Len(new)
      /\ b + 1 <= Len(new) /\ Len(new) \in Nat /\ Len(old) \in Nat
      /\ \A k \in 1..(b + 1) : new[k] = old[k]
      /\ \A k \in (b + 2)..Len(new) : new[k].role = "assistant" /\ new[k].of \subseteq {p}
    BY DEF Grown
<1>2. \A k \in 1..(b + 1) : k \in DOMAIN old
    BY <1>1
<1>3. \A k \in DOMAIN new : k \in 1..(b + 1) \/ k \in (b + 2)..Len(new)
    BY <1>1
<1>4. ASSUME NEW n \in Nat, Known(old, n), p < n
      PROVE  Known(new, n)
    <2>1. \A k \in DOMAIN new : \A t \in new[k].of : t < n
        BY <1>1, <1>2, <1>3, <1>4 DEF Known
    <2>2. \A k \in DOMAIN new : new[k].role = "user" => k \in 1..(b + 1) /\ new[k] = old[k]
        BY <1>1, <1>3
    <2> QED
        BY <1>2, <1>4, <2>1, <2>2 DEF Known
<1>5. ASSUME NEW st \in Seq(Turn), Past(old, st, b)
      PROVE  Past(new, st, b)
    <2>1. \A k \in 1..b : new[k] = old[k]
        BY <1>1
    <2>2. b <= b /\ \A x \in (b + 1)..b : FALSE
        OBVIOUS
    <2> QED
        BY <1>5, <2>1, <2>2, PastMore
<1> QED
    BY <1>4, <1>5

(* A row behind an answer without text                                     *)
LEMMA OpenAppended ==
    ASSUME NEW ms \in Seq(RowType), NEW id, NEW p, NEW b, OpenRows(ms, id, p, b),
           \A x \in (b + 2)..Len(ms) : ms[x].of = {},
           NEW r \in RowType, r.role = "assistant", ~r.error, r.of \subseteq {p},
           NEW id2, id2 # 0, r.id = id2, \A x \in 1..(b + 1) : ms[x].id # id2,
           NEW t, t = Append(ms, r)
    PROVE  OpenRows(t, id2, p, b) /\ Grown(ms, t, p, b)
<1> DEFINE n == Len(ms)
<1>1. /\ n \in Nat /\ DOMAIN ms = 1..n /\ b \in Nat /\ b + 1 \in 1..n
      /\ ms[b + 1].role = "user" /\ ms[b + 1].of = {p} /\ ~ms[b + 1].error
      /\ \A x \in 1..b : p \notin ms[x].of
      /\ \A x \in (b + 2)..n : ms[x].role = "assistant" /\ ~ms[x].error
    BY DEF OpenRows
<1>2. /\ DOMAIN t = 1..(n + 1) /\ Len(t) = n + 1 /\ t[n + 1] = r
      /\ \A x \in 1..n : t[x] = ms[x]
    OBVIOUS
<1> HIDE DEF n
<1>3. /\ \A x \in 1..(b + 1) : x \in 1..n /\ t[x] = ms[x]
      /\ \A x \in 1..b : x \in 1..(b + 1)
      /\ \A x \in (b + 2)..(n + 1) : x = n + 1 \/ (x \in (b + 2)..n /\ t[x] = ms[x])
    BY <1>1, <1>2
<1>4. \A x \in (b + 2)..(n + 1) :
         /\ t[x].role = "assistant" /\ ~t[x].error /\ t[x].of \subseteq {p}
         /\ t[x].of # {} => t[x].id = id2
    BY <1>1, <1>2, <1>3 DEF n
<1>5. b + 1 \in 1..(n + 1) /\ b + 1 \in 1..(b + 1) /\ b + 1 <= n + 1
    BY <1>1
<1>6. OpenRows(t, id2, p, b)
    BY <1>1, <1>2, <1>3, <1>4, <1>5 DEF OpenRows
<1> QED
    BY <1>2, <1>3, <1>4, <1>5, <1>6 DEF Grown

(* Another row in the place of one of the answer                           *)
LEMMA OpenReplaced ==
    ASSUME NEW ms \in Seq(RowType), NEW id, NEW p, NEW b, OpenRows(ms, id, p, b),
           NEW i \in (b + 2)..Len(ms), ms[i].id = id, id # 0,
           NEW r \in RowType, r.role = "assistant", ~r.error, r.of \subseteq {p}, r.id = id,
           NEW t, t = [ms EXCEPT ![i] = r]
    PROVE  OpenRows(t, id, p, b) /\ Grown(ms, t, p, b)
<1> DEFINE n == Len(ms)
<1>1. /\ n \in Nat /\ DOMAIN ms = 1..n /\ b \in Nat /\ b + 1 \in 1..n
      /\ ms[b + 1].role = "user" /\ ms[b + 1].of = {p} /\ ~ms[b + 1].error
      /\ \A x \in 1..b : p \notin ms[x].of
      /\ \A x \in (b + 2)..n :
            /\ ms[x].role = "assistant" /\ ~ms[x].error /\ ms[x].of \subseteq {p}
            /\ ms[x].of # {} => ms[x].id = id
      /\ \A x \in 1..(b + 1) : ms[x].id # id
    BY DEF OpenRows
<1>2. i \in 1..n /\ \A x \in 1..(b + 1) : x \in 1..n /\ x # i
    BY <1>1
<1>3. /\ DOMAIN t = 1..n /\ Len(t) = n /\ t[i] = r
      /\ \A x \in 1..n : x # i => t[x] = ms[x]
    BY <1>1, <1>2
<1> HIDE DEF n
<1>4. \A x \in (b + 2)..n :
         /\ t[x].role = "assistant" /\ ~t[x].error /\ t[x].of \subseteq {p}
         /\ t[x].of # {} => t[x].id = id
    <2>1. \A x \in (b + 2)..n : x \in 1..n
        BY <1>1
    <2> QED
        BY <1>1, <1>3, <2>1
<1>5. \A x \in 1..(b + 1) : t[x] = ms[x]
    BY <1>2, <1>3
<1>6. b + 1 \in 1..(b + 1) /\ b + 1 <= n /\ \A x \in 1..b : x \in 1..(b + 1)
    BY <1>1
<1>7. OpenRows(t, id, p, b)
    BY <1>1, <1>3, <1>4, <1>5, <1>6 DEF OpenRows
<1> QED
    BY <1>3, <1>4, <1>5, <1>6, <1>7 DEF Grown

(* The row of the stream is one of the answer; without it no row of the    *)
(* answer has text                                                         *)
LEMMA OpenStream ==
    ASSUME NEW c, ChatOK(c), NEW p \in Turn, NEW b, OpenTurn(c, p, b)
    PROVE  LET i == StreamRow(c)
           IN  /\ c.msgs \in Seq(RowType) /\ b \in Nat /\ b + 1 <= Len(c.msgs)
               /\ Len(c.msgs) \in Nat
               /\ i # 0 => /\ i \in (b + 2)..Len(c.msgs) /\ c.stream # 0
                           /\ c.msgs[i].id = c.stream /\ c.msgs[i].role = "assistant"
                           /\ ~c.msgs[i].error /\ c.msgs[i].of \subseteq {p}
                           /\ \A x \in (b + 2)..Len(c.msgs) : x # i => c.msgs[x].of = {}
               /\ i = 0 => \A x \in (b + 2)..Len(c.msgs) : c.msgs[x].of = {}
<1> DEFINE i == StreamRow(c)
           ms == c.msgs
           n == Len(ms)
<1>1. /\ ms \in Seq(RowType) /\ n \in Nat
      /\ i # 0 => /\ i \in 1..n /\ c.stream # 0 /\ ms[i].id = c.stream
                  /\ \A j \in 1..n : j # i => ms[j].id # c.stream
      /\ i = 0 => (c.stream # 0 => \A j \in 1..n : ms[j].id # c.stream)
    <2>1. /\ ms \in Seq(RowType)
          /\ i # 0 => /\ i \in DOMAIN ms /\ c.stream # 0 /\ ms[i].id = c.stream
                      /\ \A j \in DOMAIN ms : j # i => ms[j].id # c.stream
          /\ i = 0 => (c.stream # 0 => \A j \in DOMAIN ms : ms[j].id # c.stream)
        BY OnlyStreamRow
    <2> QED
        BY <2>1
<1>2. /\ b \in Nat /\ b + 1 \in 1..n
      /\ \A x \in (b + 2)..n :
            /\ ms[x].role = "assistant" /\ ~ms[x].error /\ ms[x].of \subseteq {p}
            /\ ms[x].of # {} => c.stream # 0 /\ ms[x].id = c.stream
      /\ c.stream # 0 => \A x \in 1..(b + 1) : ms[x].id # c.stream
    BY <1>1 DEF OpenTurn, OpenRows
<1> HIDE DEF i, ms, n
<1>3. \A x \in (b + 2)..n : x \in 1..n
    BY <1>2
<1>4. i # 0 => i \in (b + 2)..n
    <2>1. \A x \in 1..n : x \in 1..(b + 1) \/ x \in (b + 2)..n
        BY <1>1, <1>2
    <2> QED
        BY <1>1, <1>2, <2>1
<1>5. \A x \in (b + 2)..n : x # i => ms[x].of = {}
    BY <1>1, <1>2, <1>3
<1>6. i = 0 => \A x \in (b + 2)..n : ms[x].of = {}
    <2>1. i = 0 => i \notin (b + 2)..n
        BY <1>2
    <2> QED
        BY <1>5, <2>1
<1> QED
    BY <1>1, <1>2, <1>4, <1>5, <1>6 DEF i, ms, n

(* What a stream opens is a row of the assistant that did not fail         *)
LEMMA BubbleRow ==
    ASSUME NEW id \in Nat, NEW of \in SUBSET Turn, NEW tool \in BOOLEAN
    PROVE  Bubble(id, of, tool).role = "assistant" /\ ~Bubble(id, of, tool).error
BY DEF Bubble, Row

(* Nor does writing to a row change that                                   *)
LEMMA ExtendedRow ==
    ASSUME NEW m \in RowType, NEW of, NEW tool
    PROVE  Extended(m, of, tool).error = m.error
BY DEF Extended, RowType

(* Text of the turn in progress goes to its answer                         *)
LEMMA PatchedOpen ==
    ASSUME NEW c, ChatOK(c), NEW p \in Turn, NEW b, OpenTurn(c, p, b),
           NEW of \in SUBSET {p}, NEW tool \in BOOLEAN, of # {} \/ tool
    PROVE  LET d == Patched(c, of, tool)
           IN  OpenTurn(d, p, b) /\ Grown(c.msgs, d.msgs, p, b)
<1> DEFINE i == StreamRow(c)
           ms == c.msgs
           st == c.stream
           n0 == c.n
           split == i # 0 /\ ~tool /\ ms[i].tool /\ ms[i].of = {}
           id == IF st = 0 \/ split THEN n0 + 1 ELSE st
           n == IF id > n0 THEN id ELSE n0
           old == IF split THEN [ms EXCEPT ![i].pending = FALSE] ELSE ms
           msgs == IF i = 0 \/ split THEN Append(old, Bubble(id, of, tool))
                   ELSE [ms EXCEPT ![i].of = @ \cup of, ![i].tool = @ \/ tool,
                                   ![i].pending = TRUE]
           d == Patched(c, of, tool)
           r == Bubble(id, of, tool)
<1>1. /\ ms \in Seq(RowType) /\ st \in Nat /\ n0 \in Nat /\ st <= n0
      /\ c \in ChatRec /\ MsgsOK(ms, st, n0) /\ of \in SUBSET Turn /\ OpenRows(ms, st, p, b)
    BY OnlyStreamRow DEF ChatOK, OpenTurn
<1>2. /\ b \in Nat /\ b + 1 <= Len(ms) /\ Len(ms) \in Nat
      /\ i # 0 => /\ i \in (b + 2)..Len(ms) /\ st # 0
                  /\ ms[i].id = st /\ ms[i].role = "assistant"
                  /\ ~ms[i].error /\ ms[i].of \subseteq {p}
                  /\ \A x \in (b + 2)..Len(ms) : x # i => ms[x].of = {}
      /\ i = 0 => \A x \in (b + 2)..Len(ms) : ms[x].of = {}
    BY OpenStream
<1>3. d = [c EXCEPT !.msgs = msgs, !.stream = id, !.saw = TRUE, !.awaiting = FALSE, !.n = n]
    BY DEF Patched
<1>4. d.msgs = msgs /\ d.stream = id
    BY <1>1, <1>3 DEF ChatRec
<1>5. i = 0 => (st # 0 => \A j \in DOMAIN ms : ms[j].id # st)
    BY OnlyStreamRow
<1> HIDE DEF i, ms, st, n0, d
<1>6. \A j \in DOMAIN ms : ms[j].id \in Nat /\ ms[j].id <= n0
    BY <1>1, RowFields DEF MsgsOK
<1>7. id \in Nat /\ id # 0 /\ Single(of)
    BY <1>1 DEF Single
<1>8. r \in RowType /\ r.role = "assistant" /\ ~r.error /\ r.of = of /\ r.id = id
    <2> HIDE DEF id
    <2> QED
        BY SMTT(30), <1>1, <1>7, BubbleOK, BubbleRow
<1> DEFINE Good == OpenRows(msgs, id, p, b) /\ Grown(ms, msgs, p, b)
<1>9. ASSUME i = 0
      PROVE  Good
    <2>1. msgs = Append(ms, r) /\ ~split
        BY <1>9
    <2>2. \A x \in 1..(b + 1) : ms[x].id # id
        <3>1. \A x \in 1..(b + 1) : x \in DOMAIN ms
            BY <1>1, <1>2
        <3>2. id = st \/ (st = 0 /\ id = n0 + 1)
            BY <2>1
        <3> HIDE DEF id
        <3>3. \A x \in 1..(b + 1) : ms[x].id \in Nat /\ ms[x].id <= n0
            BY <1>6, <3>1
        <3>4. id = st => \A x \in 1..(b + 1) : ms[x].id # id
            BY <1>5, <1>7, <1>9, <3>1
        <3>5. id = n0 + 1 => \A x \in 1..(b + 1) : ms[x].id # id
            BY <1>1, <3>3
        <3> QED
            BY <3>2, <3>4, <3>5
    <2> HIDE DEF msgs, id, r
    <2> QED
        BY <1>1, <1>2, <1>7, <1>8, <1>9, <2>1, <2>2, OpenAppended
<1>10. ASSUME split
       PROVE  Good
    <2> DEFINE s == [ms EXCEPT ![i] = Calm(ms[i])]
               m == Calm(ms[i])
    <2>1. msgs = Append(s, r) /\ id = n0 + 1 /\ i # 0 /\ ms[i].of = {}
        BY <1>10 DEF Calm
    <2>2. /\ i \in (b + 2)..Len(ms) /\ ms[i].id = st /\ st # 0
          /\ \A x \in (b + 2)..Len(ms) : ms[x].of = {}
        BY <1>2, <2>1
    <2>3. ms[i] \in RowType
        BY <1>1, <1>2, <2>2
    <2>4. m \in RowType /\ m.role = "assistant" /\ ~m.error /\ m.of = {} /\ m.id = st
        BY <1>2, <2>1, <2>2, <2>3, CalmOK, CalmSame
    <2>5. s \in Seq(RowType) /\ Len(s) = Len(ms) /\ s[i] = m
          /\ \A x \in DOMAIN ms : x # i => s[x] = ms[x]
        BY <1>1, <1>2, <2>2, <2>4
    <2> HIDE DEF msgs, id, r, s, m
    <2>6. OpenRows(s, st, p, b) /\ Grown(ms, s, p, b)
        BY <1>1, <2>2, <2>4, OpenReplaced DEF s, m
    <2>7. \A x \in (b + 2)..Len(s) : s[x].of = {}
        <3>1. \A x \in (b + 2)..Len(ms) : x \in DOMAIN ms
            BY <1>1, <1>2
        <3> QED
            BY <2>2, <2>4, <2>5, <3>1
    <2>8. \A x \in 1..(b + 1) : s[x] = ms[x] /\ s[x].id # id
        <3>1. \A x \in 1..(b + 1) : x \in DOMAIN ms
            BY <1>1, <1>2
        <3>2. \A x \in 1..(b + 1) : s[x] = ms[x]
            BY <2>6 DEF Grown
        <3>3. \A x \in 1..(b + 1) : ms[x].id \in Nat /\ ms[x].id <= n0
            BY <1>6, <3>1
        <3>4. \A x \in 1..(b + 1) : ms[x].id # id
            BY <1>1, <2>1, <3>3
        <3> QED
            BY <3>2, <3>4
    <2>9. OpenRows(msgs, id, p, b) /\ Grown(s, msgs, p, b)
        <3>1. /\ s \in Seq(RowType) /\ OpenRows(s, st, p, b)
              /\ \A x \in (b + 2)..Len(s) : s[x].of = {}
              /\ r \in RowType /\ r.role = "assistant" /\ ~r.error /\ r.of \subseteq {p}
              /\ id # 0 /\ r.id = id /\ \A x \in 1..(b + 1) : s[x].id # id
            BY <1>1, <1>7, <1>8, <2>5, <2>6, <2>7, <2>8
        <3>2. \A t : t = Append(s, r) => OpenRows(t, id, p, b) /\ Grown(s, t, p, b)
            BY <3>1, OpenAppended
        <3> QED
            BY <2>1, <3>2
    <2> QED
        BY <2>8, <2>9 DEF Grown
<1>11. ASSUME i # 0, ~split
       PROVE  Good
    <2> DEFINE m == ms[i]
               q == Extended(m, of, tool)
    <2>1. id = st /\ msgs = [ms EXCEPT ![i] = q]
        <3>1. id = st
            BY <1>1, <1>2, <1>11
        <3>2. msgs = [ms EXCEPT ![i].of = @ \cup of, ![i].tool = @ \/ tool,
                                ![i].pending = TRUE]
            BY <1>11
        <3> QED
            BY <3>1, <3>2 DEF Extended
    <2>2. m \in RowType /\ m.role = "assistant" /\ ~m.error /\ m.of \subseteq {p} /\ m.id = st
        BY <1>1, <1>2, <1>11
    <2> HIDE DEF m, msgs, id
    <2>3. q \in RowType /\ q.role = "assistant" /\ ~q.error /\ q.of \subseteq {p} /\ q.id = st
        <3>1. /\ q \in RowType /\ q.id = m.id /\ q.of = m.of \cup of /\ q.role = m.role
            BY <1>1, <2>2, ExtendedOK
        <3>2. q.error = m.error
            BY <2>2, ExtendedRow
        <3> QED
            BY <2>2, <3>1, <3>2
    <2> HIDE DEF q
    <2>4. i \in (b + 2)..Len(ms) /\ ms[i].id = st /\ st # 0
        BY <1>2, <1>11
    <2> QED
        BY <1>1, <2>1, <2>3, <2>4, OpenReplaced
<1>12. Good
    BY <1>9, <1>10, <1>11
<1> HIDE DEF msgs, id, r
<1> QED
    BY <1>4, <1>12 DEF OpenTurn, d, ms

(* So does what waits in the queue of deltas                               *)
LEMMA MutateOpen ==
    ASSUME NEW c, ChatOK(c), NEW p \in Turn, NEW b, OpenTurn(c, p, b), ~c.interrupted,
           NEW of \in SUBSET {p}, NEW tool \in BOOLEAN
    PROVE  LET d == Mutate(c, of, tool)
           IN  OpenTurn(d, p, b) /\ Grown(c.msgs, d.msgs, p, b)
<1>1. CASE of = {} /\ ~tool
    <2>1. Mutate(c, of, tool) = c
        BY <1>1 DEF Mutate, Patched
    <2>2. Grown(c.msgs, c.msgs, p, b)
        <3>1. c.msgs \in Seq(RowType)
            BY ChatFields DEF ChatOK
        <3> QED
            BY <3>1 DEF OpenTurn, OpenRows, Grown
    <2> QED
        BY <2>1, <2>2
<1>2. CASE ~(of = {} /\ ~tool)
    <2>1. Mutate(c, of, tool) = Patched(c, of, tool)
        BY DEF Mutate
    <2> QED
        BY <1>2, <2>1, PatchedOpen
<1> QED
    BY <1>1, <1>2

(* A row of the answer with the whole text finishes the turn               *)
LEMMA TurnShown ==
    ASSUME NEW ms \in Seq(RowType), NEW id, NEW p \in Turn, NEW b, OpenRows(ms, id, p, b),
           NEW new \in Seq(RowType), Grown(ms, new, p, b), NEW j \in (b + 2)..Len(new),
           new[j].of = {p}, ~new[j].error,
           \A k \in (b + 2)..Len(new) : k # j => Blank(new[k])
    PROVE  \A st \in Seq(Turn) : Past(ms, st, b) => Past(new, Append(st, p), Len(new))
<1> SUFFICES ASSUME NEW st \in Seq(Turn), Past(ms, st, b)
             PROVE  Past(new, Append(st, p), Len(new))
    OBVIOUS
<1>1. /\ b \in Nat /\ b + 1 <= Len(ms) /\ b + 1 \in 1..(b + 1)
      /\ ms[b + 1].role = "user" /\ ms[b + 1].of = {p} /\ ~ms[b + 1].error
    BY DEF OpenRows
<1>2. /\ b + 1 <= Len(new) /\ Len(new) \in Nat
      /\ new[b + 1] = ms[b + 1] /\ new[j].role = "assistant"
    BY <1>1 DEF Grown
<1>3. Past(new, st, b)
    BY <1>1, GrownOK
<1> QED
    BY <1>1, <1>2, <1>3, PastTurn

(* The final text in the row of the stream, or in one of its own, finishes *)
(* the turn in progress                                                    *)
LEMMA CompletedOpen ==
    ASSUME NEW c, ChatOK(c), NEW p \in Turn, NEW b, OpenTurn(c, p, b), ~c.interrupted
    PROVE  LET d == Completed(c, {p})
           IN  /\ Grown(c.msgs, d.msgs, p, b)
               /\ \A st \in Seq(Turn) :
                     Past(c.msgs, st, b) => Past(d.msgs, Append(st, p), Len(d.msgs))
<1> DEFINE final == {p}
           i == StreamRow(c)
           ms == c.msgs
           n == Len(ms)
           last == LastAnswer(ms)
           done(m) == [m EXCEPT !.of = final, !.pending = FALSE]
           whole(m) == m.tool /\ m.of = {} /\ final # {}
           same == last # 0 /\ (\/ ms[last].pending
                                \/ final # {} /\ ms[last].of = final)
           over(m) == [done(m) EXCEPT !.id = IF whole(m) THEN 0 ELSE m.id]
           msgs == CASE i # 0 -> [ms EXCEPT ![i] = over(@)]
                     [] i = 0 /\ same -> [ms EXCEPT ![last] = done(@)]
                     [] i = 0 /\ ~same /\ final # {} -> Append(ms, Answer(final))
                     [] OTHER -> ms
           s == Settled(c)
           d == Completed(c, final)
<1>1. d.msgs = msgs
    <2>1. d = [s EXCEPT !.msgs = msgs]
        BY DEF Completed, LastAnswer
    <2>2. s \in ChatRec
        BY SettledOK DEF ChatOK
    <2> HIDE DEF s, msgs
    <2> QED
        BY <2>1, <2>2 DEF ChatRec
<1>2. /\ ms \in Seq(RowType) /\ b \in Nat /\ b + 1 <= n /\ n \in Nat
      /\ i # 0 => /\ i \in (b + 2)..n /\ ms[i].role = "assistant" /\ ~ms[i].error
                  /\ \A x \in (b + 2)..n : x # i => ms[x].of = {}
      /\ i = 0 => \A x \in (b + 2)..n : ms[x].of = {}
    BY OpenStream
<1>3. /\ OpenRows(ms, c.stream, p, b) /\ DOMAIN ms = 1..n /\ d \in ChatRec
      /\ msgs \in Seq(RowType)
    <2>1. ChatOK(d)
        BY CompletedOK DEF Single, Turn
    <2>2. d \in ChatRec /\ d.msgs \in Seq(RowType)
        BY <2>1, ChatFields DEF ChatOK
    <2>3. OpenRows(ms, c.stream, p, b)
        BY DEF OpenTurn
    <2> HIDE DEF d, msgs
    <2> QED
        BY <1>1, <1>2, <2>2, <2>3
<1>4. /\ ms[b + 1].role = "user"
      /\ \A x \in 1..b : p \notin ms[x].of
      /\ \A x \in (b + 2)..n : /\ ms[x].role = "assistant" /\ ~ms[x].error
                               /\ ms[x].of \subseteq {p}
    BY <1>3 DEF OpenRows
<1>5. i = 0 => ~same
    <2>1. last \in 0..n /\ (last # 0 => ms[last].role = "assistant")
        BY <1>2, LastAnswerOK
    <2>2. i = 0 => \A j \in DOMAIN ms : ~ms[j].pending
        BY OnlyStreamRow
    <2> HIDE DEF last, i, ms, n
    <2>3. last # 0 => last \in 1..b \/ last = b + 1 \/ last \in (b + 2)..n
        BY <1>2, <2>1
    <2> QED
        BY <1>2, <1>3, <1>4, <2>1, <2>2, <2>3
<1>6. ASSUME NEW m \in RowType
      PROVE  over(m).of = {p} /\ over(m).role = m.role /\ over(m).error = m.error
    <2> DEFINE a == done(m)
               e == over(m)
    <2>1. a \in RowType /\ a.of = final /\ a.role = m.role /\ a.error = m.error
        BY DEF RowType, Turn
    <2> HIDE DEF a
    <2>2. \E id : e = [a EXCEPT !.id = id]
        BY DEF a
    <2> HIDE DEF e
    <2>3. e.of = final /\ e.role = m.role /\ e.error = m.error
        BY <2>1, <2>2 DEF RowType
    <2> QED
        BY <2>3 DEF e
<1>7. /\ Answer(final).of = {p} /\ Answer(final).role = "assistant" /\ ~Answer(final).error
    BY DEF Answer, Row
<1> DEFINE Good ==
        /\ Grown(ms, msgs, p, b)
        /\ \E j \in (b + 2)..Len(msgs) :
              /\ msgs[j].of = {p} /\ ~msgs[j].error
              /\ \A k \in (b + 2)..Len(msgs) : k # j => Blank(msgs[k])
<1>8. ASSUME i # 0
      PROVE  Good
    <2> DEFINE r == over(ms[i])
    <2>1. i \in (b + 2)..n /\ i \in 1..n /\ ms[i] \in RowType
        BY <1>2, <1>8
    <2>2. r.of = {p} /\ r.role = "assistant" /\ ~r.error
        BY <1>2, <1>6, <1>8, <2>1
    <2>3. msgs = [ms EXCEPT ![i] = r]
        BY <1>8
    <2> HIDE DEF r, msgs, over, done, i, ms, n
    <2>4. /\ Len(msgs) = n /\ msgs[i] = r
          /\ \A x \in 1..n : x # i => msgs[x] = ms[x]
        BY <1>2, <1>3, <2>1, <2>3 DEF n
    <2>5. /\ \A x \in 1..(b + 1) : x \in 1..n /\ x # i
          /\ \A x \in (b + 2)..n : x \in 1..n
        BY <1>2, <2>1
    <2>6. Grown(ms, msgs, p, b)
        BY <1>2, <1>4, <2>2, <2>4, <2>5 DEF Grown
    <2>7. \A k \in (b + 2)..n : k # i => Blank(msgs[k])
        BY <1>2, <1>4, <1>8, <2>4, <2>5 DEF Blank
    <2> QED
        BY <2>1, <2>2, <2>4, <2>6, <2>7
<1>9. ASSUME i = 0
      PROVE  Good
    <2> DEFINE r == Answer(final)
    <2>1. msgs = Append(ms, r)
        BY <1>5, <1>9
    <2>2. \A x \in (b + 2)..n : ms[x].of = {}
        BY <1>2, <1>9
    <2> HIDE DEF r, msgs, i, ms, n, same
    <2>4. /\ Len(msgs) = n + 1 /\ msgs[n + 1] = r
          /\ \A x \in 1..n : msgs[x] = ms[x]
        BY <1>2, <2>1 DEF n
    <2>5. /\ \A x \in 1..(b + 1) : x \in 1..n
          /\ \A x \in (b + 2)..n : x \in 1..n
          /\ \A x \in (b + 2)..(n + 1) : x = n + 1 \/ x \in (b + 2)..n
          /\ n + 1 \in (b + 2)..(n + 1) /\ b + 1 <= n + 1
        BY <1>2
    <2>6. Grown(ms, msgs, p, b)
        BY <1>4, <1>7, <2>4, <2>5, ZenonT(30) DEF Grown, r
    <2>7. \A k \in (b + 2)..(n + 1) : k # n + 1 => Blank(msgs[k])
        BY <1>4, <2>2, <2>4, <2>5 DEF Blank
    <2> QED
        BY <1>7, <2>4, <2>5, <2>6, <2>7 DEF r
<1>10. Good
    BY <1>8, <1>9, Zenon
<1> HIDE DEF msgs, d, ms
<1>11. PICK j \in (b + 2)..Len(msgs) :
          /\ msgs[j].of = {p} /\ ~msgs[j].error
          /\ \A k \in (b + 2)..Len(msgs) : k # j => Blank(msgs[k])
    BY <1>10
<1>12. \A st \in Seq(Turn) : Past(ms, st, b) => Past(msgs, Append(st, p), Len(msgs))
    BY <1>2, <1>3, <1>10, <1>11, TurnShown
<1> QED
    BY <1>1, <1>10, <1>12 DEF d, ms

(* The row that is marked failed, and the others, which stay               *)
LEMMA FailedRows ==
    ASSUME NEW c, ChatOK(c)
    PROVE  LET i == StreamRow(c)
               n == Len(c.msgs)
               at == IF i # 0 THEN i ELSE n + 1
               ms == Failed(c).msgs
           IN  /\ ms \in Seq(RowType) /\ n \in Nat /\ at \in 1..Len(ms)
               /\ Len(ms) = IF i # 0 THEN n ELSE n + 1
               /\ \A x \in 1..n : x # at => ms[x] = c.msgs[x]
               /\ ms[at].error
               /\ i # 0 => ms[at].role = c.msgs[i].role /\ ms[at].of = c.msgs[i].of
               /\ i = 0 => ms[at].role = "assistant" /\ ms[at].of = {}
<1> DEFINE i == StreamRow(c)
           old == c.msgs
           n == Len(old)
           st == c.stream
           id == IF st # 0 THEN st ELSE c.n + 1
           new == Row("assistant", id, {})
           rows == IF i # 0 THEN old ELSE Append(old, new)
           at == IF i # 0 THEN i ELSE Len(rows)
           msgs == [rows EXCEPT ![at].pending = FALSE, ![at].error = TRUE]
           s == Settled(c)
           d == Failed(c)
           mark(m) == [m EXCEPT !.pending = FALSE, !.error = TRUE]
<1>1. /\ old \in Seq(RowType) /\ st \in Nat /\ c.n \in Nat /\ n \in Nat /\ c \in ChatRec
      /\ i # 0 => i \in 1..n
    <2>1. old \in Seq(RowType) /\ (i # 0 => i \in DOMAIN old) /\ st \in Nat /\ c.n \in Nat
        BY OnlyStreamRow
    <2>2. n \in Nat /\ DOMAIN old = 1..n
        BY <2>1
    <2> QED
        BY <2>1, <2>2 DEF ChatOK
<1>2. d.msgs = msgs /\ d.msgs \in Seq(RowType)
    <2>1. d = [s EXCEPT !.saw = TRUE, !.n = IF id > s.n THEN id ELSE s.n, !.msgs = msgs]
        BY DEF Failed
    <2>2. s \in ChatRec
        BY <1>1, SettledOK
    <2>3. d \in ChatRec
        BY FailedOK DEF ChatOK
    <2>4. d.msgs \in Seq(RowType)
        BY <2>3, ChatFields
    <2> HIDE DEF s, msgs, id
    <2>5. d.msgs = msgs
        BY <2>1, <2>2 DEF ChatRec
    <2> QED
        BY <2>4, <2>5
<1>3. new \in RowType /\ new.of = {} /\ new.role = "assistant"
    <2>1. id \in Nat /\ {} \in SUBSET Turn /\ FALSE \in BOOLEAN
        BY <1>1
    <2>2. new = [role |-> "assistant", id |-> id, of |-> {}, saved |-> FALSE, tool |-> FALSE,
                 pending |-> FALSE, error |-> FALSE]
        BY DEF Row
    <2> HIDE DEF id, new
    <2>3. new \in RowType
        BY <2>1, <2>2, RowIs
    <2> QED
        BY <2>2, <2>3
<1> HIDE DEF new, d, id, old, i
<1>4. ASSUME NEW m \in RowType
      PROVE  mark(m).of = m.of /\ mark(m).role = m.role /\ mark(m).error
    BY DEF RowType
<1>5. /\ rows \in Seq(RowType) /\ at \in 1..Len(rows)
      /\ Len(rows) = IF i # 0 THEN n ELSE n + 1
      /\ at = IF i # 0 THEN i ELSE n + 1
      /\ \A x \in 1..n : rows[x] = old[x]
      /\ i = 0 => rows[at] = new
    BY <1>1, <1>3
<1>6. /\ Len(msgs) = Len(rows) /\ msgs[at] = mark(rows[at])
      /\ \A x \in 1..Len(rows) : x # at => msgs[x] = rows[x]
    <2>1. msgs = [rows EXCEPT ![at] = mark(rows[at])]
        <3> HIDE DEF rows, at
        <3> QED
            OBVIOUS
    <2> HIDE DEF rows, at, mark, msgs
    <2> QED
        BY <1>5, <2>1
<1>7. rows[at] \in RowType
    BY <1>5
<1>8. mark(rows[at]).of = rows[at].of /\ mark(rows[at]).role = rows[at].role
      /\ mark(rows[at]).error
    BY <1>4, <1>7
<1>9. \A x \in 1..n : x \in 1..Len(rows)
    BY <1>1, <1>5
<1>10. i # 0 => rows[at] = old[i]
    BY <1>1, <1>5
<1> HIDE DEF rows, at, mark, msgs, n
<1> DEFINE z == IF i # 0 THEN i ELSE n + 1
           ms == d.msgs
<1>11. /\ ms \in Seq(RowType) /\ n \in Nat /\ z \in 1..Len(ms)
       /\ Len(ms) = IF i # 0 THEN n ELSE n + 1
       /\ \A x \in 1..n : x # z => ms[x] = old[x]
    BY <1>1, <1>2, <1>5, <1>6, <1>9
<1>12. /\ ms[z].error
       /\ i # 0 => ms[z].role = old[i].role /\ ms[z].of = old[i].of
       /\ i = 0 => ms[z].role = "assistant" /\ ms[z].of = {}
    BY <1>2, <1>3, <1>5, <1>6, <1>8, <1>10
<1> QED
    BY <1>11, <1>12 DEF d, n, old, i

(* A turn that fails leaves its question with the row marked failed        *)
LEMMA FailedOpen ==
    ASSUME NEW c, ChatOK(c), NEW p \in Turn, NEW b, OpenTurn(c, p, b)
    PROVE  LET d == Failed(c)
           IN  /\ Grown(c.msgs, d.msgs, p, b)
               /\ \A st \in Seq(Turn) : Past(c.msgs, st, b) => Past(d.msgs, st, Len(d.msgs))
<1> DEFINE i == StreamRow(c)
           ms == c.msgs
           n == Len(ms)
           at == IF i # 0 THEN i ELSE n + 1
           new == Failed(c).msgs
           m == Len(new)
<1>1. /\ ms \in Seq(RowType) /\ b \in Nat /\ b + 1 <= n /\ n \in Nat
      /\ i # 0 => /\ i \in (b + 2)..n /\ ms[i].role = "assistant" /\ ms[i].of \subseteq {p}
                  /\ \A x \in (b + 2)..n : x # i => ms[x].of = {}
      /\ i = 0 => \A x \in (b + 2)..n : ms[x].of = {}
    BY OpenStream
<1>2. /\ new \in Seq(RowType) /\ at \in 1..m /\ m = IF i # 0 THEN n ELSE n + 1
      /\ \A x \in 1..n : x # at => new[x] = ms[x]
      /\ new[at].error
      /\ i # 0 => new[at].role = ms[i].role /\ new[at].of = ms[i].of
      /\ i = 0 => new[at].role = "assistant" /\ new[at].of = {}
    BY FailedRows
<1>3. OpenRows(ms, c.stream, p, b) /\ DOMAIN ms = 1..n
    BY <1>1 DEF OpenTurn
<1>4. /\ ms[b + 1].role = "user"
      /\ \A x \in (b + 2)..n : /\ ms[x].role = "assistant" /\ ~ms[x].error
                               /\ ms[x].of \subseteq {p}
    BY <1>3 DEF OpenRows
<1> HIDE DEF i, ms, n, new, m
<1>5. at \in (b + 2)..m /\ m \in Nat /\ b + 1 <= m /\ b <= m
    BY <1>1, <1>2
<1>6. /\ \A x \in 1..(b + 1) : x \in 1..n /\ x # at
      /\ \A x \in (b + 2)..m : x = at \/ (x \in (b + 2)..n /\ x \in 1..n)
    BY <1>1, <1>2
<1>7. new[at].role = "assistant" /\ new[at].of \subseteq {p}
    BY <1>1, <1>2
<1> HIDE DEF at
<1>8. Grown(ms, new, p, b)
    <2>1. \A x \in 1..(b + 1) : new[x] = ms[x]
        BY <1>2, <1>6
    <2>2. \A x \in (b + 2)..m : new[x].role = "assistant" /\ new[x].of \subseteq {p}
        BY <1>2, <1>4, <1>6, <1>7
    <2> QED
        BY <1>5, <2>1, <2>2 DEF Grown, m
<1>9. \A x \in (b + 2)..m : x # at => Blank(new[x])
    <2>1. i # 0 => at = i
        BY DEF at
    <2>2. \A x \in (b + 2)..m : x # at => ms[x].of = {} /\ ~ms[x].error /\ new[x] = ms[x]
        BY <1>1, <1>2, <1>4, <1>6, <2>1
    <2> QED
        BY <2>2 DEF Blank
<1>10. Lone(new, m, b + 1)
    <2>1. new[b + 1].role = "user"
        <3>1. b + 1 \in 1..(b + 1)
            BY <1>1
        <3> QED
            BY <1>2, <1>4, <1>6, <3>1
    <2>2. at \in ((b + 1) + 1)..m
        BY <1>1, <1>5
    <2>3. \A l \in ((b + 1) + 1)..(at - 1) : l \in (b + 2)..m /\ l # at
        BY <1>1, <1>5
    <2> QED
        BY <1>2, <1>9, <2>1, <2>2, <2>3 DEF Lone
<1>11. \A x \in (b + 1)..m : Blank(new[x]) \/ Lone(new, m, x)
    <2>1. \A x \in (b + 1)..m : x = b + 1 \/ x \in (b + 2)..m
        BY <1>1, <1>5
    <2>2. Lone(new, m, at)
        BY <1>2 DEF Lone
    <2> QED
        BY <1>9, <1>10, <2>1, <2>2
<1>12. ASSUME NEW st \in Seq(Turn), Past(ms, st, b)
       PROVE  Past(new, st, m)
    <2>1. \A k \in 1..b : new[k] = ms[k]
        <3>1. \A k \in 1..b : k \in 1..(b + 1)
            BY <1>1
        <3> QED
            BY <1>2, <1>6, <3>1
    <2> QED
        BY <1>1, <1>5, <1>11, <1>12, <2>1, PastMore
<1> QED
    BY <1>8, <1>12 DEF ms, new, m

-----------------------------------------------------------------------------
(* The steps of the user, on the rows                                      *)

(* The turn in progress shows nothing yet                                  *)
Bare(c, b) == Len(c.msgs) = b + 1 /\ c.stream = 0 /\ c.awaiting /\ ~c.saw

(* message.start changes no row                                            *)
LEMMA StartedFields ==
    ASSUME NEW c \in ChatRec
    PROVE  LET d == Started(c)
           IN  /\ d.msgs = c.msgs /\ d.stream = c.stream /\ d.busy /\ d.awaiting /\ ~d.saw
               /\ ~d.interrupted
BY DEF Started, ChatRec

(* A new prompt is a row of its own, behind all finished turns             *)
LEMMA SeedOpen ==
    ASSUME NEW c, ChatOK(c), c.stream = 0, NEW p \in Turn, Known(c.msgs, p),
           NEW st \in Seq(Turn), Past(c.msgs, st, Len(c.msgs))
    PROVE  LET d == Seed(c, p)
               b == Len(c.msgs)
           IN  /\ OpenTurn(d, p, b) /\ Bare(d, b) /\ Past(d.msgs, st, b)
               /\ Known(d.msgs, p + 1) /\ d.busy /\ ~d.interrupted
<1> DEFINE d == Seed(c, p)
           s == Started(c)
           ms == c.msgs
           b == Len(ms)
           u == User(p)
           new == d.msgs
<1>1. /\ c \in ChatRec /\ ms \in Seq(RowType) /\ b \in Nat /\ DOMAIN ms = 1..b
    <2>1. c \in ChatRec /\ ms \in Seq(RowType)
        BY ChatFields DEF ChatOK
    <2> QED
        BY <2>1
<1>2. u \in RowType /\ u.role = "user" /\ u.of = {p} /\ ~u.error
    <2>1. u.role = "user" /\ u.of = {p} /\ ~u.error
        BY DEF User, Row
    <2> QED
        BY <2>1, PromptRow
<1>3. \A x \in 1..b : \A t \in ms[x].of : t < p
    BY <1>1 DEF Known
<1>4. \A x \in 1..b : p \notin ms[x].of
    BY <1>3 DEF Turn
<1>5. ~Contains(ms, u)
    <2>1. \A x \in 1..b : ms[x] # u
        BY <1>2, <1>4
    <2> QED
        BY <1>1, <2>1 DEF Contains
<1>6. /\ new = Append(ms, u) /\ d.stream = 0 /\ d.busy /\ d.awaiting /\ ~d.saw
      /\ ~d.interrupted
    <2>1. /\ s \in ChatRec /\ s.msgs = ms /\ s.stream = 0 /\ s.busy /\ s.awaiting /\ ~s.saw
          /\ ~s.interrupted
        BY <1>1, StartedFields, StartedOK DEF ChatOK
    <2>2. d = [s EXCEPT !.msgs = IF Contains(s.msgs, u) THEN s.msgs ELSE Append(s.msgs, u)]
        BY DEF Seed
    <2>3. d = [s EXCEPT !.msgs = Append(ms, u)]
        BY <1>5, <2>1, <2>2
    <2> HIDE DEF s, u, d, ms
    <2> QED
        BY <2>1, <2>3 DEF ChatRec
<1> HIDE DEF d, u, new, ms, b
<1>7. /\ Len(new) = b + 1 /\ new[b + 1] = u /\ \A x \in 1..b : new[x] = ms[x]
      /\ DOMAIN new = 1..(b + 1)
    BY <1>1, <1>2, <1>6 DEF b
<1>8. OpenRows(new, 0, p, b)
    <2>1. b + 1 \in 1..(b + 1) /\ \A x \in (b + 2)..(b + 1) : FALSE
        BY <1>1
    <2>2. \A x \in 1..b : p \notin new[x].of
        BY <1>4, <1>7
    <2> QED
        BY <1>1, <1>2, <1>7, <2>1, <2>2 DEF OpenRows
<1>9. Past(new, st, b)
    <2>1. \A x \in (b + 1)..b : FALSE
        BY <1>1
    <2>2. Past(ms, st, b) /\ b <= b
        BY <1>1 DEF ms, b
    <2> QED
        BY <1>1, <1>7, <2>1, <2>2, PastMore
<1>10. Known(new, p + 1)
    <2>1. \A x \in 1..(b + 1) : x \in 1..b \/ x = b + 1
        BY <1>1
    <2>2. \A x \in 1..(b + 1) : \A t \in new[x].of : t < p + 1
        <3>1. \A x \in 1..b : \A t \in ms[x].of : t < p + 1
            <4>1. \A x \in 1..b : \A t \in ms[x].of : t \in Nat
                BY <1>1, RowFields DEF Turn
            <4> QED
                BY <1>3, <4>1 DEF Turn
        <3>2. \A t \in u.of : t < p + 1
            BY <1>2 DEF Turn
        <3> QED
            BY <1>7, <2>1, <3>1, <3>2
    <2>3. \A x, y \in 1..b : x # y /\ ms[x].role = "user" /\ ms[y].role = "user" =>
             ms[x].of # ms[y].of
        BY <1>1 DEF Known, ms
    <2>4. \A x \in 1..b : ms[x].of # u.of
        BY <1>2, <1>4
    <2> QED
        BY <1>7, <2>1, <2>2, <2>3, <2>4 DEF Known
<1> QED
    BY <1>6, <1>7, <1>8, <1>9, <1>10 DEF OpenTurn, Bare, d, b, ms, new

(* Going back to a prompt leaves it open, behind the turns before it; the  *)
(* prompts before it are the turns the server keeps                        *)
LEMMA RewoundOpen ==
    ASSUME NEW c, ChatOK(c), c.stream = 0, NEW n \in Nat, Known(c.msgs, n),
           NEW st \in Seq(Turn), Past(c.msgs, st, Len(c.msgs)),
           NEW i \in DOMAIN c.msgs, c.msgs[i].role = "user",
           \A x \in 1..i : ~c.msgs[x].error,
           NEW p \in Turn, c.msgs[i].of = {p},
           NEW k, k = Cardinality({x \in 1..(i - 1) : c.msgs[x].role = "user"})
    PROVE  LET d == Rewound(c, i)
               b == i - 1
           IN  /\ OpenTurn(d, p, b) /\ Bare(d, b) /\ Past(d.msgs, SubSeq(st, 1, k), b)
               /\ SubSeq(st, 1, k) \in Seq(Turn) /\ k \in Nat /\ k <= Len(st)
               /\ Known(d.msgs, n) /\ p < n /\ d.busy /\ ~d.interrupted
<1> DEFINE d == Rewound(c, i)
           s == Started(c)
           ms == c.msgs
           b == i - 1
           new == d.msgs
           cut == SubSeq(st, 1, k)
<1>1. /\ c \in ChatRec /\ ms \in Seq(RowType) /\ Len(ms) \in Nat /\ DOMAIN ms = 1..Len(ms)
      /\ i \in 1..Len(ms) /\ b \in Nat /\ b + 1 = i
    <2>1. c \in ChatRec /\ ms \in Seq(RowType)
        BY ChatFields DEF ChatOK
    <2> QED
        BY <2>1
<1>2. /\ new = SubSeq(ms, 1, i) /\ d.stream = 0 /\ d.busy /\ d.awaiting /\ ~d.saw
      /\ ~d.interrupted
    <2>1. /\ s \in ChatRec /\ s.msgs = ms /\ s.stream = 0 /\ s.busy /\ s.awaiting /\ ~s.saw
          /\ ~s.interrupted
        BY <1>1, StartedFields, StartedOK DEF ChatOK
    <2>2. d = [s EXCEPT !.msgs =
                 SubSeq(s.msgs, 1, IF i < Len(s.msgs) THEN i ELSE Len(s.msgs))]
        BY DEF Rewound
    <2>3. (IF i < Len(ms) THEN i ELSE Len(ms)) = i
        BY <1>1
    <2>4. d = [s EXCEPT !.msgs = SubSeq(ms, 1, i)]
        BY <2>1, <2>2, <2>3
    <2> HIDE DEF s, d, ms
    <2> QED
        BY <2>1, <2>4 DEF ChatRec
<1>3. /\ Len(new) = b + 1 /\ DOMAIN new = 1..(b + 1) /\ \A x \in 1..(b + 1) : new[x] = ms[x]
    BY <1>1, <1>2
<1>4. \A x \in DOMAIN ms : RowOK(ms[x])
    BY DEF ChatOK, MsgsOK
<1>5. /\ k \in Nat /\ k <= Len(st) /\ cut \in Seq(Turn) /\ Past(ms, cut, b)
    <2>1. \A x \in DOMAIN ms : ms[x].role = "user" => ms[x].of # {}
        BY <1>4 DEF RowOK
    <2> QED
        BY <1>1, <2>1, PastCut
<1>6. \A x \in 1..b : p \notin ms[x].of
    BY <1>1, <1>4, <1>5, PastDistinct
<1>7. p < n
    BY <1>1 DEF Known
<1>8. ms[b + 1].role = "user" /\ ms[b + 1].of = {p} /\ ~ms[b + 1].error
    BY <1>1
<1> HIDE DEF d, new, ms, b, cut
<1>9. \A x \in 1..(b + 1) : x \in DOMAIN ms
    BY <1>1
<1>10. OpenRows(new, 0, p, b)
    <2>1. /\ b + 1 \in 1..(b + 1) /\ \A x \in 1..b : x \in 1..(b + 1)
          /\ \A x \in (b + 2)..(b + 1) : FALSE
        BY <1>1
    <2>2. \A x \in 1..b : p \notin new[x].of
        BY <1>3, <1>6, <2>1
    <2> QED
        BY <1>1, <1>3, <1>8, <2>1, <2>2 DEF OpenRows
<1>11. Past(new, cut, b)
    <2>1. /\ \A x \in (b + 1)..b : FALSE
          /\ \A x \in 1..b : x \in 1..(b + 1)
          /\ b <= b
        BY <1>1
    <2>2. \A x \in 1..b : new[x] = ms[x]
        BY <1>3, <2>1
    <2> QED
        BY <1>1, <1>5, <2>1, <2>2, PastMore
<1>12. Known(new, n)
    <2>1. Known(ms, n)
        BY DEF ms
    <2> QED
        BY <1>3, <1>9, <2>1 DEF Known
<1> QED
    BY <1>2, <1>3, <1>5, <1>7, <1>10, <1>11, <1>12 DEF OpenTurn, Bare, d, b, new, cut

(* The saved transcript shows its turns, and keeps the failed ones         *)
LEMMA HydratedPast ==
    ASSUME NEW c, ChatOK(c), c.stream = 0, NEW n \in Nat, Known(c.msgs, n),
           NEW st \in Seq(Turn), AsksAll(c.msgs, st)
    PROVE  LET d == Hydrated(c, st)
           IN  /\ Past(d.msgs, st, Len(d.msgs)) /\ Known(d.msgs, n)
               /\ d.stream = c.stream /\ d.busy = c.busy /\ d.awaiting = c.awaiting
               /\ d.interrupted = c.interrupted
<1> DEFINE d == Hydrated(c, st)
           ms == c.msgs
           rows == RowsOf(st)
           new == Kept(rows, ms)
<1>1. c \in ChatRec /\ ms \in Seq(RowType)
    BY ChatFields DEF ChatOK
<1>2. d.msgs = new
    BY <1>1 DEF Hydrated, ChatRec
<1>3. rows \in Seq(RowType) /\ new \in Seq(RowType)
    <2>1. rows \in Seq(RowType)
        BY RowsOfOK
    <2> QED
        BY <1>1, <2>1, KeptOK DEF KeepsRows
<1>4. Shows(rows, new)
    <2>1. \A i \in DOMAIN ms : ~ms[i].pending
        BY DEF ChatOK, MsgsOK
    <2> HIDE DEF rows, ms
    <2> QED
        BY <1>1, <1>3, <2>1, KeptShows
<1>5. Past(rows, st, Len(rows))
    BY PastSaved
<1>6. Past(new, st, Len(new))
    BY <1>3, <1>4, <1>5, PastShown
<1>7. Known(new, n)
    BY <1>1, HydratedKnown
<1> QED
    BY <1>2, <1>6, <1>7, HydratedOK

-----------------------------------------------------------------------------
(* The phases of a chat that was never interrupted                         *)

(* Applying r would put an older transcript over a newer turn              *)
Late(r) == next > r.turn + 1 \/ restores > 0
Outdated == \A r \in reads : Late(r)

(* A load that can still be applied holds the transcript of now            *)
Current == \A r \in reads : r.done /\ ~Late(r) => r.snap = stored

Common ==
    /\ Known(chat.msgs, next) /\ \A r \in reads : r.turn < next
    /\ ~halt /\ ~chat.interrupted

(* No turn is in progress; one frame at most reports the last one over     *)
Still ==
    /\ inbox.turn = 0 /\ run.turn = 0 /\ deltas = {} /\ chat.stream = 0
    /\ ~chat.busy /\ ~chat.awaiting
Rest ==
    /\ Still /\ Current /\ Past(chat.msgs, stored, Len(chat.msgs))
    /\ \/ frames = <<>>
       \/ Len(frames) = 1 /\ frames[1].type = "idle" /\ frames[1].turn < next

(* A silent turn is over, and the load that shows it is on its way         *)
Silence ==
    /\ Still /\ Current /\ frames = <<>> /\ restores = 0
    /\ \E st \in Seq(Turn), p \in Turn, b \in Nat :
          /\ stored = Append(st, p) /\ Len(chat.msgs) = b + 1
          /\ OpenTurn(chat, p, b) /\ Past(chat.msgs, st, b)
    /\ \E r \in reads : r.needle = {} /\ next = r.turn + 1

(* The last prompt sent is p, behind the turns of st                       *)
Asking(st, p, b) ==
    /\ OpenTurn(chat, p, b) /\ Past(chat.msgs, st, b) /\ chat.busy /\ Outdated
    /\ p < next /\ (restores = 0 => next = p + 1)

(* The transcript once the server has accepted the prompt                  *)
History == IF inbox.cut THEN SubSeq(stored, 1, inbox.keep) ELSE stored
Held == inbox.turn # 0 /\ inbox.cut => inbox.keep < Len(stored)
Sent ==
    /\ inbox.turn # 0 /\ run.turn = 0 /\ frames = <<>> /\ deltas = {} /\ Held
    /\ History \in Seq(Turn)
    /\ \E b \in Nat : Asking(History, inbox.turn, b) /\ Bare(chat, b)

(* The frames of the turn p, before its last ones                          *)
Mid(f, p) == f.turn = p /\ f.type \in {"start", "delta", "tool", "compact"} /\ f.of \subseteq {p}
Quietly(b) ==
    /\ Bare(chat, b) /\ deltas = {}
    /\ \A i \in DOMAIN frames : frames[i].type \in {"start", "idle"}
Client(st, p, b) == Asking(st, p, b) /\ deltas \subseteq {p} /\ inbox.turn = 0
Running ==
    /\ run.turn # 0 /\ \A i \in DOMAIN frames : Mid(frames[i], run.turn)
    /\ \E b \in Nat : Client(stored, run.turn, b) /\ (Fresh(run) => Quietly(b))

(* Behind the others, the last frames of the turn p                        *)
Ends(p, types, n) ==
    /\ n \in Nat /\ Len(frames) = n + Len(types)
    /\ \A i \in 1..n : Mid(frames[i], p)
    /\ \A i \in 1..Len(types) : frames[n + i].turn = p /\ frames[n + i].type = types[i]
    /\ \A i \in 1..Len(types) : types[i] = "complete" => frames[n + i].of = {p}
Completing ==
    /\ run.turn = 0
    /\ \E st \in Seq(Turn), p \in Turn, b \in Nat, n \in Nat :
          stored = Append(st, p) /\ Client(st, p, b) /\ Ends(p, <<"complete", "idle">>, n)
Failing ==
    /\ run.turn = 0
    /\ \E p \in Turn, b \in Nat, n \in Nat :
          Client(stored, p, b) /\ Ends(p, <<"error", "idle">>, n)
Silencing ==
    /\ run.turn = 0
    /\ \E st \in Seq(Turn), p \in Turn, b \in Nat, n \in Nat :
          /\ stored = Append(st, p) /\ Client(st, p, b) /\ Ends(p, <<"idle">>, n)
          /\ Quietly(b)

(* A load for an older turn will be applied, or started by a frame that    *)
(* reports the silent end of an older turn                                 *)
LateLoad == \E r \in reads : (r.needle = {} \/ r.done) /\ Late(r)
LateFrame ==
    /\ frames # <<>> /\ Head(frames).type = "idle" /\ Late(Head(frames))
    /\ chat.busy /\ Silent(chat) /\ Held
Doomed == LateLoad \/ LateFrame

Phase == Rest \/ Silence \/ Sent \/ Running \/ Completing \/ Failing \/ Silencing
Hist == stops = 0 /\ ~crossed /\ ~unread => Doomed \/ (Common /\ Phase)

(* The empty chat is at rest                                               *)
LEMMA HistInit == Init => Hist
<1> SUFFICES ASSUME Init
             PROVE  Common /\ Rest
    BY DEF Hist, Phase
<1>1. chat.msgs = <<>> /\ chat = EmptyChat /\ reads = {} /\ stored = <<>> /\ frames = <<>>
    BY DEF Init, EmptyChat
<1>2. Known(chat.msgs, next)
    BY <1>1 DEF Known
<1>3. Past(chat.msgs, stored, Len(chat.msgs))
    <2>1. stored \in Seq(Turn) /\ Len(stored) = 0
        BY <1>1
    <2>2. RowsOf(stored) = <<>>
        <3>1. RowsOf(stored) \in Seq(RowType) /\ Len(RowsOf(stored)) = 2 * Len(stored)
            BY <2>1, RowsAlternate
        <3>2. Len(RowsOf(stored)) = 0
            BY <2>1, <3>1
        <3> QED
            BY <3>1, <3>2
    <2>3. Past(RowsOf(stored), stored, Len(RowsOf(stored)))
        BY <2>1, PastSaved
    <2> QED
        BY <1>1, <2>2, <2>3
<1> QED
    BY <1>1, <1>2, <1>3 DEF Init, Common, Rest, Still, Current, EmptyChat, NoPrompt, NoRun

-----------------------------------------------------------------------------
(* The steps of a chat that was never interrupted                          *)

(* What the invariant says of the loads, the frames and the rest           *)
LEMMA Types ==
    ASSUME IInv
    PROVE  /\ next \in Nat /\ restores \in Nat /\ stops \in Nat /\ stored \in Seq(Turn)
           /\ Len(stored) \in Nat
           /\ inbox.turn \in 0..Turns /\ inbox.cut \in BOOLEAN /\ inbox.keep \in Nat
           /\ run.turn \in 0..Turns /\ frames \in Seq(FrameRec) /\ ChatOK(chat)
           /\ \A r \in reads : r.turn \in Nat /\ r \in ReadRec
           /\ Turns \in Nat
<1>1. Turns \in Nat
    BY StreamAssumption
<1>2. \A r \in reads : r \in ReadRec /\ r.turn \in Nat
    BY DEF IInv, ClientOK, ReadRec, Turn
<1> QED
    BY <1>1, <1>2 DEF IInv, ClientOK, ServerOK, FramesOK

(* A late load stays until it is applied, however the turns go on          *)
LEMMA LateLoadKept ==
    ASSUME IInv, NEW r \in reads, r.needle = {} \/ r.done, Late(r), r \in reads',
           next <= next', restores <= restores', next' \in Nat, restores' \in Nat
    PROVE  LateLoad'
<1>1. r.turn \in Nat /\ next \in Nat /\ restores \in Nat
    BY Types
<1>2. next' > r.turn + 1 \/ restores' > 0
    BY <1>1 DEF Late
<1> QED
    BY <1>2 DEF LateLoad, Late

(* A step of a load                                                        *)
LEMMA LateLoadRead ==
    ASSUME IInv, LateLoad, Snap \/ Apply \/ GiveUp
    PROVE  LateLoad' \/ crossed' \/ unread'
<1>1. PICK r \in reads : (r.needle = {} \/ r.done) /\ Late(r)
    BY DEF LateLoad
<1>2. next' = next /\ restores' = restores /\ next \in Nat /\ restores \in Nat /\ r.turn \in Nat
    BY Types DEF Snap, Apply, GiveUp
<1>3. ASSUME r \in reads'
      PROVE  LateLoad'
    BY <1>1, <1>2, <1>3, LateLoadKept
<1>4. CASE Snap
    <2>1. PICK s \in reads :
             /\ ~s.done
             /\ reads' = (reads \ {s}) \cup {[s EXCEPT !.snap = stored, !.done = TRUE]}
        BY <1>4 DEF Snap
    <2>2. CASE s # r
        BY <1>3, <2>1, <2>2
    <2>3. CASE s = r
        <3> DEFINE t == [r EXCEPT !.snap = stored, !.done = TRUE]
        <3>1. t \in reads'
            BY <2>1, <2>3
        <3>2. t.done /\ t.turn = r.turn
            BY Types DEF ReadRec
        <3> HIDE DEF t
        <3> QED
            BY <1>1, <1>2, <3>1, <3>2 DEF LateLoad, Late
    <2> QED
        BY <2>2, <2>3
<1>5. CASE Apply
    <2>1. PICK s \in reads :
             /\ reads' = reads \ {s}
             /\ crossed' = (crossed \/ next # s.turn + 1 \/ restores > 0)
        BY <1>5 DEF Apply
    <2>2. s = r => crossed'
        <3>1. s = r => next # s.turn + 1 \/ restores > 0
            BY <1>1, <1>2 DEF Late
        <3> QED
            BY <2>1, <3>1
    <2> QED
        BY <1>3, <2>1, <2>2
<1>6. CASE GiveUp
    <2>1. PICK s \in reads : /\ ~s.done /\ reads' = reads \ {s}
                             /\ unread' = (unread \/ s.needle = {})
        BY <1>6 DEF GiveUp
    <2>2. s = r => unread'
        BY <1>1, <2>1
    <2> QED
        BY <1>3, <2>1, <2>2
<1> QED
    BY <1>4, <1>5, <1>6

(* The other steps drop no load                                            *)
LEMMA ReadsGrow ==
    ASSUME IInv, IInv', Next, ~(Snap \/ Apply \/ GiveUp)
    PROVE  reads \subseteq reads' /\ next <= next' /\ restores <= restores'
<1>1. /\ next \in Nat /\ next' \in Nat /\ restores \in Nat /\ restores' \in Nat
    BY Types DEF IInv, ClientOK
<1>2. CASE Submit \/ Stop \/ Restore \/ FlushTimer
    <2>1. Submit => reads' = reads /\ next' = next + 1 /\ restores' = restores
        BY DEF Submit
    <2>2. Stop => reads' = reads /\ next' = next /\ restores' = restores
        BY DEF Stop
    <2>3. Restore => reads' = reads /\ next' = next /\ restores' = restores + 1
        BY DEF Restore
    <2>4. FlushTimer => reads' = reads /\ next' = next /\ restores' = restores
        BY DEF FlushTimer
    <2> QED
        BY <1>1, <1>2, <2>1, <2>2, <2>3, <2>4
<1>3. CASE OnFrame
    <2>1. next' = next /\ restores' = restores
        BY <1>3 DEF OnFrame, Receive, OnStart, OnDelta, OnTool, OnCompact, OnComplete, OnError,
                    OnIdle
    <2>2. OnStart \/ OnDelta \/ OnTool \/ OnCompact \/ OnError => reads' = reads
        BY DEF OnStart, OnDelta, OnTool, OnCompact, OnError
    <2>3. OnComplete => reads \subseteq reads'
        BY DEF OnComplete
    <2>4. OnIdle => reads \subseteq reads'
        BY DEF OnIdle
    <2> QED
        BY <1>1, <1>3, <2>1, <2>2, <2>3, <2>4 DEF OnFrame
<1>4. CASE Server
    BY <1>1, <1>4 DEF Server, clientVars, SrvAccept, SrvRefuse, SrvText, SrvTool, SrvEnd,
                      SrvComplete, SrvSilent, SrvFail, SrvStopped, SrvIgnore
<1> QED
    BY <1>2, <1>3, <1>4 DEF Next

(* The server adds frames behind the others and keeps the transcript, or   *)
(* accepts the prompt                                                      *)
LEMMA ServerAdds ==
    ASSUME IInv, Server, ~SrvRefuse
    PROVE  /\ \E es \in Seq(FrameRec) : frames' = frames \o es
           /\ UNCHANGED clientVars
           /\ inbox'.turn = 0 \/ (inbox' = inbox /\ Len(stored) <= Len(stored'))
<1>1. /\ run.turn # 0 => run.turn \in Turn
      /\ inbox.turn # 0 => inbox.turn \in Turn
      /\ frames \in Seq(FrameRec) /\ stored \in Seq(Turn) /\ Len(stored) \in Nat
    BY Types DEF Turn
<1>2. \A t \in Turn, k \in Kinds : \A of \in SUBSET {t} : Frame(k, t, of) \in FrameRec
    BY FrameIs
<1>3. \A t \in Turn, k \in Kinds : Frame(k, t, {}) \in FrameRec /\ Frame(k, t, {t}) \in FrameRec
    <2>1. \A t : {} \in SUBSET {t} /\ {t} \in SUBSET {t}
        OBVIOUS
    <2> QED
        BY <1>2, <2>1
<1>4. /\ "start" \in Kinds /\ "delta" \in Kinds /\ "idle" \in Kinds
      /\ \A k \in {"tool", "compact"} : k \in Kinds
    BY DEF Kinds
<1>5. CASE SrvAccept
    <2>1. inbox.turn \in Turn /\ frames' = frames \o <<Frame("start", inbox.turn, {})>>
        BY <1>1, <1>5 DEF SrvAccept, Emit
    <2>2. <<Frame("start", inbox.turn, {})>> \in Seq(FrameRec)
        <3>1. Frame("start", inbox.turn, {}) \in FrameRec
            BY <1>3, <1>4, <2>1
        <3> QED
            BY <3>1
    <2>3. inbox'.turn = 0 /\ UNCHANGED clientVars
        BY <1>5 DEF SrvAccept, NoPrompt
    <2> QED
        BY <2>1, <2>2, <2>3
<1>6. CASE SrvText
    <2>1. run.turn \in Turn /\ frames' = frames \o <<Frame("delta", run.turn, {run.turn})>>
        BY <1>1, <1>6 DEF SrvText, Emit
    <2>2. <<Frame("delta", run.turn, {run.turn})>> \in Seq(FrameRec)
        BY <1>3, <1>4, <2>1
    <2>3. inbox' = inbox /\ stored' = stored /\ UNCHANGED clientVars
        BY <1>6 DEF SrvText
    <2>4. Len(stored) <= Len(stored')
        BY <1>1, <2>3
    <2> QED
        BY <2>1, <2>2, <2>3, <2>4
<1>7. CASE SrvTool
    <2>1. PICK k \in {"tool", "compact"} :
             run.turn \in Turn /\ frames' = frames \o <<Frame(k, run.turn, {})>>
        BY <1>1, <1>7 DEF SrvTool, Emit
    <2>2. <<Frame(k, run.turn, {})>> \in Seq(FrameRec)
        <3>1. Frame(k, run.turn, {}) \in FrameRec
            BY <1>3, <1>4, <2>1
        <3> QED
            BY <3>1
    <2>3. inbox' = inbox /\ stored' = stored /\ UNCHANGED clientVars
        BY <1>7 DEF SrvTool
    <2>4. Len(stored) <= Len(stored')
        BY <1>1, <2>3
    <2> QED
        BY <2>1, <2>2, <2>3, <2>4
<1>8. ASSUME NEW fs \in Seq(FrameRec), NEW saved, SrvEnd(fs, saved)
      PROVE  /\ \E es \in Seq(FrameRec) : frames' = frames \o es
             /\ UNCHANGED clientVars /\ inbox' = inbox /\ Len(stored) <= Len(stored')
    <2>1. run.turn \in Turn /\ frames' = frames \o Append(fs, Frame("idle", run.turn, {}))
        BY <1>1, <1>8 DEF SrvEnd, Emit
    <2>2. Append(fs, Frame("idle", run.turn, {})) \in Seq(FrameRec)
        <3>1. Frame("idle", run.turn, {}) \in FrameRec
            BY <1>3, <1>4, <2>1
        <3> QED
            BY <1>8, <3>1
    <2>3. inbox' = inbox /\ UNCHANGED clientVars
        BY <1>8 DEF SrvEnd
    <2>4. stored' = stored \/ stored' = Append(stored, run.turn)
        BY <1>8 DEF SrvEnd
    <2>5. Len(stored) <= Len(stored')
        BY <1>1, <2>1, <2>4
    <2> QED
        BY <2>1, <2>2, <2>3, <2>5
<1>9. CASE SrvComplete \/ SrvSilent \/ SrvFail \/ SrvStopped
    <2>1. PICK fs, saved : SrvEnd(fs, saved)
             /\ \/ fs = <<>>
                \/ \E k \in Kinds, of \in {{}, {run.turn}} : fs = <<Frame(k, run.turn, of)>>
        BY <1>9 DEF SrvComplete, SrvSilent, SrvFail, SrvStopped, Kinds
    <2>2. run.turn \in Turn
        BY <1>1, <2>1 DEF SrvEnd
    <2>3. fs \in Seq(FrameRec)
        <3>1. CASE fs = <<>>
            BY <3>1
        <3>2. CASE fs # <<>>
            <4>1. PICK k \in Kinds, of \in {{}, {run.turn}} : fs = <<Frame(k, run.turn, of)>>
                BY <2>1, <3>2
            <4>2. Frame(k, run.turn, of) \in FrameRec
                BY <1>3, <2>2
            <4> HIDE DEF Frame
            <4> QED
                BY <4>1, <4>2
        <3> QED
            BY <3>1, <3>2
    <2> QED
        BY <1>8, <2>1, <2>3
<1>10. CASE SrvIgnore
    <2>1. frames' = frames /\ inbox' = inbox /\ stored' = stored /\ UNCHANGED clientVars
        BY <1>10 DEF SrvIgnore
    <2>2. <<>> \in Seq(FrameRec) /\ frames' = frames \o <<>>
        BY <1>1, <2>1
    <2>3. Len(stored) <= Len(stored')
        BY <1>1, <2>1
    <2> QED
        BY <2>1, <2>2, <2>3
<1> QED
    BY <1>5, <1>6, <1>7, <1>9, <1>10 DEF Server

(* The late frame stays the next one until it is received                  *)
LEMMA LateFrameKept ==
    ASSUME IInv, LateFrame, frames' # <<>>, Head(frames') = Head(frames),
           next' = next, restores' = restores, chat'.busy = chat.busy,
           chat'.awaiting = chat.awaiting, chat'.saw = chat.saw, Held'
    PROVE  LateFrame'
BY DEF LateFrame, Late, Silent

(* Once a late load or a late frame is there, it stays until it counts as  *)
(* crossed, unless the user stops the turn or the load fails               *)
LEMMA DoomedStays ==
    ASSUME IInv, IInv', Doomed, Next
    PROVE  Doomed' \/ stops' > 0 \/ crossed' \/ unread'
<1>1. CASE LateLoad
    <2>1. CASE Snap \/ Apply \/ GiveUp
        BY <1>1, <2>1, LateLoadRead DEF Doomed
    <2>2. CASE ~(Snap \/ Apply \/ GiveUp)
        <3>1. reads \subseteq reads' /\ next <= next' /\ restores <= restores'
            BY <2>2, ReadsGrow
        <3>2. PICK r \in reads : (r.needle = {} \/ r.done) /\ Late(r)
            BY <1>1 DEF LateLoad
        <3>3. next' \in Nat /\ restores' \in Nat
            BY DEF IInv, ClientOK
        <3>4. LateLoad'
            BY <3>1, <3>2, <3>3, LateLoadKept
        <3> QED
            BY <3>4 DEF Doomed
    <2> QED
        BY <2>1, <2>2
<1>2. CASE LateFrame
    <2>1. /\ frames # <<>> /\ frames \in Seq(FrameRec) /\ Head(frames).type = "idle"
          /\ Late(Head(frames)) /\ chat.busy /\ Silent(chat) /\ Held /\ stops \in Nat
        BY <1>2, Types DEF LateFrame
    <2>2. ~Submit /\ (Stop \/ Restore => stops' > 0)
        <3>1. ~Submit
            BY <2>1 DEF Submit
        <3>2. Stop => stops' = stops + 1
            BY DEF Stop
        <3>3. Restore => stops' = stops + 1
            BY <2>1 DEF Restore
        <3> QED
            BY <2>1, <3>1, <3>2, <3>3
    <2>3. ~FlushTimer
        <3>1. deltas # {} => Bounded(frames, run, 0, LiveText)
            BY DEF IInv, LiveOK
        <3>2. deltas = {}
            BY <2>1, <3>1, HeadBounded
        <3> QED
            BY <3>2 DEF FlushTimer
    <2>4. CASE OnFrame
        <3>1. OnIdle
            BY <2>1, <2>4 DEF OnFrame, OnStart, OnDelta, OnTool, OnCompact, OnComplete, OnError
        <3> DEFINE r == Read({}, Head(frames).turn)
        <3>2. r \in reads' /\ next' = next /\ restores' = restores
            BY <2>1, <3>1 DEF OnIdle, Receive
        <3>3. r.needle = {} /\ r.turn = Head(frames).turn
            BY DEF Read
        <3> HIDE DEF r
        <3>4. LateLoad'
            BY <2>1, <3>2, <3>3 DEF LateLoad, Late
        <3> QED
            BY <3>4 DEF Doomed
    <2>5. CASE Snap \/ GiveUp
        <3>1. UNCHANGED <<chat, frames, next, restores, inbox, stored>>
            BY <2>5 DEF Snap, GiveUp, serverVars
        <3>2. Held'
            BY <2>1, <3>1 DEF Held
        <3> QED
            BY <1>2, <2>1, <3>1, <3>2, LateFrameKept DEF Doomed
    <2>6. CASE Apply
        <3>1. /\ UNCHANGED <<frames, next, restores, inbox, stored>>
              /\ \E st : chat' = Hydrated(chat, st)
            BY <2>6 DEF Apply, serverVars
        <3>2. chat \in ChatRec
            BY DEF IInv, ClientOK, ChatOK
        <3>3. chat'.busy = chat.busy /\ chat'.awaiting = chat.awaiting /\ chat'.saw = chat.saw
            BY <3>1, <3>2 DEF Hydrated, ChatRec
        <3>4. Held'
            BY <2>1, <3>1 DEF Held
        <3> QED
            BY <1>2, <2>1, <3>1, <3>3, <3>4, LateFrameKept DEF Doomed
    <2>7. CASE Server
        <3>1. ~SrvRefuse
            BY <2>1, Types DEF SrvRefuse, Held
        <3>2. /\ \E es \in Seq(FrameRec) : frames' = frames \o es
              /\ UNCHANGED clientVars
              /\ inbox'.turn = 0 \/ (inbox' = inbox /\ Len(stored) <= Len(stored'))
            BY <2>7, <3>1, ServerAdds
        <3>3. frames' # <<>> /\ Head(frames') = Head(frames)
            <4>1. PICK es \in Seq(FrameRec) : frames' = frames \o es
                BY <3>2
            <4>2. /\ Len(frames) \in Nat /\ Len(frames) # 0 /\ Head(frames) = frames[1]
                  /\ frames' \in Seq(FrameRec) /\ Len(frames') = Len(frames) + Len(es)
                  /\ Len(es) \in Nat
                  /\ \A j \in 1..Len(frames) : frames'[j] = frames[j]
                BY <2>1, <4>1, SentPlaces, TailPlaces
            <4>3. 1 \in 1..Len(frames) /\ Len(frames') # 0
                BY <4>2
            <4> QED
                BY <4>2, <4>3
        <3>4. Held'
            <4>1. /\ Len(stored) \in Nat /\ Len(stored') \in Nat /\ inbox.keep \in Nat
                BY Types DEF IInv, ServerOK
            <4> QED
                BY <2>1, <3>2, <4>1 DEF Held
        <3>5. UNCHANGED <<chat, next, restores>>
            BY <3>2 DEF clientVars
        <3> QED
            BY <1>2, <3>3, <3>4, <3>5, LateFrameKept DEF Doomed
    <2> QED
        BY <2>2, <2>3, <2>4, <2>5, <2>6, <2>7 DEF Next
<1> QED
    BY <1>1, <1>2 DEF Doomed

(* Rows that grow twice have grown                                         *)
LEMMA GrownTwice ==
    ASSUME NEW old, NEW mid, NEW new, NEW p, NEW b, Grown(old, mid, p, b), Grown(mid, new, p, b)
    PROVE  Grown(old, new, p, b)
BY DEF Grown

(* The text that waits goes to the answer in progress                      *)
LEMMA FlushedOpen ==
    ASSUME IInv, Common, NEW p \in Turn, NEW b, OpenTurn(chat, p, b), deltas \subseteq {p}
    PROVE  /\ OpenTurn(Flushed, p, b) /\ Grown(chat.msgs, Flushed.msgs, p, b)
           /\ ChatOK(Flushed) /\ ~Flushed.interrupted /\ Flushed.busy = chat.busy
           /\ Single(TextOf(Flushed))
<1>1. ChatOK(chat) /\ ~chat.interrupted /\ deltas \in SUBSET {p} /\ FALSE \in BOOLEAN
    BY Types DEF Common
<1>2. OpenTurn(Flushed, p, b) /\ Grown(chat.msgs, Flushed.msgs, p, b)
    BY <1>1, MutateOpen DEF Flushed
<1>3. /\ ChatOK(Flushed) /\ Flushed.interrupted = chat.interrupted /\ Flushed.busy = chat.busy
      /\ TextOf(Flushed) \subseteq LiveText
    BY FlushedOK DEF IInv
<1>4. Single(LiveText)
    BY DEF IInv, LiveOK
<1>5. Single(TextOf(Flushed))
    BY <1>3, <1>4, SingleSubset
<1> QED
    BY <1>1, <1>2, <1>3, <1>5

(* Rows of the answer may come while the turn is in progress               *)
LEMMA AskingGrown ==
    ASSUME IInv, Common, NEW st \in Seq(Turn), NEW p \in Turn, NEW b \in Nat, Asking(st, p, b),
           ChatOK(chat'), OpenTurn(chat', p, b), Grown(chat.msgs, chat'.msgs, p, b),
           chat'.busy, ~chat'.interrupted, UNCHANGED <<reads, next, restores, halt>>
    PROVE  Common' /\ Asking(st, p, b)'
<1>1. /\ chat.msgs \in Seq(RowType) /\ chat'.msgs \in Seq(RowType) /\ next \in Nat /\ p < next
      /\ Known(chat.msgs, next) /\ b + 1 <= Len(chat.msgs) /\ Past(chat.msgs, st, b)
    <2>1. chat.msgs \in Seq(RowType) /\ chat'.msgs \in Seq(RowType) /\ next \in Nat
        BY Types, ChatFields DEF ChatOK
    <2>2. b + 1 <= Len(chat.msgs)
        BY <2>1 DEF Asking, OpenTurn, OpenRows
    <2> QED
        BY <2>1, <2>2 DEF Asking, Common
<1>2. Known(chat'.msgs, next) /\ Past(chat'.msgs, st, b)
    BY <1>1, GrownOK
<1>3. Common'
    BY <1>2 DEF Common
<1>4. Asking(st, p, b)'
    BY <1>2 DEF Asking, Outdated, Late
<1> QED
    BY <1>3, <1>4

(* The frames of a turn, and the timer, write to its answer only           *)
LEMMA ClientFrame ==
    ASSUME IInv, IInv', Common, NEW st \in Seq(Turn), NEW p \in Turn, NEW b \in Nat,
           Client(st, p, b), FlushTimer \/ (OnFrame /\ Mid(Head(frames), p))
    PROVE  Common' /\ Client(st, p, b)'
<1>1. /\ Asking(st, p, b) /\ deltas \subseteq {p} /\ inbox.turn = 0 /\ chat.busy
      /\ OpenTurn(chat, p, b) /\ ChatOK(chat) /\ ChatOK(chat') /\ ~chat.interrupted
    BY Types DEF Client, Asking, IInv, ClientOK, Common
<1>2. /\ OpenTurn(Flushed, p, b) /\ Grown(chat.msgs, Flushed.msgs, p, b)
      /\ ChatOK(Flushed) /\ ~Flushed.interrupted /\ Flushed.busy
      /\ Single(TextOf(Flushed)) /\ Flushed \in ChatRec
    BY <1>1, FlushedOpen DEF ChatOK
<1>3. Grown(chat.msgs, chat.msgs, p, b)
    <2>1. chat.msgs \in Seq(RowType)
        BY <1>1, ChatFields DEF ChatOK
    <2> QED
        BY <1>1, <2>1 DEF OpenTurn, OpenRows, Grown
<1>4. ASSUME OpenTurn(chat', p, b), Grown(chat.msgs, chat'.msgs, p, b), chat'.busy,
             ~chat'.interrupted, UNCHANGED <<reads, next, restores, halt, inbox>>,
             deltas' \subseteq {p}
      PROVE  Common' /\ Client(st, p, b)'
    BY <1>1, <1>4, AskingGrown DEF Client
<1>5. CASE FlushTimer
    <2>1. /\ chat' = Flushed /\ deltas' = {}
          /\ UNCHANGED <<reads, next, restores, halt, inbox>>
        BY <1>5 DEF FlushTimer, serverVars
    <2> QED
        BY <1>2, <1>4, <2>1
<1>6. CASE OnFrame /\ Mid(Head(frames), p)
    <2>1. UNCHANGED <<next, restores, halt, inbox>>
        BY <1>6 DEF OnFrame, OnStart, OnDelta, OnTool, OnCompact, OnComplete, OnError, OnIdle,
                    Receive, serverVars
    <2>2. CASE OnStart
        <3>1. chat' = Started(Flushed) /\ deltas' = {} /\ reads' = reads
            BY <2>2 DEF OnStart
        <3>2. chat'.msgs = Flushed.msgs /\ chat'.stream = Flushed.stream /\ chat'.busy
              /\ ~chat'.interrupted
            BY <1>2, <3>1, StartedFields
        <3> QED
            BY <1>2, <1>4, <2>1, <3>1, <3>2 DEF OpenTurn
    <2>3. CASE OnDelta
        <3>1. chat' = chat /\ deltas' = deltas \cup Head(frames).of /\ reads' = reads
            BY <2>3 DEF OnDelta
        <3> QED
            BY <1>1, <1>3, <1>4, <1>6, <2>1, <3>1 DEF Mid
    <2>4. CASE OnTool
        <3> DEFINE d == Mutate(Flushed, {}, TRUE)
        <3>1. chat' = d /\ deltas' = {} /\ reads' = reads
            BY <2>4 DEF OnTool
        <3>2. {} \in SUBSET {p} /\ {} \in SUBSET Turn /\ TRUE \in BOOLEAN
              /\ {} \cup TextOf(Flushed) = TextOf(Flushed)
            OBVIOUS
        <3>3. OpenTurn(d, p, b) /\ Grown(Flushed.msgs, d.msgs, p, b)
            BY <1>2, <3>2, MutateOpen
        <3>4. d.busy = Flushed.busy /\ d.interrupted = Flushed.interrupted
            BY <1>2, <3>2, MutateOK
        <3>5. Grown(chat.msgs, d.msgs, p, b)
            BY <1>2, <3>3, GrownTwice
        <3> HIDE DEF d
        <3> QED
            BY <1>2, <1>4, <2>1, <3>1, <3>3, <3>4, <3>5
    <2>5. CASE OnCompact
        <3>1. UNCHANGED <<chat, deltas, reads>>
            BY <2>5 DEF OnCompact
        <3> QED
            BY <1>1, <1>3, <1>4, <2>1, <3>1
    <2> QED
        BY <1>6, <2>2, <2>3, <2>4, <2>5 DEF OnFrame, OnComplete, OnError, OnIdle, Mid
<1> QED
    BY <1>5, <1>6

(* The next frame is taken off the others                                  *)
LEMMA TakenOff ==
    ASSUME IInv, OnFrame
    PROVE  /\ frames # <<>> /\ frames' = Tail(frames) /\ Head(frames) = frames[1]
           /\ 1 \in DOMAIN frames /\ Len(frames) \in Nat /\ Len(frames') = Len(frames) - 1
           /\ \A j \in 1..(Len(frames) - 1) : frames'[j] = frames[j + 1]
           /\ UNCHANGED <<next, restores, halt, inbox, run, stored, stops, crossed>>
<1>1. frames # <<>> /\ frames' = Tail(frames)
      /\ UNCHANGED <<next, restores, halt, inbox, run, stored, stops, crossed>>
    BY DEF OnFrame, OnStart, OnDelta, OnTool, OnCompact, OnComplete, OnError, OnIdle,
           Receive, serverVars
<1>2. frames \in Seq(FrameRec)
    BY Types
<1> QED
    BY <1>1, <1>2, TailPlaces

(* A turn that shows nothing only gets start frames, and they show nothing *)
LEMMA QuietFrame ==
    ASSUME IInv, IInv', NEW b \in Nat, Quietly(b), OnStart, OnFrame
    PROVE  Quietly(b)'
<1>1. deltas = {} /\ Bare(chat, b) /\ chat \in ChatRec
    BY Types DEF Quietly, ChatOK
<1>2. Flushed = chat
    BY <1>1 DEF Flushed, Mutate, Patched
<1>3. chat' = Started(chat) /\ deltas' = {}
    BY <1>2 DEF OnStart
<1>4. Bare(chat', b)
    BY <1>1, <1>3, StartedFields DEF Bare
<1>5. \A i \in DOMAIN frames' : frames'[i].type \in {"start", "idle"}
    <2>1. /\ Len(frames) \in Nat /\ Len(frames') = Len(frames) - 1
          /\ \A j \in 1..(Len(frames) - 1) : frames'[j] = frames[j + 1]
        BY TakenOff
    <2>2. DOMAIN frames' = 1..(Len(frames) - 1) /\ DOMAIN frames = 1..Len(frames)
        <3>1. frames \in Seq(FrameRec) /\ frames' \in Seq(FrameRec)
            BY DEF IInv, FramesOK
        <3> QED
            BY <2>1, <3>1
    <2>3. \A j \in 1..(Len(frames) - 1) : j + 1 \in 1..Len(frames)
        BY <2>1
    <2> QED
        BY <2>1, <2>2, <2>3 DEF Quietly
<1> QED
    BY <1>3, <1>4, <1>5 DEF Quietly

(* What has to hold behind a step                                          *)
After == Doomed' \/ (Common' /\ Phase')

(* A load that is answered, or gives up on a needle                        *)
LEMMA LoadStep ==
    ASSUME IInv, Common, Snap \/ GiveUp, ~unread'
    PROVE  /\ UNCHANGED <<chat, deltas, next, restores, frames, inbox, run, halt, stored>>
           /\ Common' /\ (Current => Current')
           /\ \A r \in reads : r.needle = {} =>
                 \E t \in reads' : t.needle = {} /\ t.turn = r.turn
           /\ Outdated => LateLoad' \/ Outdated'
<1>1. UNCHANGED <<chat, deltas, next, restores, frames, inbox, run, halt, stored>>
    BY DEF Snap, GiveUp, serverVars
<1>2. CASE Snap
    <2>1. PICK s \in reads :
             /\ ~s.done
             /\ reads' = (reads \ {s}) \cup {[s EXCEPT !.snap = stored, !.done = TRUE]}
        BY <1>2 DEF Snap
    <2> DEFINE t == [s EXCEPT !.snap = stored, !.done = TRUE]
    <2>2. t.done /\ t.snap = stored /\ t.turn = s.turn /\ t.needle = s.needle
        BY Types DEF ReadRec
    <2>3. reads' = (reads \ {s}) \cup {t}
        BY <2>1
    <2> HIDE DEF t
    <2>4. Common'
        BY <1>1, <2>2, <2>3 DEF Common
    <2>5. Current => Current'
        BY <1>1, <2>2, <2>3 DEF Current, Late
    <2>6. \A r \in reads : r.needle = {} => \E x \in reads' : x.needle = {} /\ x.turn = r.turn
        <3> SUFFICES ASSUME NEW r \in reads, r.needle = {}
                     PROVE  \E x \in reads' : x.needle = {} /\ x.turn = r.turn
            OBVIOUS
        <3>1. CASE r = s
            BY <2>2, <2>3, <3>1
        <3>2. CASE r # s
            BY <2>3, <3>2
        <3> QED
            BY <3>1, <3>2
    <2>7. Outdated => LateLoad'
        BY <1>1, <2>2, <2>3 DEF Outdated, LateLoad, Late
    <2> QED
        BY <1>1, <2>4, <2>5, <2>6, <2>7
<1>3. CASE GiveUp
    <2>1. PICK s \in reads : reads' = reads \ {s} /\ unread' = (unread \/ s.needle = {})
        BY <1>3 DEF GiveUp
    <2>2. s.needle # {}
        BY <2>1
    <2>3. Common' /\ (Current => Current') /\ (Outdated => Outdated')
        BY <1>1, <2>1 DEF Common, Current, Outdated, Late
    <2> QED
        BY <1>1, <2>1, <2>2, <2>3
<1> QED
    BY <1>2, <1>3

(* A turn in progress is not disturbed by loads, which are all late        *)
LEMMA WorkLoads ==
    ASSUME IInv, Common, Sent \/ Running \/ Completing \/ Failing \/ Silencing,
           Snap \/ Apply \/ GiveUp, ~unread'
    PROVE  After \/ crossed'
<1>1. Outdated
    BY DEF Sent, Running, Completing, Failing, Silencing, Client, Asking
<1>2. CASE Apply
    <2>1. PICK s \in reads : crossed' = (crossed \/ next # s.turn + 1 \/ restores > 0)
        BY <1>2 DEF Apply
    <2>2. next # s.turn + 1 \/ restores > 0
        BY <1>1, Types DEF Outdated, Late
    <2> QED
        BY <2>1, <2>2
<1>3. CASE Snap \/ GiveUp
    <2>1. /\ UNCHANGED <<chat, deltas, next, restores, frames, inbox, run, halt, stored>>
          /\ Common' /\ (LateLoad' \/ Outdated')
        BY <1>1, <1>3, LoadStep
    <2>2. CASE LateLoad'
        BY <2>2 DEF After, Doomed
    <2>3. CASE Outdated'
        <3>1. \A st, p, b : Asking(st, p, b) => Asking(st, p, b)'
            BY <2>1, <2>3 DEF Asking
        <3>2. \A st, p, b : Client(st, p, b) => Client(st, p, b)'
            BY <2>1, <3>1 DEF Client
        <3>3. \A b : Quietly(b) => Quietly(b)'
            BY <2>1 DEF Quietly
        <3>4. \A p, types, n : Ends(p, types, n) => Ends(p, types, n)'
            BY <2>1 DEF Ends
        <3>5. History' = History /\ (Held => Held')
            BY <2>1 DEF History, Held
        <3>6. Sent => Sent'
            BY <2>1, <3>1, <3>5 DEF Sent
        <3>7. Running => Running'
            BY <2>1, <3>2, <3>3 DEF Running
        <3>8. Completing => Completing'
            BY <2>1, <3>2, <3>4 DEF Completing
        <3>9. Failing => Failing'
            BY <2>1, <3>2, <3>4 DEF Failing
        <3>10. Silencing => Silencing'
            BY <2>1, <3>2, <3>3, <3>4 DEF Silencing
        <3> QED
            BY <2>1, <3>6, <3>7, <3>8, <3>9, <3>10 DEF After, Phase
    <2> QED
        BY <2>1, <2>2, <2>3
<1> QED
    BY <1>2, <1>3

(* Loads in a chat at rest: one that is not late shows the transcript of   *)
(* now                                                                     *)
LEMMA RestLoads ==
    ASSUME IInv, IInv', Common, Rest \/ Silence, Snap \/ Apply \/ GiveUp,
           ~unread'
    PROVE  After \/ crossed'
<1>1. Still /\ Current
    BY DEF Rest, Silence
<1>2. CASE Snap \/ GiveUp
    <2>1. /\ UNCHANGED <<chat, deltas, next, restores, frames, inbox, run, halt, stored>>
          /\ Common' /\ Current'
          /\ \A r \in reads : r.needle = {} =>
                \E t \in reads' : t.needle = {} /\ t.turn = r.turn
        BY <1>1, <1>2, LoadStep
    <2>2. Still'
        BY <1>1, <2>1 DEF Still
    <2>3. Rest => Rest'
        BY <2>1, <2>2 DEF Rest
    <2>4. Silence => Silence'
        <3> SUFFICES ASSUME Silence
                     PROVE  Silence'
            OBVIOUS
        <3>1. PICK r \in reads : r.needle = {} /\ next = r.turn + 1
            BY DEF Silence
        <3>2. \E t \in reads' : t.needle = {} /\ next' = t.turn + 1
            BY <2>1, <3>1
        <3> QED
            BY <2>1, <2>2, <3>2 DEF Silence
    <2> QED
        BY <2>1, <2>3, <2>4 DEF After, Phase
<1>3. CASE Apply
    <2>1. PICK s \in reads :
             /\ s.done /\ chat' = Hydrated(chat, s.snap) /\ reads' = reads \ {s}
             /\ crossed' = (crossed \/ next # s.turn + 1 \/ restores > 0)
        BY <1>3 DEF Apply
    <2>2. UNCHANGED <<deltas, next, restores, frames, inbox, run, halt, stored>>
        BY <1>3 DEF Apply, serverVars
    <2> SUFFICES ASSUME ~crossed'
                 PROVE  After
        OBVIOUS
    <2>3. next = s.turn + 1 /\ restores = 0
        <3>1. ~(next # s.turn + 1 \/ restores > 0)
            BY <2>1
        <3> QED
            BY <3>1, Types
    <2>4. ~Late(s)
        BY <2>3, Types DEF Late
    <2>5. s.snap = stored
        BY <1>1, <2>1, <2>4 DEF Current
    <2>6. /\ stored \in Seq(Turn) /\ next \in Nat /\ ChatOK(chat) /\ chat.stream = 0
          /\ Known(chat.msgs, next) /\ chat.msgs \in Seq(RowType) /\ Len(chat.msgs) \in Nat
        <3>1. chat.msgs \in Seq(RowType)
            BY Types, ChatFields DEF ChatOK
        <3> QED
            BY <1>1, <3>1, Types DEF Common, Still
    <2>7. AsksAll(chat.msgs, stored)
        <3>1. CASE Rest
            <4>1. Past(chat.msgs, stored, Len(chat.msgs)) /\ Len(chat.msgs) <= Len(chat.msgs)
                BY <2>6, <3>1 DEF Rest
            <4> QED
                BY <2>6, <4>1, PastAsks
        <3>2. CASE Silence
            <4>1. PICK st \in Seq(Turn), p \in Turn, b \in Nat :
                     /\ stored = Append(st, p) /\ Len(chat.msgs) = b + 1
                     /\ OpenTurn(chat, p, b) /\ Past(chat.msgs, st, b)
                BY <3>2 DEF Silence
            <4>2. /\ chat.msgs[b + 1].role = "user" /\ chat.msgs[b + 1].of = {p}
                  /\ ~chat.msgs[b + 1].error /\ \A x \in 1..b : p \notin chat.msgs[x].of
                BY <4>1 DEF OpenTurn, OpenRows
            <4>3. AsksAll(chat.msgs, Append(st, p))
                BY <2>6, <4>1, <4>2, OpenAsks
            <4> QED
                BY <4>1, <4>3
        <3> QED
            BY <3>1, <3>2
    <2>8. /\ Past(chat'.msgs, stored, Len(chat'.msgs)) /\ Known(chat'.msgs, next)
          /\ chat'.stream = chat.stream /\ chat'.busy = chat.busy
          /\ chat'.awaiting = chat.awaiting /\ chat'.interrupted = chat.interrupted
        BY <2>1, <2>5, <2>6, <2>7, HydratedPast
    <2>9. Common'
        BY <2>1, <2>2, <2>8 DEF Common
    <2>10. Still' /\ Current'
        BY <1>1, <2>1, <2>2, <2>8 DEF Still, Current, Late
    <2>11. \/ frames' = <<>>
           \/ Len(frames') = 1 /\ frames'[1].type = "idle" /\ frames'[1].turn < next'
        BY <2>2 DEF Rest, Silence
    <2>12. Rest'
        BY <2>2, <2>8, <2>10, <2>11 DEF Rest
    <2> QED
        BY <2>9, <2>12 DEF After, Phase
<1> QED
    BY <1>2, <1>3

(* A prompt sent from a chat at rest opens the next turn; when a frame     *)
(* about the last one is still on its way, that frame is late              *)
LEMMA RestSubmit ==
    ASSUME IInv, IInv', Common, Rest, Submit
    PROVE  After
<1>1. /\ stored \in Seq(Turn) /\ next \in Nat /\ ChatOK(chat) /\ chat.stream = 0
      /\ Known(chat.msgs, next) /\ Past(chat.msgs, stored, Len(chat.msgs))
      /\ Still /\ restores \in Nat
    BY Types DEF Common, Rest, Still
<1>2. /\ next \in Turn /\ chat' = Seed(chat, next) /\ next' = next + 1
      /\ inbox' = [turn |-> next, cut |-> FALSE, keep |-> 0]
      /\ UNCHANGED <<deltas, frames, reads, run, halt, stored, restores>>
    <2>1. next \in Turn
        BY DEF Submit, IInv, ClientOK, Turn
    <2> QED
        BY <2>1 DEF Submit
<1>3. PICK b \in Nat : b = Len(chat.msgs)
    BY <1>1, ChatFields DEF ChatOK
<1>4. /\ OpenTurn(chat', next, b) /\ Bare(chat', b) /\ Past(chat'.msgs, stored, b)
      /\ Known(chat'.msgs, next') /\ chat'.busy /\ ~chat'.interrupted
    BY <1>1, <1>2, <1>3, SeedOpen
<1>5. \A r \in reads : r.turn \in Nat /\ r.turn < next
    BY Types DEF Common
<1>6. Outdated'
    BY <1>1, <1>2, <1>5 DEF Outdated, Late
<1>7. Common'
    BY <1>1, <1>2, <1>4, <1>5 DEF Common
<1>8. inbox'.turn = next /\ ~inbox'.cut /\ next # 0 /\ Held'
    BY <1>2 DEF Held, Turn
<1>9. CASE frames = <<>>
    <2>1. History' = stored /\ next < next'
        BY <1>1, <1>2, <1>8 DEF History
    <2>2. Asking(History, inbox.turn, b)'
        BY <1>2, <1>4, <1>6, <1>8, <2>1 DEF Asking
    <2>3. Bare(chat, b)'
        BY <1>4
    <2>4. inbox'.turn # 0 /\ run'.turn = 0 /\ frames' = <<>> /\ deltas' = {}
        BY <1>1, <1>2, <1>8, <1>9 DEF Still
    <2>5. Sent'
        BY <1>1, <1>3, <1>8, <2>1, <2>2, <2>3, <2>4 DEF Sent
    <2> QED
        BY <1>7, <2>5 DEF After, Phase
<1>10. CASE frames # <<>>
    <2>1. /\ Len(frames) = 1 /\ frames[1].type = "idle" /\ frames[1].turn < next
        BY <1>10 DEF Rest
    <2>2. frames \in Seq(FrameRec) /\ Head(frames) = frames[1] /\ frames[1].turn \in Nat
        <3>1. frames \in Seq(FrameRec) /\ Head(frames) = frames[1] /\ Head(frames) \in FrameRec
            BY <1>10, Types, TailPlaces
        <3>2. frames[1] \in FrameRec
            BY <3>1
        <3> QED
            BY <3>1, <3>2 DEF FrameRec, Turn
    <2>3. Late(Head(frames))'
        BY <1>1, <1>2, <2>1, <2>2 DEF Late
    <2>4. Silent(chat')
        BY <1>4 DEF Bare, Silent
    <2>5. LateFrame'
        BY <1>2, <1>4, <1>8, <1>10, <2>1, <2>2, <2>3, <2>4 DEF LateFrame
    <2> QED
        BY <2>5 DEF After, Doomed
<1> QED
    BY <1>9, <1>10

(* Going back from a chat at rest                                          *)
LEMMA RestRestore ==
    ASSUME IInv, IInv', ShapeOK, Common, Rest, Restore, ~crossed'
    PROVE  After
<1>1. /\ stored \in Seq(Turn) /\ next \in Nat /\ ChatOK(chat) /\ chat.stream = 0
      /\ Known(chat.msgs, next) /\ Past(chat.msgs, stored, Len(chat.msgs))
      /\ Still /\ restores \in Nat /\ Len(chat.msgs) \in Nat
      /\ chat.msgs \in Seq(RowType) /\ screen \in Seq(RowType)
    <2>1. chat.msgs \in Seq(RowType) /\ screen \in Seq(RowType)
        BY Types, ChatFields DEF ChatOK, IInv, ScreenOK
    <2> QED
        BY <2>1, Types DEF Common, Rest, Still
<1> DEFINE P(i) == CHOOSE t \in screen[i].of : TRUE
<1>2. PICK i \in DOMAIN screen :
         /\ screen[i].role = "user"
         /\ chat' = Rewound(chat, i)
         /\ inbox' = [turn |-> P(i), cut |-> TRUE, keep |-> Ordinal(i)]
         /\ halt' = (halt \/ chat.busy)
         /\ restores' = restores + 1
         /\ crossed' = (\/ crossed \/ Len(chat.msgs) < i \/ P(i) \notin ToSet(stored)
                        \/ \E j \in 1..i : screen[j].error)
         /\ UNCHANGED <<deltas, frames, reads, next, run, stored>>
    BY DEF Restore
<1> DEFINE p == P(i)
           k == Ordinal(i)
           b == i - 1
<1>3. /\ i <= Len(chat.msgs) /\ p \in ToSet(stored) /\ \A j \in 1..i : ~screen[j].error
    <2>1. ~(Len(chat.msgs) < i \/ p \notin ToSet(stored) \/ \E j \in 1..i : screen[j].error)
        BY <1>2
    <2> QED
        BY <1>1, <1>2, <2>1
<1>4. /\ i \in DOMAIN chat.msgs /\ i \in Nat /\ i # 0 /\ b \in Nat
      /\ \A j \in 1..i : screen[j] = chat.msgs[j]
    <2>1. \A j \in 1..Len(chat.msgs) : screen[j] = chat.msgs[j]
        BY DEF ShapeOK, Shows
    <2>2. \A j \in 1..i : j \in 1..Len(chat.msgs)
        BY <1>1, <1>2, <1>3
    <2> QED
        BY <1>1, <1>2, <1>3, <2>1, <2>2
<1>5. screen[i] = chat.msgs[i] /\ screen[i] \in RowType /\ RowOK(screen[i])
    <2>1. i \in 1..i
        BY <1>4
    <2> QED
        BY <1>1, <1>2, <1>4, <2>1 DEF IInv, ScreenOK
<1>6. p \in Turn /\ screen[i].of = {p}
    <2>1. screen[i].of # {} /\ Single(screen[i].of) /\ screen[i].of \in SUBSET Turn
        BY <1>2, <1>5, RowFields DEF RowOK
    <2>2. p \in screen[i].of
        BY <2>1
    <2> HIDE DEF p
    <2> QED
        BY <2>1, <2>2 DEF Single
<1>7. k = Cardinality({x \in 1..(i - 1) : chat.msgs[x].role = "user"})
    <2>1. k = Cardinality({x \in 1..(i - 1) : screen[x].role = "user"})
        BY DEF Ordinal, UserRows
    <2>2. \A x \in 1..(i - 1) : x \in 1..i
        BY <1>4
    <2>3. \A x \in 1..(i - 1) : screen[x].role = "user" <=> chat.msgs[x].role = "user"
        BY <1>4, <2>2
    <2>4. {x \in 1..(i - 1) : screen[x].role = "user"}
            = {x \in 1..(i - 1) : chat.msgs[x].role = "user"}
        BY <2>3
    <2> QED
        BY <2>1, <2>4
<1> HIDE DEF p, k
<1>8. /\ chat.msgs[i].role = "user" /\ chat.msgs[i].of = {p}
      /\ \A x \in 1..i : ~chat.msgs[x].error
    BY <1>2, <1>3, <1>4, <1>5, <1>6
<1>9. /\ OpenTurn(chat', p, b) /\ Bare(chat', b) /\ Past(chat'.msgs, SubSeq(stored, 1, k), b)
      /\ SubSeq(stored, 1, k) \in Seq(Turn) /\ k \in Nat /\ k <= Len(stored)
      /\ Known(chat'.msgs, next) /\ p < next /\ chat'.busy /\ ~chat'.interrupted
    <2> DEFINE d == Rewound(chat, i)
    <2>1. /\ OpenTurn(d, p, b) /\ Bare(d, b) /\ Past(d.msgs, SubSeq(stored, 1, k), b)
          /\ SubSeq(stored, 1, k) \in Seq(Turn) /\ k \in Nat /\ k <= Len(stored)
          /\ Known(d.msgs, next) /\ p < next /\ d.busy /\ ~d.interrupted
        <3>1. /\ ChatOK(chat) /\ chat.stream = 0 /\ next \in Nat /\ Known(chat.msgs, next)
              /\ stored \in Seq(Turn) /\ Past(chat.msgs, stored, Len(chat.msgs))
            BY <1>1
        <3>2. /\ i \in DOMAIN chat.msgs /\ chat.msgs[i].role = "user"
              /\ \A x \in 1..i : ~chat.msgs[x].error
              /\ p \in Turn /\ chat.msgs[i].of = {p}
            BY <1>4, <1>6, <1>8
        <3> QED
            BY <1>7, <3>1, <3>2, RewoundOpen
    <2>2. chat' = d
        BY <1>2
    <2> HIDE DEF d
    <2> QED
        BY <2>1, <2>2
<1>16. k < Len(stored)
    <2>1. /\ chat'.msgs \in Seq(RowType) /\ b + 1 \in DOMAIN chat'.msgs
          /\ \A x \in 1..b : p \notin chat'.msgs[x].of
        BY <1>9, ChatFields DEF OpenTurn, OpenRows, IInv, ClientOK, ChatOK
    <2>2. b <= Len(chat'.msgs) /\ Len(stored) \in Nat
        BY <1>1, <1>4, <2>1
    <2>3. SUFFICES ASSUME k = Len(stored)
                   PROVE  FALSE
        BY <1>9, <2>2
    <2>4. SubSeq(stored, 1, k) = stored
        BY <1>1, <2>3
    <2>5. \A y \in DOMAIN stored : HasTurn(chat'.msgs, b, stored[y])
        BY <1>1, <1>4, <1>9, <2>1, <2>2, <2>4, PastAsks
    <2>6. PICK y \in DOMAIN stored : stored[y] = p
        BY <1>3 DEF ToSet
    <2> QED
        BY <2>1, <2>5, <2>6 DEF HasTurn
<1> HIDE DEF b
<1>10. restores' > 0 /\ restores' # 0
    BY <1>1, <1>2
<1>11. inbox'.turn = p /\ inbox'.cut /\ inbox'.keep = k /\ p # 0 /\ Held' /\ ~halt'
    <2>1. inbox'.turn = p /\ inbox'.cut /\ inbox'.keep = k
        BY <1>2 DEF p, k
    <2>2. p # 0
        BY <1>6 DEF Turn
    <2>3. ~halt'
        BY <1>1, <1>2 DEF Common, Still
    <2> QED
        BY <1>2, <1>9, <1>16, <2>1, <2>2, <2>3 DEF Held
<1>12. Outdated'
    BY <1>10 DEF Outdated, Late
<1>13. Common'
    BY <1>2, <1>9, <1>11 DEF Common
<1>14. CASE frames = <<>>
    <2>1. History' = SubSeq(stored, 1, k)
        BY <1>2, <1>11 DEF History
    <2>2. Asking(History, inbox.turn, b)'
        BY <1>2, <1>9, <1>10, <1>11, <1>12, <2>1 DEF Asking
    <2>3. Bare(chat, b)'
        BY <1>9 DEF b
    <2>4. inbox'.turn # 0 /\ run'.turn = 0 /\ frames' = <<>> /\ deltas' = {}
        BY <1>1, <1>2, <1>11, <1>14 DEF Still
    <2>5. History' \in Seq(Turn)
        BY <1>9, <2>1
    <2>6. Sent'
        BY <1>4, <1>11, <2>2, <2>3, <2>4, <2>5 DEF Sent, b
    <2> QED
        BY <1>13, <2>6 DEF After, Phase
<1>15. CASE frames # <<>>
    <2>1. frames[1].type = "idle"
        BY <1>15 DEF Rest
    <2>2. frames \in Seq(FrameRec) /\ Head(frames) = frames[1]
        BY <1>15, Types, TailPlaces
    <2>3. Late(Head(frames))'
        BY <1>10 DEF Late
    <2>4. Silent(chat')
        BY <1>9 DEF Bare, Silent
    <2>5. LateFrame'
        BY <1>2, <1>9, <1>11, <1>15, <2>1, <2>2, <2>3, <2>4 DEF LateFrame
    <2> QED
        BY <2>5 DEF After, Doomed
<1> QED
    BY <1>14, <1>15

(* The frame that reports the last turn over                               *)
LEMMA RestIdle ==
    ASSUME IInv, IInv', Common, Rest, OnFrame
    PROVE  After
<1>1. /\ frames # <<>> /\ frames' = Tail(frames) /\ Head(frames) = frames[1]
      /\ Len(frames) \in Nat /\ Len(frames') = Len(frames) - 1
      /\ UNCHANGED <<next, restores, halt, inbox, run, stored>>
    BY TakenOff
<1>2. Len(frames) = 1 /\ Head(frames).type = "idle"
    BY <1>1 DEF Rest
<1>3. OnIdle
    BY <1>2 DEF OnFrame, OnStart, OnDelta, OnTool, OnCompact, OnComplete, OnError
<1>4. frames' = <<>>
    <2>1. frames' \in Seq(FrameRec) /\ Len(frames') = 0
        BY <1>1, <1>2 DEF IInv, FramesOK
    <2> QED
        BY <2>1
<1>5. chat' = chat /\ reads' = reads /\ deltas' = deltas
    BY <1>3 DEF OnIdle, Idled, Silent, Rest, Still
<1>6. Common' /\ Rest'
    BY <1>1, <1>4, <1>5 DEF Common, Rest, Still, Current, Late
<1> QED
    BY <1>6 DEF After, Phase

(* The user goes on before a silent turn is shown                          *)
LEMMA SilenceUser ==
    ASSUME IInv, IInv', Silence, Submit \/ Restore
    PROVE  After
<1>1. PICK r \in reads : r.needle = {} /\ next = r.turn + 1
    BY DEF Silence
<1>2. next \in Nat /\ restores \in Nat /\ r.turn \in Nat
    BY Types
<1>3. Submit => reads' = reads /\ next' = next + 1
    BY DEF Submit
<1>4. Restore => reads' = reads /\ restores' = restores + 1
    BY DEF Restore
<1>5. r \in reads' /\ (next' > r.turn + 1 \/ restores' > 0)
    BY <1>1, <1>2, <1>3, <1>4
<1> QED
    BY <1>1, <1>5 DEF After, Doomed, LateLoad, Late

(* A chat at rest: nothing else can happen to it                           *)
LEMMA StillOnly ==
    ASSUME IInv, Common, Still, Next
    PROVE  \/ Submit \/ Restore \/ OnFrame \/ Snap \/ Apply \/ GiveUp
<1>1. ~Stop /\ ~FlushTimer
    BY DEF Still, Stop, FlushTimer
<1>2. ~Server
    BY DEF Still, Common, Server, SrvAccept, SrvRefuse, SrvText, SrvTool, SrvEnd, SrvComplete,
           SrvSilent, SrvFail, SrvStopped, SrvIgnore
<1> QED
    BY <1>1, <1>2 DEF Next

(* The steps of a chat at rest, and of one that has yet to show a silent    *)
(* turn                                                                    *)
LEMMA RestStep ==
    ASSUME IInv, IInv', ShapeOK, Common, Rest, Next, ~crossed',
           ~unread'
    PROVE  After
<1>1. \/ Submit \/ Restore \/ OnFrame \/ Snap \/ Apply \/ GiveUp
    BY StillOnly DEF Rest
<1> QED
    BY <1>1, RestSubmit, RestRestore, RestIdle, RestLoads

(* A silent turn is shown by its load, unless the user goes on first       *)
LEMMA SilenceStep ==
    ASSUME IInv, IInv', Common, Silence, Next, ~crossed',
           ~unread'
    PROVE  After
<1>1. \/ Submit \/ Restore \/ OnFrame \/ Snap \/ Apply \/ GiveUp
    BY StillOnly DEF Silence
<1>2. ~OnFrame
    BY TakenOff DEF Silence
<1> QED
    BY <1>1, <1>2, SilenceUser, RestLoads

(* The prompt waits for the server, and nothing else happens but loads     *)
LEMMA SentStep ==
    ASSUME IInv, IInv', Common, Sent, Next, ~crossed',
           ~unread'
    PROVE  After
<1>1. PICK b \in Nat : Asking(History, inbox.turn, b) /\ Bare(chat, b)
    BY DEF Sent
<1>2. /\ inbox.turn # 0 /\ run.turn = 0 /\ frames = <<>> /\ deltas = {} /\ Held
      /\ History \in Seq(Turn) /\ chat.busy /\ ~halt
    BY <1>1 DEF Sent, Asking, Common
<1>3. ~Submit /\ ~Stop /\ ~Restore /\ ~FlushTimer
    BY <1>2 DEF Submit, Stop, Restore, FlushTimer
<1>4. ~OnFrame
    BY <1>2, TakenOff
<1>5. ~SrvRefuse
    BY <1>2, Types DEF SrvRefuse, Held
<1>6. Server => SrvAccept
    BY <1>2, <1>5 DEF Server, SrvText, SrvTool, SrvEnd, SrvComplete,
                      SrvSilent, SrvFail, SrvStopped, SrvIgnore
<1>7. CASE SrvAccept
    <2>1. PICK p \in Turn : p = inbox.turn
        BY <1>2, Types DEF Turn
    <2>2. /\ run' = [turn |-> p, text |-> MaxText, tool |-> TRUE]
          /\ stored' = History /\ inbox' = NoPrompt
          /\ frames' = frames \o <<Frame("start", p, {})>>
          /\ UNCHANGED <<chat, deltas, reads, next, restores, halt>>
        BY <1>7, <2>1 DEF SrvAccept, History, Emit, clientVars
    <2>3. frames' = <<Frame("start", p, {})>>
        BY <1>2, <2>2
    <2>4. \A i \in DOMAIN frames' : frames'[i].type = "start" /\ Mid(frames'[i], p)
        <3>1. Frame("start", p, {}).type = "start" /\ Mid(Frame("start", p, {}), p)
            BY DEF Frame, Mid
        <3>2. \A i \in DOMAIN frames' : frames'[i] = Frame("start", p, {})
            BY <2>3
        <3> QED
            BY <3>1, <3>2
    <2>5. run'.turn = p /\ p # 0
        BY <2>2 DEF Turn
    <2>6. Quietly(b)'
        BY <1>1, <1>2, <2>2, <2>4 DEF Quietly
    <2>7. Client(stored, run.turn, b)'
        <3>1. Asking(stored, run.turn, b)'
            BY <1>1, <2>1, <2>2, <2>5 DEF Asking, Outdated, Late
        <3> QED
            BY <1>2, <2>2, <3>1 DEF Client, NoPrompt
    <2>8. Running'
        BY <2>4, <2>5, <2>6, <2>7 DEF Running
    <2>9. Common'
        BY <2>2 DEF Common
    <2> QED
        BY <2>8, <2>9 DEF After, Phase
<1>8. CASE Snap \/ Apply \/ GiveUp
    BY <1>8, WorkLoads
<1> QED
    BY <1>3, <1>4, <1>6, <1>7, <1>8 DEF Next

(* A turn in progress that the user does not stop                          *)
LEMMA ClientOnly ==
    ASSUME IInv, Common, NEW st, NEW p, NEW b, Client(st, p, b), Next, stops' = 0
    PROVE  \/ FlushTimer \/ OnFrame \/ Snap \/ Apply \/ GiveUp
           \/ run.turn # 0 /\ (SrvText \/ SrvTool \/ SrvComplete \/ SrvSilent \/ SrvFail)
<1>1. chat.busy /\ inbox.turn = 0 /\ ~halt /\ stops \in Nat
    BY Types DEF Client, Asking, Common
<1>2. ~Submit
    BY <1>1 DEF Submit
<1>3. ~Stop
    <2>1. Stop => stops' = stops + 1
        BY DEF Stop
    <2> QED
        BY <1>1, <2>1
<1>4. ~Restore
    <2>1. Restore => stops' = stops + 1
        BY <1>1 DEF Restore
    <2> QED
        BY <1>1, <2>1
<1>5. ~SrvAccept /\ ~SrvRefuse /\ ~SrvStopped /\ ~SrvIgnore
    BY <1>1 DEF SrvAccept, SrvRefuse, SrvStopped, SrvIgnore
<1>6. SrvText \/ SrvTool \/ SrvComplete \/ SrvSilent \/ SrvFail => run.turn # 0
    BY DEF SrvText, SrvTool, SrvEnd, SrvComplete, SrvSilent, SrvFail
<1> QED
    BY <1>2, <1>3, <1>4, <1>5, <1>6 DEF Next, Server

(* What the server sends leaves the client as it is                        *)
LEMMA ClientKept ==
    ASSUME NEW st, NEW p, NEW b, Client(st, p, b), Common, UNCHANGED clientVars,
           inbox' = inbox, halt' = halt
    PROVE  Client(st, p, b)' /\ Common'
<1>1. UNCHANGED <<chat, deltas, reads, next, restores>>
    BY DEF clientVars
<1>2. Asking(st, p, b)'
    BY <1>1 DEF Client, Asking, Outdated, Late
<1> QED
    BY <1>1, <1>2 DEF Client, Common

(* The last frames of a turn, behind the others                            *)
LEMMA EndsSent ==
    ASSUME FramesOK, NEW p, \A i \in DOMAIN frames : Mid(frames[i], p),
           NEW types, Len(types) \in Nat, NEW es \in Seq(FrameRec), Len(es) = Len(types),
           \A i \in 1..Len(types) : /\ es[i].turn = p /\ es[i].type = types[i]
                                    /\ types[i] = "complete" => es[i].of = {p},
           frames' = frames \o es, NEW n, n = Len(frames)
    PROVE  Ends(p, types, n)'
<1>1. /\ n \in Nat /\ Len(frames') = n + Len(types) /\ DOMAIN frames = 1..n
      /\ \A j \in 1..n : frames'[j] = frames[j]
      /\ \A j \in 1..Len(types) : frames'[n + j] = es[j]
    <2>1. frames \in Seq(FrameRec)
        BY DEF FramesOK
    <2>2. DOMAIN frames = 1..n
        BY <2>1
    <2>3. /\ Len(frames) \in Nat /\ Len(frames') = Len(frames) + Len(es)
          /\ \A j \in 1..Len(frames) : frames'[j] = frames[j]
          /\ \A j \in 1..Len(es) : frames'[Len(frames) + j] = es[j]
        BY <2>1, SentPlaces
    <2> QED
        BY <2>2, <2>3
<1>2. \A j \in 1..n : Mid(frames'[j], p)
    BY <1>1
<1> QED
    BY <1>1, <1>2 DEF Ends

(* Frames before the last ones are received first                          *)
LEMMA EndsTail ==
    ASSUME IInv, OnFrame, NEW p, NEW types, Len(types) \in Nat, NEW n, Ends(p, types, n), n # 0
    PROVE  Mid(Head(frames), p) /\ Ends(p, types, n - 1)' /\ n - 1 \in Nat
<1>1. /\ Head(frames) = frames[1] /\ Len(frames') = Len(frames) - 1 /\ Len(frames) \in Nat
      /\ \A j \in 1..(Len(frames) - 1) : frames'[j] = frames[j + 1]
    BY TakenOff
<1>2. /\ n \in Nat /\ Len(frames) = n + Len(types)
      /\ \A i \in 1..n : Mid(frames[i], p)
      /\ \A i \in 1..Len(types) : frames[n + i].turn = p /\ frames[n + i].type = types[i]
      /\ \A i \in 1..Len(types) : types[i] = "complete" => frames[n + i].of = {p}
    BY DEF Ends
<1>3. /\ n - 1 \in Nat /\ 1 \in 1..n
      /\ \A i \in 1..(n - 1) : i + 1 \in 1..n /\ i \in 1..(Len(frames) - 1)
      /\ \A i \in 1..Len(types) :
            (n - 1) + i \in 1..(Len(frames) - 1) /\ ((n - 1) + i) + 1 = n + i
      /\ Len(frames) - 1 = (n - 1) + Len(types)
    BY <1>1, <1>2
<1>4. \A i \in 1..(n - 1) : frames'[i] = frames[i + 1] /\ Mid(frames'[i], p)
    BY <1>1, <1>2, <1>3
<1>5. \A i \in 1..Len(types) : frames'[(n - 1) + i] = frames[n + i]
    BY <1>1, <1>3
<1>6. Ends(p, types, n - 1)'
    BY <1>1, <1>2, <1>3, <1>4, <1>5 DEF Ends
<1> QED
    BY <1>1, <1>2, <1>3, <1>6

(* The turn that runs, up to its last frames                               *)
LEMMA RunningClient ==
    ASSUME IInv, IInv', Common, Running, FlushTimer \/ OnFrame
    PROVE  After
<1>1. PICK st \in Seq(Turn), p \in Turn, b \in Nat :
         /\ st = stored /\ p = run.turn /\ Client(st, p, b) /\ (Fresh(run) => Quietly(b))
    <2>1. stored \in Seq(Turn) /\ run.turn \in Turn
        BY Types DEF Running, Turn
    <2> QED
        BY <2>1 DEF Running
<1>2. p # 0 /\ \A i \in DOMAIN frames : Mid(frames[i], p)
    BY <1>1 DEF Running
<1>3. CASE FlushTimer
    <2>1. deltas # {} /\ UNCHANGED <<frames, run, stored>>
        BY <1>3 DEF FlushTimer, serverVars
    <2>2. Common' /\ Client(st, p, b)'
        BY <1>1, <1>3, ClientFrame
    <2>3. ~Fresh(run)
        BY <1>1, <2>1 DEF Quietly
    <2>4. Running'
        BY <1>1, <1>2, <2>1, <2>2, <2>3 DEF Running
    <2> QED
        BY <2>2, <2>4 DEF After, Phase
<1>4. CASE OnFrame
    <2>1. /\ frames # <<>> /\ frames' = Tail(frames) /\ Head(frames) = frames[1]
          /\ 1 \in DOMAIN frames /\ Len(frames) \in Nat /\ Len(frames') = Len(frames) - 1
          /\ \A j \in 1..(Len(frames) - 1) : frames'[j] = frames[j + 1]
          /\ run' = run /\ stored' = stored
        BY <1>4, TakenOff
    <2>2. Mid(Head(frames), p)
        BY <1>2, <2>1
    <2>3. Common' /\ Client(st, p, b)'
        BY <1>1, <1>4, <2>2, ClientFrame
    <2>4. \A i \in DOMAIN frames' : Mid(frames'[i], p)
        <3>1. DOMAIN frames' = 1..(Len(frames) - 1) /\ DOMAIN frames = 1..Len(frames)
            <4>1. frames \in Seq(FrameRec) /\ frames' \in Seq(FrameRec)
                BY DEF IInv, FramesOK
            <4> QED
                BY <2>1, <4>1
        <3>2. \A j \in 1..(Len(frames) - 1) : j + 1 \in 1..Len(frames)
            BY <2>1
        <3> QED
            BY <1>2, <2>1, <3>1, <3>2
    <2>5. Fresh(run) => Quietly(b)'
        <3>1. Fresh(run) => Head(frames).type = "start" /\ Quietly(b)
            BY <1>1, <2>1, <2>2 DEF Quietly, Mid
        <3>2. Head(frames).type = "start" => OnStart
            BY <1>4 DEF OnFrame, OnDelta, OnTool, OnCompact, OnComplete, OnError, OnIdle
        <3> QED
            BY <1>4, <3>1, <3>2, QuietFrame
    <2>6. Running'
        BY <1>1, <1>2, <2>1, <2>3, <2>4, <2>5 DEF Running
    <2> QED
        BY <2>3, <2>6 DEF After, Phase
<1> QED
    BY <1>3, <1>4

(* The turn that runs, as far as the server goes                           *)
LEMMA RunningServer ==
    ASSUME IInv, IInv', Common, Running,
           SrvText \/ SrvTool \/ SrvComplete \/ SrvSilent \/ SrvFail
    PROVE  After
<1>1. PICK st \in Seq(Turn), p \in Turn, b \in Nat, n \in Nat :
         /\ st = stored /\ p = run.turn /\ Client(st, p, b) /\ (Fresh(run) => Quietly(b))
         /\ n = Len(frames)
    <2>1. Len(frames) \in Nat
        BY Types
    <2> QED
        BY SMTT(30), <2>1, Types DEF Running, Turn
<1>2. /\ p # 0 /\ \A i \in DOMAIN frames : Mid(frames[i], p)
      /\ FramesOK /\ frames \in Seq(FrameRec) /\ DOMAIN frames = 1..n
      /\ run \in [turn : 0..Turns, text : 0..MaxText, tool : BOOLEAN]
    <2>1. frames \in Seq(FrameRec) /\ n = Len(frames)
        BY <1>1, Types
    <2>2. DOMAIN frames = 1..n
        BY <2>1
    <2> QED
        BY <1>1, <2>1, <2>2 DEF Running, IInv, ServerOK
<1>3. UNCHANGED clientVars /\ inbox' = inbox /\ halt' = halt
    BY DEF SrvText, SrvTool, SrvEnd, SrvComplete, SrvSilent, SrvFail
<1>4. Client(st, p, b)' /\ Common'
    BY <1>1, <1>3, ClientKept
<1>5. \A k \in Kinds, of \in SUBSET {p} :
         /\ Frame(k, p, of) \in FrameRec /\ Frame(k, p, of).type = k
         /\ Frame(k, p, of).turn = p /\ Frame(k, p, of).of = of
    BY FrameIs
<1>6. {} \in SUBSET {p} /\ {p} \in SUBSET {p}
    OBVIOUS
<1>7. ASSUME NEW k \in {"delta", "tool", "compact"}, NEW of \in SUBSET {p},
             frames' = frames \o <<Frame(k, p, of)>>, run'.turn = p, ~Fresh(run'),
             stored' = stored
      PROVE  After
    <2> DEFINE f == Frame(k, p, of)
    <2>1. k \in Kinds
        BY DEF Kinds
    <2>2. f \in FrameRec /\ Mid(f, p)
        BY <1>5, <2>1 DEF Mid
    <2> HIDE DEF f
    <2>3. <<f>> \in Seq(FrameRec) /\ Len(<<f>>) = 1 /\ <<f>>[1] = f
        BY <2>2
    <2>4. frames' = frames \o <<f>>
        BY <1>7 DEF f
    <2>5. /\ Len(frames) \in Nat /\ Len(frames') = Len(frames) + 1
          /\ \A j \in 1..Len(frames) : frames'[j] = frames[j]
          /\ \A j \in 1..1 : frames'[Len(frames) + j] = f
          /\ frames' \in Seq(FrameRec)
        BY <1>2, <2>3, <2>4, SentPlaces
    <2>6. DOMAIN frames' = 1..(n + 1) /\ frames'[n + 1] = f
        BY <1>1, <2>5
    <2>7. \A j \in 1..(n + 1) : j \in 1..n \/ j = n + 1
        OBVIOUS
    <2>8. \A i \in DOMAIN frames' : Mid(frames'[i], run'.turn)
        BY <1>1, <1>2, <1>7, <2>2, <2>5, <2>6, <2>7
    <2>9. Running'
        BY <1>1, <1>2, <1>4, <1>7, <2>8 DEF Running
    <2> QED
        BY <1>4, <2>9 DEF After, Phase
<1>8. CASE SrvText
    <2>1. /\ frames' = frames \o <<Frame("delta", p, {p})>> /\ stored' = stored
          /\ run.text > 0 /\ run' = [run EXCEPT !.text = @ - 1]
        BY <1>1, <1>8 DEF SrvText, Emit
    <2>2. run'.turn = p /\ run'.text = run.text - 1
        BY <1>1, <1>2, <2>1
    <2>3. ~Fresh(run')
        <3>1. run.text \in 0..MaxText /\ MaxText \in Nat
            BY <1>2, StreamAssumption
        <3>2. run'.text # MaxText
            BY <2>1, <2>2, <3>1
        <3> QED
            BY <1>2, <2>2, <3>2 DEF Fresh
    <2> QED
        BY <1>6, <1>7, <2>1, <2>2, <2>3
<1>9. CASE SrvTool
    <2>1. PICK k \in {"tool", "compact"} :
             frames' = frames \o <<Frame(k, p, {})>>
        BY <1>1, <1>9 DEF SrvTool, Emit
    <2>2. stored' = stored /\ run' = [run EXCEPT !.tool = FALSE]
        BY <1>9 DEF SrvTool
    <2>3. run'.turn = p /\ ~Fresh(run')
        BY <1>1, <1>2, <2>2 DEF Fresh
    <2> QED
        BY <1>6, <1>7, <2>1, <2>2, <2>3
<1>10. NoRun.turn = 0
    BY DEF NoRun
<1>11. CASE SrvComplete \/ SrvFail
    <2>1. PICK k \in {"complete", "error"}, of \in SUBSET {p} :
             /\ frames' = frames \o <<Frame(k, p, of), Frame("idle", p, {})>>
             /\ run' = NoRun
             /\ k = "complete" => of = {p} /\ stored' = Append(stored, p)
             /\ k = "error" => stored' = stored
        <3>1. CASE SrvComplete
            <4>1. /\ frames' = frames \o Append(<<Frame("complete", p, {p})>>, Frame("idle", p, {}))
                  /\ run' = NoRun /\ stored' = Append(stored, p)
                BY <1>1, <3>1 DEF SrvComplete, SrvEnd, Emit
            <4>2. \A f, g : Append(<<f>>, g) = <<f, g>>
                BY PairIs
            <4> QED
                BY <1>6, <4>1, <4>2
        <3>2. CASE SrvFail
            <4>1. /\ frames' = frames \o Append(<<Frame("error", p, {})>>, Frame("idle", p, {}))
                  /\ run' = NoRun /\ stored' = stored
                BY <1>1, <3>2 DEF SrvFail, SrvEnd, Emit
            <4>2. \A f, g : Append(<<f>>, g) = <<f, g>>
                BY PairIs
            <4> QED
                BY <1>6, <4>1, <4>2
        <3> QED
            BY <1>11, <3>1, <3>2
    <2> DEFINE f == Frame(k, p, of)
               g == Frame("idle", p, {})
               es == <<f, g>>
               types == <<k, "idle">>
    <2>2. /\ f \in FrameRec /\ f.type = k /\ f.turn = p /\ f.of = of
          /\ g \in FrameRec /\ g.type = "idle" /\ g.turn = p
        BY <1>5, <1>6 DEF Kinds
    <2>3. frames' = frames \o es
        BY <2>1
    <2> HIDE DEF f, g
    <2>4. /\ es \in Seq(FrameRec) /\ Len(es) = 2 /\ Len(types) = 2
          /\ es[1] = f /\ es[2] = g /\ types[1] = k /\ types[2] = "idle"
        BY <2>2
    <2>5. \A i \in 1..2 : i = 1 \/ i = 2
        OBVIOUS
    <2>6. \A i \in 1..Len(types) : /\ es[i].turn = p /\ es[i].type = types[i]
                                   /\ types[i] = "complete" => es[i].of = {p}
        BY <2>1, <2>2, <2>4, <2>5
    <2> HIDE DEF es
    <2>7. Ends(p, types, n)'
        <3> HIDE DEF types
        <3>1. Len(types) \in Nat /\ Len(es) = Len(types)
            BY <2>4
        <3> QED
            BY <1>1, <1>2, <2>3, <2>4, <2>6, <3>1, EndsSent
    <2>8. CASE k = "complete"
        <3>1. stored' = Append(st, p)
            BY <1>1, <2>1, <2>8
        <3>2. Completing'
            BY <1>4, <1>10, <2>1, <2>7, <2>8, <3>1 DEF Completing
        <3> QED
            BY <1>4, <3>2 DEF After, Phase
    <2>9. CASE k = "error"
        <3>1. stored' = st
            BY <1>1, <2>1, <2>9
        <3>2. Failing'
            BY <1>4, <1>10, <2>1, <2>7, <2>9, <3>1 DEF Failing
        <3> QED
            BY <1>4, <3>2 DEF After, Phase
    <2> QED
        BY <2>8, <2>9
<1>12. CASE SrvSilent
    <2> DEFINE g == Frame("idle", p, {})
               es == <<g>>
               types == <<"idle">>
    <2>1. /\ frames' = frames \o Append(<<>>, g) /\ run' = NoRun
          /\ stored' = Append(stored, p) /\ Fresh(run)
        BY <1>1, <1>12 DEF SrvSilent, SrvEnd, Emit, Fresh
    <2>2. g \in FrameRec /\ g.type = "idle" /\ g.turn = p
        BY <1>5, <1>6 DEF Kinds
    <2> HIDE DEF g
    <2>3. frames' = frames \o es
        BY <2>1
    <2>4. /\ es \in Seq(FrameRec) /\ Len(es) = 1 /\ Len(types) = 1
          /\ es[1] = g /\ types[1] = "idle"
        BY <2>2
    <2>5. \A i \in 1..1 : i = 1
        OBVIOUS
    <2>6. \A i \in 1..Len(types) : /\ es[i].turn = p /\ es[i].type = types[i]
                                   /\ types[i] = "complete" => es[i].of = {p}
        BY <2>2, <2>4, <2>5
    <2> HIDE DEF es
    <2>7. Ends(p, types, n)'
        <3> HIDE DEF types
        <3>1. Len(types) \in Nat /\ Len(es) = Len(types)
            BY <2>4
        <3> QED
            BY <1>1, <1>2, <2>3, <2>4, <2>6, <3>1, EndsSent
    <2>8. Quietly(b)'
        <3>1. Quietly(b)
            BY <1>1, <2>1
        <3>2. chat' = chat /\ deltas' = deltas
            BY <1>3 DEF clientVars
        <3>3. /\ Len(frames) \in Nat /\ Len(frames') = Len(frames) + Len(es)
              /\ \A j \in 1..Len(frames) : frames'[j] = frames[j]
              /\ \A j \in 1..Len(es) : frames'[Len(frames) + j] = es[j]
              /\ frames' \in Seq(FrameRec)
            <4> HIDE DEF types
            <4>1. es \in Seq(FrameRec)
                BY <2>4
            <4> QED
                BY <1>2, <2>3, <4>1, SentPlaces
        <3>9. 1 \in 1..Len(es)
            BY <2>4
        <3>4. DOMAIN frames' = 1..(n + 1) /\ frames'[n + 1] = g
            BY <1>1, <2>4, <3>3, <3>9
        <3>5. \A j \in 1..(n + 1) : j \in 1..n \/ j = n + 1
            OBVIOUS
        <3>6. \A i \in DOMAIN frames' : frames'[i].type \in {"start", "idle"}
            BY <1>1, <1>2, <2>2, <3>1, <3>3, <3>4, <3>5 DEF Quietly
        <3> QED
            BY <3>1, <3>2, <3>6 DEF Quietly
    <2>9. stored' = Append(st, p)
        BY <1>1, <2>1
    <2>10. Silencing'
        BY <1>4, <1>10, <2>1, <2>7, <2>8, <2>9 DEF Silencing
    <2> QED
        BY <1>4, <2>10 DEF After, Phase
<1> QED
    BY <1>8, <1>9, <1>11, <1>12

(* A turn that runs goes on, or ends                                       *)
LEMMA RunningStep ==
    ASSUME IInv, IInv', Common, Running, Next, ~crossed', ~unread',
           stops' = 0
    PROVE  After
<1>1. PICK b \in Nat : Client(stored, run.turn, b)
    BY DEF Running
<1>2. \/ FlushTimer \/ OnFrame \/ Snap \/ Apply \/ GiveUp
      \/ SrvText \/ SrvTool \/ SrvComplete \/ SrvSilent \/ SrvFail
    BY <1>1, ClientOnly
<1> QED
    BY <1>2, RunningClient, RunningServer, WorkLoads

(* Before its last frames, a turn that has ended goes on for the client    *)
LEMMA BeforeEnd ==
    ASSUME IInv, IInv', Common, NEW st \in Seq(Turn), NEW p \in Turn, NEW b \in Nat,
           Client(st, p, b), NEW types, Len(types) \in Nat, NEW n \in Nat, Ends(p, types, n),
           FlushTimer \/ (OnFrame /\ n # 0)
    PROVE  /\ Common' /\ Client(st, p, b)' /\ run' = run /\ stored' = stored
           /\ \E m \in Nat : Ends(p, types, m)'
           /\ OnFrame => Mid(Head(frames), p)
<1>1. CASE FlushTimer
    <2>1. UNCHANGED <<frames, run, stored>>
        BY <1>1 DEF FlushTimer, serverVars
    <2>2. Common' /\ Client(st, p, b)'
        BY <1>1, ClientFrame
    <2>3. Ends(p, types, n)'
        BY <2>1 DEF Ends
    <2>4. ~OnFrame
        <3>1. OnFrame => frames' = Tail(frames) /\ Len(frames') = Len(frames) - 1
                         /\ Len(frames) \in Nat
            BY TakenOff
        <3> QED
            BY <2>1, <3>1
    <2> QED
        BY <2>1, <2>2, <2>3, <2>4
<1>2. CASE OnFrame /\ n # 0
    <2>1. Mid(Head(frames), p) /\ Ends(p, types, n - 1)' /\ n - 1 \in Nat
        BY <1>2, EndsTail
    <2>2. Common' /\ Client(st, p, b)'
        BY <1>2, <2>1, ClientFrame
    <2>3. run' = run /\ stored' = stored
        BY <1>2, TakenOff
    <2> QED
        BY <2>1, <2>2, <2>3
<1> QED
    BY <1>1, <1>2

(* The next frame is the first of the last ones                            *)
LEMMA EndsHead ==
    ASSUME IInv, OnFrame, NEW p, NEW types, Len(types) \in Nat \ {0}, Ends(p, types, 0)
    PROVE  /\ Head(frames).turn = p /\ Head(frames).type = types[1]
           /\ types[1] = "complete" => Head(frames).of = {p}
           /\ Len(frames') = Len(types) - 1
           /\ \A i \in 1..(Len(types) - 1) : /\ frames'[i].turn = p
                                             /\ frames'[i].type = types[i + 1]
<1>1. /\ Head(frames) = frames[1] /\ Len(frames') = Len(frames) - 1 /\ Len(frames) \in Nat
      /\ \A j \in 1..(Len(frames) - 1) : frames'[j] = frames[j + 1]
    BY TakenOff
<1>2. \A i \in 1..Len(types) : 0 + i = i
    OBVIOUS
<1>3. /\ Len(frames) = Len(types)
      /\ \A i \in 1..Len(types) : frames[i].turn = p /\ frames[i].type = types[i]
      /\ \A i \in 1..Len(types) : types[i] = "complete" => frames[i].of = {p}
    BY <1>2 DEF Ends
<1>4. 1 \in 1..Len(types) /\ \A i \in 1..(Len(types) - 1) : i + 1 \in 1..Len(types)
    OBVIOUS
<1> QED
    BY <1>1, <1>3, <1>4

(* A chat whose turn has just ended is at rest                             *)
LEMMA EndedRest ==
    ASSUME IInv, IInv', Common, NEW st, NEW p \in Turn, NEW b, Asking(st, p, b),
           inbox.turn = 0, run.turn = 0,
           UNCHANGED <<next, restores, halt, inbox, run>>,
           Known(chat'.msgs, next), Past(chat'.msgs, stored', Len(chat'.msgs)),
           deltas' = {}, chat'.stream = 0, ~chat'.busy, ~chat'.awaiting, ~chat'.interrupted,
           Len(frames') = 1, frames'[1].type = "idle", frames'[1].turn = p,
           \A r \in reads' : r \in reads \/ (r.turn = p /\ ~r.done)
    PROVE  After
<1>1. Outdated /\ p < next
    BY DEF Asking
<1>2. Common'
    BY <1>1 DEF Common
<1>3. Current'
    BY <1>1 DEF Current, Outdated, Late
<1>4. Rest'
    BY <1>1, <1>3 DEF Rest, Still
<1> QED
    BY <1>2, <1>4 DEF After, Phase

(* The frame that completes a turn                                         *)
LEMMA CompleteRest ==
    ASSUME IInv, IInv', Common, run.turn = 0, NEW st \in Seq(Turn), NEW p \in Turn, NEW b \in Nat,
           stored = Append(st, p), Client(st, p, b), Ends(p, <<"complete", "idle">>, 0), OnFrame
    PROVE  After
<1> DEFINE types == <<"complete", "idle">>
<1>1. /\ Len(types) \in Nat \ {0} /\ types[1] = "complete" /\ Len(types) - 1 = 1
      /\ types[1 + 1] = "idle" /\ 1 \in 1..(Len(types) - 1)
    OBVIOUS
<1>2. Ends(p, types, 0)
    OBVIOUS
<1> HIDE DEF types
<1>3. /\ Head(frames).turn = p /\ Head(frames).type = "complete" /\ Head(frames).of = {p}
      /\ Len(frames') = 1 /\ frames'[1].turn = p /\ frames'[1].type = "idle"
    <2>1. Len(types) \in Nat \ {0}
        BY <1>1
    <2>2. /\ Head(frames).turn = p /\ Head(frames).type = types[1]
          /\ types[1] = "complete" => Head(frames).of = {p}
          /\ Len(frames') = Len(types) - 1
          /\ \A i \in 1..(Len(types) - 1) : /\ frames'[i].turn = p
                                            /\ frames'[i].type = types[i + 1]
        BY <1>2, <2>1, EndsHead
    <2> QED
        BY <1>1, <2>2
<1>4. OnComplete
    BY <1>3 DEF OnFrame, OnStart, OnDelta, OnTool, OnCompact, OnError, OnIdle
<1> DEFINE c == Flushed
           d == Completed(c, {p})
<1>5. /\ chat' = d /\ deltas' = {}
      /\ \A r \in reads' : r \in reads \/ r = Read({p}, p)
    BY <1>3, <1>4 DEF OnComplete
<1>6. /\ Asking(st, p, b) /\ OpenTurn(chat, p, b) /\ deltas \subseteq {p} /\ inbox.turn = 0
      /\ Past(chat.msgs, st, b) /\ p < next
    BY DEF Client, Asking
<1>7. /\ OpenTurn(c, p, b) /\ Grown(chat.msgs, c.msgs, p, b) /\ ChatOK(c) /\ ~c.interrupted
    BY <1>6, FlushedOpen
<1>8. /\ Grown(c.msgs, d.msgs, p, b)
      /\ Past(c.msgs, st, b) => Past(d.msgs, Append(st, p), Len(d.msgs))
    BY <1>7, CompletedOpen
<1>9. /\ ChatOK(d) /\ d.stream = 0 /\ ~d.busy /\ ~d.awaiting /\ ~d.interrupted
    <2>1. {p} \in SUBSET Turn /\ Single({p})
        BY DEF Single
    <2> QED
        BY <1>7, <2>1, CompletedOK
<1> HIDE DEF c, d
<1>10. /\ chat.msgs \in Seq(RowType) /\ c.msgs \in Seq(RowType) /\ d.msgs \in Seq(RowType)
       /\ b + 1 <= Len(chat.msgs) /\ b + 1 <= Len(c.msgs) /\ next \in Nat
       /\ Known(chat.msgs, next)
    <2>1. /\ chat.msgs \in Seq(RowType) /\ c.msgs \in Seq(RowType) /\ d.msgs \in Seq(RowType)
          /\ next \in Nat
        BY <1>7, <1>9, Types, ChatFields DEF ChatOK
    <2>2. b + 1 <= Len(chat.msgs) /\ b + 1 <= Len(c.msgs)
        BY <1>6, <1>7, <2>1 DEF OpenTurn, OpenRows
    <2> QED
        BY <2>1, <2>2 DEF Common
<1>11. Known(c.msgs, next) /\ Past(c.msgs, st, b)
    BY <1>6, <1>7, <1>10, GrownOK
<1>12. Known(d.msgs, next)
    BY <1>6, <1>8, <1>10, <1>11, GrownOK
<1>13. UNCHANGED <<next, restores, halt, inbox, run, stored>>
    BY TakenOff
<1>14. Past(chat'.msgs, stored', Len(chat'.msgs))
    BY <1>5, <1>8, <1>11, <1>13
<1>15. Read({p}, p).turn = p /\ ~Read({p}, p).done
    BY DEF Read
<1> QED
    BY <1>3, <1>5, <1>6, <1>9, <1>12, <1>13, <1>14, <1>15, EndedRest

(* The frame that fails a turn                                             *)
LEMMA FailRest ==
    ASSUME IInv, IInv', Common, run.turn = 0, NEW st \in Seq(Turn), NEW p \in Turn, NEW b \in Nat,
           st = stored, Client(st, p, b), Ends(p, <<"error", "idle">>, 0), OnFrame
    PROVE  After
<1> DEFINE types == <<"error", "idle">>
<1>1. /\ Len(types) \in Nat \ {0} /\ types[1] = "error" /\ Len(types) - 1 = 1
      /\ types[1 + 1] = "idle" /\ 1 \in 1..(Len(types) - 1)
    OBVIOUS
<1>2. Ends(p, types, 0)
    OBVIOUS
<1> HIDE DEF types
<1>3. /\ Head(frames).turn = p /\ Head(frames).type = "error"
      /\ Len(frames') = 1 /\ frames'[1].turn = p /\ frames'[1].type = "idle"
    <2>1. Len(types) \in Nat \ {0}
        BY <1>1
    <2>2. /\ Head(frames).turn = p /\ Head(frames).type = types[1]
          /\ types[1] = "complete" => Head(frames).of = {p}
          /\ Len(frames') = Len(types) - 1
          /\ \A i \in 1..(Len(types) - 1) : /\ frames'[i].turn = p
                                            /\ frames'[i].type = types[i + 1]
        BY <1>2, <2>1, EndsHead
    <2> QED
        BY <1>1, <2>2
<1>4. OnError
    BY <1>3 DEF OnFrame, OnStart, OnDelta, OnTool, OnCompact, OnComplete, OnIdle
<1> DEFINE c == Flushed
           d == Failed(c)
<1>5. chat' = d /\ deltas' = {} /\ reads' = reads
    BY <1>4 DEF OnError
<1>6. /\ Asking(st, p, b) /\ OpenTurn(chat, p, b) /\ deltas \subseteq {p} /\ inbox.turn = 0
      /\ Past(chat.msgs, st, b) /\ p < next
    BY DEF Client, Asking
<1>7. /\ OpenTurn(c, p, b) /\ Grown(chat.msgs, c.msgs, p, b) /\ ChatOK(c) /\ ~c.interrupted
    BY <1>6, FlushedOpen
<1>8. /\ Grown(c.msgs, d.msgs, p, b)
      /\ Past(c.msgs, st, b) => Past(d.msgs, st, Len(d.msgs))
    BY <1>7, FailedOpen
<1>9. /\ ChatOK(d) /\ d.stream = 0 /\ ~d.busy /\ ~d.awaiting /\ ~d.interrupted
    BY <1>7, FailedOK
<1> HIDE DEF c, d
<1>10. /\ chat.msgs \in Seq(RowType) /\ c.msgs \in Seq(RowType) /\ d.msgs \in Seq(RowType)
       /\ b + 1 <= Len(chat.msgs) /\ b + 1 <= Len(c.msgs) /\ next \in Nat
       /\ Known(chat.msgs, next)
    <2>1. /\ chat.msgs \in Seq(RowType) /\ c.msgs \in Seq(RowType) /\ d.msgs \in Seq(RowType)
          /\ next \in Nat
        BY <1>7, <1>9, Types, ChatFields DEF ChatOK
    <2>2. b + 1 <= Len(chat.msgs) /\ b + 1 <= Len(c.msgs)
        BY <1>6, <1>7, <2>1 DEF OpenTurn, OpenRows
    <2> QED
        BY <2>1, <2>2 DEF Common
<1>11. Known(c.msgs, next) /\ Past(c.msgs, st, b)
    BY <1>6, <1>7, <1>10, GrownOK
<1>12. Known(d.msgs, next)
    BY <1>6, <1>8, <1>10, <1>11, GrownOK
<1>13. UNCHANGED <<next, restores, halt, inbox, run, stored>>
    BY TakenOff
<1>14. Past(chat'.msgs, stored', Len(chat'.msgs))
    BY <1>5, <1>8, <1>11, <1>13
<1> QED
    BY <1>3, <1>5, <1>6, <1>9, <1>12, <1>13, <1>14, EndedRest

(* A turn that has answered: its last frames reach the client              *)
LEMMA CompletingStep ==
    ASSUME IInv, IInv', Common, Completing, Next, ~crossed', ~unread',
           stops' = 0
    PROVE  After
<1>1. PICK st \in Seq(Turn), p \in Turn, b \in Nat, n \in Nat :
         stored = Append(st, p) /\ Client(st, p, b) /\ Ends(p, <<"complete", "idle">>, n)
    BY DEF Completing
<1>2. run.turn = 0
    BY DEF Completing
<1>3. FlushTimer \/ OnFrame \/ Snap \/ Apply \/ GiveUp
    BY <1>1, <1>2, ClientOnly
<1>4. CASE FlushTimer \/ (OnFrame /\ n # 0)
    <2>1. Len(<<"complete", "idle">>) \in Nat
        OBVIOUS
    <2>2. /\ Common' /\ Client(st, p, b)' /\ run' = run /\ stored' = stored
          /\ \E m \in Nat : Ends(p, <<"complete", "idle">>, m)'
        BY <1>1, <1>4, <2>1, BeforeEnd
    <2>3. Completing'
        BY <1>1, <1>2, <2>2 DEF Completing
    <2> QED
        BY <2>2, <2>3 DEF After, Phase
<1>5. CASE OnFrame /\ n = 0
    BY <1>1, <1>2, <1>5, CompleteRest
<1>6. CASE Snap \/ Apply \/ GiveUp
    BY <1>6, WorkLoads
<1> QED
    BY <1>3, <1>4, <1>5, <1>6

(* A turn that has failed                                                  *)
LEMMA FailingStep ==
    ASSUME IInv, IInv', Common, Failing, Next, ~crossed', ~unread',
           stops' = 0
    PROVE  After
<1>1. PICK st \in Seq(Turn), p \in Turn, b \in Nat, n \in Nat :
         st = stored /\ Client(st, p, b) /\ Ends(p, <<"error", "idle">>, n)
    BY Types DEF Failing
<1>2. run.turn = 0
    BY DEF Failing
<1>3. FlushTimer \/ OnFrame \/ Snap \/ Apply \/ GiveUp
    BY <1>1, <1>2, ClientOnly
<1>4. CASE FlushTimer \/ (OnFrame /\ n # 0)
    <2>1. Len(<<"error", "idle">>) \in Nat
        OBVIOUS
    <2>2. /\ Common' /\ Client(st, p, b)' /\ run' = run /\ stored' = stored
          /\ \E m \in Nat : Ends(p, <<"error", "idle">>, m)'
        BY <1>1, <1>4, <2>1, BeforeEnd
    <2>3. Failing'
        BY <1>1, <1>2, <2>2 DEF Failing
    <2> QED
        BY <2>2, <2>3 DEF After, Phase
<1>5. CASE OnFrame /\ n = 0
    BY <1>1, <1>2, <1>5, FailRest
<1>6. CASE Snap \/ Apply \/ GiveUp
    BY <1>6, WorkLoads
<1> QED
    BY <1>3, <1>4, <1>5, <1>6

(* The frame that reports a turn over that showed nothing: its load starts *)
LEMMA SilentIdle ==
    ASSUME IInv, IInv', Common, run.turn = 0, NEW st \in Seq(Turn), NEW p \in Turn, NEW b \in Nat,
           stored = Append(st, p), Client(st, p, b), Quietly(b), Ends(p, <<"idle">>, 0), OnFrame
    PROVE  After
<1> DEFINE types == <<"idle">>
<1>1. Len(types) = 1 /\ types[1] = "idle"
    OBVIOUS
<1>2. Ends(p, types, 0)
    OBVIOUS
<1> HIDE DEF types
<1>3. /\ Head(frames).turn = p /\ Head(frames).type = "idle" /\ Len(frames') = 0
    <2>1. Len(types) \in Nat \ {0}
        BY <1>1
    <2>2. /\ Head(frames).turn = p /\ Head(frames).type = types[1]
          /\ Len(frames') = Len(types) - 1
        BY <1>2, <2>1, EndsHead
    <2> QED
        BY <1>1, <2>2
<1>4. OnIdle
    BY <1>3 DEF OnFrame, OnStart, OnDelta, OnTool, OnCompact, OnComplete, OnError
<1>5. /\ Asking(st, p, b) /\ OpenTurn(chat, p, b) /\ inbox.turn = 0 /\ chat.busy /\ Outdated
      /\ Past(chat.msgs, st, b) /\ p < next /\ (restores = 0 => next = p + 1)
    BY DEF Client, Asking
<1>6. Bare(chat, b) /\ deltas = {} /\ chat.stream = 0 /\ Len(chat.msgs) = b + 1 /\ Silent(chat)
    BY DEF Quietly, Bare, Silent
<1> DEFINE r == Read({}, p)
<1>7. chat' = Settled(chat) /\ reads' = reads \cup {r} /\ deltas' = deltas
    BY <1>3, <1>4, <1>5, <1>6 DEF OnIdle, Idled
<1>8. /\ chat'.msgs = chat.msgs /\ chat'.stream = 0 /\ ~chat'.busy /\ ~chat'.awaiting
      /\ chat'.interrupted = chat.interrupted
    BY <1>7, Types, SettledOK DEF ChatOK
<1>9. UNCHANGED <<next, restores, halt, inbox, run, stored>>
    BY TakenOff
<1>10. r.needle = {} /\ r.turn = p /\ ~r.done
    BY DEF Read
<1> HIDE DEF r
<1>11. frames' = <<>>
    <2>1. frames' \in Seq(FrameRec)
        BY DEF IInv, FramesOK
    <2> QED
        BY <1>3, <2>1
<1>12. restores \in Nat
    BY Types
<1>13. CASE restores > 0
    <2>1. LateLoad'
        BY <1>7, <1>9, <1>10, <1>13 DEF LateLoad, Late
    <2> QED
        BY <2>1 DEF After, Doomed
<1>14. CASE restores = 0
    <2>1. Common'
        BY <1>5, <1>7, <1>8, <1>9, <1>10 DEF Common
    <2>2. Still' /\ Current'
        BY <1>5, <1>6, <1>7, <1>8, <1>9, <1>10 DEF Still, Current, Outdated, Late
    <2>3. OpenTurn(chat', p, b)
        BY <1>5, <1>6, <1>8 DEF OpenTurn
    <2>4. /\ stored' = Append(st, p) /\ Len(chat'.msgs) = b + 1
          /\ Past(chat'.msgs, st, b)
        BY <1>5, <1>6, <1>8, <1>9
    <2>5. \E t \in reads' : t.needle = {} /\ next' = t.turn + 1
        BY <1>5, <1>7, <1>9, <1>10, <1>14
    <2>6. restores' = 0
        BY <1>9, <1>14
    <2>7. Silence'
        BY <1>11, <2>2, <2>3, <2>4, <2>5, <2>6 DEF Silence
    <2> QED
        BY <2>1, <2>7 DEF After, Phase
<1> QED
    BY <1>12, <1>13, <1>14

(* A turn that has ended without a frame for its answer                    *)
LEMMA SilencingStep ==
    ASSUME IInv, IInv', Common, Silencing, Next, ~crossed', ~unread',
           stops' = 0
    PROVE  After
<1>1. PICK st \in Seq(Turn), p \in Turn, b \in Nat, n \in Nat :
         stored = Append(st, p) /\ Client(st, p, b) /\ Ends(p, <<"idle">>, n) /\ Quietly(b)
    BY DEF Silencing
<1>2. run.turn = 0
    BY DEF Silencing
<1>3. OnFrame \/ Snap \/ Apply \/ GiveUp
    <2>1. ~FlushTimer
        BY <1>1 DEF FlushTimer, Quietly
    <2> QED
        BY <1>1, <1>2, <2>1, ClientOnly
<1>4. CASE OnFrame /\ n # 0
    <2>1. Len(<<"idle">>) \in Nat
        OBVIOUS
    <2>2. /\ Common' /\ Client(st, p, b)' /\ run' = run /\ stored' = stored
          /\ \E m \in Nat : Ends(p, <<"idle">>, m)'
          /\ Mid(Head(frames), p)
        BY <1>1, <1>4, <2>1, BeforeEnd
    <2>3. Head(frames).type = "start"
        <3>1. Head(frames) = frames[1] /\ 1 \in DOMAIN frames
            BY <1>4, TakenOff
        <3> QED
            BY <1>1, <2>2, <3>1 DEF Quietly, Mid
    <2>4. OnStart
        BY <1>4, <2>3 DEF OnFrame, OnDelta, OnTool, OnCompact, OnComplete, OnError, OnIdle
    <2>5. Quietly(b)'
        BY <1>1, <1>4, <2>4, QuietFrame
    <2>6. Silencing'
        BY <1>1, <1>2, <2>2, <2>5 DEF Silencing
    <2> QED
        BY <2>2, <2>6 DEF After, Phase
<1>5. CASE OnFrame /\ n = 0
    BY <1>1, <1>2, <1>5, SilentIdle
<1>6. CASE Snap \/ Apply \/ GiveUp
    BY <1>6, WorkLoads
<1> QED
    BY <1>3, <1>4, <1>5, <1>6

(* Stops, crossings and loads that failed are not taken back               *)
LEMMA CalmBefore ==
    ASSUME IInv, IInv', Next, stops' = 0, ~crossed', ~unread'
    PROVE  stops = 0 /\ ~crossed /\ ~unread
<1>1. stops \in Nat /\ crossed \in BOOLEAN /\ crossed' \in BOOLEAN
    BY Types DEF IInv, ClientOK
<1>2. stops' = stops \/ stops' = stops + 1
    <2>1. Submit \/ Stop \/ Restore \/ FlushTimer => stops' = stops \/ stops' = stops + 1
        BY DEF Submit, Stop, Restore, FlushTimer
    <2>2. OnFrame => stops' = stops
        BY TakenOff
    <2>3. Snap \/ Apply \/ GiveUp => stops' = stops
        BY DEF Snap, Apply, GiveUp
    <2>4. Server => stops' = stops
        BY DEF Server, clientVars, SrvAccept, SrvRefuse, SrvText, SrvTool, SrvEnd,
               SrvComplete, SrvSilent, SrvFail, SrvStopped, SrvIgnore
    <2> QED
        BY <2>1, <2>2, <2>3, <2>4 DEF Next
<1>3. crossed => crossed'
    <2>1. Submit \/ Stop \/ FlushTimer => crossed' = crossed
        BY DEF Submit, Stop, FlushTimer
    <2>2. Restore => (crossed => crossed')
        <3> SUFFICES ASSUME Restore, crossed
                     PROVE  crossed'
            OBVIOUS
        <3>1. PICK i \in DOMAIN screen :
                 crossed' = (\/ crossed \/ Len(chat.msgs) < i
                             \/ (CHOOSE t \in screen[i].of : TRUE) \notin ToSet(stored)
                             \/ \E j \in 1..i : screen[j].error)
            BY DEF Restore
        <3> QED
            BY <3>1
    <2>3. OnFrame => crossed' = crossed
        BY TakenOff
    <2>4. Snap \/ GiveUp => crossed' = crossed
        BY DEF Snap, GiveUp
    <2>5. Apply => (crossed => crossed')
        BY DEF Apply
    <2>6. Server => crossed' = crossed
        BY DEF Server, clientVars, SrvAccept, SrvRefuse, SrvText, SrvTool, SrvEnd,
               SrvComplete, SrvSilent, SrvFail, SrvStopped, SrvIgnore
    <2> QED
        BY <2>1, <2>2, <2>3, <2>4, <2>5, <2>6 DEF Next
<1>4. unread => unread'
    <2>1. Submit \/ Stop \/ Restore \/ FlushTimer => unread' = unread
        BY DEF Submit, Stop, Restore, FlushTimer
    <2>2. OnFrame => unread' = unread
        BY DEF OnFrame, OnStart, OnDelta, OnTool, OnCompact, OnComplete, OnError, OnIdle,
               Receive
    <2>3. Snap \/ Apply => unread' = unread
        BY DEF Snap, Apply
    <2>4. GiveUp => (unread => unread')
        BY DEF GiveUp
    <2>5. Server => unread' = unread
        BY DEF Server, clientVars, SrvAccept, SrvRefuse, SrvText, SrvTool, SrvEnd,
               SrvComplete, SrvSilent, SrvFail, SrvStopped, SrvIgnore
    <2> QED
        BY <2>1, <2>2, <2>3, <2>4, <2>5 DEF Next
<1> QED
    BY <1>1, <1>2, <1>3, <1>4

(* The phases are all there is                                             *)
LEMMA HistNext ==
    ASSUME IInv, IInv', ShapeOK, Hist, Next
    PROVE  Hist'
<1> SUFFICES ASSUME stops' = 0, ~crossed', ~unread'
             PROVE  After
    BY DEF Hist, After
<1>1. stops = 0 /\ ~crossed /\ ~unread
    BY CalmBefore
<1>2. CASE Doomed
    <2>1. Doomed' \/ stops' > 0 \/ crossed' \/ unread'
        BY <1>2, DoomedStays
    <2> QED
        BY <2>1 DEF After
<1>3. CASE Common /\ Phase
    BY <1>3, RestStep, SilenceStep, SentStep, RunningStep, CompletingStep, FailingStep,
       SilencingStep DEF Phase
<1> QED
    BY <1>1, <1>2, <1>3 DEF Hist

(* With nothing on its way, no phase is left but rest                      *)
LEMMA QuietRest ==
    ASSUME IInv, Hist, Quiet, stops = 0, ~crossed, ~unread
    PROVE  Past(chat.msgs, stored, Len(chat.msgs))
<1>1. /\ frames = <<>> /\ reads = {} /\ inbox.turn = 0 /\ run.turn = 0
    BY DEF Quiet
<1>2. ~Doomed
    BY <1>1 DEF Doomed, LateLoad, LateFrame
<1>3. ~Silence /\ ~Sent /\ ~Running
    BY <1>1 DEF Silence, Sent, Running
<1>4. ~Completing /\ ~Failing /\ ~Silencing
    <2>1. /\ \A n \in Nat : n + 1 # 0 /\ n + 2 # 0
          /\ Len(<<"complete", "idle">>) = 2 /\ Len(<<"error", "idle">>) = 2
          /\ Len(<<"idle">>) = 1 /\ Len(frames) = 0
        BY <1>1
    <2>2. \A p, n : /\ ~Ends(p, <<"complete", "idle">>, n)
                    /\ ~Ends(p, <<"error", "idle">>, n)
                    /\ ~Ends(p, <<"idle">>, n)
        BY <2>1 DEF Ends
    <2> QED
        BY <2>2 DEF Completing, Failing, Silencing
<1>5. Rest
    BY <1>2, <1>3, <1>4 DEF Hist, Phase
<1> QED
    BY <1>5 DEF Rest

(* The screen shows the transcript the phases keep                         *)
LEMMA HistShown ==
    ASSUME IInv, ShapeOK, Hist
    PROVE  ScreenIsHistory
<1> SUFFICES ASSUME Quiet, stops = 0, ~crossed, ~unread
             PROVE  LET rows == RowsOf(stored)
                    IN  Dialogue = [i \in DOMAIN rows |-> <<rows[i].role, rows[i].of>>]
    BY DEF ScreenIsHistory
<1>1. /\ stored \in Seq(Turn) /\ chat.msgs \in Seq(RowType) /\ screen \in Seq(RowType)
      /\ \A i \in DOMAIN screen : RowOK(screen[i])
    BY Types, ChatFields DEF ChatOK, IInv, ScreenOK
<1>2. Past(chat.msgs, stored, Len(chat.msgs))
    BY QuietRest
<1>3. Shows(chat.msgs, screen)
    BY DEF ShapeOK
<1>4. Past(screen, stored, Len(screen))
    BY <1>1, <1>2, <1>3, PastShown
<1> QED
    BY <1>1, <1>4, DialogueIs

(* A step that changes nothing keeps the phase                             *)
LEMMA HistStutter == Hist /\ UNCHANGED vars => Hist'
<1> SUFFICES ASSUME Hist, UNCHANGED vars
             PROVE  Hist'
    OBVIOUS
<1>1. UNCHANGED <<chat, deltas, frames, reads, next, inbox, run, halt, stored, stops, restores,
                  crossed, unread>>
    BY DEF vars
<1>2. Doomed => Doomed'
    BY <1>1 DEF Doomed, LateLoad, LateFrame, Late, Held, Silent
<1>3. Common => Common'
    BY <1>1 DEF Common, Known
<1>4. Rest => Rest'
    BY <1>1 DEF Rest, Still, Current, Late
<1>5. Silence => Silence'
    BY <1>1 DEF Silence, Still, Current, Late
<1>6. \A st, p, b : Asking(st, p, b) => Asking(st, p, b)'
    BY <1>1 DEF Asking, Outdated, Late
<1>7. \A st, p, b : Client(st, p, b) => Client(st, p, b)'
    BY <1>1, <1>6 DEF Client
<1>8. \A b : Quietly(b) => Quietly(b)'
    BY <1>1 DEF Quietly
<1>9. \A p, types, n : Ends(p, types, n) => Ends(p, types, n)'
    BY <1>1 DEF Ends
<1>10. Sent => Sent'
    <2> SUFFICES ASSUME Sent
                 PROVE  Sent'
        OBVIOUS
    <2>1. History' = History /\ Held' = Held
        BY <1>1 DEF History, Held
    <2>2. PICK b \in Nat : Asking(History, inbox.turn, b) /\ Bare(chat, b)
        BY DEF Sent
    <2>3. Asking(History, inbox.turn, b)' /\ Bare(chat', b)
        BY <1>1, <2>1, <2>2 DEF Asking, Outdated, Late
    <2> QED
        BY <1>1, <2>1, <2>2, <2>3 DEF Sent
<1>11. Running => Running'
    <2> SUFFICES ASSUME Running
                 PROVE  Running'
        OBVIOUS
    <2>1. PICK b \in Nat : Client(stored, run.turn, b) /\ (Fresh(run) => Quietly(b))
        BY DEF Running
    <2>2. Client(stored, run.turn, b)'
        BY <1>1, <2>1 DEF Client, Asking, Outdated, Late
    <2> QED
        BY <1>1, <1>8, <2>1, <2>2 DEF Running
<1>12. Completing => Completing'
    BY <1>1, <1>7, <1>9 DEF Completing
<1>13. Failing => Failing'
    <2> SUFFICES ASSUME Failing
                 PROVE  Failing'
        OBVIOUS
    <2>1. PICK p \in Turn, b \in Nat, n \in Nat :
             Client(stored, p, b) /\ Ends(p, <<"error", "idle">>, n)
        BY DEF Failing
    <2>2. Client(stored, p, b)'
        BY <1>1, <2>1 DEF Client, Asking, Outdated, Late
    <2> QED
        BY <1>1, <1>9, <2>1, <2>2 DEF Failing
<1>14. Silencing => Silencing'
    BY <1>1, <1>7, <1>8, <1>9 DEF Silencing
<1>15. Phase => Phase'
    BY <1>4, <1>5, <1>10, <1>11, <1>12, <1>13, <1>14 DEF Phase
<1> QED
    BY <1>1, <1>2, <1>3, <1>15 DEF Hist

(* What must hold of a quiet chat that nobody stopped, with no load over a *)
(* newer turn, no failed load of a silent one, and no way back to or       *)
(* behind a failed prompt: the questions and answers on the screen are the *)
(* stored transcript                                                       *)
THEOREM ScreenIsHistoryAlways == Spec => []ScreenIsHistory
<1>1. IInv /\ IInv' /\ ShapeOK /\ Hist /\ [Next]_vars => Hist'
    BY HistNext, HistStutter
<1> QED
    BY IInvAlways, ShapeInit, ShapeNext, HistInit, <1>1, HistShown, PTL DEF Spec
=============================================================================
