------------------------ MODULE SessionSwitch_proofs ------------------------
(* Theorems about SessionSwitch, for any chats, prompts, moves and faults: *)
(* outside the steps that crossed records, the screen, the active runtime  *)
(* and every prompt stay with their chat.                                  *)
EXTENDS SessionSwitch, FiniteSetTheorems, TLAPS

ChatOrNone == Stored \cup {None}
RtOrZero   == Runtimes \cup {0}
Kinds      == {"paint", "snapshot", "map", "create", "recover", "restore"}

ResumePcs == {"resolve", "fetch", "profile", "usage", "refetch", "resume", "yolo", "fallback",
              "done"}
ResumeRec == [pc : ResumePcs, chat : ChatOrNone, switching : BOOLEAN, cleared : BOOLEAN,
              hydrated : BOOLEAN, snap : ChatOrNone, rt : RtOrZero]
SubmitPcs == {"idle", "create", "yolo", "close", "sync", "send", "wait", "recover", "adrift",
              "done", "failed", "dropped"}
SubmitRec == [pc : SubmitPcs, typed : ChatOrNone, sid : RtOrZero, fits : BOOLEAN,
              from : ChatOrNone \X RtOrZero \X ChatOrNone, again : BOOLEAN,
              landed : ChatOrNone]
RemoveRec == [pc : {"none", "delete", "gone", "kept"}, chat : ChatOrNone, rt : RtOrZero,
              snap : ChatOrNone]

(* The types, and what a coroutine has in hand at each of its awaits       *)
ViewOK ==
    /\ route \in ChatOrNone /\ selected \in ChatOrNone /\ screen \in ChatOrNone
    /\ active \in RtOrZero /\ busy \in BOOLEAN /\ creating \in BOOLEAN
StoreOK ==
    /\ listed \subseteq Stored /\ cached \subseteq Runtimes
    /\ runtimeOf \in [Stored -> RtOrZero]
    /\ crossed \subseteq Kinds
ServerOK ==
    /\ of \in [Runtimes -> ChatOrNone] /\ live \subseteq Runtimes /\ turns \subseteq Runtimes
ResumeOK ==
    /\ resume \in ResumeRec /\ late \subseteq Stored \X Runtimes
    /\ resume.pc # "done" => resume.chat \in Stored
    /\ resume.pc \in {"usage", "yolo"} => resume.rt \in Runtimes
RemoveOK ==
    /\ removing \in RemoveRec
    /\ removing.pc = "delete" => removing.chat \in Stored

HasRuntime == {"close", "yolo", "sync", "send", "wait", "recover", "adrift"}
SubmitOK ==
    /\ submit \in [Prompts -> SubmitRec]
    /\ \A p \in Prompts : submit[p].pc \in HasRuntime => submit[p].sid \in Runtimes

(* creatingSessionRef is set only while a session is being created         *)
CreatingOK == creating => \E p \in Prompts : submit[p].pc \in {"create", "close", "yolo"}

(* No step has bound a runtime to another chat                             *)
Unmixed == crossed \cap {"map", "recover", "restore"} = {}

(* Every place that keeps a runtime for a chat keeps one of that chat      *)
ActiveServed  == active # 0 => selected \in Stored /\ of[active] = selected
MapServed     == \A c \in Stored : runtimeOf[c] # 0 => of[runtimeOf[c]] = c
ResumeServed  == resume.rt # 0 => resume.chat \in Stored /\ of[resume.rt] = resume.chat
LateServed    == \A x \in late : of[x[2]] = x[1]
RemovalServed == removing.pc = "delete" /\ removing.rt # 0 => of[removing.rt] = removing.chat
Served == ActiveServed /\ MapServed /\ ResumeServed /\ LateServed /\ RemovalServed

(* Every place that keeps a transcript for a chat keeps that chat's        *)
Shown == /\ screen \in {None, selected}
         /\ removing.pc = "delete" => removing.snap \in {None, removing.chat}

(* A submit under way goes to the chat it was typed in                     *)
Aim(s, o) ==
    /\ s.pc \in HasRuntime \ {"close"} => s.typed \in Stored /\ o[s.sid] = s.typed
    /\ s.pc = "create" => s.typed = None /\ s.from[1] = None
    /\ s.pc = "idle" => s.landed = None
    /\ s.landed \in {None, s.typed}
Aimed == \A p \in Prompts : Aim(submit[p], of)

Types == ViewOK /\ StoreOK /\ ServerOK /\ ResumeOK /\ RemoveOK /\ SubmitOK /\ CreatingOK
IInv == /\ Types
        /\ Unmixed => Served
        /\ crossed = {} => Shown /\ Aimed

-----------------------------------------------------------------------------
LEMMA Basics ==
    /\ None \notin Stored /\ 0 \notin Runtimes /\ Runtimes \subseteq Nat
    /\ Chats \subseteq Stored /\ Fresh \subseteq Stored /\ Listed \subseteq Stored
<1>1. Cardinality(Prompts) \in Nat /\ Cardinality(Fresh) \in Nat
    BY SessionAssumption, FS_CardinalityType
<1> QED
    BY <1>1, SessionAssumption DEF Stored, Runtimes

(* What a step makes of the newest resume                                  *)
LEMMA NoResumeOK ==
    /\ NoResume \in ResumeRec /\ NoResume.pc = "done" /\ NoResume.rt = 0
    /\ NoResume.chat = None
BY DEF NoResume, ResumeRec, ResumePcs, ChatOrNone, RtOrZero

LEMMA BegunOK ==
    ASSUME ResumeOK, NEW c \in Stored, NEW sw \in BOOLEAN, Begun(c, sw)
    PROVE  /\ ResumeOK'
           /\ resume'.pc = "resolve" /\ resume'.chat = c /\ resume'.rt = 0
<1>1. /\ resume' \in ResumeRec
      /\ resume'.pc = "resolve" /\ resume'.chat = c /\ resume'.rt = 0
    BY DEF Begun, NoResume, ResumeRec, ResumePcs, ChatOrNone, RtOrZero
<1>2. late' \subseteq Stored \X Runtimes
    BY DEF Begun, ResumeOK
<1> QED
    BY <1>1, <1>2 DEF ResumeOK

LEMMA ResumeStep ==
    ASSUME NEW s \in ResumeRec, NEW pc \in ResumePcs, NEW t,
           \/ t = [s EXCEPT !.pc = pc]
           \/ \E rt \in RtOrZero : t = [s EXCEPT !.pc = pc, !.rt = rt]
           \/ \E h \in BOOLEAN : t = [s EXCEPT !.pc = pc, !.hydrated = h]
           \/ \E rt \in RtOrZero, cl \in BOOLEAN, sn \in ChatOrNone :
                 t = [s EXCEPT !.pc = pc, !.rt = rt, !.cleared = cl, !.snap = sn]
    PROVE  t \in ResumeRec /\ t.pc = pc /\ t.chat = s.chat
BY DEF ResumeRec

-----------------------------------------------------------------------------
(* What a step makes of the submits                                        *)
Same(s, t) ==
    /\ t.typed = s.typed /\ t.sid = s.sid /\ t.landed = s.landed /\ t.from = s.from
    /\ t.pc = s.pc \/ (s.pc = "recover" /\ t.pc = "adrift")

LEMMA AdriftOK ==
    ASSUME SubmitOK
    PROVE  /\ Adrift \in [Prompts -> SubmitRec]
           /\ \A p \in Prompts : Same(submit[p], Adrift[p])
BY DEF SubmitOK, SubmitRec, SubmitPcs, Adrift, Same

LEMMA OutdatedOK ==
    ASSUME SubmitOK
    PROVE  /\ Outdated \in [Prompts -> SubmitRec]
           /\ \A p \in Prompts : Same(submit[p], Outdated[p])
BY ZenonT(40) DEF SubmitOK, SubmitRec, SubmitPcs, Outdated, Same

LEMMA ToOK ==
    ASSUME SubmitOK, NEW p \in Prompts, NEW pc \in SubmitPcs
    PROVE  /\ To(p, pc) \in [Prompts -> SubmitRec]
           /\ To(p, pc)[p].pc = pc /\ To(p, pc)[p].typed = submit[p].typed
           /\ To(p, pc)[p].sid = submit[p].sid /\ To(p, pc)[p].landed = submit[p].landed
           /\ \A q \in Prompts \ {p} : To(p, pc)[q] = submit[q]
BY DEF SubmitOK, SubmitRec, To

LEMMA NoSubmitOK ==
    ASSUME NEW pc \in SubmitPcs
    PROVE  /\ [NoSubmit EXCEPT !.pc = pc] \in SubmitRec
           /\ [NoSubmit EXCEPT !.pc = pc].pc = pc
           /\ [NoSubmit EXCEPT !.pc = pc].typed = None
           /\ [NoSubmit EXCEPT !.pc = pc].landed = None
BY DEF NoSubmit, SubmitRec, SubmitPcs, ChatOrNone, RtOrZero

LEMMA OverOK ==
    ASSUME SubmitOK, NEW p \in Prompts, NEW pc \in SubmitPcs
    PROVE  /\ Over(p, pc) \in [Prompts -> SubmitRec]
           /\ Over(p, pc)[p].pc = pc /\ Over(p, pc)[p].typed = None
           /\ Over(p, pc)[p].landed = None
           /\ \A q \in Prompts \ {p} : Over(p, pc)[q] = submit[q]
BY NoSubmitOK DEF SubmitOK, Over

(* A runtime serves the chat it was minted for                             *)
MintsOnly == \A r \in Runtimes : of[r] # None => of'[r] = of[r]

(* A step that leaves every submit to its chat                             *)
LEMMA SameKeeps ==
    ASSUME SubmitOK, submit' \in [Prompts -> SubmitRec],
           \A p \in Prompts : Same(submit[p], submit'[p])
    PROVE  /\ SubmitOK'
           /\ CreatingOK /\ (creating' => creating) => CreatingOK'
           /\ Aimed /\ MintsOnly => Aimed'
<1>1. SubmitOK'
    BY DEF SubmitOK, Same, HasRuntime
<1>2. CreatingOK /\ (creating' => creating) => CreatingOK'
    BY DEF CreatingOK, Same
<1>3. Aimed /\ MintsOnly => Aimed'
    <2> SUFFICES ASSUME Aimed, MintsOnly, NEW p \in Prompts
                 PROVE  Aim(submit'[p], of')
        BY DEF Aimed
    <2>1. Aim(submit[p], of) /\ Same(submit[p], submit'[p])
        BY DEF Aimed
    <2>2. submit[p].pc \in HasRuntime => submit[p].sid \in Runtimes
        BY DEF SubmitOK
    <2> QED
        BY ZenonT(40), <2>1, <2>2, Basics DEF MintsOnly, Aim, Same, HasRuntime
<1> QED
    BY <1>1, <1>2, <1>3

(* A step of one submit, the others being left alone                       *)
LEMMA OneKeeps ==
    ASSUME SubmitOK, NEW p \in Prompts, submit' \in [Prompts -> SubmitRec],
           \A q \in Prompts \ {p} : Same(submit[q], submit'[q]),
           submit'[p].pc \in HasRuntime => submit'[p].sid \in Runtimes
    PROVE  /\ SubmitOK'
           /\ Aimed /\ Aim(submit'[p], of') /\ MintsOnly => Aimed'
<1>1. SubmitOK'
    BY DEF SubmitOK, Same, HasRuntime
<1>2. Aimed /\ Aim(submit'[p], of') /\ MintsOnly => Aimed'
    <2> SUFFICES ASSUME Aimed, Aim(submit'[p], of'), MintsOnly, NEW q \in Prompts \ {p}
                 PROVE  Aim(submit'[q], of')
        BY DEF Aimed
    <2>1. Aim(submit[q], of) /\ Same(submit[q], submit'[q])
        BY DEF Aimed
    <2>2. submit[q].pc \in HasRuntime => submit[q].sid \in Runtimes
        BY DEF SubmitOK
    <2> QED
        BY ZenonT(40), <2>1, <2>2, Basics DEF MintsOnly, Aim, Same, HasRuntime
<1> QED
    BY <1>1, <1>2

-----------------------------------------------------------------------------
(* What a step writes into the caches and the view                         *)
LEMMA CrossOK ==
    ASSUME StoreOK, NEW kind \in Kinds, NEW bad, Cross(kind, bad)
    PROVE  /\ crossed' \subseteq Kinds /\ crossed \subseteq crossed'
           /\ bad => kind \in crossed'
BY DEF StoreOK, Cross

LEMMA Monotone ==
    ASSUME crossed \subseteq crossed'
    PROVE  (Unmixed' => Unmixed) /\ (crossed' = {} => crossed = {})
BY DEF Unmixed

LEMMA BoundOK ==
    ASSUME ViewOK, StoreOK, ServerOK, NEW r \in Runtimes, runtimeOf' = Bound(r), of' = of
    PROVE  /\ runtimeOf' \in [Stored -> RtOrZero]
           /\ MapServed /\ ~Mapped(r) => MapServed'
<1>1. CASE selected = None
    BY <1>1 DEF Bound, StoreOK, MapServed
<1>2. CASE selected # None
    <2>1. selected \in Stored /\ runtimeOf' = [runtimeOf EXCEPT ![selected] = r]
        BY <1>2 DEF Bound, ViewOK, ChatOrNone
    <2>2. runtimeOf' \in [Stored -> RtOrZero]
        BY <2>1 DEF StoreOK, RtOrZero
    <2>3. ~Mapped(r) => of[r] = selected
        BY <1>2 DEF Mapped
    <2>4. /\ runtimeOf'[selected] = r
          /\ \A c \in Stored \ {selected} : runtimeOf'[c] = runtimeOf[c]
        BY <2>1 DEF StoreOK
    <2> QED
        BY <2>2, <2>3, <2>4 DEF MapServed
<1> QED
    BY <1>1, <1>2

Writes ==
    \/ busy' \in BOOLEAN /\ UNCHANGED <<screen, runtimeOf, cached, crossed>>
    \/ \E r \in Runtimes : Seed(r) \/ Unseed(r)

LEMMA WritesOK ==
    ASSUME IInv, Writes, UNCHANGED <<selected, active, listed, of>>
    PROVE  /\ busy' \in BOOLEAN /\ screen' \in ChatOrNone /\ StoreOK'
           /\ crossed \subseteq crossed'
           /\ Unmixed' => MapServed'
           /\ crossed' = {} => screen' \in {None, selected}
<1>1. CASE busy' \in BOOLEAN /\ UNCHANGED <<screen, runtimeOf, cached, crossed>>
    BY <1>1 DEF IInv, Types, ViewOK, StoreOK, Unmixed, Served, MapServed, Shown
<1>2. CASE \E r \in Runtimes : Seed(r) \/ Unseed(r)
    <2>1. PICK r \in Runtimes : Seed(r) \/ Unseed(r)
        BY <1>2
    <2>2. runtimeOf' = Bound(r) /\ Cross("map", Mapped(r))
        BY <2>1 DEF Seed, Unseed
    <2>3. /\ crossed' \subseteq Kinds /\ crossed \subseteq crossed'
          /\ Mapped(r) => "map" \in crossed'
        BY <2>2, CrossOK DEF IInv, Types, Kinds
    <2>4. /\ runtimeOf' \in [Stored -> RtOrZero]
          /\ MapServed /\ ~Mapped(r) => MapServed'
        BY <2>2, BoundOK DEF IInv, Types
    <2>5. cached' \subseteq Runtimes
        BY <2>1 DEF Seed, Unseed, IInv, Types, StoreOK
    <2>6. StoreOK'
        BY <2>3, <2>4, <2>5 DEF IInv, Types, StoreOK
    <2>7. Unmixed' => MapServed'
        BY <2>3, <2>4, Monotone DEF IInv, Served, Unmixed
    <2>8. /\ screen' \in {screen, of[r]} /\ busy' \in BOOLEAN
          /\ screen' # screen => r = active
        BY <2>1 DEF Seed, Unseed, IInv, Types, ViewOK
    <2>9. screen' \in ChatOrNone
        BY <2>8 DEF IInv, Types, ViewOK, ServerOK
    <2>10. ASSUME crossed' = {} PROVE screen' \in {None, selected}
        <3>1. crossed = {} /\ Unmixed
            BY <2>10, <2>3 DEF Unmixed
        <3> QED
            BY <3>1, <2>8, Basics DEF IInv, Served, ActiveServed, Shown
    <2> QED
        BY <2>3, <2>6, <2>7, <2>8, <2>9, <2>10
<1> QED
    BY <1>1, <1>2 DEF Writes

(* A step of one submit that moves no chat and no resume: it goes on       *)
(* towards its runtime or ends                                             *)
GoesOn(p) ==
    /\ submit[p].pc \in HasRuntime \ {"close"} /\ submit'[p].pc \in {"sync", "send", "wait"}
    /\ submit'[p].typed = submit[p].typed /\ submit'[p].sid = submit[p].sid
    /\ submit'[p].landed = submit[p].landed
Ends(p) == submit'[p].pc \in {"failed", "dropped"} /\ submit'[p].landed = None

LEMMA QuietStep ==
    ASSUME IInv, NEW p \in Prompts, Writes,
           UNCHANGED <<route, selected, active, listed, resume, late, removing, of>>,
           ServerOK',
           submit' \in [Prompts -> SubmitRec],
           \A q \in Prompts \ {p} : submit'[q] = submit[q],
           GoesOn(p) \/ Ends(p),
           creating' = FALSE \/ (creating' = creating
                                 /\ submit[p].pc \notin {"create", "close", "yolo"})
    PROVE  IInv'
<1>1. /\ busy' \in BOOLEAN /\ screen' \in ChatOrNone /\ StoreOK'
      /\ crossed \subseteq crossed'
      /\ Unmixed' => MapServed'
      /\ crossed' = {} => screen' \in {None, selected}
    BY WritesOK
<1>2. (Unmixed' => Unmixed) /\ (crossed' = {} => crossed = {})
    BY <1>1, Monotone
<1>3. ViewOK'
    BY <1>1 DEF IInv, Types, ViewOK
<1>4. ResumeOK' /\ RemoveOK'
    BY DEF IInv, Types, ResumeOK, RemoveOK
<1>5. \A q \in Prompts \ {p} : Same(submit[q], submit'[q])
    BY DEF Same
<1>6. submit'[p].pc \in HasRuntime => submit'[p].sid \in Runtimes
    BY DEF IInv, Types, SubmitOK, GoesOn, Ends, HasRuntime
<1>7. SubmitOK' /\ (Aimed /\ Aim(submit'[p], of') /\ MintsOnly => Aimed')
    BY <1>5, <1>6, OneKeeps DEF IInv, Types
<1>8. CreatingOK'
    BY DEF IInv, Types, CreatingOK
<1>9. Unmixed' => Served'
    BY <1>1, <1>2 DEF IInv, Served, ActiveServed, ResumeServed, LateServed, RemovalServed
<1>10. crossed' = {} => Shown'
    BY <1>1, <1>2 DEF IInv, Shown
<1>11. Aimed => Aim(submit'[p], of')
    <2>1. CASE Ends(p)
        BY <2>1 DEF Ends, Aim, HasRuntime
    <2>2. CASE GoesOn(p)
        BY <2>2 DEF GoesOn, Aimed, Aim, HasRuntime
    <2> QED
        BY <2>1, <2>2
<1>12. crossed' = {} => Aimed'
    BY <1>2, <1>7, <1>11 DEF IInv, MintsOnly
<1> QED
    BY <1>3, <1>1, <1>4, <1>7, <1>8, <1>9, <1>10, <1>12 DEF IInv, Types

LEMMA EndsOK ==
    ASSUME SubmitOK, NEW p \in Prompts, NEW pc \in {"failed", "dropped"}, submit' = Over(p, pc)
    PROVE  /\ submit' \in [Prompts -> SubmitRec] /\ Ends(p)
           /\ \A q \in Prompts \ {p} : submit'[q] = submit[q]
BY OverOK DEF Ends, SubmitPcs

LEMMA GoesOnOK ==
    ASSUME SubmitOK, NEW p \in Prompts, submit[p].pc \in HasRuntime \ {"close"},
           NEW pc \in {"sync", "send", "wait"}, submit' = To(p, pc)
    PROVE  /\ submit' \in [Prompts -> SubmitRec] /\ GoesOn(p)
           /\ \A q \in Prompts \ {p} : submit'[q] = submit[q]
BY ToOK DEF GoesOn, SubmitPcs

(* An outdated submit takes its row back                                   *)
LEMMA DroppedOK ==
    ASSUME IInv, NEW p \in Prompts, submit[p].pc \in HasRuntime, Dropped(p)
    PROVE  /\ submit' \in [Prompts -> SubmitRec] /\ Ends(p) /\ Writes
           /\ \A q \in Prompts \ {p} : submit'[q] = submit[q]
<1>1. submit' = Over(p, "dropped")
    BY DEF Dropped
<1>2. Unchanged \/ Unseed(submit[p].sid)
    BY DEF Dropped
<1>3. submit[p].sid \in Runtimes
    BY DEF IInv, Types, SubmitOK
<1>4. Writes
    BY <1>2, <1>3 DEF Writes, Unchanged, IInv, Types, ViewOK
<1> QED
    BY <1>1, <1>4, EndsOK DEF IInv, Types

LEMMA FailedOK ==
    ASSUME IInv, NEW p \in Prompts, FailSubmit(p)
    PROVE  /\ submit' \in [Prompts -> SubmitRec] /\ Ends(p) /\ Writes
           /\ \A q \in Prompts \ {p} : submit'[q] = submit[q]
<1>1. submit' = Over(p, "failed") /\ Writes
    BY DEF FailSubmit, Writes
<1> QED
    BY <1>1, EndsOK DEF IInv, Types

-----------------------------------------------------------------------------
(* The steps of a submit                                                   *)
LEMMA SetUpKeeps ==
    ASSUME IInv, NEW p \in Prompts, SetUp(p)
    PROVE  IInv'
<1>1. /\ submit[p].pc = "yolo" /\ creating' = FALSE
      /\ UNCHANGED <<route, selected, active, listed, resume, late, removing, of>>
      /\ ServerOK'
    BY DEF SetUp, server, IInv, Types, ServerOK
<1>2. submit[p].pc \in HasRuntime \ {"close"} /\ submit[p].sid \in Runtimes
    BY <1>1 DEF HasRuntime, IInv, Types, SubmitOK
<1>3. CASE submit' = To(p, "sync") /\ Seed(submit[p].sid)
    <2>1. Writes
        BY <1>2, <1>3 DEF Writes
    <2> QED
        BY <1>1, <1>2, <1>3, <2>1, GoesOnOK, QuietStep DEF IInv, Types
<1>4. CASE Dropped(p)
    BY <1>1, <1>2, <1>4, DroppedOK, QuietStep
<1> QED
    BY <1>3, <1>4 DEF SetUp

LEMMA SyncedKeeps ==
    ASSUME IInv, NEW p \in Prompts, Synced(p)
    PROVE  IInv'
<1>1. /\ submit[p].pc = "sync" /\ creating' = creating
      /\ UNCHANGED <<route, selected, active, listed, resume, late, removing, of>>
      /\ ServerOK'
    BY DEF Synced, server, IInv, Types, ServerOK
<1>2. submit[p].pc \in HasRuntime \ {"close"}
    BY <1>1 DEF HasRuntime
<1>3. CASE submit' = To(p, "send") /\ Unchanged
    <2>1. Writes
        BY <1>3 DEF Writes, Unchanged, IInv, Types, ViewOK
    <2> QED
        BY <1>1, <1>2, <1>3, <2>1, GoesOnOK, QuietStep DEF IInv, Types
<1>4. CASE Dropped(p)
    BY <1>1, <1>2, <1>4, DroppedOK, QuietStep
<1> QED
    BY <1>3, <1>4 DEF Synced

LEMMA RefusedKeeps ==
    ASSUME IInv, NEW p \in Prompts, Refused(p)
    PROVE  IInv'
<1>1. /\ submit[p].pc = "send" /\ creating' = creating
      /\ UNCHANGED <<route, selected, active, listed, resume, late, removing, of>>
      /\ ServerOK'
    BY DEF Refused, server, IInv, Types, ServerOK
<1>2. submit[p].pc \in HasRuntime \ {"close"}
    BY <1>1 DEF HasRuntime
<1>3. CASE submit' = To(p, "wait") /\ Unchanged
    <2>1. Writes
        BY <1>3 DEF Writes, Unchanged, IInv, Types, ViewOK
    <2> QED
        BY <1>1, <1>2, <1>3, <2>1, GoesOnOK, QuietStep DEF IInv, Types
<1>4. CASE Dropped(p)
    BY <1>1, <1>2, <1>4, DroppedOK, QuietStep
<1> QED
    BY <1>3, <1>4 DEF Refused

LEMMA WaitedKeeps ==
    ASSUME IInv, NEW p \in Prompts, Waited(p)
    PROVE  IInv'
<1>1. /\ submit[p].pc = "wait" /\ creating' = creating
      /\ UNCHANGED <<route, selected, active, listed, resume, late, removing, of>>
      /\ ServerOK'
    BY DEF Waited, server, IInv, Types, ServerOK
<1>2. submit[p].pc \in HasRuntime \ {"close"}
    BY <1>1 DEF HasRuntime
<1>3. CASE submit' = To(p, "send") /\ Unchanged
    <2>1. Writes
        BY <1>3 DEF Writes, Unchanged, IInv, Types, ViewOK
    <2> QED
        BY <1>1, <1>2, <1>3, <2>1, GoesOnOK, QuietStep DEF IInv, Types
<1>4. CASE Dropped(p)
    BY <1>1, <1>2, <1>4, DroppedOK, QuietStep
<1>5. CASE FailSubmit(p)
    BY <1>1, <1>5, FailedOK, QuietStep
<1> QED
    BY <1>3, <1>4, <1>5 DEF Waited

LEMMA NotCreatedKeeps ==
    ASSUME IInv, NEW p \in Prompts, NotCreated(p)
    PROVE  IInv'
<1>1. /\ creating' = FALSE /\ submit' = Over(p, "failed")
      /\ UNCHANGED <<route, selected, active, screen, listed, runtimeOf, cached, resume, late,
                     removing, of, crossed>>
      /\ ServerOK'
    BY DEF NotCreated, store, IInv, Types, ServerOK
<1>2. Writes
    BY <1>1 DEF NotCreated, Writes, IInv, Types, ViewOK
<1> QED
    BY <1>1, <1>2, EndsOK, QuietStep DEF IInv, Types

(* The call goes to the active runtime, which serves the selected chat     *)
LEMMA RecoveredSends ==
    ASSUME IInv, NEW p \in Prompts, Recovered(p), active # 0, Fits(p)
    PROVE  IInv'
<1>1. /\ submit[p].pc \in {"recover", "adrift"} /\ submit[p].sid \in Runtimes
      /\ active \in Runtimes
    BY DEF Recovered, IInv, Types, SubmitOK, HasRuntime, ViewOK, RtOrZero
<1>2. /\ submit' = [submit EXCEPT ![p].pc = "send", ![p].sid = active, ![p].again = TRUE]
      /\ runtimeOf' = Bound(active) /\ cached' = cached \cup {active}
      /\ Cross("recover", of[active] # of[submit[p].sid] \/ Mapped(active))
      /\ busy' = TRUE /\ screen' = of[active]
      /\ UNCHANGED <<route, selected, active, creating, listed, resume, late, removing,
                     of, live, turns>>
    BY DEF Recovered, server
<1>3. /\ crossed' \subseteq Kinds /\ crossed \subseteq crossed'
      /\ (of[active] # of[submit[p].sid] \/ Mapped(active)) => "recover" \in crossed'
    BY <1>2, CrossOK DEF IInv, Types, Kinds
<1>4. (Unmixed' => Unmixed) /\ (crossed' = {} => crossed = {} /\ Unmixed)
    BY <1>3, Monotone DEF Unmixed
<1>5. /\ runtimeOf' \in [Stored -> RtOrZero]
      /\ MapServed /\ ~Mapped(active) => MapServed'
    BY <1>1, <1>2, BoundOK DEF IInv, Types
<1>6. ViewOK' /\ ServerOK' /\ ResumeOK' /\ RemoveOK'
    BY <1>1, <1>2 DEF IInv, Types, ViewOK, ServerOK, ResumeOK, RemoveOK
<1>7. StoreOK'
    BY <1>1, <1>2, <1>3, <1>5 DEF IInv, Types, StoreOK
<1>8. /\ submit' \in [Prompts -> SubmitRec]
      /\ submit'[p].pc = "send" /\ submit'[p].sid = active
      /\ submit'[p].typed = submit[p].typed /\ submit'[p].landed = submit[p].landed
      /\ \A q \in Prompts \ {p} : submit'[q] = submit[q]
    <2> DEFINE t == [submit[p] EXCEPT !.pc = "send", !.sid = active, !.again = TRUE]
    <2>1. submit \in [Prompts -> SubmitRec]
        BY DEF IInv, Types, SubmitOK
    <2>2. /\ t \in SubmitRec /\ t.pc = "send" /\ t.sid = active
          /\ t.typed = submit[p].typed /\ t.landed = submit[p].landed
        BY ZenonT(40), <1>1, <2>1 DEF SubmitRec, SubmitPcs, RtOrZero
    <2>3. submit' = [submit EXCEPT ![p] = t]
        BY <1>2
    <2> QED
        BY <2>1, <2>2, <2>3
<1>9. \A q \in Prompts \ {p} : Same(submit[q], submit'[q])
    BY <1>8 DEF Same
<1>10. SubmitOK' /\ (Aimed /\ Aim(submit'[p], of') /\ MintsOnly => Aimed')
    BY <1>1, <1>8, <1>9, OneKeeps DEF IInv, Types
<1>11. CreatingOK'
    BY <1>1, <1>2, <1>8 DEF IInv, Types, CreatingOK
<1>12. Unmixed' => Served'
    BY <1>2, <1>3, <1>4, <1>5 DEF IInv, Unmixed, Served, ActiveServed, ResumeServed, LateServed,
       RemovalServed
<1>13. crossed' = {} => Shown'
    BY <1>1, <1>2, <1>4, Basics DEF IInv, Served, ActiveServed, Shown
<1>14. crossed' = {} => Aimed'
    <2> SUFFICES ASSUME crossed' = {} PROVE Aimed'
        OBVIOUS
    <2>1. Aimed /\ of[active] = of[submit[p].sid]
        BY <1>3, <1>4 DEF IInv
    <2>2. Aim(submit[p], of)
        BY <2>1 DEF Aimed
    <2>3. Aim(submit'[p], of')
        BY <1>1, <1>2, <1>8, <2>1, <2>2 DEF Aim, HasRuntime
    <2> QED
        BY <1>2, <1>10, <2>1, <2>3 DEF MintsOnly
<1> QED
    BY <1>6, <1>7, <1>10, <1>11, <1>12, <1>13, <1>14 DEF IInv, Types

LEMMA RecoveredKeeps ==
    ASSUME IInv, NEW p \in Prompts, Recovered(p)
    PROVE  IInv'
<1>1. /\ submit[p].pc \in {"recover", "adrift"} /\ creating' = creating
      /\ UNCHANGED <<route, selected, active, listed, resume, late, removing, of>>
      /\ ServerOK'
    BY DEF Recovered, server, IInv, Types, ServerOK
<1>2. submit[p].pc \in HasRuntime
    BY <1>1 DEF HasRuntime
<1>3. CASE active # 0 /\ Fits(p)
    BY <1>3, RecoveredSends
<1>4. CASE FailSubmit(p)
    BY <1>1, <1>4, FailedOK, QuietStep
<1>5. CASE submit' = Over(p, "dropped") /\ Unchanged
    <2>1. Writes
        BY <1>5 DEF Writes, Unchanged, IInv, Types, ViewOK
    <2> QED
        BY <1>1, <1>5, <2>1, EndsOK, QuietStep DEF IInv, Types
<1>6. CASE Dropped(p)
    BY <1>1, <1>2, <1>6, DroppedOK, QuietStep
<1> QED
    BY <1>3, <1>4, <1>5, <1>6 DEF Recovered

(* submitPromptText on the active runtime, or on one that is to be made    *)
LEMMA SubmitStarts ==
    ASSUME IInv, NEW p \in Prompts, Submit(p)
    PROVE  /\ submit' \in [Prompts -> SubmitRec]
           /\ submit'[p].typed = selected /\ submit'[p].sid = active
           /\ submit'[p].landed = submit[p].landed
           /\ submit'[p].pc = IF active # 0 THEN "sync" ELSE "create"
           /\ active = 0 => submit'[p].from[1] = selected
           /\ \A q \in Prompts \ {p} : Same(submit[q], submit'[q])
<1> DEFINE s == [submit[p] EXCEPT !.typed = selected, !.sid = active]
           t == [s EXCEPT !.pc = "sync"]
           u == [s EXCEPT !.pc = "create", !.from = <<selected, active, route>>]
<1>1. submit[p] \in SubmitRec /\ selected \in ChatOrNone /\ active \in RtOrZero
      /\ route \in ChatOrNone
    BY DEF IInv, Types, SubmitOK, ViewOK
<1>2. /\ t \in SubmitRec /\ t.pc = "sync" /\ t.typed = selected /\ t.sid = active
      /\ t.landed = submit[p].landed
    BY <1>1 DEF SubmitRec, SubmitPcs
<1>3. /\ u \in SubmitRec /\ u.pc = "create" /\ u.typed = selected /\ u.sid = active
      /\ u.landed = submit[p].landed /\ u.from[1] = selected
    <2>1. s \in SubmitRec /\ s.typed = selected /\ s.sid = active
          /\ s.landed = submit[p].landed
        BY <1>1 DEF SubmitRec
    <2>2. <<selected, active, route>> \in ChatOrNone \X RtOrZero \X ChatOrNone
        BY <1>1
    <2> HIDE DEF s
    <2> QED
        BY <2>1, <2>2 DEF SubmitRec, SubmitPcs
<1>4. /\ Outdated \in [Prompts -> SubmitRec]
      /\ \A q \in Prompts : Same(submit[q], Outdated[q])
    BY OutdatedOK DEF IInv, Types
<1>5. CASE active # 0
    <2>1. submit' = [Outdated EXCEPT ![p] = t]
        BY <1>5 DEF Submit
    <2> HIDE DEF t
    <2> QED
        BY <1>2, <1>4, <1>5, <2>1
<1>6. CASE active = 0
    <2>1. submit' = [Outdated EXCEPT ![p] = u]
        BY <1>6 DEF Submit
    <2> HIDE DEF u
    <2> QED
        BY <1>3, <1>4, <1>6, <2>1
<1> QED
    BY <1>5, <1>6

LEMMA SubmitKeeps ==
    ASSUME IInv, NEW p \in Prompts, Submit(p)
    PROVE  IInv'
<1>1. /\ submit' \in [Prompts -> SubmitRec]
      /\ submit'[p].typed = selected /\ submit'[p].sid = active
      /\ submit'[p].landed = submit[p].landed
      /\ submit'[p].pc = IF active # 0 THEN "sync" ELSE "create"
      /\ active = 0 => submit'[p].from[1] = selected
      /\ \A q \in Prompts \ {p} : Same(submit[q], submit'[q])
    BY SubmitStarts
<1>2. /\ submit[p].pc = "idle"
      /\ UNCHANGED <<route, selected, active, listed, resume, late, removing, of, live, turns>>
    BY DEF Submit, server
<1>3. active \in RtOrZero
    BY DEF IInv, Types, ViewOK
<1>4. /\ busy' \in BOOLEAN /\ screen' \in ChatOrNone /\ StoreOK'
      /\ crossed \subseteq crossed'
      /\ Unmixed' => MapServed'
      /\ crossed' = {} => screen' \in {None, selected}
      /\ active = 0 /\ crossed' = {} => selected = None
      /\ creating' = (creating \/ active = 0)
    <2>1. CASE active # 0
        <3>1. Writes /\ creating' = creating
            BY <1>3, <2>1 DEF Submit, Writes, RtOrZero
        <3>2. creating' = (creating \/ active = 0)
            BY <2>1, <3>1 DEF IInv, Types, ViewOK
        <3> QED
            BY <1>2, <2>1, <3>1, <3>2, WritesOK
    <2>2. CASE active = 0
        <3>1. /\ creating' = TRUE /\ busy' = TRUE
              /\ Cross("create", selected # None)
              /\ UNCHANGED <<screen, runtimeOf, cached>>
            BY <2>2 DEF Submit
        <3>2. /\ crossed' \subseteq Kinds /\ crossed \subseteq crossed'
              /\ selected # None => "create" \in crossed'
            BY <3>1, CrossOK DEF IInv, Types, Kinds
        <3>3. (Unmixed' => Unmixed) /\ (crossed' = {} => crossed = {})
            BY <3>2, Monotone
        <3>4. StoreOK' /\ screen' \in ChatOrNone
            BY <1>2, <3>1, <3>2 DEF IInv, Types, StoreOK, ViewOK
        <3>5. /\ Unmixed' => MapServed'
              /\ crossed' = {} => screen' \in {None, selected} /\ selected = None
            BY <1>2, <3>1, <3>2, <3>3 DEF IInv, Served, MapServed, Shown
        <3> QED
            BY <2>2, <3>1, <3>2, <3>4, <3>5
    <2> QED
        BY <2>1, <2>2
<1>5. (Unmixed' => Unmixed) /\ (crossed' = {} => crossed = {} /\ Unmixed)
    BY <1>4, Monotone DEF Unmixed
<1>6. ViewOK' /\ ServerOK' /\ ResumeOK' /\ RemoveOK'
    BY <1>2, <1>4 DEF IInv, Types, ViewOK, ServerOK, ResumeOK, RemoveOK
<1>7. submit'[p].pc \in HasRuntime => active \in Runtimes /\ active # 0
    BY <1>1, <1>3, Basics DEF HasRuntime, RtOrZero
<1>8. SubmitOK' /\ (Aimed /\ Aim(submit'[p], of') /\ MintsOnly => Aimed')
    BY <1>1, <1>7, OneKeeps DEF IInv, Types
<1>9. CreatingOK'
    <2>1. CASE active = 0
        BY <1>1, <2>1 DEF CreatingOK
    <2>2. CASE active # 0
        BY <1>1, <1>2, <1>4, <2>2 DEF IInv, Types, CreatingOK, Same
    <2> QED
        BY <2>1, <2>2
<1>10. Unmixed' => Served'
    BY <1>2, <1>4, <1>5 DEF IInv, Served, ActiveServed, ResumeServed, LateServed, RemovalServed
<1>11. crossed' = {} => Shown'
    BY <1>2, <1>4, <1>5 DEF IInv, Shown
<1>12. crossed' = {} => Aimed'
    <2> SUFFICES ASSUME crossed' = {} PROVE Aimed'
        OBVIOUS
    <2>1. Aimed /\ ActiveServed
        BY <1>5 DEF IInv, Served
    <2>2. submit[p].landed = None
        BY <1>2, <2>1 DEF Aimed, Aim
    <2>3. Aim(submit'[p], of')
        BY <1>1, <1>2, <1>4, <1>7, <2>1, <2>2 DEF Aim, ActiveServed, HasRuntime
    <2> QED
        BY <1>2, <1>8, <2>1, <2>3 DEF MintsOnly
<1> QED
    BY <1>4, <1>6, <1>8, <1>9, <1>10, <1>11, <1>12 DEF IInv, Types

(* session.create is answered with an unused runtime and a new chat        *)
LEMMA CreatedKeeps ==
    ASSUME IInv, NEW p \in Prompts, Created(p)
    PROVE  IInv'
<1>1. PICK c \in Fresh, r \in Unused :
         /\ \A q \in Runtimes : of[q] # c
         /\ of' = [of EXCEPT ![r] = c] /\ live' = live \cup {r}
         /\ IF Moved(p)
            THEN submit' = [submit EXCEPT ![p].pc = "close", ![p].sid = r]
                 /\ UNCHANGED <<route, selected, active, runtimeOf, listed>>
            ELSE /\ submit' = [submit EXCEPT ![p].pc = "yolo", ![p].sid = r,
                                           ![p].typed = IF @ = None THEN c ELSE @]
                 /\ route' = c /\ selected' = c /\ active' = r
                 /\ runtimeOf' = [runtimeOf EXCEPT ![c] = r]
                 /\ listed' = listed \cup {c}
    BY DEF Created
<1>2. /\ submit[p].pc = "create"
      /\ UNCHANGED <<screen, busy, creating, cached, resume, late, removing, turns, crossed>>
    BY DEF Created
<1>3. /\ c \in Stored /\ r \in Runtimes /\ of[r] = None
    BY <1>1, Basics DEF Unused
<1>4. of' \in [Runtimes -> ChatOrNone] /\ of'[r] = c /\ MintsOnly
    BY <1>1, <1>3 DEF IInv, Types, ServerOK, ChatOrNone, MintsOnly
<1>5. ViewOK' /\ StoreOK'
    BY <1>1, <1>2, <1>3 DEF IInv, Types, ViewOK, StoreOK, ChatOrNone, RtOrZero
<1>6. ServerOK' /\ ResumeOK' /\ RemoveOK'
    BY <1>1, <1>2, <1>3, <1>4 DEF IInv, Types, ServerOK, ResumeOK, RemoveOK
<1>7. /\ submit' \in [Prompts -> SubmitRec]
      /\ submit'[p].pc = IF Moved(p) THEN "close" ELSE "yolo"
      /\ submit'[p].sid = r /\ submit'[p].landed = submit[p].landed
      /\ ~Moved(p) /\ submit[p].typed = None => submit'[p].typed = c
      /\ submit[p].typed = None /\ submit[p].landed = None => submit'[p].landed = None
      /\ \A q \in Prompts \ {p} : submit'[q] = submit[q]
    <2> DEFINE t == [submit[p] EXCEPT !.pc = "close", !.sid = r]
               n == IF submit[p].typed = None THEN c ELSE submit[p].typed
               u == [submit[p] EXCEPT !.pc = "yolo", !.sid = r, !.typed = n]
    <2>1. submit \in [Prompts -> SubmitRec]
        BY DEF IInv, Types, SubmitOK
    <2>2. /\ t \in SubmitRec /\ t.pc = "close" /\ t.sid = r
          /\ t.landed = submit[p].landed
        BY ZenonT(40), <1>3, <2>1 DEF SubmitRec, SubmitPcs, RtOrZero
    <2>3. n \in ChatOrNone /\ (submit[p].typed = None => n = c)
        BY <1>3, <2>1 DEF SubmitRec, ChatOrNone
    <2>4. /\ u \in SubmitRec /\ u.pc = "yolo" /\ u.sid = r /\ u.typed = n
          /\ u.landed = submit[p].landed
        <3> HIDE DEF n
        <3> QED
            BY ZenonT(40), <1>3, <2>1, <2>3 DEF SubmitRec, SubmitPcs, RtOrZero
    <2>5. submit' = IF Moved(p) THEN [submit EXCEPT ![p] = t] ELSE [submit EXCEPT ![p] = u]
        BY <1>1
    <2> HIDE DEF t, u, n
    <2> QED
        BY <2>1, <2>2, <2>3, <2>4, <2>5
<1>8. \A q \in Prompts \ {p} : Same(submit[q], submit'[q])
    BY <1>7 DEF Same
<1>9. SubmitOK' /\ (Aimed /\ Aim(submit'[p], of') /\ MintsOnly => Aimed')
    BY <1>3, <1>7, <1>8, OneKeeps DEF IInv, Types
<1>10. CreatingOK'
    BY <1>7 DEF CreatingOK
<1>11. Unmixed' => Served'
    <2> SUFFICES ASSUME Unmixed' PROVE Served'
        OBVIOUS
    <2>1. Served
        BY <1>2 DEF IInv, Unmixed
    <2>2. ActiveServed'
        BY <1>1, <1>3, <1>4, <2>1, Basics DEF Served, ActiveServed, MintsOnly, IInv, Types, ViewOK,
           RtOrZero
    <2>3. MapServed'
        BY <1>1, <1>3, <1>4, <2>1, Basics DEF Served, MapServed, MintsOnly, IInv, Types, StoreOK,
           RtOrZero
    <2>4. ResumeServed'
        BY <1>2, <1>4, <2>1, Basics DEF Served, ResumeServed, MintsOnly, IInv, Types, ResumeOK,
           ResumeRec, RtOrZero
    <2>5. LateServed'
        BY ZenonT(40), <1>2, <1>4, <2>1, Basics DEF Served, LateServed, MintsOnly, IInv, Types, ResumeOK
    <2>6. RemovalServed'
        BY <1>2, <1>4, <2>1, Basics DEF Served, RemovalServed, MintsOnly, IInv, Types, RemoveOK,
           RemoveRec, RtOrZero
    <2> QED
        BY <2>2, <2>3, <2>4, <2>5, <2>6 DEF Served
<1>12. crossed' = {} => Shown' /\ Aimed'
    <2> SUFFICES ASSUME crossed' = {} PROVE Shown' /\ Aimed'
        OBVIOUS
    <2>1. Shown /\ Aimed /\ Aim(submit[p], of)
        BY <1>2 DEF IInv, Aimed
    <2>2. submit[p].typed = None /\ submit[p].landed = None /\ submit[p].from[1] = None
        BY <1>2, <2>1 DEF Aim
    <2>3. Aimed'
        BY <1>3, <1>4, <1>7, <1>9, <2>1, <2>2 DEF Aim, HasRuntime
    <2>4. Moved(p) \/ selected = None
        BY <2>2 DEF Moved
    <2>5. Shown'
        BY <1>1, <1>2, <2>1, <2>4, Basics DEF Shown
    <2> QED
        BY <2>3, <2>5
<1> QED
    BY <1>5, <1>6, <1>9, <1>10, <1>11, <1>12 DEF IInv, Types

LEMMA AcceptedKeeps ==
    ASSUME IInv, NEW p \in Prompts, Accepted(p)
    PROVE  IInv'
<1> DEFINE r == submit[p].sid
           t == [NoSubmit EXCEPT !.pc = "done", !.typed = submit[p].typed, !.landed = of[r]]
<1>1. /\ submit[p].pc = "send" /\ submit' = [submit EXCEPT ![p] = t]
      /\ turns' = turns \cup {r}
      /\ UNCHANGED <<route, selected, active, screen, busy, creating, listed, runtimeOf, cached,
                     resume, late, removing, of, live, crossed>>
    BY DEF Accepted, view, store
<1>2. /\ submit \in [Prompts -> SubmitRec] /\ r \in Runtimes /\ of[r] \in ChatOrNone
      /\ submit[p].typed \in ChatOrNone
    BY <1>1 DEF IInv, Types, SubmitOK, SubmitRec, ServerOK, HasRuntime
<1>3. /\ t \in SubmitRec /\ t.pc = "done" /\ t.typed = submit[p].typed /\ t.landed = of[r]
    BY <1>2 DEF NoSubmit, SubmitRec, SubmitPcs, ChatOrNone, RtOrZero
<1>4. /\ submit' \in [Prompts -> SubmitRec] /\ submit'[p] = t
      /\ \A q \in Prompts \ {p} : submit'[q] = submit[q]
    <2> HIDE DEF t
    <2> QED
        BY <1>1, <1>2, <1>3
<1>5. \A q \in Prompts \ {p} : Same(submit[q], submit'[q])
    BY <1>4 DEF Same
<1>6. SubmitOK' /\ (Aimed /\ Aim(submit'[p], of') /\ MintsOnly => Aimed')
    BY <1>3, <1>4, <1>5, OneKeeps DEF IInv, Types, HasRuntime
<1>7. ViewOK' /\ StoreOK' /\ ServerOK' /\ ResumeOK' /\ RemoveOK'
    BY <1>1, <1>2 DEF IInv, Types, ViewOK, StoreOK, ServerOK, ResumeOK, RemoveOK
<1>8. CreatingOK'
    BY <1>1, <1>4 DEF IInv, Types, CreatingOK
<1>9. Unmixed' => Served'
    BY <1>1 DEF IInv, Unmixed, Served, ActiveServed, MapServed, ResumeServed, LateServed,
       RemovalServed
<1>10. Aimed => Aimed'
    <2> SUFFICES ASSUME Aimed PROVE Aimed'
        OBVIOUS
    <2>1. of[r] = submit[p].typed
        BY <1>1 DEF Aimed, Aim, HasRuntime
    <2>2. Aim(submit'[p], of')
        BY <1>3, <1>4, <2>1 DEF Aim, HasRuntime
    <2> QED
        BY <1>1, <1>6, <2>2 DEF MintsOnly
<1>11. crossed' = {} => Shown' /\ Aimed'
    BY <1>1, <1>10 DEF IInv, Shown
<1> QED
    BY <1>6, <1>7, <1>8, <1>9, <1>11 DEF IInv, Types

LEMMA StopKeeps ==
    ASSUME IInv, Stop
    PROVE  IInv'
<1>1. /\ submit' = Outdated /\ busy' = FALSE
      /\ UNCHANGED <<route, selected, active, screen, creating, listed, runtimeOf, cached,
                     resume, late, removing, of, live, turns, crossed>>
    BY DEF Stop, store, server
<1>2. SubmitOK' /\ CreatingOK' /\ (Aimed => Aimed')
    BY <1>1, OutdatedOK, SameKeeps DEF IInv, Types, MintsOnly
<1>3. ViewOK' /\ StoreOK' /\ ServerOK' /\ ResumeOK' /\ RemoveOK'
    BY <1>1 DEF IInv, Types, ViewOK, StoreOK, ServerOK, ResumeOK, RemoveOK
<1>4. Unmixed' => Served'
    BY <1>1 DEF IInv, Unmixed, Served, ActiveServed, MapServed, ResumeServed, LateServed,
       RemovalServed
<1>5. crossed' = {} => Shown' /\ Aimed'
    BY <1>1, <1>2 DEF IInv, Shown
<1> QED
    BY <1>2, <1>3, <1>4, <1>5 DEF IInv, Types

(* The runtime is unknown: the submit waits for a resume of the chat that  *)
(* is selected by then                                                     *)
LEMMA NotFoundResumes ==
    ASSUME IInv, NEW p \in Prompts, submit[p].pc = "send", selected # None,
           Begun(selected, FALSE),
           submit' = [Adrift EXCEPT ![p].pc = "recover"],
           UNCHANGED <<route, selected, active, screen, busy, creating, listed, runtimeOf, cached,
                       removing, of, live, turns, crossed>>
    PROVE  IInv'
<1>1. selected \in Stored
    BY DEF IInv, Types, ViewOK, ChatOrNone
<1>2. ResumeOK' /\ resume'.rt = 0
    BY <1>1, BegunOK DEF IInv, Types
<1>3. /\ Adrift \in [Prompts -> SubmitRec]
      /\ \A q \in Prompts : Same(submit[q], Adrift[q])
    BY AdriftOK DEF IInv, Types
<1>4. /\ submit' \in [Prompts -> SubmitRec]
      /\ submit'[p].pc = "recover" /\ submit'[p].typed = submit[p].typed
      /\ submit'[p].sid = submit[p].sid /\ submit'[p].landed = submit[p].landed
      /\ \A q \in Prompts \ {p} : submit'[q] = Adrift[q]
    <2> DEFINE t == [Adrift[p] EXCEPT !.pc = "recover"]
    <2>1. /\ t \in SubmitRec /\ t.pc = "recover" /\ t.typed = submit[p].typed
          /\ t.sid = submit[p].sid /\ t.landed = submit[p].landed
        BY <1>3 DEF SubmitRec, SubmitPcs, Same
    <2>2. submit' = [Adrift EXCEPT ![p] = t]
        OBVIOUS
    <2> HIDE DEF t
    <2> QED
        BY <1>3, <2>1, <2>2
<1>5. submit[p].sid \in Runtimes
    BY DEF IInv, Types, SubmitOK, HasRuntime
<1>6. SubmitOK' /\ (Aimed /\ Aim(submit'[p], of') /\ MintsOnly => Aimed')
    BY <1>3, <1>4, <1>5, OneKeeps DEF IInv, Types
<1>7. ViewOK' /\ StoreOK' /\ ServerOK' /\ RemoveOK'
    BY DEF IInv, Types, ViewOK, StoreOK, ServerOK, RemoveOK
<1>8. CreatingOK'
    BY <1>3, <1>4 DEF IInv, Types, CreatingOK, Same
<1>9. Unmixed' => Served'
    <2> SUFFICES ASSUME Unmixed' PROVE Served'
        OBVIOUS
    <2>1. Served
        BY DEF IInv, Unmixed
    <2>2. ActiveServed' /\ MapServed' /\ RemovalServed'
        BY <2>1 DEF Served, ActiveServed, MapServed, RemovalServed
    <2>3. ResumeServed'
        BY <1>2 DEF ResumeServed
    <2>4. LateServed'
        BY <2>1, Basics DEF Served, ResumeServed, LateServed, Begun, IInv, Types, ResumeOK
    <2> QED
        BY <2>2, <2>3, <2>4 DEF Served
<1>10. Aimed => Aimed'
    <2> SUFFICES ASSUME Aimed PROVE Aimed'
        OBVIOUS
    <2>1. Aim(submit'[p], of')
        BY <1>4 DEF Aimed, Aim, HasRuntime
    <2> QED
        BY <1>6, <2>1 DEF MintsOnly
<1>11. crossed' = {} => Shown' /\ Aimed'
    BY <1>10 DEF IInv, Shown
<1> QED
    BY <1>2, <1>6, <1>7, <1>8, <1>9, <1>11 DEF IInv, Types

LEMMA NotFoundKeeps ==
    ASSUME IInv, NEW p \in Prompts, NotFound(p)
    PROVE  IInv'
<1>1. /\ submit[p].pc = "send" /\ submit[p].pc \in HasRuntime
      /\ UNCHANGED <<route, creating, listed, removing, of, live, turns>>
      /\ ServerOK'
    BY DEF NotFound, server, HasRuntime, IInv, Types, ServerOK
<1>2. CASE Dropped(p) /\ UNCHANGED <<selected, active, resume, late>>
    BY <1>1, <1>2, DroppedOK, QuietStep
<1>3. CASE FailSubmit(p) /\ UNCHANGED <<selected, active, resume, late>>
    BY <1>1, <1>3, FailedOK, QuietStep
<1>4. CASE /\ selected # None /\ Begun(selected, FALSE)
           /\ submit' = [Adrift EXCEPT ![p].pc = "recover"]
           /\ UNCHANGED <<selected, active, screen, busy, runtimeOf, cached, crossed>>
    BY <1>1, <1>4, NotFoundResumes
<1> QED
    BY <1>2, <1>3, <1>4 DEF NotFound

-----------------------------------------------------------------------------
(* A step that leaves the submits where they are                           *)
LEMMA SubmitsKeep ==
    ASSUME IInv, submit' = submit \/ submit' = Adrift, creating' => creating, MintsOnly
    PROVE  SubmitOK' /\ CreatingOK' /\ (Aimed => Aimed')
<1>1. submit' \in [Prompts -> SubmitRec] /\ \A p \in Prompts : Same(submit[p], submit'[p])
    BY AdriftOK DEF IInv, Types, SubmitOK, Same
<1> QED
    BY <1>1, SameKeeps DEF IInv, Types

(* A new resume has no runtime; the one before may live on in late         *)
LEMMA BegunKeeps ==
    ASSUME IInv, NEW c \in Stored, NEW sw \in BOOLEAN, Begun(c, sw), of' = of
    PROVE  ResumeOK' /\ (Served => ResumeServed' /\ LateServed')
<1>1. ResumeOK' /\ resume'.rt = 0
    BY BegunOK DEF IInv, Types
<1>2. Served => LateServed'
    BY Basics DEF Served, ResumeServed, LateServed, Begun, IInv, Types, ResumeOK
<1> QED
    BY <1>1, <1>2 DEF ResumeServed

(* The user, the route effect or the reconnect moves the window: the view  *)
(* stays or is emptied, a resume begins or not, a cached runtime may be    *)
(* forgotten                                                               *)
Leaves ==
    /\ route' \in ChatOrNone /\ busy' \in BOOLEAN
    /\ \/ UNCHANGED <<selected, active, screen>>
       \/ selected' \in ChatOrNone /\ active' = 0 /\ screen' = None
    /\ \/ UNCHANGED <<resume, late, submit>>
       \/ \E c \in Stored, sw \in BOOLEAN : Begun(c, sw) /\ submit' = Adrift
    /\ \/ UNCHANGED runtimeOf
       \/ \E c \in Stored : runtimeOf' = [runtimeOf EXCEPT ![c] = 0]
    /\ UNCHANGED <<creating, listed, cached, removing, of, live, turns, crossed>>

LEMMA LeavesKeeps ==
    ASSUME IInv, Leaves
    PROVE  IInv'
<1>1. ViewOK' /\ ServerOK' /\ RemoveOK'
    <2>1. ViewOK /\ None \in ChatOrNone /\ 0 \in RtOrZero
        BY DEF IInv, Types, ChatOrNone, RtOrZero
    <2>2. ViewOK'
        BY <2>1 DEF Leaves, ViewOK
    <2>3. ServerOK' /\ RemoveOK'
        BY DEF Leaves, IInv, Types, ServerOK, RemoveOK
    <2> QED
        BY <2>2, <2>3
<1>2. StoreOK' /\ (MapServed => MapServed')
    <2>1. CASE UNCHANGED runtimeOf
        BY <2>1 DEF Leaves, IInv, Types, StoreOK, MapServed
    <2>2. CASE \E c \in Stored : runtimeOf' = [runtimeOf EXCEPT ![c] = 0]
        BY <2>2 DEF Leaves, IInv, Types, StoreOK, MapServed, RtOrZero
    <2> QED
        BY <2>1, <2>2 DEF Leaves
<1>3. ResumeOK' /\ (Served => ResumeServed' /\ LateServed')
    <2>1. CASE UNCHANGED <<resume, late>>
        BY <2>1 DEF Leaves, IInv, Types, ResumeOK, Served, ResumeServed, LateServed
    <2>2. CASE \E c \in Stored, sw \in BOOLEAN : Begun(c, sw)
        BY <2>2, BegunKeeps DEF Leaves
    <2> QED
        BY <2>1, <2>2 DEF Leaves
<1>4. SubmitOK' /\ CreatingOK' /\ (Aimed => Aimed')
    BY SubmitsKeep DEF Leaves, MintsOnly
<1>5. Served => ActiveServed' /\ RemovalServed'
    BY DEF Leaves, Served, ActiveServed, RemovalServed
<1>6. Shown => Shown'
    BY DEF Leaves, Shown
<1> QED
    BY <1>1, <1>2, <1>3, <1>4, <1>5, <1>6 DEF IInv, Types, Served, Unmixed, Leaves

LEMMA BeginResumeLeaves ==
    ASSUME ViewOK, NEW c \in Stored, BeginResume(c)
    PROVE  /\ busy' \in BOOLEAN
           /\ \/ UNCHANGED <<selected, active, screen>>
              \/ selected' \in ChatOrNone /\ active' = 0 /\ screen' = None
           /\ \E d \in Stored, sw \in BOOLEAN : Begun(d, sw) /\ submit' = Adrift
BY DEF BeginResume, ViewOK, ChatOrNone

LEMMA OpenChatKeeps ==
    ASSUME IInv, NEW c \in Stored, OpenChat(c)
    PROVE  IInv'
<1>1. /\ route' = c
      /\ UNCHANGED <<creating, listed, runtimeOf, cached, removing, of, live, turns, crossed>>
    BY DEF OpenChat, store, server
<1>2. ViewOK
    BY DEF IInv, Types
<1>3. \/ BeginResume(c) \/ RouteResume(c)
      \/ UNCHANGED <<selected, active, screen, busy, resume, late, submit>>
    BY DEF OpenChat
<1>4. CASE BeginResume(c)
    BY <1>1, <1>2, <1>4, BeginResumeLeaves, LeavesKeeps DEF Leaves, ChatOrNone
<1>5. CASE RouteResume(c)
    BY <1>1, <1>2, <1>5, LeavesKeeps DEF Leaves, RouteResume, ViewOK, ChatOrNone
<1>6. CASE UNCHANGED <<selected, active, screen, busy, resume, late, submit>>
    BY <1>1, <1>2, <1>6, LeavesKeeps DEF Leaves, ViewOK, ChatOrNone
<1> QED
    BY <1>3, <1>4, <1>5, <1>6

LEMMA PickChatKeeps ==
    ASSUME IInv, NEW c \in Stored, PickChat(c)
    PROVE  IInv'
<1>1. UNCHANGED <<route, creating, listed, runtimeOf, cached, removing, of, live, turns, crossed>>
    BY DEF PickChat, store, server
<1>2. ViewOK
    BY DEF IInv, Types
<1>3. CASE Begun(c, selected # c) /\ submit' = Adrift /\ Draft
    BY <1>1, <1>2, <1>3, LeavesKeeps DEF Leaves, Draft, ViewOK, ChatOrNone
<1>4. CASE BeginResume(c)
    BY <1>1, <1>2, <1>4, BeginResumeLeaves, LeavesKeeps DEF Leaves, ViewOK
<1> QED
    BY <1>3, <1>4 DEF PickChat

LEMMA DraftKeeps ==
    ASSUME IInv, NewDraft \/ DraftEffect \/ Stopped
    PROVE  IInv'
<1>1. /\ \/ Draft /\ route' \in {route, None}
         \/ UNCHANGED <<route, selected, active, screen>> /\ busy' = FALSE
      /\ UNCHANGED <<creating, listed, runtimeOf, cached, resume, late, submit, removing, of,
                     live, turns, crossed>>
    BY DEF NewDraft, DraftEffect, Stopped, store, work, server
<1> QED
    BY <1>1, LeavesKeeps DEF Leaves, Draft, IInv, Types, ViewOK, ChatOrNone

(* After a reconnect the selected chat's runtime is forgotten              *)
LEMMA RebindKeeps ==
    ASSUME IInv, Rebind
    PROVE  IInv'
<1>1. UNCHANGED <<route, creating, listed, cached, removing, of, live, turns, crossed>>
    BY DEF Rebind
<1>2. ViewOK
    BY DEF IInv, Types
<1>3. CASE UNCHANGED <<runtimeOf, resume, late, submit, selected, active, screen, busy>>
    BY <1>1, <1>2, <1>3, LeavesKeeps DEF Leaves, ViewOK
<1>4. CASE /\ selected # None /\ runtimeOf' = [runtimeOf EXCEPT ![selected] = 0]
           /\ BeginResume(selected)
    <2>1. selected \in Stored
        BY <1>2, <1>4 DEF ViewOK, ChatOrNone
    <2> QED
        BY <1>1, <1>2, <1>4, <2>1, BeginResumeLeaves, LeavesKeeps DEF Leaves, ViewOK
<1> QED
    BY <1>3, <1>4 DEF Rebind

-----------------------------------------------------------------------------
(* A step of the resume: it moves no submit and no removal                 *)
LEMMA ResumeKeeps ==
    ASSUME IInv, ViewOK', StoreOK', ServerOK', ResumeOK', MintsOnly,
           UNCHANGED <<creating, submit, removing>>, crossed \subseteq crossed',
           Served => ActiveServed' /\ MapServed' /\ ResumeServed' /\ LateServed',
           crossed' = {} /\ Served /\ Shown => screen' \in {None, selected'}
    PROVE  IInv'
<1>1. (Unmixed' => Unmixed) /\ (crossed' = {} => crossed = {} /\ Unmixed)
    BY DEF Unmixed
<1>2. RemoveOK'
    BY DEF IInv, Types, RemoveOK
<1>3. SubmitOK' /\ CreatingOK' /\ (Aimed => Aimed')
    BY SubmitsKeep
<1>4. Served => RemovalServed'
    BY Basics DEF Served, RemovalServed, MintsOnly, IInv, Types, RemoveOK, RemoveRec, RtOrZero
<1>5. crossed' = {} => Shown'
    BY <1>1 DEF IInv, Shown
<1> QED
    BY <1>1, <1>2, <1>3, <1>4, <1>5 DEF IInv, Types, Served

LEMMA ResolveKeeps ==
    ASSUME IInv, Resolve
    PROVE  IInv'
<1> DEFINE c == resume.chat
           r == runtimeOf[c]
           cleared == ~resume.switching /\ screen = None /\ active = 0
           painted == r # 0 /\ r \in cached
           snap == IF ~painted /\ (resume.switching \/ cleared) THEN None ELSE screen'
<1>1. /\ resume.pc = "resolve" /\ listed' = listed \cup {c}
      /\ screen' = IF painted THEN of[r] ELSE screen
      /\ Cross("paint", painted /\ ~Current)
      /\ UNCHANGED <<route, selected, active, busy, creating, runtimeOf, cached, late, submit,
                     removing, of, live, turns>>
    BY DEF Resolve, server
<1>2. /\ c \in Stored /\ r \in RtOrZero /\ (painted => r \in Runtimes)
      /\ resume \in ResumeRec /\ screen' \in ChatOrNone /\ None \in ChatOrNone
    BY <1>1 DEF IInv, Types, ResumeOK, StoreOK, ViewOK, ServerOK, RtOrZero, ChatOrNone
<1>3. /\ crossed' \subseteq Kinds /\ crossed \subseteq crossed'
      /\ painted /\ ~Current => "paint" \in crossed'
    BY <1>1, CrossOK DEF IInv, Types, Kinds
<1>4. \/ resume' = NoResume
      \/ /\ resume' \in ResumeRec /\ resume'.pc \in {"profile", "fetch"}
         /\ resume'.chat = c /\ resume'.rt \in {0, r}
    <2>1. CASE painted /\ ~Current
        BY <2>1 DEF Resolve, Go
    <2>2. CASE ~(painted /\ ~Current)
        <3> DEFINE pc == IF painted THEN "profile" ELSE "fetch"
                   rt == IF painted THEN r ELSE 0
        <3>1. resume' = [resume EXCEPT !.pc = pc, !.rt = rt, !.cleared = cleared, !.snap = snap]
            BY <2>2 DEF Resolve
        <3>2. /\ pc \in ResumePcs /\ pc \in {"profile", "fetch"} /\ rt \in RtOrZero
              /\ rt \in {0, r} /\ cleared \in BOOLEAN /\ snap \in ChatOrNone
            BY <1>2 DEF ResumePcs, RtOrZero
        <3> HIDE DEF pc, rt, cleared, snap, painted, r
        <3>3. /\ resume' \in ResumeRec /\ resume'.pc = pc /\ resume'.chat = c
              /\ resume'.rt = rt
            BY <1>2, <3>1, <3>2 DEF ResumeRec
        <3> QED
            BY <3>2, <3>3
    <2> QED
        BY <2>1, <2>2
<1>5. ResumeOK'
    <2>1. late' \subseteq Stored \X Runtimes
        BY <1>1 DEF IInv, Types, ResumeOK
    <2> QED
        BY <1>2, <1>4, <2>1, NoResumeOK DEF ResumeOK
<1>6. ViewOK' /\ StoreOK' /\ ServerOK'
    BY <1>1, <1>2, <1>3 DEF IInv, Types, ViewOK, StoreOK, ServerOK
<1>7. Served => ActiveServed' /\ MapServed' /\ ResumeServed' /\ LateServed'
    BY <1>1, <1>2, <1>4, NoResumeOK DEF Served, ActiveServed, MapServed, ResumeServed, LateServed
<1>8. crossed' = {} /\ Served /\ Shown => screen' \in {None, selected'}
    BY <1>1, <1>2, <1>3 DEF Served, MapServed, Shown, Current
<1> QED
    BY <1>1, <1>3, <1>5, <1>6, <1>7, <1>8, ResumeKeeps DEF MintsOnly

LEMMA FetchKeeps ==
    ASSUME IInv, Fetch
    PROVE  IInv'
<1>1. /\ resume.pc \in {"fetch", "refetch"}
      /\ UNCHANGED <<route, selected, active, busy, creating, listed, runtimeOf, cached, late,
                     submit, removing, of, live, turns, crossed>>
    BY DEF Fetch, store, server
<1>2. PICK ok \in BOOLEAN :
         /\ screen' = IF ok /\ Current THEN resume.chat ELSE screen
         /\ resume' = IF resume.pc = "fetch" /\ ~Current THEN NoResume
                      ELSE [resume EXCEPT !.pc = IF resume.pc = "fetch" THEN "profile"
                                                 ELSE "resume",
                                          !.hydrated = ok /\ Current]
    BY DEF Fetch
<1>3. resume \in ResumeRec /\ resume.chat \in Stored /\ late \subseteq Stored \X Runtimes
    BY <1>1 DEF IInv, Types, ResumeOK
<1>4. \/ resume' = NoResume
      \/ /\ resume' \in ResumeRec /\ resume'.pc \in {"profile", "resume"}
         /\ resume'.chat = resume.chat /\ resume'.rt = resume.rt
    BY <1>2, <1>3 DEF ResumeRec, ResumePcs
<1>5. ResumeOK'
    BY <1>1, <1>3, <1>4, NoResumeOK DEF ResumeOK
<1>6. ViewOK' /\ StoreOK' /\ ServerOK'
    BY <1>1, <1>2, <1>3 DEF IInv, Types, ViewOK, StoreOK, ServerOK, ChatOrNone
<1>7. Served => ActiveServed' /\ MapServed' /\ ResumeServed' /\ LateServed'
    BY <1>1, <1>4, NoResumeOK DEF Served, ActiveServed, MapServed, ResumeServed, LateServed
<1>8. Shown => screen' \in {None, selected'}
    BY <1>1, <1>2 DEF Shown, Current
<1> QED
    BY <1>1, <1>5, <1>6, <1>7, <1>8, ResumeKeeps DEF MintsOnly

(* The resume asks for a new runtime                                       *)
LEMMA FullResumeOK ==
    ASSUME IInv, resume.pc # "done", NEW h \in BOOLEAN, FullResume(h), UNCHANGED late
    PROVE  /\ ResumeOK' /\ resume'.rt = 0
           /\ active' = 0 /\ busy' = TRUE /\ screen' \in {None, screen}
<1>1. /\ active' = 0 /\ busy' = TRUE /\ screen' \in {None, screen}
      /\ resume' = [resume EXCEPT !.pc = IF h THEN "resume" ELSE "refetch", !.rt = 0]
    BY DEF FullResume
<1>2. resume \in ResumeRec /\ resume.chat \in Stored /\ late \subseteq Stored \X Runtimes
    BY DEF IInv, Types, ResumeOK
<1>3. /\ resume' \in ResumeRec /\ resume'.pc \in {"resume", "refetch"}
      /\ resume'.chat = resume.chat /\ resume'.rt = 0
    BY <1>1, <1>2 DEF ResumeRec, ResumePcs, RtOrZero
<1> QED
    BY <1>1, <1>2, <1>3 DEF ResumeOK

(* The resume runs out                                                     *)
LEMMA OutOK ==
    ASSUME IInv, resume' = NoResume, late' \subseteq late, of' = of
    PROVE  ResumeOK' /\ (Served => ResumeServed' /\ LateServed')
BY NoResumeOK DEF IInv, Types, ResumeOK, Served, ResumeServed, LateServed

LEMMA ProfileKeeps ==
    ASSUME IInv, Profile
    PROVE  IInv'
<1>1. /\ resume.pc = "profile"
      /\ UNCHANGED <<route, selected, creating, listed, runtimeOf, cached, late, submit, removing,
                     of, live, turns, crossed>>
    BY DEF Profile, store, server
<1>2. /\ resume \in ResumeRec /\ resume.chat \in Stored /\ late \subseteq Stored \X Runtimes
      /\ resume.rt \in RtOrZero /\ resume.hydrated \in BOOLEAN
    BY <1>1 DEF IInv, Types, ResumeOK, ResumeRec
<1>3. StoreOK' /\ ServerOK' /\ MintsOnly /\ (Served => MapServed')
    BY <1>1 DEF IInv, Types, StoreOK, ServerOK, MintsOnly, Served, MapServed
<1>4. ViewOK /\ None \in ChatOrNone /\ 0 \in RtOrZero
    BY DEF IInv, Types, ChatOrNone, RtOrZero
<1>5. CASE resume' = NoResume /\ UNCHANGED <<active, busy, screen>>
    <2>1. ResumeOK' /\ (Served => ResumeServed' /\ LateServed')
        BY <1>1, <1>5, OutOK
    <2>2. ViewOK'
        BY <1>1, <1>4, <1>5 DEF ViewOK
    <2>3. (Served => ActiveServed') /\ (Shown => screen' \in {None, selected'})
        BY <1>1, <1>5 DEF Served, ActiveServed, Shown
    <2> QED
        BY <1>1, <1>3, <2>1, <2>2, <2>3, ResumeKeeps
<1>6. CASE /\ Current /\ resume.rt # 0
           /\ active' = resume.rt /\ Go("usage") /\ UNCHANGED <<busy, screen>>
    <2>1. /\ resume' \in ResumeRec /\ resume'.pc = "usage"
          /\ resume'.chat = resume.chat /\ resume'.rt = resume.rt
        BY <1>2, <1>6 DEF Go, ResumeRec, ResumePcs
    <2>2. ResumeOK'
        BY <1>1, <1>2, <1>6, <2>1 DEF ResumeOK, RtOrZero
    <2>3. ViewOK'
        BY <1>1, <1>2, <1>4, <1>6 DEF ViewOK
    <2>4. Served => ActiveServed' /\ ResumeServed' /\ LateServed'
        BY <1>1, <1>6, <2>1 DEF Served, ActiveServed, ResumeServed, LateServed, Current
    <2>5. Shown => screen' \in {None, selected'}
        BY <1>1, <1>6 DEF Shown
    <2> QED
        BY <1>1, <1>3, <2>2, <2>3, <2>4, <2>5, ResumeKeeps
<1>7. CASE FullResume(resume.hydrated)
    <2>1. /\ ResumeOK' /\ resume'.rt = 0
          /\ active' = 0 /\ busy' = TRUE /\ screen' \in {None, screen}
        BY <1>1, <1>2, <1>7, FullResumeOK
    <2>2. ViewOK'
        BY <1>1, <1>4, <2>1 DEF ViewOK
    <2>3. Served => ActiveServed' /\ ResumeServed' /\ LateServed'
        BY <1>1, <2>1 DEF Served, ActiveServed, ResumeServed, LateServed
    <2>4. Shown => screen' \in {None, selected'}
        BY <1>1, <2>1 DEF Shown
    <2> QED
        BY <1>1, <1>3, <2>1, <2>2, <2>3, <2>4, ResumeKeeps
<1> QED
    BY <1>5, <1>6, <1>7 DEF Profile, Go

LEMMA UsageKeeps ==
    ASSUME IInv, Usage
    PROVE  IInv'
<1>1. /\ resume.pc = "usage"
      /\ UNCHANGED <<route, selected, creating, listed, late, submit, removing, of, live, turns,
                     crossed>>
    BY DEF Usage, server
<1>2. resume.chat \in Stored
    BY <1>1 DEF IInv, Types, ResumeOK
<1>3. ServerOK' /\ MintsOnly
    BY <1>1 DEF IInv, Types, ServerOK, MintsOnly
<1>4. ViewOK /\ None \in ChatOrNone /\ 0 \in RtOrZero
    BY DEF IInv, Types, ChatOrNone, RtOrZero
<1>5. CASE /\ resume' = NoResume /\ busy' = (busy /\ ~Current)
           /\ UNCHANGED <<active, screen, runtimeOf, cached>>
    <2>1. ResumeOK' /\ (Served => ResumeServed' /\ LateServed')
        BY <1>1, <1>5, OutOK
    <2>2. ViewOK' /\ StoreOK'
        BY <1>1, <1>4, <1>5 DEF ViewOK, IInv, Types, StoreOK
    <2>3. Served => ActiveServed' /\ MapServed'
        BY <1>1, <1>5 DEF Served, ActiveServed, MapServed
    <2>4. Shown => screen' \in {None, selected'}
        BY <1>1, <1>5 DEF Shown
    <2> QED
        BY <1>1, <1>3, <2>1, <2>2, <2>3, <2>4, ResumeKeeps
<1>6. CASE /\ runtimeOf' = [runtimeOf EXCEPT ![resume.chat] = 0]
           /\ cached' = cached \ {resume.rt} /\ FullResume(FALSE)
    <2>1. /\ ResumeOK' /\ resume'.rt = 0
          /\ active' = 0 /\ busy' = TRUE /\ screen' \in {None, screen}
        BY <1>1, <1>6, FullResumeOK
    <2>2. ViewOK' /\ StoreOK'
        BY <1>1, <1>2, <1>4, <1>6, <2>1 DEF ViewOK, IInv, Types, StoreOK
    <2>3. Served => MapServed'
        BY <1>1, <1>2, <1>6 DEF Served, MapServed, IInv, Types, StoreOK
    <2>4. Served => ActiveServed' /\ ResumeServed' /\ LateServed'
        BY <1>1, <2>1 DEF Served, ActiveServed, ResumeServed, LateServed
    <2>5. Shown => screen' \in {None, selected'}
        BY <1>1, <2>1 DEF Shown
    <2> QED
        BY <1>1, <1>3, <2>1, <2>2, <2>3, <2>4, <2>5, ResumeKeeps
<1> QED
    BY <1>5, <1>6 DEF Usage, Go

(* session.resume is answered with a runtime of the chat                   *)
LEMMA AnsweredKeeps ==
    ASSUME IInv, resume.pc = "resume", Current, Answered,
           UNCHANGED <<route, selected, busy, creating, listed, runtimeOf, cached, late, submit,
                       removing, turns>>
    PROVE  IInv'
<1> DEFINE c == resume.chat
           shown == IF ~resume.hydrated /\ resume.snap # None THEN resume.snap ELSE c
<1>1. PICK r \in Runtimes :
         /\ of[r] \in {None, c} /\ of' = [of EXCEPT ![r] = c] /\ live' = live \cup {r}
         /\ active' = r /\ screen' = shown
         /\ resume' = [resume EXCEPT !.pc = "yolo", !.rt = r]
         /\ Cross("snapshot", shown # c)
    <2>1. live \subseteq Runtimes
        BY DEF IInv, Types, ServerOK
    <2> QED
        BY <2>1 DEF Answered, Unused
<1>2. /\ resume \in ResumeRec /\ c \in Stored /\ selected = c /\ shown \in ChatOrNone
      /\ late \subseteq Stored \X Runtimes
    BY DEF IInv, Types, ResumeOK, ResumeRec, ChatOrNone, Current
<1>3. /\ crossed' \subseteq Kinds /\ crossed \subseteq crossed'
      /\ shown # c => "snapshot" \in crossed'
    BY <1>1, CrossOK DEF IInv, Types, Kinds
<1>4. of' \in [Runtimes -> ChatOrNone] /\ of'[r] = c /\ MintsOnly
    BY <1>1, <1>2 DEF IInv, Types, ServerOK, ChatOrNone, MintsOnly
<1>5. resume' \in ResumeRec /\ resume'.pc = "yolo" /\ resume'.chat = c /\ resume'.rt = r
    <2> HIDE DEF shown
    <2> QED
        BY <1>1, <1>2 DEF ResumeRec, ResumePcs, RtOrZero
<1>6. ResumeOK'
    BY <1>1, <1>2, <1>5 DEF ResumeOK
<1>7. ViewOK' /\ StoreOK' /\ ServerOK'
    BY <1>1, <1>2, <1>3, <1>4 DEF IInv, Types, ViewOK, StoreOK, ServerOK, RtOrZero
<1>8. Served => ActiveServed' /\ ResumeServed'
    BY <1>1, <1>2, <1>4, <1>5 DEF ActiveServed, ResumeServed
<1>9. Served => MapServed'
    BY <1>4, Basics DEF Served, MapServed, MintsOnly, IInv, Types, StoreOK, RtOrZero
<1>10. Served => LateServed'
    BY <1>2, <1>4, Basics DEF Served, LateServed, MintsOnly
<1>11. crossed' = {} => screen' \in {None, selected'}
    BY <1>1, <1>2, <1>3
<1> QED
    BY <1>3, <1>4, <1>6, <1>7, <1>8, <1>9, <1>10, <1>11, ResumeKeeps

LEMMA ResumedKeeps ==
    ASSUME IInv, Resumed
    PROVE  IInv'
<1>1. /\ resume.pc = "resume"
      /\ UNCHANGED <<route, selected, busy, creating, listed, runtimeOf, cached, late, submit,
                     removing, turns>>
    BY DEF Resumed, store
<1>2. CASE Current /\ Answered
    BY <1>1, <1>2, AnsweredKeeps
<1>3. CASE resume' = NoResume /\ UNCHANGED <<active, screen, of, live, crossed>>
    <2>1. ResumeOK' /\ (Served => ResumeServed' /\ LateServed')
        BY <1>1, <1>3, OutOK
    <2>2. ViewOK' /\ StoreOK' /\ ServerOK' /\ MintsOnly
        BY <1>1, <1>3 DEF IInv, Types, ViewOK, StoreOK, ServerOK, MintsOnly
    <2>3. Served => ActiveServed' /\ MapServed'
        BY <1>1, <1>3 DEF Served, ActiveServed, MapServed
    <2>4. Shown => screen' \in {None, selected'}
        BY <1>1, <1>3 DEF Shown
    <2> QED
        BY <1>1, <1>3, <2>1, <2>2, <2>3, <2>4, ResumeKeeps
<1> QED
    BY <1>2, <1>3 DEF Resumed, Go

LEMMA ResumeFailsKeeps ==
    ASSUME IInv, ResumeFails
    PROVE  IInv'
<1>1. /\ resume.pc = "resume"
      /\ UNCHANGED <<route, selected, active, screen, busy, creating, listed, runtimeOf, cached,
                     late, submit, removing, of, live, turns, crossed>>
    BY DEF ResumeFails, view, store, server
<1>2. ViewOK' /\ StoreOK' /\ ServerOK' /\ MintsOnly
    BY <1>1 DEF IInv, Types, ViewOK, StoreOK, ServerOK, MintsOnly
<1>3. (Served => ActiveServed' /\ MapServed') /\ (Shown => screen' \in {None, selected'})
    BY <1>1 DEF Served, ActiveServed, MapServed, Shown
<1>4. CASE resume' = NoResume
    <2>1. ResumeOK' /\ (Served => ResumeServed' /\ LateServed')
        BY <1>1, <1>4, OutOK
    <2> QED
        BY <1>1, <1>2, <1>3, <2>1, ResumeKeeps
<1>5. CASE resume' = [resume EXCEPT !.pc = "fallback"]
    <2>1. resume \in ResumeRec /\ resume.chat \in Stored /\ late \subseteq Stored \X Runtimes
        BY <1>1 DEF IInv, Types, ResumeOK
    <2>2. /\ resume' \in ResumeRec /\ resume'.pc = "fallback"
          /\ resume'.chat = resume.chat /\ resume'.rt = resume.rt
        BY <1>5, <2>1 DEF ResumeRec, ResumePcs
    <2>3. ResumeOK' /\ (Served => ResumeServed' /\ LateServed')
        BY <1>1, <2>1, <2>2 DEF ResumeOK, Served, ResumeServed, LateServed
    <2> QED
        BY <1>1, <1>2, <1>3, <2>3, ResumeKeeps
<1> QED
    BY <1>4, <1>5 DEF ResumeFails, Go

LEMMA FallbackKeeps ==
    ASSUME IInv, Fallback
    PROVE  IInv'
<1>1. /\ resume.pc = "fallback" /\ resume' = NoResume /\ busy' = (busy /\ ~Current)
      /\ screen' \in {screen, IF Current THEN resume.chat ELSE screen}
      /\ UNCHANGED <<route, selected, active, creating, listed, runtimeOf, cached, late, submit,
                     removing, of, live, turns, crossed>>
    BY DEF Fallback, Go, store, server
<1>2. resume.chat \in ChatOrNone
    BY <1>1 DEF IInv, Types, ResumeOK, ResumeRec
<1>3. ResumeOK' /\ (Served => ResumeServed' /\ LateServed')
    BY <1>1, OutOK
<1>4. ViewOK'
    BY <1>1, <1>2 DEF IInv, Types, ViewOK
<1>5. StoreOK' /\ ServerOK' /\ MintsOnly
    BY <1>1 DEF IInv, Types, StoreOK, ServerOK, MintsOnly
<1>6. Served => ActiveServed' /\ MapServed'
    BY <1>1 DEF Served, ActiveServed, MapServed
<1>7. Shown => screen' \in {None, selected'}
    BY <1>1 DEF Shown, Current
<1> QED
    BY <1>1, <1>3, <1>4, <1>5, <1>6, <1>7, ResumeKeeps

(* The runtime of a resume enters the cache, also that of an outdated one  *)
LEMMA ResumeEndsKeeps ==
    ASSUME IInv, NEW c \in Stored, NEW r \in Runtimes, ResumeEnds(c, r)
    PROVE  IInv'
<1>1. /\ runtimeOf' = [runtimeOf EXCEPT ![c] = r] /\ cached' = cached \cup {r}
      /\ screen' = IF r = active THEN c ELSE screen
      /\ UNCHANGED <<route, selected, active, creating, listed, submit, removing, of, live, turns,
                     crossed>>
    BY DEF ResumeEnds, server
<1>2. /\ \/ resume.pc = "yolo" /\ resume.chat = c /\ resume.rt = r
         \/ <<c, r>> \in late
      /\ busy' \in BOOLEAN
    BY DEF ResumeEnds, IInv, Types, ViewOK
<1>3. Served => of[r] = c
    BY <1>2, Basics DEF Served, ResumeServed, LateServed
<1>4. ResumeOK' /\ (Served => ResumeServed' /\ LateServed')
    <2>1. CASE resume' = NoResume /\ UNCHANGED late
        BY <1>1, <2>1, OutOK
    <2>2. CASE UNCHANGED resume /\ late' = late \ {<<c, r>>}
        BY <1>1, <2>2 DEF IInv, Types, ResumeOK, Served, ResumeServed, LateServed
    <2> QED
        BY <2>1, <2>2 DEF ResumeEnds, Go
<1>5. ViewOK' /\ StoreOK' /\ ServerOK' /\ MintsOnly
    BY <1>1, <1>2 DEF IInv, Types, ViewOK, StoreOK, ServerOK, MintsOnly, ChatOrNone, RtOrZero
<1>6. Served => ActiveServed' /\ MapServed'
    BY <1>1, <1>3 DEF Served, ActiveServed, MapServed, IInv, Types, StoreOK
<1>7. Served /\ Shown => screen' \in {None, selected'}
    BY <1>1, <1>3, Basics DEF Served, ActiveServed, Shown
<1> QED
    BY <1>1, <1>4, <1>5, <1>6, <1>7, ResumeKeeps

-----------------------------------------------------------------------------
LEMMA RemoveKeeps ==
    ASSUME IInv, Remove
    PROVE  IInv'
<1>1. /\ removing' = [pc |-> "delete", chat |-> selected, rt |-> active, snap |-> screen]
      /\ route' = None /\ selected' = None /\ active' = 0 /\ screen' = None /\ busy' = FALSE
      /\ UNCHANGED <<creating, listed, runtimeOf, cached, resume, late, submit, of, live, turns,
                     crossed>>
    BY DEF Remove, Draft, store, server
<1>2. ViewOK /\ selected \in Stored
    BY DEF Remove, IInv, Types, ViewOK, ChatOrNone
<1>3. RemoveOK' /\ ViewOK'
    BY <1>1, <1>2 DEF ViewOK, RemoveOK, RemoveRec, ChatOrNone, RtOrZero
<1>4. StoreOK' /\ ServerOK' /\ ResumeOK'
    BY <1>1 DEF IInv, Types, StoreOK, ServerOK, ResumeOK
<1>5. SubmitOK' /\ CreatingOK' /\ (Aimed => Aimed')
    BY <1>1, SubmitsKeep DEF MintsOnly
<1>6. Served => Served'
    BY <1>1 DEF Served, ActiveServed, MapServed, ResumeServed, LateServed, RemovalServed
<1>7. Shown => Shown'
    BY <1>1 DEF Shown
<1> QED
    BY <1>1, <1>3, <1>4, <1>5, <1>6, <1>7 DEF IInv, Types, Unmixed

LEMMA RemovedKeeps ==
    ASSUME IInv, Removed
    PROVE  IInv'
<1>1. /\ removing' = [removing EXCEPT !.pc = "gone"] /\ live' = live \ {removing.rt}
      /\ UNCHANGED <<route, selected, active, screen, busy, creating, listed, runtimeOf, cached,
                     resume, late, submit, of, turns, crossed>>
    BY DEF Removed, view, store
<1>2. removing' \in RemoveRec /\ removing'.pc = "gone"
    BY <1>1 DEF IInv, Types, RemoveOK, RemoveRec
<1>3. ViewOK' /\ StoreOK' /\ ServerOK' /\ ResumeOK' /\ RemoveOK'
    BY <1>1, <1>2 DEF IInv, Types, ViewOK, StoreOK, ServerOK, ResumeOK, RemoveOK
<1>4. SubmitOK' /\ CreatingOK' /\ (Aimed => Aimed')
    BY <1>1, SubmitsKeep DEF MintsOnly
<1>5. Served => Served'
    BY <1>1, <1>2 DEF Served, ActiveServed, MapServed, ResumeServed, LateServed, RemovalServed
<1>6. Shown => Shown'
    BY <1>1, <1>2 DEF Shown
<1> QED
    BY <1>1, <1>3, <1>4, <1>5, <1>6 DEF IInv, Types, Unmixed

(* The removed chat comes back with its runtime and its transcript; where  *)
(* another chat or a turn was on screen by then, that is recorded          *)
LEMMA NotRemovedKeeps ==
    ASSUME IInv, NotRemoved
    PROVE  IInv'
<1> DEFINE c == removing.chat
           r == removing.rt
<1>1. /\ removing.pc = "delete" /\ removing' = [NoRemoval EXCEPT !.pc = "kept"]
      /\ live' = live \ {r}
      /\ selected' = c /\ route' = c /\ screen' = removing.snap
      /\ active' = IF r # 0 THEN r ELSE active
      /\ UNCHANGED <<resume, late>> \/ Begun(c, FALSE)
      /\ Cross("restore", selected # None \/ busy)
      /\ UNCHANGED <<busy, creating, listed, runtimeOf, cached, submit, of, turns>>
    BY DEF NotRemoved, store
<1>2. /\ c \in Stored /\ r \in RtOrZero /\ removing.snap \in ChatOrNone
      /\ active \in RtOrZero /\ selected \in ChatOrNone
    BY <1>1 DEF IInv, Types, RemoveOK, RemoveRec, ViewOK
<1>3. /\ crossed' \subseteq Kinds /\ crossed \subseteq crossed'
      /\ selected # None => "restore" \in crossed'
    BY <1>1, CrossOK DEF IInv, Types, Kinds
<1>4. (Unmixed' => Unmixed /\ selected = None) /\ (crossed' = {} => crossed = {})
    BY <1>3 DEF Unmixed
<1>5. removing' \in RemoveRec /\ removing'.pc = "kept"
    BY <1>1 DEF NoRemoval, RemoveRec, ChatOrNone, RtOrZero
<1>6. ViewOK' /\ StoreOK' /\ ServerOK' /\ RemoveOK'
    BY <1>1, <1>2, <1>3, <1>5 DEF IInv, Types, ViewOK, StoreOK, ServerOK, RemoveOK, ChatOrNone
<1>7. ResumeOK' /\ (Served => ResumeServed' /\ LateServed')
    <2>1. CASE UNCHANGED <<resume, late>>
        BY <1>1, <2>1 DEF IInv, Types, ResumeOK, Served, ResumeServed, LateServed
    <2>2. CASE Begun(c, FALSE)
        BY <1>1, <1>2, <2>2, BegunKeeps
    <2> QED
        BY <1>1, <2>1, <2>2
<1>8. SubmitOK' /\ CreatingOK' /\ (Aimed => Aimed')
    BY <1>1, SubmitsKeep DEF MintsOnly
<1>9. Served /\ selected = None => ActiveServed'
    BY <1>1, <1>2, Basics DEF Served, ActiveServed, RemovalServed
<1>10. Served => MapServed' /\ RemovalServed'
    BY <1>1, <1>5 DEF Served, MapServed, RemovalServed
<1>11. Shown => Shown'
    BY <1>1, <1>5 DEF Shown
<1> QED
    BY <1>4, <1>6, <1>7, <1>8, <1>9, <1>10, <1>11 DEF IInv, Types, Served

(* The server forgets its runtimes, but mints no id again                  *)
LEMMA RestartKeeps ==
    ASSUME IInv, Restart
    PROVE  IInv'
<1>1. /\ live' = {} /\ turns' = {}
      /\ UNCHANGED <<route, selected, active, screen, busy, creating, listed, runtimeOf, cached,
                     resume, late, submit, removing, of, crossed>>
    BY DEF Restart, view, store, work
<1>2. ViewOK' /\ StoreOK' /\ ServerOK' /\ ResumeOK' /\ RemoveOK'
    BY <1>1 DEF IInv, Types, ViewOK, StoreOK, ServerOK, ResumeOK, RemoveOK
<1>3. SubmitOK' /\ CreatingOK' /\ (Aimed => Aimed')
    BY <1>1, SubmitsKeep DEF MintsOnly
<1>4. (Served => Served') /\ (Shown => Shown')
    BY <1>1 DEF Served, ActiveServed, MapServed, ResumeServed, LateServed, RemovalServed, Shown
<1> QED
    BY <1>1, <1>2, <1>3, <1>4 DEF IInv, Types, Unmixed

LEMMA TurnEndsKeeps ==
    ASSUME IInv, NEW r \in Runtimes, TurnEnds(r)
    PROVE  IInv'
<1>1. /\ turns' = turns \ {r} /\ cached' = cached \cup {r}
      /\ busy' = (busy /\ r # active) /\ screen' = IF r = active THEN of[r] ELSE screen
      /\ UNCHANGED <<route, selected, active, creating, listed, runtimeOf, resume, late, submit,
                     removing, of, live, crossed>>
    BY DEF TurnEnds, work
<1>2. ViewOK' /\ StoreOK' /\ ServerOK' /\ ResumeOK' /\ RemoveOK'
    BY <1>1 DEF IInv, Types, ViewOK, StoreOK, ServerOK, ResumeOK, RemoveOK
<1>3. SubmitOK' /\ CreatingOK' /\ (Aimed => Aimed')
    BY <1>1, SubmitsKeep DEF MintsOnly
<1>4. Served => Served'
    BY <1>1 DEF Served, ActiveServed, MapServed, ResumeServed, LateServed, RemovalServed
<1>5. Served /\ Shown => Shown'
    BY <1>1, Basics DEF Served, ActiveServed, Shown
<1> QED
    BY <1>1, <1>2, <1>3, <1>4, <1>5 DEF IInv, Types, Unmixed

-----------------------------------------------------------------------------
LEMMA InitIInv == Init => IInv
<1> SUFFICES ASSUME Init PROVE IInv
    OBVIOUS
<1>1. ViewOK /\ StoreOK
    BY Basics DEF Init, ViewOK, StoreOK, ChatOrNone, RtOrZero
<1>2. ServerOK
    BY DEF Init, ServerOK, ChatOrNone, Stored
<1>3. resume = NoResume /\ ResumeOK /\ resume.rt = 0
    BY NoResumeOK DEF Init, ResumeOK
<1>4. removing.pc = "none" /\ RemoveOK
    BY DEF Init, NoRemoval, RemoveOK, RemoveRec, ChatOrNone, RtOrZero
<1>5. /\ submit = [p \in Prompts |-> NoSubmit] /\ NoSubmit \in SubmitRec
      /\ NoSubmit.pc = "idle" /\ NoSubmit.landed = None
    BY DEF Init, NoSubmit, SubmitRec, SubmitPcs, ChatOrNone, RtOrZero
<1>6. SubmitOK /\ CreatingOK /\ Aimed
    BY <1>5 DEF Init, SubmitOK, HasRuntime, CreatingOK, Aimed, Aim
<1>7. Served
    BY <1>3, <1>4 DEF Init, Served, ActiveServed, MapServed, ResumeServed, LateServed, RemovalServed
<1>8. Shown
    BY <1>4 DEF Init, Shown
<1> QED
    BY <1>1, <1>2, <1>3, <1>4, <1>6, <1>7, <1>8 DEF IInv, Types

LEMMA NextIInv == IInv /\ [Next]_vars => IInv'
<1> SUFFICES ASSUME IInv, [Next]_vars PROVE IInv'
    OBVIOUS
<1>1. CASE User
    BY <1>1, OpenChatKeeps, PickChatKeeps, DraftKeeps, StopKeeps, RemoveKeeps, SubmitKeeps
       DEF User
<1>2. CASE Resume
    BY <1>2, ResolveKeeps, FetchKeeps, ProfileKeeps, UsageKeeps, ResumedKeeps, ResumeFailsKeeps,
       FallbackKeeps, ResumeEndsKeeps DEF Resume
<1>3. CASE \E p \in Prompts : Send(p)
    BY <1>3, CreatedKeeps, NotCreatedKeeps, SetUpKeeps, SyncedKeeps, AcceptedKeeps, RefusedKeeps,
       WaitedKeeps, NotFoundKeeps, RecoveredKeeps DEF Send
<1>4. CASE Rebind \/ DraftEffect \/ Stopped \/ Removed \/ NotRemoved
    BY <1>4, RebindKeeps, DraftKeeps, RemovedKeeps, NotRemovedKeeps
<1>5. CASE Restart
    BY <1>5, RestartKeeps
<1>6. CASE \E r \in Runtimes : TurnEnds(r)
    BY <1>6, TurnEndsKeeps
<1>7. CASE UNCHANGED vars
    BY <1>7 DEF vars, view, store, work, server, IInv, Types, ViewOK, StoreOK, ServerOK, ResumeOK,
       RemoveOK, SubmitOK, CreatingOK, Unmixed, Served, ActiveServed, MapServed, ResumeServed,
       LateServed, RemovalServed, Shown, Aimed
<1> QED
    BY <1>1, <1>2, <1>3, <1>4, <1>5, <1>6, <1>7 DEF Next, System

(* The strengthening: every place that keeps a runtime or a transcript for *)
(* a chat keeps one of that chat, until a step that crossed records        *)
THEOREM Invariant == Spec => []IInv
<1>1. Init => IInv
    BY InitIInv
<1>2. IInv /\ [Next]_vars => IInv'
    BY NextIInv
<1> QED
    BY <1>1, <1>2, PTL DEF Spec

(* The variables keep their types, and a creation is marked only while one *)
(* goes on (creatingSessionRef)                                            *)
THEOREM TypeCorrect == Spec => []TypeOK
<1>1. IInv => TypeOK
    BY DEF IInv, Types, ViewOK, StoreOK, ServerOK, ResumeOK, SubmitOK, CreatingOK, TypeOK,
       ChatOrNone, RtOrZero, Kinds, ResumeRec, ResumePcs, SubmitRec
<1> QED
    BY <1>1, Invariant, PTL

(* No resume, failure, recovery, removal or event paints the transcript of *)
(* another chat than the selected one, but for the steps crossed records   *)
THEOREM ScreenIsSelectedAlways == Spec => []ScreenIsSelected
<1>1. IInv => ScreenIsSelected
    BY DEF IInv, Shown, ScreenIsSelected
<1> QED
    BY <1>1, Invariant, PTL

(* What is typed goes to the chat on screen: the active runtime serves the *)
(* selected chat until a runtime is bound to another chat                  *)
THEOREM ActiveIsSelectedAlways == Spec => []ActiveIsSelected
<1>1. IInv => ActiveIsSelected
    BY DEF IInv, Unmixed, Served, ActiveServed, ActiveIsSelected
<1> QED
    BY <1>1, Invariant, PTL

(* A prompt runs in the chat it was typed in, whatever the window shows by *)
(* the time its runtime is created, resumed or recovered                   *)
THEOREM PromptStaysAlways == Spec => []PromptStays
<1>1. IInv => PromptStays
    BY DEF IInv, Aimed, Aim, PromptStays, PromptInItsChat
<1> QED
    BY <1>1, Invariant, PTL
=============================================================================
