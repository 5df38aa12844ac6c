----------------------- MODULE SqliteLeaseStore_proofs -----------------------
(* Theorems about SqliteLeaseStore: its SQL statements, in any             *)
(* interleaving, keep the promise of StartLease.                           *)
EXTENDS SqliteLeaseStore, TLAPS

LEMMA RowFacts ==
    /\ NoRow \in [token: Attempts \cup {Nobody}, expires: Nat]
    /\ NoRow.token = Nobody /\ NoRow.expires = 0
    /\ \A a \in Attempts : TypeOK =>
          /\ MyRow(a) \in [token: Attempts \cup {Nobody}, expires: Nat]
          /\ MyRow(a).token = a /\ MyRow(a).expires = start[a] + TTL
          /\ MyRow(a) # NoRow
BY StoreAssumption DEF NoRow, MyRow, TypeOK

LEMMA InitIInv == Init => IInv
<1> SUFFICES ASSUME Init PROVE IInv
    OBVIOUS
<1>1. PICK a \in Attempts : TRUE
    BY StoreAssumption
<1> QED
    BY <1>1, RowFacts DEF Init, IInv, TypeOK, Pcs, RowIsWritten, StartIsPast,
       HolderOwnsRow, SomebodyIsLeft

LEMMA NextIInv == IInv /\ [Next]_vars => IInv'
<1> SUFFICES ASSUME IInv, [Next]_vars PROVE IInv'
    OBVIOUS
<1> USE StoreAssumption DEF IInv, TypeOK, Pcs, RowIsWritten, StartIsPast,
        HolderOwnsRow, SomebodyIsLeft, Goto, MyRow, NoRow
<1>1. CASE Tick
    BY <1>1 DEF Tick
<1>2. ASSUME NEW a \in Attempts, ReadClock(a) PROVE IInv'
    BY <1>2 DEF ReadClock
<1>3. ASSUME NEW a \in Attempts, Purge(a) PROVE IInv'
    BY <1>3 DEF Purge
<1>4. ASSUME NEW a \in Attempts, Select(a) PROVE IInv'
    BY <1>4 DEF Select
<1>5. ASSUME NEW a \in Attempts, Update(a) PROVE IInv'
    BY <1>5 DEF Update
<1>6. ASSUME NEW a \in Attempts, Insert(a) PROVE IInv'
    BY <1>6 DEF Insert
<1>7. ASSUME NEW a \in Attempts, Confirm(a) PROVE IInv'
    BY <1>7 DEF Confirm
<1>8. ASSUME NEW a \in Attempts, Release(a) PROVE IInv'
    BY <1>8 DEF Release
<1>9. ASSUME NEW a \in Attempts, InsertFails(a) PROVE IInv'
    BY <1>9 DEF InsertFails
<1>10. CASE UNCHANGED vars
    BY <1>10 DEF vars
<1> QED
    BY <1>1, <1>2, <1>3, <1>4, <1>5, <1>6, <1>7, <1>8, <1>9, <1>10 DEF Next

-----------------------------------------------------------------------------
LEMMA Invariance == Spec => []IInv
BY InitIInv, NextIInv, PTL DEF Spec

(* The clock, the row and the progress of every attempt keep their types,  *)
(* for any number of attempts, any TTL and any clock bound.                *)
THEOREM TypeCorrect == Spec => []TypeOK
<1>1. IInv => TypeOK
    BY DEF IInv
<1> QED
    BY <1>1, Invariance, PTL

(* try_acquire grants the lease of a runtime to one start at a time: two   *)
(* attempts never both hold an unexpired lease (leases.py:85-118).         *)
THEOREM OneHolderAlways == Spec => []OneHolder
<1>1. IInv => OneHolder
    <2> SUFFICES ASSUME IInv, NEW a \in Attempts, NEW b \in Attempts,
                        Promise!Holds(a), Promise!Holds(b)
                 PROVE  a = b
        BY DEF OneHolder, Promise!OneHolder
    <2>1. pc[a] = "granted" /\ now < start[a] + TTL
        BY StoreAssumption DEF Promise!Holds, Deadline, Phase, IInv, TypeOK, Pcs
    <2>2. pc[b] = "granted" /\ now < start[b] + TTL
        BY StoreAssumption DEF Promise!Holds, Deadline, Phase, IInv, TypeOK, Pcs
    <2>3. row = MyRow(a) /\ row = MyRow(b)
        BY <2>1, <2>2 DEF IInv, HolderOwnsRow
    <2> QED
        BY <2>3 DEF MyRow
<1> QED
    BY <1>1, Invariance, PTL

(* Attempts that race for the free key come back empty-handed, all of      *)
(* them, only if an INSERT met a database error: a refusal that rests on   *)
(* a row, a conflict or a token is another attempt's (leases.py:85-118).   *)
THEOREM SomebodyWinsAlways == Spec => []SomebodyWins
<1>1. IInv => SomebodyWins
    <2> SUFFICES ASSUME IInv,
                        \A a \in Attempts : pc[a] \in {"refused", "failed"},
                        \A a \in Attempts : pc[a] # "failed"
                 PROVE  FALSE
        BY DEF SomebodyWins
    <2>1. row = NoRow
        BY DEF IInv, RowIsWritten
    <2> QED
        BY <2>1 DEF IInv, SomebodyIsLeft
<1> QED
    BY <1>1, Invariance, PTL

-----------------------------------------------------------------------------
LEMMA InitMaps == Init => Promise!LeaseInit
BY DEF Init, NoRow, Promise!LeaseInit, Deadline, Phase

LEMMA NextMaps == IInv /\ [Next]_vars => [Promise!LeaseNext]_(Promise!leaseVars)
<1> SUFFICES ASSUME IInv, [Next]_vars
             PROVE  Promise!LeaseNext \/ UNCHANGED Promise!leaseVars
    OBVIOUS
<1> USE StoreAssumption DEF IInv, TypeOK, Pcs, RowIsWritten, StartIsPast,
        Goto, MyRow, NoRow, Deadline, Phase, Promise!leaseVars, Promise!Vacant
<1>1. CASE Tick
    BY <1>1 DEF Tick, Promise!Tick, Promise!LeaseNext
<1>2. ASSUME NEW a \in Attempts, ReadClock(a) PROVE Promise!Ask(a)
    BY <1>2 DEF ReadClock, Promise!Ask
<1>3. ASSUME NEW a \in Attempts, Purge(a)
      PROVE  Promise!Lapse \/ UNCHANGED Promise!leaseVars
    BY <1>3 DEF Purge, Promise!Lapse
<1>4. ASSUME NEW a \in Attempts, Select(a)
      PROVE  Promise!Refuse(a) \/ UNCHANGED Promise!leaseVars
    BY <1>4 DEF Select, Promise!Refuse
<1>5. ASSUME NEW a \in Attempts, Update(a)
      PROVE  Promise!Reserve(a) \/ UNCHANGED Promise!leaseVars
    BY <1>5 DEF Update, Promise!Reserve
<1>6. ASSUME NEW a \in Attempts, Insert(a)
      PROVE  Promise!Reserve(a) \/ Promise!Refuse(a)
    <2>1. CASE row = NoRow
        <3>1. Promise!Reserve(a)
            BY <1>6, <2>1 DEF Insert, Promise!Reserve
        <3> QED
            BY <3>1
    <2>2. CASE row # NoRow
        <3>1. row.token # a
            BY <1>6, <2>2 DEF Insert
        <3>2. Promise!Refuse(a)
            BY <1>6, <2>2, <3>1 DEF Insert, Promise!Refuse
        <3> QED
            BY <3>2
    <2> QED
        BY <2>1, <2>2
<1>7. ASSUME NEW a \in Attempts, Confirm(a)
      PROVE  Promise!Grant(a) \/ Promise!Refuse(a)
    BY <1>7 DEF Confirm, Promise!Grant, Promise!Refuse
<1>8. ASSUME NEW a \in Attempts, Release(a) PROVE Promise!Release(a)
    BY <1>8 DEF Release, Promise!Release
<1>9. ASSUME NEW a \in Attempts, InsertFails(a) PROVE Promise!Refuse(a)
    <2>1. row.token # a
        BY <1>9 DEF InsertFails
    <2> QED
        BY <1>9, <2>1 DEF InsertFails, Promise!Refuse
<1>10. CASE UNCHANGED vars
    BY <1>10 DEF vars
<1> QED
    BY <1>1, <1>2, <1>3, <1>4, <1>5, <1>6, <1>7, <1>8, <1>9, <1>10
    DEF Next, Promise!LeaseNext

(* Every interleaving of the SQL statements of try_acquire and release is  *)
(* a behaviour of the lease that StartLease promises: each statement is    *)
(* one step of it, or invisible (leases.py:85-127).                        *)
THEOREM Refinement == Spec => KeepsPromise
BY InitMaps, NextMaps, Invariance, PTL DEF Spec, KeepsPromise, Promise!LeaseSpec
=============================================================================
