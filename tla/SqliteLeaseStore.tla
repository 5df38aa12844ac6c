-------------------------- MODULE SqliteLeaseStore --------------------------
(***************************************************************************)
(* SqliteLeaseStore of runtime_orch/leases.py: a lease of one key built    *)
(* from separate SQL statements on runtime_start_leases, run by attempts   *)
(* in different processes.  Each statement is atomic; anything may happen  *)
(* between two of them, and the attempt compares with the time it read     *)
(* first.                                                                  *)
(***************************************************************************)
EXTENDS Integers

CONSTANTS Attempts,  \* calls of try_acquire, and their tokens
          TTL,       \* ttl_seconds
          MaxTime,   \* bound of the clock
          Nobody

ASSUME StoreAssumption ==
    /\ TTL \in Nat \ {0}
    /\ MaxTime \in Nat
    /\ Attempts # {} /\ Nobody \notin Attempts

VARIABLES now,   \* time.time()
          row,   \* the row of the key: token and expires_at
          pc,    \* pc[a]: the next statement of attempt a
          start  \* start[a]: the "now" attempt a read

vars == <<now, row, pc, start>>

NoRow == [token |-> Nobody, expires |-> 0]

Pcs == {"idle", "purge", "select", "update", "insert", "confirm",
        "granted", "refused", "failed", "released"}

TypeOK ==
    /\ now \in Nat
    /\ row \in [token: Attempts \cup {Nobody}, expires: Nat]
    /\ pc \in [Attempts -> Pcs]
    /\ start \in [Attempts -> Nat]

Init ==
    /\ now = 0
    /\ row = NoRow
    /\ pc = [a \in Attempts |-> "idle"]
    /\ start = [a \in Attempts |-> 0]

Goto(a, p) == pc' = [pc EXCEPT ![a] = p]

Tick ==
    /\ now < MaxTime
    /\ now' = now + 1
    /\ UNCHANGED <<row, pc, start>>

(* now = time.time()                                                       *)
ReadClock(a) ==
    /\ pc[a] = "idle"
    /\ Goto(a, "purge")
    /\ start' = [start EXCEPT ![a] = now]
    /\ UNCHANGED <<now, row>>

(* DELETE ... WHERE expires_at < now                                       *)
Purge(a) ==
    /\ pc[a] = "purge"
    /\ Goto(a, "select")
    /\ row' = IF row.expires < start[a] THEN NoRow ELSE row
    /\ UNCHANGED <<now, start>>

(* SELECT: an unexpired row refuses, an expired one is updated             *)
Select(a) ==
    /\ pc[a] = "select"
    /\ Goto(a, IF row = NoRow THEN "insert"
               ELSE IF row.expires > start[a] THEN "refused" ELSE "update")
    /\ UNCHANGED <<now, row, start>>

(* expires = now + ttl_seconds                                             *)
MyRow(a) == [token |-> a, expires |-> start[a] + TTL]

(* BUG variant: UPDATE trusts the SELECT                                   *)
UpdateAnyway(a) ==
    /\ pc[a] = "update"
    /\ Goto(a, "confirm")
    /\ row' = MyRow(a)
    /\ UNCHANGED <<now, start>>

(* UPDATE ... WHERE lease_key = ? AND expires_at <= now                    *)
Update(a) ==
    /\ pc[a] = "update"
    /\ Goto(a, "confirm")
    /\ row' = IF row # NoRow /\ row.expires <= start[a] THEN MyRow(a) ELSE row
    /\ UNCHANGED <<now, start>>

(* INSERT: a row of the same key makes it raise, and the attempt give up   *)
Insert(a) ==
    /\ pc[a] = "insert"
    /\ IF row = NoRow THEN row' = MyRow(a) /\ Goto(a, "confirm")
                      ELSE Goto(a, "refused") /\ UNCHANGED row
    /\ UNCHANGED <<now, start>>

(* INSERT: any other database error is taken for a conflict as well        *)
InsertFails(a) ==
    /\ pc[a] = "insert"
    /\ Goto(a, "failed")
    /\ UNCHANGED <<now, row, start>>

(* SELECT token: the lease is ours if the row carries our token            *)
Confirm(a) ==
    /\ pc[a] = "confirm"
    /\ Goto(a, IF row.token = a THEN "granted" ELSE "refused")
    /\ UNCHANGED <<now, row, start>>

(* BUG variant: DELETE by key alone                                        *)
ReleaseKey(a) ==
    /\ pc[a] = "granted"
    /\ Goto(a, "released")
    /\ row' = NoRow
    /\ UNCHANGED <<now, start>>

(* DELETE ... WHERE lease_key = ? AND token = ?                            *)
Release(a) ==
    /\ pc[a] = "granted"
    /\ Goto(a, "released")
    /\ row' = IF row.token = a THEN NoRow ELSE row
    /\ UNCHANGED <<now, start>>

Next ==
    \/ Tick
    \/ \E a \in Attempts :
          \/ ReadClock(a) \/ Purge(a) \/ Select(a) \/ Update(a)
          \/ Insert(a) \/ InsertFails(a) \/ Confirm(a) \/ Release(a)

Spec == Init /\ [][Next]_vars

-----------------------------------------------------------------------------
(* Properties                                                              *)

(* The store implements the promise of StartLease: the row's token is the  *)
(* owner, an attempt's deadline is the expires_at it would write.          *)
Deadline == [a \in Attempts |-> IF pc[a] = "idle" THEN 0 ELSE start[a] + TTL]
Phase == [a \in Attempts |-> IF pc[a] \in {"idle", "granted"} THEN pc[a]
                             ELSE IF pc[a] \in {"refused", "failed", "released"} THEN "over"
                             ELSE "asking"]
Promise == INSTANCE StartLease WITH
    owner <- row.token, deadline <- Deadline, phase <- Phase

(* Every interleaving of the SQL statements is a behaviour of StartLease.  *)
KeepsPromise == Promise!LeaseSpec

(* "multi-worker safe" (docs/architecture/README.md:13): no two attempts   *)
(* hold an unexpired lease, although none of them ran in a transaction.    *)
OneHolder == Promise!OneHolder

(* Attempts that race for a free key all come back empty only if one of    *)
(* them met a database error: the ones that saw a row, a conflict or a     *)
(* foreign token lost it to somebody.                                      *)
SomebodyWins ==
    (\A a \in Attempts : pc[a] \in {"refused", "failed"})
        => \E a \in Attempts : pc[a] = "failed"

(* The strengthening that makes these inductive.  The row was written by   *)
(* its token's attempt, which has not given it up; a holder's row is still *)
(* there, because a purge or an update needs it to be over at a time that  *)
(* is past; whoever removed the row is not refused, or tries to insert.    *)
RowIsWritten ==
    row # NoRow =>
        /\ row.token \in Attempts
        /\ row = MyRow(row.token)
        /\ pc[row.token] \in {"confirm", "granted"}
StartIsPast == \A a \in Attempts : start[a] <= now
HolderOwnsRow ==
    \A a \in Attempts : pc[a] = "granted" /\ now < start[a] + TTL => row = MyRow(a)
SomebodyIsLeft ==
    row = NoRow =>
        \E a \in Attempts :
            pc[a] \in {"idle", "purge", "select", "insert", "failed", "granted", "released"}
IInv == TypeOK /\ RowIsWritten /\ StartIsPast /\ HolderOwnsRow /\ SomebodyIsLeft
=============================================================================
