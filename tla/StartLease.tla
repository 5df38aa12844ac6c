----------------------------- MODULE StartLease -----------------------------
(***************************************************************************)
(* What a LeaseStore (runtime_orch/leases.py) promises wake_runtime: a     *)
(* start lease of one key is granted to one attempt at a time, for at most *)
(* TTL after the attempt read the clock.  An attempt is one call of        *)
(* try_acquire; its uuid4 token is the attempt itself.                     *)
(***************************************************************************)
EXTENDS Integers

CONSTANTS Attempts,  \* calls of try_acquire, and their tokens
          TTL,       \* ttl_seconds
          MaxTime,   \* bound of the clock
          Nobody

VARIABLES now,       \* time.time()
          owner,     \* the token the store holds for the key
          deadline,  \* deadline[a]: when the lease a asks for expires
          phase      \* phase[a]: what the caller of attempt a knows

leaseVars == <<now, owner, deadline, phase>>

LeaseInit ==
    /\ now = 0
    /\ owner = Nobody
    /\ deadline = [a \in Attempts |-> 0]
    /\ phase = [a \in Attempts |-> "idle"]

Tick ==
    /\ now < MaxTime
    /\ now' = now + 1
    /\ UNCHANGED <<owner, deadline, phase>>

Ask(a) ==
    /\ phase[a] = "idle"
    /\ phase' = [phase EXCEPT ![a] = "asking"]
    /\ deadline' = [deadline EXCEPT ![a] = now + TTL]
    /\ UNCHANGED <<now, owner>>

Vacant == owner = Nobody \/ deadline[owner] <= now

(* The store forgets an owner whose time is over.                          *)
Lapse ==
    /\ Vacant
    /\ owner' = Nobody
    /\ UNCHANGED <<now, deadline, phase>>

Reserve(a) ==
    /\ phase[a] = "asking"
    /\ Vacant
    /\ owner' = a
    /\ UNCHANGED <<now, deadline, phase>>

Grant(a) ==
    /\ phase[a] = "asking" /\ owner = a
    /\ phase' = [phase EXCEPT ![a] = "granted"]
    /\ UNCHANGED <<now, owner, deadline>>

Refuse(a) ==
    /\ phase[a] = "asking" /\ owner # a
    /\ phase' = [phase EXCEPT ![a] = "over"]
    /\ UNCHANGED <<now, owner, deadline>>

(* Only one's own lease is given up.                                       *)
Release(a) ==
    /\ phase[a] = "granted"
    /\ phase' = [phase EXCEPT ![a] = "over"]
    /\ owner' = IF owner = a THEN Nobody ELSE owner
    /\ UNCHANGED <<now, deadline>>

LeaseNext ==
    \/ Tick \/ Lapse
    \/ \E a \in Attempts : Ask(a) \/ Reserve(a) \/ Grant(a) \/ Refuse(a) \/ Release(a)

LeaseSpec == LeaseInit /\ [][LeaseNext]_leaseVars

(* a was granted the lease, has not released it, and its time is not over  *)
Holds(a) == phase[a] = "granted" /\ now < deadline[a]

(* Two starts never hold the lease of one runtime at once.                 *)
OneHolder == \A a, b \in Attempts : Holds(a) /\ Holds(b) => a = b
=============================================================================
