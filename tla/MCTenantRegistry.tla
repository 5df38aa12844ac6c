------------------------- MODULE MCTenantRegistry -------------------------
(* Constant values that a .cfg cannot write, for TenantRegistry.           *)
EXTENDS TenantRegistry, TLC

CONSTANTS w1, w2, c1, c2, s1, t1

OneTenant == [x \in Calls \cup Stops |-> t1]

WorkerSymmetry == Permutations(Workers)
===========================================================================
