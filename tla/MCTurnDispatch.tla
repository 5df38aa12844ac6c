--------------------------- MODULE MCTurnDispatch ---------------------------
(* Constant values that a .cfg cannot write, for TurnDispatch.             *)
EXTENDS TurnDispatch, TLC

CONSTANTS w1, w2, j1, j2, a1, t1, t2

OneTenant == [x \in Calls \cup Stops |-> t1]
SplitTenants == [x \in Calls \cup Stops |-> IF x = j2 THEN t2 ELSE t1]

WorkerSymmetry == Permutations(Workers)
=============================================================================
