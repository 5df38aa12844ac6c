------------------------- MODULE MCSqliteLeaseStore -------------------------
(* Symmetry for SqliteLeaseStore.                                          *)
EXTENDS SqliteLeaseStore, TLC

AttemptSymmetry == Permutations(Attempts)
=============================================================================
