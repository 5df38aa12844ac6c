--------------------------- MODULE MCCronScheduler ---------------------------
(***************************************************************************)
(* CronScheduler with an interval of one, a one-shot at two, and one or    *)
(* two processes, threads and jobs.                                        *)
(***************************************************************************)
EXTENDS CronScheduler, TLC

Every == [every |-> 1, at |-> {}]
Once  == [every |-> 0, at |-> {2}]
MCSchedules == {Every, Once}
OneShots == {Once}
Intervals == {Every}

Symmetry == Permutations(Schedulers) \cup Permutations(Threads) \cup Permutations(Handlers)
=============================================================================
