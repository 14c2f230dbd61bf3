---------------------------- MODULE MCCronTasks ----------------------------
(***************************************************************************)
(* Instances of CronTasks for TLC.                                         *)
(***************************************************************************)
EXTENDS CronTasks, TLC

\* Bound of the run: an edit of the file, and one that may meet it.
MaxEdits == 2
Explored == Undisturbed /\ Cardinality(edits) <= MaxEdits

\* For a run of the invariants alone: liveness is not checked under symmetry.
Sessions == Permutations(Procs)
=============================================================================
