-------------------------- MODULE MCSchedulerLock --------------------------
(***************************************************************************)
(* Instances of SchedulerLock for TLC: three sessions, or two of which one *)
(* is resumed in a third process.                                          *)
(***************************************************************************)
EXTENDS SchedulerLock, TLC

CONSTANTS p1, p2, p3

OwnSession == [p \in Procs |-> p]

\* p3 resumes the session of p1.
ResumedSession == [p \in Procs |-> IF p = p3 THEN p1 ELSE p]

ProcSymmetry == Permutations(Procs)
=============================================================================
