-------------------------- MODULE MCTranscriptQueue --------------------------
(***************************************************************************)
(* Instances of TranscriptQueue for TLC.                                   *)
(***************************************************************************)
EXTENDS TranscriptQueue, TLC

\* For a run of the invariants alone: liveness is not checked under symmetry.
TranscriptSymmetry == Permutations(Timers) \cup Permutations(Tombstones)
=============================================================================
