------------------------------ MODULE MCRecorder ------------------------------
(* Small instances of Recorder for TLC. *)
EXTENDS RecorderLife, TLC

Symmetry == Permutations(Takes) \cup Permutations(Names)
=============================================================================
