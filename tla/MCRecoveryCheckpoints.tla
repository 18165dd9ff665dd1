----------------------- MODULE MCRecoveryCheckpoints -----------------------
(* Small instances of RecoveryCheckpoints for TLC.                         *)
EXTENDS RecoveryCheckpoints, TLC

CONSTANTS r0, r1, d1, d2, d3, periodic, base

Ranks == {r0, r1}
\* Three recovery directories overflow two retention slots.
RecoveryDirs == {d1, d2, d3}
AllDirs == RecoveryDirs \cup {periodic, base}
DirSymmetry == Permutations(RecoveryDirs)
=============================================================================
