----------------------- MODULE MCExecutionAttempts -----------------------
(* Values of the constants of ExecutionAttempts for TLC.                   *)
EXTENDS ExecutionAttempts, TLC

CONSTANTS r1, r2, r3, w1, w2, w3, a1, a2, x, y

\* w1 and w2 pass the same worker_id, as a restarted worker and the one it
\* replaces may do, and w3 one of its own.
MCWorkerIdOf == [w \in Worker |-> IF w = w3 THEN y ELSE x]

\* NULL in a date column.
MCNoTime == -1

MCLegacyStatus == {"pending_approval", "dispatch_failed"}

MCSymmetry ==
    Permutations(Run \ Root) \cup Permutations(Root) \cup Permutations(Worker \ {w3}) \cup Permutations(Application)
=============================================================================
