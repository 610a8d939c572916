--------------------------- MODULE MCTaskReminders ---------------------------
(* Values of TaskReminders' constants for TLC. *)
EXTENDS TaskReminders, TLC

CONSTANTS t1, t2, r1, r2

RunSymmetry == Permutations({r1, r2})
TaskAndRunSymmetry == Permutations({t1, t2}) \cup RunSymmetry
=============================================================================
