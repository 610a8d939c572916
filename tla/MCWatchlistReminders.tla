------------------------ MODULE MCWatchlistReminders ------------------------
(* Values of WatchlistReminders' constants for TLC. *)
EXTENDS WatchlistReminders, TLC

CONSTANTS t1, t2, u1, u2, a, b

LeadOf == [CLOSING_24H |-> 2, CLOSING_2H |-> 1]
Leads == [type \in Types |-> LeadOf[type]]

Symmetric == Permutations({a, b})
=============================================================================
