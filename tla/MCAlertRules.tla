---------------------------- MODULE MCAlertRules ----------------------------
(* Values of AlertRules' constants for TLC. *)
EXTENDS AlertRules, TLC

CONSTANTS x, y, e1, e2, r1, r2, q1, tpl

\* A tender that changed is emitted with its id; no keyword is in its text.
MCSources == {[type |-> "TENDER_CHANGED", named |-> TRUE, worded |-> FALSE],
              [type |-> "OTHER", named |-> FALSE, worded |-> FALSE]}

\* A rule for one of two tenders, and one with keywords, which does not fire.
Scoped == [types |-> {}, tender |-> x, words |-> FALSE, cooldown |-> 1]
Keyed  == [types |-> {"TENDER_CHANGED"}, tender |-> None, words |-> TRUE, cooldown |-> 1]
MCShapes == {Scoped, Keyed}

Symmetric == Permutations(Events) \cup Permutations(Rules)
=============================================================================
