-------------------------- MODULE MCOrgMembership --------------------------
(* Values of OrgMembership's constants for TLC. *)
EXTENDS OrgMembership, TLC

CONSTANTS o, u1, u2, u3, i1, i2, q1, q2

Symmetric == Permutations({u1, u2, u3}) \cup Permutations({q1, q2})
=============================================================================
