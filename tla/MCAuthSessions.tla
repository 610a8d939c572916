--------------------------- MODULE MCAuthSessions ---------------------------
(* Values of AuthSessions' constants for TLC. *)
EXTENDS AuthSessions, TLC

CONSTANTS k1, k2, k3, a, b, c1, c2, c3

\* One tab with two calls at once, and another beside it.
MCTabOf == (c1 :> a) @@ (c2 :> a) @@ (c3 :> b)

\* Tokens are alike, and so are the two calls of the first tab.
Symmetric == Permutations(Tokens) \cup Permutations({c1, c2})
=============================================================================
