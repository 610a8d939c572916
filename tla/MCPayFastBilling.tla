-------------------------- MODULE MCPayFastBilling --------------------------
(* Values of PayFastBilling's constants for TLC. *)
EXTENDS PayFastBilling, TLC

CONSTANTS n1, n2, h1, h2, p1, p2, r1, t1

MCPlanOf == [r \in References |-> "PRO"]

Kind(p, r, s) == [payment |-> p, ref |-> r, token |-> t1, plan |-> "PRO",
                  status |-> s, priced |-> TRUE]

\* A checkout's first payment, a recurring payment known by the checkout or
\* by the token only, a wrong amount, a failed and a cancelled charge.
MCNoticeKinds ==
  { Kind(p1, r1, "COMPLETE"), Kind(p2, r1, "COMPLETE"),
    Kind(p2, NoReference, "COMPLETE"),
    [Kind(p1, r1, "COMPLETE") EXCEPT !.priced = FALSE],
    Kind(p2, r1, "FAILED"), Kind(NoPayment, r1, "CANCELED"),
    Kind(p1, r1, "OTHER") }

\* The same payment posted under two notices, a second payment, a failure.
MCRenewalKinds ==
  { Kind(p1, r1, "COMPLETE"), Kind(p2, r1, "COMPLETE"),
    Kind(p2, r1, "FAILED") }

\* Requests are interchangeable, and so are notices before they say anything.
Symmetric == Permutations({h1, h2}) \cup Permutations({n1, n2})
=============================================================================
