SPECIFICATION FairSpec
CONSTANTS
  n1 = n1
  n2 = n2
  h1 = h1
  h2 = h2
  p1 = p1
  p2 = p2
  r1 = r1
  t1 = t1
  Notices = {n1, n2}
  Payments = {p1, p2}
  References = {r1}
  Tokens = {t1}
  Handlers = {h1}
  NoPayment = NoPayment
  NoReference = NoReference
  NoToken = NoToken
  NoticeKinds <- MCRenewalKinds
  PlanOf <- MCPlanOf
  Month = 1
  Grace = 1
  FailedGrace = 1
  StaleAfter = 0
  TrialEnd = 1
  MaxNow = 3
  MaxFaults = 1
PROPERTIES
  LockedOutOnlyWhenDue PastDueOnlyWhenDue PaymentIsGranted
CHECK_DEADLOCK FALSE
