CONSTANTS
  Request = {q1,q2,q3}
  Class = {domain, nameserver}
  Key = {k1,k2}
  Answering = {k1}
  Asked <- AskSome
  domain = domain
  k1 = k1
  Error = {"nil", "notfound"}
  Outcome <- OutcomeByKey
  Size = 1
  TTL = 2
  NegTTL = 1
  StaleTTL = 1
  MaxLag = 1
  MaxTime = 3
  None = None
SPECIFICATION Spec
SYMMETRY Symmetry
INVARIANTS
  OneFetchPerKey
  NoLostWakeup
  IInv
  ServedAgeBounded
  FlightResultCurrent
PROPERTIES
  RegressionBounded
CHECK_DEADLOCK FALSE
