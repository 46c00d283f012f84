CONSTANTS
  Request = {q1, q2}
  Class = {domain, nameserver}
  Key = {k1}
  Answering = {k1}
  Asked <- AskAll
  domain = domain
  k1 = k1
  Error = {"nil", "notfound"}
  Outcome <- OutcomeByKey
  Size = 1
  TTL = 1
  NegTTL = 1
  StaleTTL = 0
  MaxLag = 0
  MaxTime = 1
  None = None
SPECIFICATION Spec
INVARIANT AssertionNeverFails
CHECK_DEADLOCK FALSE
