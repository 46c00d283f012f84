CONSTANTS
  Request = {q1, q2, q3}
  Class = {domain}
  Key = {k1, k2}
  Answering = {k1}
  Asked <- AskAll
  domain = domain
  k1 = k1
  Error = {"nil", "notfound"}
  Outcome <- OutcomeByKey
  Size = 1
  TTL = 1
  NegTTL = 1
  StaleTTL = 1
  MaxLag = 1
  MaxTime = 1
  None = None
SPECIFICATION FairSpec
PROPERTIES
  ImplementsContract
  RequestsReturn
CHECK_DEADLOCK FALSE
