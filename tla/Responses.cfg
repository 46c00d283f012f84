CONSTANTS
  Id <- Ids
  Key = {"a"}
  KeyOf <- MCKeyOf
  Tier = {"anonymous","privileged"}
  None = None
  Request = {q1,q2}
  Queries <- MixedQueries
  Error = {"nil","notfound"}
  MaxAge <- MCMaxAge
  Size = 1
  TTL = 1
  MaxKnown = 1
  MaxDelay = 1
  MaxTime = 4
  Handle = {h1,h2}
  Shape <- MCShape
  MaxUpdates = 2
SPECIFICATION EitherSpec
SYMMETRY EitherSymmetry
INVARIANTS
  Transparent
  PersonsProtected
  PersonsMarked
  FromTheRequestsTime
PROPERTIES
  ResponseAgeBounded
CHECK_DEADLOCK FALSE
