CONSTANTS
  Id <- Ids
  Key = {"a"}
  KeyOf <- MCKeyOf
  Tier = {"anonymous", "privileged"}
  None = None
  Request = {q1, q2}
  Queries <- FormQueries
  Error = {"nil"}
  MaxAge <- MCMaxAge
  Size = 1
  TTL = 1
  MaxKnown = 1
  MaxDelay = 1
  MaxTime = 2
SPECIFICATION Spec
SYMMETRY Symmetry
INVARIANTS
  FormRespected
CHECK_DEADLOCK FALSE
