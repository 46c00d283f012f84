CONSTANTS
  Caller = {c1,c2}
  Kid = {"k1","k2"}
  Usable = {"k1"}
  Jti = {"j1","j2"}
  Tokens <- MCTokens
  Publications <- SomeKeys
  RefreshEvery = 2
  ClockSkew = 1
  PruneEvery = 1
  MaxFetch = 1
  MaxTime = 3
  None = None
SPECIFICATION VerifierSpec
INVARIANT
  AcceptedOnce
CHECK_DEADLOCK FALSE
