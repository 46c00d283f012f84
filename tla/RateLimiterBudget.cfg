CONSTANTS
  q1 = q1
  q2 = q2
  q3 = q3
  q4 = q4
  k1 = k1
  k2 = k2
  Call = {q1,q2,q3,q4}
  Client = {k1,k2}
  Rate = 1
  Burst = 4
  Cost = 4
  MaxIdle = 2
  MaxLag = 1
  LastArrival = 3
  MaxTime = 6
SPECIFICATION MCFairSpec
INVARIANTS
  BudgetBounded
  BurstGuaranteed
PROPERTIES
  ImplementsAccounts
  IdleBucketsArePruned
CHECK_DEADLOCK FALSE
