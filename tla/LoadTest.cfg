SPECIFICATION FairSpec
CONSTANTS
  Sizes = {11, 20}
  Batch = 8
  Fixtures = 2
  MaxRuns = 3
  Worker = {w1, w2}
  Kind = {"domain_missing", "nameserver"}
  Duration = {1, 2}
  SampleCap = 2
  MaxMismatches = 2
  MaxRequests = 3
  MaxWarmup = 1
  Others <- SomeOthers
  None = None
INVARIANTS
  SeedsWhole
  PlainRerunChangesNothing
  ReportAddsUp
  NoFalseAlarms
  StatusLossBounded
  RollUpFaithful
PROPERTY
  StressEnds
CHECK_DEADLOCK FALSE
