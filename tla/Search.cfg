CONSTANTS
  Row = {1,2,3,4}
  Data <- MCData
  Asks <- MCAsks
  Backends = {"none","null","memory","postgres"}
  DefaultLimit = 1
  MaxLimit = 2
  MaxChanges = 2
SPECIFICATION FairSpec
INVARIANTS
  WalkComplete
  RepeatedOnlyAfterInsertion
  IndexesAgree
PROPERTIES
  WalkEnds
CHECK_DEADLOCK FALSE
