CONSTANTS
  Label = {"www","example","EXAMPLE","nl","com"}
  Lower <- MCLower
  Address = {1,2,3,4}
  Url = {"u1","u2","u3"}
  Request = {q1}
  Objects <- MCObjects
  Edition <- MCEdition
SPECIFICATION FairSpec
INVARIANTS
  RedirectsCurrent
  GracefulExit
PROPERTIES
  TablesNeverOlder
  CancelEndsProcess
  TablesCatchUp
CHECK_DEADLOCK FALSE
