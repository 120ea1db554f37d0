CONSTANTS
  Thread = {"t1", "t2"}
  Run = {"r1", "r2", "r3"}
  ThreadOf <- MCThreadOf
  Starting = {"r3"}
  Followed <- MCFollowed
  None = "none"
  MaxCall = 2
  MaxTrouble = 1
SPECIFICATION Spec
INVARIANTS DrawerShowsOneThing PollingContinues ControlsSettle
CONSTRAINTS InOrderOfName FewAudits
