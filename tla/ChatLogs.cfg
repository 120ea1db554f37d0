CONSTANTS
  Chat = {"a", "b"}
  None = "none"
  Recorded <- MCRecorded
  Link <- MCLink
  PageLimit = 2
  Retained = 3
  MaxRow = 8
  MaxTrouble = 1
SPECIFICATION Spec
INVARIANTS LogIsWhole ButtonsComeBack
PROPERTY WindowFollowsTheRoute
