CONSTANTS
  RunOf <- MCRunOf
  Scope = {"all", "run", "thread", "text"}
  LoadedLimit = 2
  BufferedLimit = 1
  Stored = 2
  MaxCall = 2
  MaxTrouble = 1
SPECIFICATION Spec
INVARIANTS TimelineIsComplete  DetailIsOfTheChosen
CHECK_DEADLOCK FALSE
