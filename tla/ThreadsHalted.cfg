CONSTANTS
  ann = ann
  bob = bob
  h1 = h1
  h2 = h2
  MaxMsg = 2
  MaxTurns = 1
  MaxFault = 0
  Sender <- OneSender
  Halter = {h1}
  Route = {"session", "fresh", "reply"}
SPECIFICATION Spec
INVARIANT HaltedIsInactive
CHECK_DEADLOCK FALSE
