CONSTANTS
  ann = ann
  bob = bob
  h1 = h1
  h2 = h2
  MaxMsg = 2
  MaxTurns = 1
  MaxFault = 1
  Sender <- TwoSenders
  Halter = {h1}
  Route = {"session", "fresh", "reply"}
SPECIFICATION Spec
INVARIANTS AnswersReadEverySteer SessionHasOneRun RepliesContinueTheirThread
PROPERTY ThreadsEndUnlessTorn
CHECK_DEADLOCK FALSE
