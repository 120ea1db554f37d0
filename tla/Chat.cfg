CONSTANTS
  Session = {1, 2}
  PageSize = 1
  Trial <- MCTrial
  MaxMessage = 1
  MaxCall = 2
  MaxTrouble = 1
SPECIFICATION Spec
CONSTRAINT FirstForTheFirst
INVARIANTS TranscriptIsWhole AttachmentsAreAccountedFor ControlsComeBack
CHECK_DEADLOCK FALSE
