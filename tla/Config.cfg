CONSTANTS
  Section = {"driver", "llm"}
  Optional = {"driver"}
  Provider = {"llm"}
  Value = {"d", "a"}
  Default = "d"
  Doc <- MCDoc
  Start <- MCStart
  Valid <- MCValid
  None = None
  During = FALSE
  MaxChange = 2
  MaxWrite = 1
  MaxTrouble = 1
SPECIFICATION Spec
INVARIANTS DraftsFitTogether ShownIsApplied
PROPERTIES DraftsAreKept ReplacesWhole
CHECK_DEADLOCK FALSE
