SPECIFICATION Spec
CONSTANT MaxId = 2
INVARIANT NothingOutlivesShutdown
PROPERTIES OwnsItsTasks ShutdownCompletesUnlessStranded CancelReturnsUnlessStranded
CHECK_DEADLOCK FALSE
