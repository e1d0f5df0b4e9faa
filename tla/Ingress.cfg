CONSTANTS
    MaxCommands = 3
    FlowStop = 1
    FlowResume = 1
SPECIFICATION Spec
INVARIANTS CompletedWhenSafe
PROPERTIES SyncIsBarrier EventuallyCompleted
CHECK_DEADLOCK FALSE
