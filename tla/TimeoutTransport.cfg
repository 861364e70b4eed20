\* All three ways to the motors, prompt and late devices, checksums demanded or not.
SPECIFICATION FairSpec
CONSTANTS
    Motor <- MCMotor
    CallFrames <- MCCallFrames
    Pipelines <- MCPipelines
    max_retries = 1
    MaxCalls = 2
    MaxBehind = 2
    MaxLosses = 1
INVARIANTS RepliesAreCurrent AckMeansRan UartDelivers
PROPERTIES EarlyEndIsComplete TimeoutMeansLoss CallsEnd
