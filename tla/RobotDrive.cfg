\* Driving: receiver and motor timers, watchdog, overcurrent, every way out.
SPECIFICATION Spec
CONSTANTS
    N = 2
    Velocity <- MCVelocity
    Speed <- MCSpeed
    Zero <- MCZero
    Calculate <- MCCalculate
    Payload <- DrivePayload
    Decode <- MCDecode
    Peer = {"pc"}
    NoPeer = "nobody"
    Observation = {"noball"}
    NoBall = "noball"
    Interval <- DriveInterval
    MessageHorizon = 12
    MaxIter = 2
    MaxQueue = 2
    Text <- MCText
    Mode = 1
    X_LIMIT = 2
    Y_LIMIT = 2
    W_LIMIT = 3
INVARIANTS NoTimerStarves SilenceStopsWheels WheelsKeepLimits ParkedAtEnd
PROPERTIES PatientWatchdog HaltIsFinal
