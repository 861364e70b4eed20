\* Where telemetry goes.
SPECIFICATION Spec
CONSTANTS
    N = 2
    Velocity <- MCVelocity
    Speed <- MCSpeed
    Zero <- MCZero
    Calculate <- MCCalculate
    Payload <- DrivePayload
    Decode <- MCDecode
    Peer = {"pc"}
    NoPeer = "nobody"
    Observation = {"noball"}
    NoBall = "noball"
    Interval <- DriveInterval
    MessageHorizon = 12
    MaxIter = 2
    MaxQueue = 1
    Text <- MCText
    Mode = 0
    X_LIMIT = 2
    Y_LIMIT = 2
    W_LIMIT = 3
PROPERTIES TelemetryAnswersSender
