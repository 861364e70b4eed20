\* Shutdown and the board: every stop reaches its end, and the
\* motors are stopped even if the camera thread hangs.
SPECIFICATION FairSpec
CONSTANTS
    N = 1
    Velocity <- Still
    Speed <- MCSpeed
    Zero <- MCZero
    Calculate <- MCCalculate
    Payload <- BoardPayload
    Decode <- MCDecode
    Peer = {"pc"}
    NoPeer = "nobody"
    Observation = {"noball"}
    NoBall = "noball"
    Interval <- BoardInterval
    MessageHorizon = 1
    MaxIter = 2
    MaxQueue = 1
    Text <- MCText
    Mode = 0
    X_LIMIT = 2
    Y_LIMIT = 2
    W_LIMIT = 3
PROPERTIES StopEndsProcess StopReachesMotors
