SPECIFICATION FairSpec
CONSTANTS
    Motor = {1, 2, 3}
    P = 2
    At <- SharedProcessor
    Forced = {1, 2}
    Batch = 2
    MinRoom = 4
    MaxAge = 3
    MaxDisruptions = 2
INVARIANTS RoomRespected
PROPERTIES NoStepBack NewestReported FreshAgain
