\* The board at the last of three ports, the first of which cannot be opened; the level
\* that fires is the one a reset leaves in the latch.
SPECIFICATION SpecBoard
CONSTANTS
    kickerActiveLevel = FALSE
    kicker_timeout = 3
    kickerPulseTime = 1
    Wrap = 6
    MaxQueue = 1
    Horizon = 6
    Ports = 3
    BoardPort = 3
    Locked = {1}
    MaxPlugs = 2
    Interval = 2
    MaxIter = 1
INVARIANTS LeakMeansError NoTwitch HeldKickIsNotStarved
PROPERTIES KickGap
