SPECIFICATION FairSpec
CONSTANTS
    MaxCalls = 3
    MaxPosts = 2
INVARIANTS CallbackAlive NoLostWakeup
PROPERTIES ServiceUntilPosted CallsReturn DestructorEnds EventsInOrder EventsRun
