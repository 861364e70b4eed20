\* One key may fail, the other is sound.
SPECIFICATION Spec
CONSTANTS
    main = main
    sub = sub
    Key = {main, sub}
    Bad = {sub}
    Components <- BothComponents
    BUFFER_SIZE = 3
    Reinitialize = FALSE
    MaxEntries = 4
INVARIANTS NothingLost
PROPERTIES FlushedIsWritten ImplementsContract
