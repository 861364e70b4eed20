\* initialize is called again for a component that is open.
SPECIFICATION Spec
CONSTANTS
    main = main
    sub = sub
    Key = {main, sub}
    Bad = {}
    Components <- OneComponent
    BUFFER_SIZE = 3
    Reinitialize = TRUE
    MaxEntries = 4
PROPERTIES ReinitializeKeepsBuffers
