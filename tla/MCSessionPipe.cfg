\* The pipe holds three units; the user types four.
SPECIFICATION Spec
CONSTANTS
    MaxFd = 6
    PipeCapacity = 3
    MaxCommands = 1
    Typed = {0, 2, 4}
    FileSize <- MCFileSize
    Commands <- MCCommands
PROPERTY
    CommandEnds
CHECK_DEADLOCK FALSE
