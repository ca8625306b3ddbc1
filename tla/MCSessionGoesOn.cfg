\* One command in an interactive session.
SPECIFICATION Spec
CONSTANTS
    MaxFd = 6
    PipeCapacity = 3
    MaxCommands = 1
    Typed = {0, 2, 4}
    FileSize <- MCFileSize
    Commands <- MCCommands
INVARIANT
    SessionGoesOn
CHECK_DEADLOCK FALSE
