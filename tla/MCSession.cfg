\* One command of every kind, alone or in a session, with payloads that fit the
\* pipe and payloads that do not.  A command may stop for good at a full pipe.
SPECIFICATION Spec
CONSTANTS
    MaxFd = 6
    PipeCapacity = 3
    MaxCommands = 2
    Typed = {0, 2, 4}
    FileSize <- MCFileSize
    Commands <- MCCommands
INVARIANTS
    PayloadIsInput
    SuccessIsComplete
    DescriptorsKept
PROPERTIES
    OnlyTheOutput
    SessionEnds
    EndsUnlessFull
CHECK_DEADLOCK FALSE
