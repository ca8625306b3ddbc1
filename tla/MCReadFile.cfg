\* Three doublings: 2, 4, 8, 16; a file of 0 .. 9 bytes ends before, at and after
\* every one of the boundaries 1, 3 and 7.  A short file in a block of 8 shrinks.
SPECIFICATION Spec
CONSTANTS
    MaxFile = 9
    Byte <- MCByte
    Files <- MCFiles
    InitialCapacity = 2
    NUL = 0
    Junk = Junk
INVARIANTS
    WholeStream
    FreedOnFailure
    IInv
PROPERTIES
    ImplementsReadAll
