\* Vectors of up to three elements, trees of up to six numbers, lists of up to
\* four, messages of up to three pieces, sorts of up to five elements, and streams of up to
\* five bytes.
SPECIFICATION LibftSpec
CONSTANTS
    Elements <- MCElements
    Sizes = {1, 2}
    Junk = Junk
    Capacities = {0, 8}
    LenMax = 3
    Node = {1, 2, 3, 4, 5, 10}
    NULL = NULL
    Data = {1, 2, 3, 4, 5, 10}
    IntWidth = 4
    ListNode = {l1, l2, l3, l4}
    Contents = {1, 2}
    Messages <- MCMessages
    Keys <- MCKeys
    BUFFER_SIZE = 2
    Descriptors = {1, 2}
    AllocFails = TRUE
    Streams <- MCStreams
SYMMETRY Symmetry
CONSTRAINT Claimed
INVARIANTS
    SequenceKept
    TreeIsSet
    ListsAreSequences
    LinesWhole
    CutOfWhole
    SortedWell
