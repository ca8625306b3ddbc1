\* All four digests on published messages, and the padding around two block boundaries; calls
\* of ft_printf of one to five pieces, and the lines of digests of two words.
SPECIFICATION DigestsSpec
CONSTANTS
    Known <- MCKnown
    BlockLen = 4
    LengthLen = 2
    Messages <- MCMessages
    LengthField <- MCLengthField
    HalfMod <- MCHalf
    Heap <- MCHeap
    Character <- MCCharacter
    HashName <- MCHashName
INVARIANTS
    BlocksPadded
    KnownAnswer
    PrintedAsAsked
    HashLine
