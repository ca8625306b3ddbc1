\* One call with a precision that is an argument.
SPECIFICATION StarSpec
CONSTANTS
    HalfMod <- MCHalf
    Heap <- MCHeap
    Character <- MCCharacter
    HashName <- MCHashName
INVARIANT
    DocumentedOutput
