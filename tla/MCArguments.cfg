\* Every command line of up to three words for each kind of command, and typed lines; two
\* commands with any texts of up to five characters for keys and salts.
SPECIFICATION ArgumentsSpec
CONSTANTS
    Map <- MCMap
    Argvs <- MCArgvs
    Refuses <- NotHex
    algorithms <- MCName
    Inputs <- Typings
    LineSize = 7
    LinesMax = 3
    Garbage <- MCGarbage
    Base = 3
    Size = 4
    PasswordMax = 3
    Typed <- MCTyped
    Lines <- MCLines
    Md <- MCMd
INVARIANTS
    SplitRight
    EachOnce
    ValueOnce
    LeftAsGetopt
    ReadAsWritten
    Reopens
    NothingUnset
