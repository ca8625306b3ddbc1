\* Two commands of one session, lines of eight characters.
SPECIFICATION Spec
CONSTANTS
    LineLen = 8
    MaxCommands = 2
    Payloads <- MCPayloads
    Texts <- MCTexts
INVARIANTS
    RoundTrip
    Layout
    OnlyAlphabet
PROPERTIES
    CommandsEnd
CHECK_DEADLOCK FALSE
