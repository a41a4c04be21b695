CONSTANTS
    Inputs <- MCInputs
    CharsPerLevel = 4

SPECIFICATION Spec

INVARIANTS
    TypeOK
    VerdictRight
    IndentRight
    ReadsWithin

PROPERTIES
    Answers

\* validate ends.
CHECK_DEADLOCK FALSE
