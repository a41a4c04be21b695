CONSTANTS
    Inputs <- BlockInputs
    CharsPerLevel = 4

SPECIFICATION Spec

PROPERTIES
    CommentTokensApart

\* validate ends.
CHECK_DEADLOCK FALSE
