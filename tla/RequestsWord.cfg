SPECIFICATION Spec
CONSTANTS
    Char <- MCChar
    Delims <- MCDelims
    WordChar <- MCWordChar
    EmptyPage = ""
    Types <- MCTypes
    Declarable <- MCDeclarable
    Codes <- MCCodes
    Inspectable <- MCInspected
    Directories <- MCDirectories
    MaxLookups = 0
INVARIANTS WordBehindCursor
