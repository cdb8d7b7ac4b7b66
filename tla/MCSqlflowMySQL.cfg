CONSTANTS
    Support <- MySQLSupport
    OperatorChars <- MySQLOperatorChars
    HookChars <- MySQLHookChars
    Atoms <- MySQLAtoms
    Builtin <- MySQLBuiltin
    Keywords <- MySQLKeywords
    Client <- MySQLClient
    DateSQL <- MySQLDateSQL
    BackslashStringEscapes <- MySQLBackslashEscapes
    Lines <- MCLines
    MaxLen = 3
    MaxLines = 2
    IndentUnit = 2

SPECIFICATION Spec
INVARIANT TypeOK
INVARIANT AlignMatchesFirstToken
INVARIANT LineCommentCommentsOut
PROPERTY LexicalModesRefined
PROPERTY DocumentScanned
CHECK_DEADLOCK FALSE
