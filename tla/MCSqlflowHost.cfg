CONSTANTS
    Support <- MySQLSupport
    OperatorChars <- MySQLOperatorChars
    HookChars <- MySQLHookChars
    Atoms <- MySQLAtoms
    Builtin <- MySQLBuiltin
    Keywords <- MySQLKeywords
    Client <- MySQLClient
    DateSQL <- MySQLDateSQL
    BackslashStringEscapes <- MySQLBackslashEscapes
    Lines <- MCLines
    MaxLen = 2
    MaxLines = 3
    MaxEdits = 1

SPECIFICATION Spec
INVARIANT TypeOK
INVARIANT IncrementalMatchesFresh
CHECK_DEADLOCK FALSE
