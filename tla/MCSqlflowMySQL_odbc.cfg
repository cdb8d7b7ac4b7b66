CONSTANTS
    Support <- MySQLSupport
    OperatorChars <- MySQLOperatorChars
    HookChars <- MySQLHookChars
    Atoms <- MySQLAtoms
    Builtin <- MySQLBuiltin
    Keywords <- MySQLKeywords
    Client <- MySQLClient
    DateSQL <- MySQLDateSQL
    BackslashStringEscapes <- MySQLBackslashEscapes
    Lines <- ODBCLines
    MaxLen = 3
    MaxLines = 1
    IndentUnit = 2

SPECIFICATION Spec
INVARIANT ODBCDateIsNumber
CHECK_DEADLOCK FALSE
