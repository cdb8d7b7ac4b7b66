CONSTANTS
    Support <- HiveSupport
    OperatorChars <- HiveOperatorChars
    HookChars <- HiveHookChars
    Atoms <- HiveAtoms
    Builtin <- HiveBuiltin
    Keywords <- HiveKeywords
    Client <- HiveClient
    DateSQL <- HiveDateSQL
    BackslashStringEscapes <- HiveBackslashEscapes
    Lines <- MCLines
    MaxLen = 4
    MaxLines = 2
    IndentUnit = 2

SPECIFICATION Spec
INVARIANT LineCommentCommentsOut
PROPERTY LexicalModesRefined
CHECK_DEADLOCK FALSE
