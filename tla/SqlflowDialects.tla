--------------------------- MODULE SqlflowDialects ---------------------------
(***************************************************************************)
(* The two configurations sqlflow.js registers with CodeMirror.defineMIME,  *)
(* as the mode reads them, giving the values of the CONSTANTS of           *)
(* SqlflowLexer.  A parserConfig is a record with the keys the defineMIME   *)
(* call gives; the mode replaces an absent key by its default.             *)
(*                                                                         *)
(* Support flags, operator characters and hooks are the code's.  A word    *)
(* list string is a sequence of characters and spaces, and each list holds *)
(* one one-letter word that stands for its members: "d" a date type        *)
(* (dateSQL and builtin), "t" the SQLFlow extension word "train" (builtin), *)
(* "a" a keyword ("as"), "e" an atom ("true"), "g" a client command ("go").*)
(***************************************************************************)
EXTENDS SqlflowLexer

\* function set(str): the keys of str.split(" "), empty pieces included
WordSet(str) ==
    LET Cut(acc, c) == IF c = " " THEN [words |-> acc.words \cup {acc.cur}, cur |-> <<>>]
                       ELSE [acc EXCEPT !.cur = Append(@, c)]
        r == FoldLeft(Cut, [words |-> {}, cur |-> <<>>], str)
    IN  r.words \cup {r.cur}

\* var sqlKeywords, var sqlflowKeywords: both end with a space
SqlKeywords == <<"a", " ">>
SqlflowKeywords == <<"t", " ">>

\* defineMIME("text/x-mysqlflow", {...})
MySQLConfig ==
    [client        |-> WordSet(<<"g">>),
     keywords      |-> WordSet(SqlKeywords \o <<"a">>),
     builtin       |-> WordSet(SqlflowKeywords \o <<"d">>),
     atoms         |-> WordSet(<<"e">>),
     operatorChars |-> {"*", "+", "-", "%", "<", ">", "!", "=", "&", "|", "^"},
     dateSQL       |-> WordSet(<<"d">>),
     support       |-> {"ODBCdotTable", "decimallessFloat", "zerolessFloat",
                        "binaryNumber", "hexNumber", "doubleQuote", "nCharCast",
                        "charsetCast", "commentHash", "commentSpaceRequired"},
     hooks         |-> {"@", Backtick, "\\"}]

\* defineMIME("text/x-hiveqlflow", {...}): no client, hooks or escapes key
HiveConfig ==
    [keywords      |-> WordSet(SqlKeywords \o <<"a">>),
     builtin       |-> WordSet(SqlflowKeywords \o <<"d">>),
     atoms         |-> WordSet(<<"e">>),
     operatorChars |-> {"*", "+", "-", "%", "<", ">", "!", "="},
     dateSQL       |-> WordSet(<<"d">>),
     support       |-> {"ODBCdotTable", "doubleQuote", "binaryNumber", "hexNumber"}]

\* parserConfig.key || default
Option(cfg, key, default) == IF key \in DOMAIN cfg THEN cfg[key] ELSE default

\* the variables the mode function initialises from parserConfig
ModeConfig(cfg) ==
    [client        |-> Option(cfg, "client", {}),
     atoms         |-> Option(cfg, "atoms", WordSet(<<"e">>)),
     builtin       |-> Option(cfg, "builtin", {}),
     keywords      |-> Option(cfg, "keywords", {}),
     operatorChars |-> Option(cfg, "operatorChars",
                              {"*", "+", "-", "%", "<", ">", "!", "=", "&", "|", "~", "^"}),
     support       |-> Option(cfg, "support", {}),
     hooks         |-> Option(cfg, "hooks", {}),
     dateSQL       |-> Option(cfg, "dateSQL", WordSet(<<"d">>)),
     backslashStringEscapes |-> ~("backslashStringEscapes" \in DOMAIN cfg
                                  /\ cfg.backslashStringEscapes = FALSE)]

MySQL == ModeConfig(MySQLConfig)
Hive == ModeConfig(HiveConfig)

\* the dialects as the CONSTANTS of SqlflowLexer
MySQLSupport == MySQL.support
MySQLOperatorChars == MySQL.operatorChars
MySQLHookChars == MySQL.hooks
MySQLAtoms == MySQL.atoms
MySQLBuiltin == MySQL.builtin
MySQLKeywords == MySQL.keywords
MySQLClient == MySQL.client
MySQLDateSQL == MySQL.dateSQL
MySQLBackslashEscapes == MySQL.backslashStringEscapes

HiveSupport == Hive.support
HiveOperatorChars == Hive.operatorChars
HiveHookChars == Hive.hooks
HiveAtoms == Hive.atoms
HiveBuiltin == Hive.builtin
HiveKeywords == Hive.keywords
HiveClient == Hive.client
HiveDateSQL == Hive.dateSQL
HiveBackslashEscapes == Hive.backslashStringEscapes
====
