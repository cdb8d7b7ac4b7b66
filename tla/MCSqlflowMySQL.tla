---------------------------- MODULE MCSqlflowMySQL ----------------------------
(***************************************************************************)
(* The mode with the text/x-mysqlflow configuration of sqlflow.js, over a  *)
(* document of MaxLines lines made of the characters of MySQLAlphabet.     *)
(***************************************************************************)
EXTENDS SqlflowMode, SqlflowDialects

CONSTANTS MaxLen

\* the characters lines are made of
MySQLAlphabet == {"(", ")", "a", " ", "/", "*", "'"}

MCLines == SeqOf(MySQLAlphabet, MaxLen)

\* lines holding the ODBC date and time literals {d '...'}, {t "..."}, {ts '...'}
ODBCLines == {<<"{", "d", "'", "x", "'", "}">>,
              <<"{", " ", "t", "s", " ", "\"", "x", "\"", " ", "}">>,
              <<"a", "=", "{", "D", "'", "'", "}">>}

\* assignments to user variables: SET @'a'='b', SET @"a"=1, SET @@local.x=1
VarLines == {<<"@", "'", "a", "'", "=", "'", "b", "'">>,
             <<"@", "\"", "a", "\"", "=", "1">>,
             <<"@", "@", "l", "o", "c", "a", "l", ".", "x", "=", "1">>}
====
