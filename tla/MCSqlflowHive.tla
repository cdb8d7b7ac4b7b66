---------------------------- MODULE MCSqlflowHive ----------------------------
(***************************************************************************)
(* The mode with the text/x-hiveqlflow configuration of sqlflow.js, over a *)
(* document of MaxLines lines made of the characters of HiveAlphabet.  The *)
(* Hive dialect has no hooks, no # comments, and "--" needs no space.      *)
(***************************************************************************)
EXTENDS SqlflowMode, SqlflowDialects

CONSTANTS MaxLen

\* the characters lines are made of (a backslash: the cfg cannot write one)
HiveAlphabet == {"'", "\\", "/", "*", "(", "-"}

MCLines == SeqOf(HiveAlphabet, MaxLen)
====
