---------------------------- MODULE MCSqlflowHost ----------------------------
(***************************************************************************)
(* The editor's cache of the mode's state under the text/x-mysqlflow       *)
(* configuration, for documents of MaxLines lines of at most MaxLen        *)
(* characters: a bracket, a word and a space are what pushes a context,    *)
(* decides its align flag, and leaves a line without a token.              *)
(***************************************************************************)
EXTENDS SqlflowHost, SqlflowDialects

CONSTANTS MaxLen

HostAlphabet == {"(", "a", " "}

MCLines == SeqOf(HostAlphabet, MaxLen)
====
