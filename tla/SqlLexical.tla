----------------------------- MODULE SqlLexical -----------------------------
(***************************************************************************)
(* What the tokenizer promises about its lexical state (spec sections 4.2  *)
(* rules 6 and 10, 4.3 and 4.4), stated one character at a time and        *)
(* independently of how tokenBase splits the text: the editor reads the   *)
(* document line by line, in chunks, and after every chunk the state is    *)
(* base, inside a literal opened by quote q, or inside a block comment     *)
(* nested depth deep, as the characters read so far dictate.               *)
(*                                                                         *)
(* A chunk read in base state enters a sub-tokenizer only when it starts   *)
(* with an opening quote or with /*.  A chunk read by a sub-tokenizer     *)
(* ends at the end of the line or right after the character that closed    *)
(* the literal or passed a comment marker, never later and never earlier.  *)
(***************************************************************************)
EXTENDS Integers, Sequences, SequencesExt

CONSTANTS
    Lines,                  \* the lines the document may be made of
    MaxLines,               \* number of lines in the document
    OpenQuotes,             \* the quotes that open a string literal
    BackslashStringEscapes  \* whether a backslash escapes the next character

VARIABLES line, pos, lineNo, lex

vars == <<line, pos, lineNo, lex>>

InBase == [kind |-> "base"]
InString(q) == [kind |-> "string", quote |-> q]
InComment(d) == [kind |-> "comment", depth |-> d]

\* A character-level reading of a chunk: the lexical state, the escape
\* flag and the last unpaired character of a comment, whether the last
\* character closed or passed a marker (marked), and whether a character
\* was read after the construct had closed (over).
Reading(l) == [lex |-> l, esc |-> FALSE, prev |-> "", marked |-> FALSE, over |-> FALSE]

CharStep(s, c) ==
    LET m == [s EXCEPT !.marked = FALSE] IN
    CASE s.over \/ s.lex.kind = "base" -> [m EXCEPT !.over = TRUE]
      [] s.lex.kind = "string" /\ s.esc -> [m EXCEPT !.esc = FALSE]
      [] s.lex.kind = "string" /\ c = s.lex.quote -> [m EXCEPT !.lex = InBase, !.marked = TRUE]
      [] s.lex.kind = "string" -> [m EXCEPT !.esc = BackslashStringEscapes /\ c = "\\"]
      [] s.prev = "/" /\ c = "*" ->
            [m EXCEPT !.lex = InComment(s.lex.depth + 1), !.prev = "", !.marked = TRUE]
      [] s.prev = "*" /\ c = "/" ->
            [m EXCEPT !.lex = IF s.lex.depth = 1 THEN InBase ELSE InComment(s.lex.depth - 1),
                      !.prev = "", !.marked = TRUE]
      [] OTHER -> [m EXCEPT !.prev = c]

\* the reading of chunk t begun in state l
ReadChunk(l, t) ==
    CASE l.kind = "base" /\ t[1] \in OpenQuotes ->
            FoldLeft(CharStep, Reading(InString(t[1])), Tail(t))
      [] l.kind = "base" /\ Len(t) >= 2 /\ t[1] = "/" /\ t[2] = "*" ->
            FoldLeft(CharStep, Reading(InComment(1)), SubSeq(t, 3, Len(t)))
      [] l.kind = "base" -> [Reading(InBase) EXCEPT !.marked = TRUE]
      [] OTHER -> FoldLeft(CharStep, Reading(l), t)

\* the editor reads the next n characters of the line; r is their reading
ReadWith(n, r) ==
    /\ pos' = pos + n
    /\ ~r.over
    /\ r.marked \/ pos + n = Len(line)
    /\ lex' = r.lex
    /\ UNCHANGED <<line, lineNo>>

Read == \E n \in 1..Len(line) - pos : ReadWith(n, ReadChunk(lex, SubSeq(line, pos + 1, pos + n)))

\* at the end of a line the state is carried to the next one; the escape
\* flag and a half-read marker are not
NextLine ==
    /\ pos = Len(line)
    /\ lineNo < MaxLines
    /\ line' \in Lines
    /\ pos' = 0
    /\ lineNo' = lineNo + 1
    /\ UNCHANGED lex

Init ==
    /\ line \in Lines
    /\ pos = 0
    /\ lineNo = 1
    /\ lex = InBase

Spec == Init /\ [][Read \/ NextLine]_vars
====
