----------------------------- MODULE SqlflowMode -----------------------------
(***************************************************************************)
(* The CodeMirror mode "sqlflow" (src/docker/jupyter/js/sqlflow.js) driven   *)
(* by its host: the editor feeds the document line by line and calls the    *)
(* mode's token function until the line is consumed, carrying one state     *)
(* (state.tokenize and the bracket-context stack state.context) from line   *)
(* to line.  The stateless tokenizing functions are in SqlflowLexer.        *)
(*                                                                         *)
(* state.context, a linked list of {prev, indent, col, type, align}, is a   *)
(* sequence of frames with the innermost context last.  align is "true",    *)
(* "false", or "null" for the code's undefined.                             *)
(***************************************************************************)
EXTENDS SqlflowLexer

CONSTANTS
    Lines,      \* the lines the document may be made of
    MaxLines,   \* number of lines in the document
    IndentUnit  \* config.indentUnit

VARIABLES
    line,       \* the host's stream: the current line ...
    pos,        \* ... and stream.pos, the characters of it consumed so far
    lineNo,     \* which line of the document the stream holds
    tokenize,   \* state.tokenize: Base, Str(q) or Comment(d)
    context,    \* state.context, outermost frame first
    opened      \* auxiliary: closers of every ( and [ scanned, popped by
                \* their closer, read only by a property

vars == <<line, pos, lineNo, tokenize, context, opened>>

Null == "null"

\* A frame also records, as history for the properties, the line its
\* bracket is on (openLine) and the line of the first token after it that
\* is neither space nor comment (firstSig, 0 while there is none).
Frame == [type : {")", "]"}, indent : Nat, col : Nat, align : {"true", "false", Null},
          openLine : Nat, firstSig : Nat]

Top(ctx) == ctx[Len(ctx)]

\* pushContext(stream, state, type)
PushContext(ctx, type) ==
    Append(ctx, [type |-> type, indent |-> RunLen(line, 1, Space), col |-> pos,
                 align |-> Null, openLine |-> lineNo, firstSig |-> 0])

\* popContext(state); its write of state.indent is never read and is omitted
PopContext(ctx) == Front(ctx)

\* if (state.context && state.context.align == null) state.context.align = v
SetAlign(ctx, v) ==
    IF ctx # <<>> /\ Top(ctx).align = Null
    THEN [ctx EXCEPT ![Len(ctx)].align = v] ELSE ctx

\* mutation: no reset of align at the start of a line
SolContext_NoReset == context

\* the start of token(): at the start of a line an undecided context
\* becomes unaligned
SolContext == IF pos = 0 THEN SetAlign(context, "false") ELSE context

\* mutation: the new context is pushed before align of the enclosing one
\* is set, so the new one is marked aligned by its own bracket
BracketContext_AlignAfterPush(ctx, tok) ==
    IF tok = <<"(">> THEN SetAlign(PushContext(ctx, ")"), "true")
    ELSE IF tok = <<"[">> THEN SetAlign(PushContext(ctx, "]"), "true")
    ELSE LET c == SetAlign(ctx, "true")
         IN  IF c # <<>> /\ tok = <<Top(c).type>> THEN PopContext(c) ELSE c

\* the end of token() for a token tok that is not a comment
BracketContext(ctx, tok) ==
    LET c == SetAlign(ctx, "true")
    IN  IF tok = <<"(">> THEN PushContext(c, ")")
        ELSE IF tok = <<"[">> THEN PushContext(c, "]")
        ELSE IF c # <<>> /\ tok = <<Top(c).type>> THEN PopContext(c)
        ELSE c

\* auxiliary: frames 1..n, the ones open before the token, have now seen a
\* significant token
NoteSignificant(ctx, n) ==
    [f \in DOMAIN ctx |-> IF f <= n /\ ctx[f].firstSig = 0
                          THEN [ctx[f] EXCEPT !.firstSig = lineNo] ELSE ctx[f]]

\* auxiliary: ( and [ push their closer, a closer pops a matching top
RefBracketStep(st, c) ==
    CASE c = "(" -> Append(st, ")")
      [] c = "[" -> Append(st, "]")
      [] st # <<>> /\ c = Last(st) -> Front(st)
      [] OTHER -> st

-----------------------------------------------------------------------------
\* startState()
Init ==
    /\ line \in Lines
    /\ pos = 0
    /\ lineNo = 1
    /\ tokenize = Base
    /\ context = <<>>
    /\ opened = <<>>

\* token(): in tokenBase, a run of spaces is a token of its own
EatSpace ==
    /\ pos < Len(line)
    /\ tokenize = Base
    /\ line[pos + 1] \in Space
    /\ pos' = pos + RunLen(line, pos + 1, Space)
    /\ context' = SolContext
    /\ UNCHANGED <<line, lineNo, tokenize, opened>>

\* token(): any other token, read by the tokenize function of the state;
\* r is the result of that function on the rest of the line
ScanToken(r) ==
    LET tok == SubSeq(line, pos + 1, pos + r.len)
        ctx == SolContext
    IN  /\ pos' = pos + r.len
        /\ tokenize' = r.next
        /\ context' = IF r.style = "comment" THEN ctx
                      ELSE NoteSignificant(BracketContext(ctx, tok), Len(ctx))
        /\ opened' = IF r.style = "bracket"
                     THEN FoldLeft(RefBracketStep, opened, tok) ELSE opened
        /\ UNCHANGED <<line, lineNo>>

Scan ==
    /\ pos < Len(line)
    /\ ~(tokenize = Base /\ line[pos + 1] \in Space)
    /\ ScanToken(Step(tokenize, line, pos + 1))

\* the host moves the stream to the next line of the document
NextLine ==
    /\ pos = Len(line)
    /\ lineNo < MaxLines
    /\ \E l \in Lines : line' = l
    /\ pos' = 0
    /\ lineNo' = lineNo + 1
    /\ UNCHANGED <<tokenize, context, opened>>

\* the whole document has been highlighted: the host makes no more calls,
\* so the configurations do not check for deadlock
Finished == pos = Len(line) /\ lineNo = MaxLines

Next == EatSpace \/ Scan \/ NextLine

\* CodeMirror's highlighter calls token while the stream is not at the end
\* of the line, and moves on to the next line of the document.
Spec == Init /\ [][Next]_vars /\ WF_vars(EatSpace \/ Scan) /\ WF_vars(NextLine)

-----------------------------------------------------------------------------
\* indent(state, textAfter); Pass stands for CodeMirror.Pass
Indent(ctx, textAfter) ==
    IF ctx = <<>> THEN "Pass"
    ELSE LET cx == Top(ctx)
             closing == textAfter # <<>> /\ textAfter[1] = cx.type
         IN  IF cx.align = "true" THEN cx.col + (IF closing THEN 0 ELSE 1)
             ELSE cx.indent + (IF closing THEN 0 ELSE IndentUnit)

\* mutation: the fallback line comment of C-like modes
LineComment_SlashDefault ==
    IF "commentSlashSlash" \in Support THEN <<"/", "/">>
    ELSE IF "commentHash" \in Support THEN <<"#">> ELSE <<"/", "/">>

\* mutation: the markers of the two flags swapped
LineComment_SwappedMarkers ==
    IF "commentSlashSlash" \in Support THEN <<"#">>
    ELSE IF "commentHash" \in Support THEN <<"/", "/">> ELSE <<"-", "-">>

\* lineComment: support.commentSlashSlash ? "//" : support.commentHash ? "#" : "--"
LineComment ==
    IF "commentSlashSlash" \in Support THEN <<"/", "/">>
    ELSE IF "commentHash" \in Support THEN <<"#">> ELSE <<"-", "-">>

-----------------------------------------------------------------------------
Modes == {Base} \cup {Str(q) : q \in Quotes} \cup [kind : {"comment"}, depth : Nat]

TypeOK ==
    /\ line \in Lines
    /\ pos \in 0..Len(line)
    /\ lineNo \in 1..MaxLines
    /\ tokenize \in Modes
    /\ tokenize.kind = "comment" => tokenize.depth > 0
    /\ context \in Seq(Frame)

-----------------------------------------------------------------------------
(* Properties                                                              *)

\* token() decides a context's align flag from the first token after its
\* bracket that is neither space nor comment: TRUE when that token is on
\* the bracket's line, FALSE when a line break came first, undecided while
\* no such token has been read.  indent() aligns continuation lines to the
\* bracket only when the flag is TRUE.  This holds for every open context,
\* not only the innermost one the code updates.
AlignMatchesFirstToken ==
    \A f \in DOMAIN context :
        LET cx == context[f] IN
        /\ (cx.align = "true") <=> (cx.firstSig = cx.openLine)
        /\ cx.firstSig > cx.openLine => cx.align = "false"
        /\ cx.align = "false" => lineNo > cx.openLine

\* The abstract lexical specification, with the state of the code's
\* tokenize function as its lexical state.
Lex == INSTANCE SqlLexical
         WITH lex <- tokenize,
              OpenQuotes <- {q \in Quotes : q = "'" \/ "doubleQuote" \in Support}

\* The literal and comment sub-tokenizers, entered by tokenBase and resumed
\* line after line through state.tokenize, implement the character-level
\* lexical specification: inside a literal exactly until a quote that no
\* backslash escapes (escapes reset at each line), inside a block comment
\* exactly while more /* than */ have been read, at the depth of their
\* difference, and every token of a sub-tokenizer ends at the end of the
\* line or at the quote or marker that changed the state.
LexicalModesRefined == Lex!Spec

\* Every call of token() consumes at least one character, so the host
\* reaches the end of every line and of the document.
DocumentScanned == <>Finished

\* The spec (section 4.2, rule 15): an ODBC date or time literal such as
\* {d '2020-01-01'} read by tokenBase is one number token.
ODBCDateIsNumber ==
    tokenize = Base /\ pos < Len(line) /\ ODBCDateLen(line, pos + 1) > 0
        => Step(tokenize, line, pos + 1) = Tok(ODBCDateLen(line, pos + 1), "number")

\* hookVar's comment (varName can be quoted with ` or ' or ") and the MySQL
\* manual it cites: in @'name' the quotes delimit the name, so the variable
\* token read by the @ hook ends at the quote that closes the name.
QuotedVariableEndsAtQuote ==
    /\ tokenize = Base /\ "@" \in HookChars
    /\ pos + 2 <= Len(line) /\ line[pos + 1] = "@" /\ line[pos + 2] \in {"'", "\"", Backtick}
    => LET close == SelectInSubSeq(line, pos + 3, Len(line), LAMBDA c : c = line[pos + 2])
       IN  close = 0 \/ Step(tokenize, line, pos + 1).len = close - pos

\* The toggle-comment command of the editor puts the mode's lineComment and
\* a space before a line; the mode must then read the whole line, from the
\* base state, as one comment token: lineComment (line 241) has to name a
\* comment syntax tokenBase recognises for the dialect's support flags.
LineCommentCommentsOut ==
    LET out == LineComment \o <<" ">> \o line
    IN  Step(Base, out, 1) = [len |-> Len(out), style |-> "comment", next |-> Base]

\* The spec (section 3): the depth of the bracket-context stack equals the
\* net nesting of the ( and [ brackets scanned, closers without a matching
\* open context being ignored.
BracketDepthMatchesNesting == Len(context) = Len(opened)
====
