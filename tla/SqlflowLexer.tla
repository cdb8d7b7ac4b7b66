---------------------------- MODULE SqlflowLexer ----------------------------
(***************************************************************************)
(* The stateless part of the SQLFlow CodeMirror mode                        *)
(* (src/docker/jupyter/js/sqlflow.js): the functions tokenBase,             *)
(* tokenLiteral, tokenComment and the dialect hooks hookVar,                *)
(* hookIdentifier and hookClient, as operators over one line of text.       *)
(*                                                                         *)
(* A line is a sequence of one-character strings.  Every tokenizing        *)
(* operator takes the line and the 1-based index i of the first character   *)
(* it may consume, and returns the token it reads as a record               *)
(*    [len |-> characters consumed from i, style |-> CSS style,             *)
(*     next |-> the tokenize function the state holds afterwards]           *)
(* The tokenize function is the tagged value Base, Str(q) or Comment(d):    *)
(* the closures tokenBase, tokenLiteral(q) and tokenComment(d).             *)
(*                                                                         *)
(* The dialect (the parserConfig of a defineMIME call) is the CONSTANTS.    *)
(***************************************************************************)
EXTENDS Integers, Sequences, SequencesExt

CONSTANTS
    Support,          \* parserConfig.support: the set of enabled feature names
    OperatorChars,    \* parserConfig.operatorChars as a set of characters
    HookChars,        \* the characters parserConfig.hooks maps to a hook
    Atoms,            \* parserConfig.atoms, words as sequences of lower-case chars
    Builtin,          \* parserConfig.builtin
    Keywords,         \* parserConfig.keywords
    Client,           \* parserConfig.client
    DateSQL,          \* parserConfig.dateSQL
    BackslashStringEscapes  \* parserConfig.backslashStringEscapes !== false

LowerSeq == <<"a","b","c","d","e","f","g","h","i","j","k","l","m",
              "n","o","p","q","r","s","t","u","v","w","x","y","z">>
UpperSeq == <<"A","B","C","D","E","F","G","H","I","J","K","L","M",
              "N","O","P","Q","R","S","T","U","V","W","X","Y","Z">>
Letter == ToSet(LowerSeq) \cup ToSet(UpperSeq)
Digit  == {"0","1","2","3","4","5","6","7","8","9"}
WordChar == Letter \cup Digit \cup {"_"}                      \* /[_\w\d]/
HexDigit == Digit \cup {"a","b","c","d","e","f","A","B","C","D","E","F"}
Space == {" "}                                      \* eatSpace, without tabs
Brackets == {"{", "}", "(", ")", "[", "]"}          \* default brackets regex
Punctuation == {";", ".", ",", ":"}                 \* default punctuation
Quotes == {"'", "\""}
\* SANY cannot read a backtick inside a string: the model spells it "bt"
Backtick == "bt"

\* String.toLowerCase on one character, and on a word
LowerChar(c) ==
    IF c \in ToSet(UpperSeq)
    THEN LowerSeq[CHOOSE n \in 1..26 : UpperSeq[n] = c] ELSE c
Lower(w) == [n \in DOMAIN w |-> LowerChar(w[n])]

\* stream.peek(): the character at index j, "" past the end of the line
At(line, j) == IF j \in 1..Len(line) THEN line[j] ELSE ""

\* length of the run of characters in S starting at j (eatWhile / match +)
RunLen(line, j, S) ==
    LET stop == SelectInSubSeq(line, j, Len(line), LAMBDA c : c \notin S)
    IN  IF stop = 0 THEN Len(line) - j + 1 ELSE stop - j

\* the tokenize functions of the state
Base == [kind |-> "base"]
Str(q) == [kind |-> "string", quote |-> q]
Comment(d) == [kind |-> "comment", depth |-> d]

Tok(n, s) == [len |-> n, style |-> s, next |-> Base]
ToEnd(line, i) == Len(line) - i + 1                 \* stream.skipToEnd()

-----------------------------------------------------------------------------
(* tokenLiteral(quote): the literal ends at the first quote not escaped by  *)
(* a backslash; escaped is local to the call, so it restarts at each line.  *)
RECURSIVE LiteralEnd(_, _, _, _)
LiteralEnd(q, line, p, escaped) ==
    IF p > Len(line) THEN 0
    ELSE IF line[p] = q /\ ~escaped THEN p
    ELSE LiteralEnd(q, line, p + 1,
                    BackslashStringEscapes /\ ~escaped /\ line[p] = "\\")

\* the positions from i on where a /* or a */ starts
CommentMarkers(line, i) ==
    {p \in i..Len(line) - 1 : <<line[p], line[p + 1]>> \in {<<"/", "*">>, <<"*", "/">>}}

(* Mutations of the definitions below, each a plausible slip in the code,  *)
(* that the properties of the runs must detect.                            *)

\* the quote closes the literal even after a backslash
TokenLiteral_NoEscape(q, line, i) ==
    LET e == SelectInSubSeq(line, i, Len(line), LAMBDA c : c = q)
    IN  IF e = 0 THEN [len |-> ToEnd(line, i), style |-> "string", next |-> Str(q)]
        ELSE [len |-> e - i + 1, style |-> "string", next |-> Base]


\* a /* inside a comment is not counted: comments do not nest
TokenComment_NoNesting(d, line, i) ==
    LET M == CommentMarkers(line, i)
    IN  IF M = {} THEN [len |-> ToEnd(line, i), style |-> "comment", next |-> Comment(d)]
        ELSE [len |-> Min(M) + 2 - i, style |-> "comment",
              next |-> IF line[Min(M)] = "/" THEN Comment(d)
                       ELSE IF d > 1 THEN Comment(d - 1) ELSE Base]

\* the opener decrements and the closer increments the depth
TokenComment_Swapped(d, line, i) ==
    LET M == CommentMarkers(line, i)
    IN  IF M = {} THEN [len |-> ToEnd(line, i), style |-> "comment", next |-> Comment(d)]
        ELSE [len |-> Min(M) + 2 - i, style |-> "comment",
              next |-> IF line[Min(M)] = "/" THEN Comment(d - 1)
                       ELSE IF d > 1 THEN Comment(d + 1) ELSE Base]

\* without stream.skipToEnd() when no marker is on the rest of the line
TokenComment_NoSkipToEnd(d, line, i) ==
    LET M == CommentMarkers(line, i)
    IN  IF M = {} THEN [len |-> 0, style |-> "comment", next |-> Comment(d)]
        ELSE [len |-> Min(M) + 2 - i, style |-> "comment",
              next |-> IF line[Min(M)] = "/" THEN Comment(d + 1)
                       ELSE IF d > 1 THEN Comment(d - 1) ELSE Base]

\* tokenLiteral(quote)
TokenLiteral(q, line, i) ==
    LET e == LiteralEnd(q, line, i, FALSE)
    IN  IF e = 0 THEN [len |-> ToEnd(line, i), style |-> "string", next |-> Str(q)]
        ELSE Tok(e - i + 1, "string")

(* tokenComment(depth): match /^.*?(\/\*|\*\/)/ finds the leftmost marker. *)
TokenComment(d, line, i) ==
    LET M == CommentMarkers(line, i)
        p == Min(M)
    IN  IF M = {} THEN [len |-> ToEnd(line, i), style |-> "comment", next |-> Comment(d)]
        ELSE [len |-> p + 2 - i, style |-> "comment",
              next |-> IF line[p] = "/" THEN Comment(d + 1)
                       ELSE IF d > 1 THEN Comment(d - 1) ELSE Base]

-----------------------------------------------------------------------------
(* Dialect hooks; k is the index after the trigger character at k - 1.      *)

(* hookVar: @@?name, or a quoted name matched by /^.*q/, greedy to the last *)
(* quote of the line, after the optional session./local./global. prefixes *)
(* that lines 281-283 strip in turn.                                       *)
VarChar == Letter \cup Digit \cup {"$", ".", "_"}
\* the /^session\./, /^local\./, /^global\./ patterns, tried in this order
VarPrefixes == <<<<"s", "e", "s", "s", "i", "o", "n", ".">>,
                 <<"l", "o", "c", "a", "l", ".">>,
                 <<"g", "l", "o", "b", "a", "l", ".">>>>

\* stream.match(prefix) at index p: the index after it, or p
MatchPrefix(line, p, w) ==
    IF p + Len(w) - 1 <= Len(line) /\ SubSeq(line, p, p + Len(w) - 1) = w THEN p + Len(w) ELSE p

HookVar(line, k) ==
    LET p == IF At(line, k) = "@"
             THEN FoldLeft(LAMBDA j, w : MatchPrefix(line, j, w), k + 1, VarPrefixes)
             ELSE k
        q == At(line, p)
        last == SelectLastInSubSeq(line, p + 1, Len(line), LAMBDA c : c = q)
        r == RunLen(line, p, VarChar)
    IN  IF q \in {"'", "\"", Backtick}
        THEN Tok(IF last = 0 THEN p - k + 2 ELSE last - k + 2, "variable-2")
        ELSE IF r > 0 THEN Tok(p + r - k + 1, "variable-2")
        ELSE Tok(p - k + 1, "null")

(* hookIdentifier: `name`, where `` stands for one backtick.               *)
RECURSIVE BacktickEnd(_, _)
BacktickEnd(line, p) ==
    IF p > Len(line) THEN 0
    ELSE IF line[p] = Backtick
         THEN IF At(line, p + 1) = Backtick THEN BacktickEnd(line, p + 2) ELSE p
         ELSE BacktickEnd(line, p + 1)

HookIdentifier(line, k) ==
    LET e == BacktickEnd(line, k)
        r == RunLen(line, k, {"_"} \cup Letter \cup Digit)   \* backUp, eatWhile(/\w/)
    IN  IF e > 0 THEN Tok(e - k + 2, "variable-2")
        ELSE Tok(1 + r, IF r > 0 THEN "variable-2" ELSE "null")

(* hookClient: \N is NULL, \g and the like are client commands.            *)
HookClient(line, k) ==
    IF At(line, k) = "N" THEN Tok(2, "atom")
    ELSE IF At(line, k) \in Letter \cup {".", "#", "!", "?"} THEN Tok(2, "variable-2")
    ELSE Tok(1, "null")

Hook(ch, line, k) ==
    CASE ch = "@"  -> HookVar(line, k)
      [] ch = Backtick  -> HookIdentifier(line, k)
      [] ch = "\\" -> HookClient(line, k)

-----------------------------------------------------------------------------
(* The literal matchers of tokenBase; each is the length of the match that *)
(* starts at the current character line[i], or 0 when it does not match.   *)

\* 0x1F (0[xX][0-9a-fA-F]+) and x'1F'
HexLen(line, i) ==
    LET ch == line[i]
        r == RunLen(line, i + 2, HexDigit)
    IN  IF ch = "0" /\ At(line, i + 1) \in {"x", "X"} /\ r > 0 THEN 2 + r
        ELSE IF ch \in {"x", "X"} /\ At(line, i + 1) = "'" /\ r > 0
                /\ At(line, i + 2 + r) = "'" THEN 3 + r
        ELSE 0

\* b'01' and 0b01
BinaryLen(line, i) ==
    LET ch == line[i]
        r == RunLen(line, i + 2, {"0", "1"})
    IN  IF ch \in {"b", "B"} /\ At(line, i + 1) = "'" /\ r > 0
           /\ At(line, i + 2 + r) = "'" THEN 3 + r
        ELSE IF ch = "0" /\ At(line, i + 1) = "b" /\ r > 0 THEN 2 + r
        ELSE 0

\* a leading digit, then /^[0-9]*(\.[0-9]+)?([eE][-+]?[0-9]+)?/ and, with
\* decimallessFloat, /^\.(?!\.)/
NumberLen(line, i) ==
    LET p1 == i + 1 + RunLen(line, i + 1, Digit)
        f  == RunLen(line, p1 + 1, Digit)
        p2 == IF At(line, p1) = "." /\ f > 0 THEN p1 + 1 + f ELSE p1
        sg == IF At(line, p2 + 1) \in {"-", "+"} THEN 1 ELSE 0
        x  == RunLen(line, p2 + 1 + sg, Digit)
        p3 == IF At(line, p2) \in {"e", "E"} /\ x > 0 THEN p2 + 1 + sg + x ELSE p2
        dl == "decimallessFloat" \in Support /\ At(line, p3) = "."
                /\ At(line, p3 + 1) # "."
    IN  p3 - i + (IF dl THEN 1 ELSE 0)

\* .5 with zerolessFloat: /^(?:\d+(?:e[+-]?\d+)?)/i after the dot
ZerolessLen(line, i) ==
    LET d  == RunLen(line, i + 1, Digit)
        p  == i + 1 + d
        sg == IF At(line, p + 1) \in {"-", "+"} THEN 1 ELSE 0
        x  == RunLen(line, p + 1 + sg, Digit)
    IN  IF d = 0 THEN 0
        ELSE IF At(line, p) \in {"e", "E"} /\ x > 0 THEN 1 + d + 1 + sg + x
        ELSE 1 + d

\* {d '2020-01-01'} and {ts "..."}: /^( )*(d|D|t|T|ts|TS)( )*'[^']*'( )*}/
ODBCDateLen(line, i) ==
    LET p == i + 1 + RunLen(line, i + 1, Space)
        Ends == { e \in i..Len(line) :
                    \E kw \in {<<"d">>, <<"D">>, <<"t">>, <<"T">>,
                               <<"t", "s">>, <<"T", "S">>} :
                    LET q0 == p + Len(kw) + RunLen(line, p + Len(kw), Space)
                        q  == At(line, q0)
                        c  == SelectInSubSeq(line, q0 + 1, Len(line), LAMBDA x : x = q)
                    IN  /\ SubSeq(line, p, p + Len(kw) - 1) = kw
                        /\ q \in Quotes /\ c > 0
                        /\ e = c + 1 + RunLen(line, c + 1, Space)
                        /\ At(line, e) = "}" }
    IN  IF line[i] = "{" /\ Ends # {} THEN Min(Ends) - i + 1 ELSE 0

\* after a date keyword: /^( )+'[^']*'/ or /^( )+"[^"]*"/
DateLiteralLen(line, j) ==
    LET s == RunLen(line, j, Space)
        q == At(line, j + s)
        c == SelectInSubSeq(line, j + s + 1, Len(line), LAMBDA x : x = q)
    IN  IF s > 0 /\ q \in Quotes /\ c > 0 THEN c - j + 1 ELSE 0

\* the catch-all branch: a word from j on, looked up in the dialect tables
Word(line, i, j) ==
    LET e    == j + RunLen(line, j, WordChar)
        word == Lower(SubSeq(line, i, e - 1))
        d    == DateLiteralLen(line, e)
    IN  IF word \in DateSQL /\ d > 0 THEN Tok(e + d - i, "number")
        ELSE Tok(e - i, CASE word \in Atoms    -> "atom"
                          [] word \in Builtin  -> "builtin"
                          [] word \in Keywords -> "keyword"
                          [] word \in Client   -> "string-2"
                          [] OTHER             -> "null")

-----------------------------------------------------------------------------
(* tokenBase: the first branch whose test holds decides the token.  The    *)
(* tests of the charset cast and of the "--" comment consume characters     *)
(* even when they fail (cast, dash), so later branches start after them.    *)
TokenBase(line, i) ==
    LET ch   == line[i]
        k    == i + 1
        has(f) == f \in Support
        cast == IF has("charsetCast") /\ ch = "_" /\ At(line, k) \in Letter
                THEN 1 + RunLen(line, k + 1, Letter \cup Digit) ELSE 0
        dash == IF ch = "-" /\ At(line, k) = "-" THEN 1 ELSE 0
    IN
    IF ch \in HookChars THEN Hook(ch, line, k)
    ELSE IF has("hexNumber") /\ HexLen(line, i) > 0 THEN Tok(HexLen(line, i), "number")
    ELSE IF has("binaryNumber") /\ BinaryLen(line, i) > 0
         THEN Tok(BinaryLen(line, i), "number")
    ELSE IF ch \in Digit THEN Tok(NumberLen(line, i), "number")
    ELSE IF ch = "?" /\ (At(line, k) \in Space \/ k > Len(line) \/ At(line, k) = ";")
         THEN Tok(1 + RunLen(line, k, Space) + (IF At(line, k) = ";" THEN 1 ELSE 0),
                  "variable-3")
    ELSE IF ch = "'" \/ (ch = "\"" /\ has("doubleQuote"))
         THEN LET r == TokenLiteral(ch, line, k)
              IN  [r EXCEPT !.len = 1 + r.len]
    ELSE IF ((has("nCharCast") /\ ch \in {"n", "N"}) \/ cast > 0)
            /\ At(line, k + cast) \in Quotes
         THEN Tok(1 + cast, "keyword")
    ELSE IF has("commentSlashSlash") /\ ch = "/" /\ At(line, k) = "/"
         THEN Tok(ToEnd(line, i), "comment")
    ELSE IF (has("commentHash") /\ ch = "#")
            \/ (dash = 1 /\ (~has("commentSpaceRequired") \/ At(line, k + 1) = " "))
         THEN Tok(ToEnd(line, i), "comment")
    ELSE IF ch = "/" /\ At(line, k) = "*"
         THEN LET r == TokenComment(1, line, k + 1)
              IN  [r EXCEPT !.len = 2 + r.len]
    ELSE IF ch = "."
         THEN IF has("zerolessFloat") /\ ZerolessLen(line, i) > 0
                 THEN Tok(ZerolessLen(line, i), "number")
              ELSE IF At(line, k) = "." THEN Tok(1 + RunLen(line, k, {"."}), "null")
              ELSE IF has("ODBCdotTable") /\ RunLen(line, k, WordChar) > 0
                 THEN Tok(1 + RunLen(line, k, WordChar), "variable-2")
              ELSE Tok(1, "null")
    ELSE IF ch \in OperatorChars
         THEN Tok(1 + dash + RunLen(line, k + dash, OperatorChars), "operator")
    ELSE IF ch \in Brackets THEN Tok(1 + RunLen(line, k, Brackets), "bracket")
    ELSE IF ch \in Punctuation THEN Tok(1 + RunLen(line, k, Punctuation), "punctuation")
    ELSE IF ODBCDateLen(line, i) > 0 THEN Tok(ODBCDateLen(line, i), "number")
    ELSE Word(line, i, k + cast)

\* state.tokenize(stream, state) for the tokenize function held in the state
Step(mode, line, i) ==
    CASE mode.kind = "base"    -> TokenBase(line, i)
      [] mode.kind = "string"  -> TokenLiteral(mode.quote, line, i)
      [] mode.kind = "comment" -> TokenComment(mode.depth, line, i)
====
