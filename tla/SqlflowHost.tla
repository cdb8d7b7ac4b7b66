----------------------------- MODULE SqlflowHost -----------------------------
(***************************************************************************)
(* The mode's state as objects, and the editor's cache of it.              *)
(*                                                                         *)
(* state.context in sqlflow.js is a linked list of objects {prev, indent,  *)
(* col, type, align}: pushContext allocates one, popContext follows prev,  *)
(* and token() writes align into the innermost one in place.  CodeMirror   *)
(* keeps, for the start of each line, a copy of the state it reached there *)
(* and, after an edit, resumes highlighting from one of those copies.  The *)
(* mode defines no copyState, so the copy is CodeMirror's default one,      *)
(* which copies the state's own properties: the copy and the live state    *)
(* refer to the same context objects.                                      *)
(*                                                                         *)
(* Here the objects live in heap, at addresses 1..Len(heap), Null is 0.    *)
(***************************************************************************)
EXTENDS SqlflowLexer, Functions

CONSTANTS
    Lines,      \* the lines the document may be made of
    MaxLines,   \* number of lines in the document
    MaxEdits    \* bound on the edits of the document

VARIABLES
    doc,        \* the document, line k is doc[k]
    heap,       \* the context objects allocated so far, by address
    state,      \* the live state: [tokenize, context], context an address
    lineNo,     \* the line the highlighter is on ...
    pos,        \* ... and stream.pos on it
    saved,      \* saved[k]: the copy of the state kept for the start of line k
    edits       \* edits made so far

vars == <<doc, heap, state, lineNo, pos, saved, edits>>

Null == 0

\* startState()
StartState == [tokenize |-> Base, context |-> Null]

\* mutation: the new object has no link to the enclosing context
PushContext_NoPrev(h, c, line, p, type) ==
    Append(h, [indent |-> RunLen(line, 1, Space), col |-> p, type |-> type, align |-> "null"])

\* pushContext(stream, state, type): a new object whose prev is the current
\* context; it is at address Len(h) + 1
PushContext(h, c, line, p, type) ==
    Append(h, [prev |-> c, indent |-> RunLen(line, 1, Space), col |-> p,
               type |-> type, align |-> "null"])

\* popContext(state): the context becomes prev; its write of state.indent is
\* never read and is omitted
PopContext(h, c) == h[c].prev

\* if (state.context && state.context.align == null) state.context.align = v
SetAlign(h, c, v) ==
    IF c # Null /\ h[c].align = "null" THEN [h EXCEPT ![c].align = v] ELSE h

\* mutation: the start-of-line reset without its test for an undecided align
SolAlign_NoNullCheck(h, c, p) ==
    IF p = 0 /\ c # Null THEN [h EXCEPT ![c].align = "false"] ELSE h

\* the start of token(): if (stream.sol()) ...
SolAlign(h, c, p) == IF p = 0 THEN SetAlign(h, c, "false") ELSE h

\* the rest of token() once state.tokenize returned r for the token at p
AfterToken(h, st, line, p, r) ==
    LET c   == st.context
        h1  == SetAlign(h, c, "true")
        tok == SubSeq(line, p + 1, p + r.len)
        Ret(hh, cc) == [heap |-> hh, pos |-> p + r.len,
                        state |-> [tokenize |-> r.next, context |-> cc]]
    IN  CASE r.style = "comment"  -> Ret(h, c)
          [] tok = <<"(">>         -> Ret(PushContext(h1, c, line, p, ")"), Len(h1) + 1)
          [] tok = <<"[">>         -> Ret(PushContext(h1, c, line, p, "]"), Len(h1) + 1)
          [] c # Null /\ tok = <<h1[c].type>> -> Ret(h1, PopContext(h1, c))
          [] OTHER                 -> Ret(h1, c)

\* token(stream, state) at stream.pos = p: [heap, state, pos] after the call
TokenCall(h, st, line, p) ==
    LET h0 == SolAlign(h, st.context, p) IN
    IF st.tokenize = Base /\ line[p + 1] \in Space
    THEN [heap |-> h0, state |-> st, pos |-> p + RunLen(line, p + 1, Space)]
    ELSE AfterToken(h0, st, line, p, Step(st.tokenize, line, p + 1))

\* the host calls token() until the line is consumed
RECURSIVE ScanRest(_, _)
ScanRest(line, r) ==
    IF r.pos = Len(line) THEN r ELSE ScanRest(line, TokenCall(r.heap, r.state, line, r.pos))

\* highlighting d from its first line with a fresh state and no cache:
\* [heap, state, pos] at the start of line k
RECURSIVE Fresh(_, _)
Fresh(d, k) ==
    IF k = 1 THEN [heap |-> <<>>, state |-> StartState, pos |-> 0]
    ELSE [ScanRest(d[k - 1], [Fresh(d, k - 1) EXCEPT !.pos = 0]) EXCEPT !.pos = 0]

-----------------------------------------------------------------------------
Init ==
    /\ doc \in [1..MaxLines -> Lines]
    /\ heap = <<>>
    /\ state = StartState
    /\ lineNo = 1
    /\ pos = 0
    /\ saved = (1 :> StartState)
    /\ edits = 0

Apply(r) ==
    /\ heap' = r.heap
    /\ state' = r.state
    /\ pos' = r.pos
    /\ UNCHANGED <<doc, lineNo, saved, edits>>

\* the highlighter calls token(stream, state) on the current line
Token ==
    /\ pos < Len(doc[lineNo])
    /\ Apply(TokenCall(heap, state, doc[lineNo], pos))

\* at the end of a line the host keeps copyState(mode, state) for the next
\* one: a new record holding the same tokenize and the same context object
NextLine ==
    /\ pos = Len(doc[lineNo])
    /\ lineNo < MaxLines
    /\ lineNo' = lineNo + 1
    /\ pos' = 0
    /\ saved' = (lineNo + 1 :> state) @@ saved
    /\ UNCHANGED <<doc, heap, state, edits>>

\* line k is replaced by l (l may equal it: a re-highlight on request); the
\* host drops the copies after line j, for some kept line j <= k, and goes
\* on highlighting from a copy of the state kept for line j
Edit ==
    /\ edits < MaxEdits
    /\ \E k \in 1..MaxLines, l \in Lines, j \in DOMAIN saved :
          /\ j <= k
          /\ doc' = [doc EXCEPT ![k] = l]
          /\ state' = saved[j]
          /\ lineNo' = j
          /\ pos' = 0
          /\ saved' = Restrict(saved, 1..j)
    /\ edits' = edits + 1
    /\ UNCHANGED heap

\* When the document is highlighted and no more edits come, the host
\* makes no more calls, so the configuration does not check for deadlock.
Next == Token \/ NextLine \/ Edit

Spec == Init /\ [][Next]_vars

-----------------------------------------------------------------------------
States == [tokenize : {Base} \cup {Str(q) : q \in Quotes} \cup [kind : {"comment"}, depth : Nat],
           context : Nat]

TypeOK ==
    /\ doc \in [1..MaxLines -> Lines]
    /\ heap \in Seq([prev : Nat, indent : Nat, col : Nat, type : {")", "]"},
                     align : {"true", "false", "null"}])
    /\ state \in States /\ state.context <= Len(heap)
    /\ lineNo \in 1..MaxLines
    /\ pos \in 0..Len(doc[lineNo])
    /\ DOMAIN saved = 1..lineNo
    /\ \A k \in DOMAIN saved : saved[k] \in States
    /\ edits \in 0..MaxEdits

\* the context stack a state refers to, as values, outermost first
RECURSIVE Contexts(_, _)
Contexts(h, c) ==
    IF c = Null THEN <<>>
    ELSE Append(Contexts(h, h[c].prev),
                [indent |-> h[c].indent, col |-> h[c].col, type |-> h[c].type, align |-> h[c].align])

ValueOf(r) == [tokenize |-> r.state.tokenize, context |-> Contexts(r.heap, r.state.context)]

\* what indent() and the calls of token() on the next line can tell apart at
\* the start of a line: there an undecided align acts as unaligned, since
\* the first call of the line sets it to false and indent() tests it as a
\* boolean
AtLineStart(v) ==
    [v EXCEPT !.context = [f \in DOMAIN v.context |->
                             IF v.context[f].align = "null"
                             THEN [v.context[f] EXCEPT !.align = "false"]
                             ELSE v.context[f]]]

(* Properties                                                              *)

\* Resuming from a cached copy is as good as highlighting from scratch: at
\* the start of every line, whether reached after edits and restarts from
\* the host's copies (which share context objects with the live state and
\* have seen token() write align into them since) or not, the state is the
\* one highlighting the current document from its first line gives.
IncrementalMatchesFresh ==
    pos = 0 =>
        AtLineStart(ValueOf([heap |-> heap, state |-> state]))
            = AtLineStart(ValueOf(Fresh(doc, lineNo)))

\* The spec (sections 3 and 5): a context is owned by the one scan state
\* that refers to it and the scan state is never shared, so a state the
\* host keeps for the start of line k stays the state highlighting lines
\* 1..k-1 produced.
CachedStatesUnchanged ==
    \A k \in DOMAIN saved :
        ValueOf([heap |-> heap, state |-> saved[k]]) = ValueOf(Fresh(doc, k))
====
