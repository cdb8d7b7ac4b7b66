# TLA+ models of the SQLFlow CodeMirror mode

This directory holds TLA+ models of the syntax-highlighting mode that SQLFlow's
Jupyter image installs for `%%sqlflow` cells. It also holds the TLC
configurations that check them.

The mode lives in `src/docker/jupyter/js/sqlflow.js`.

## The system

`sqlflow.js` defines one CodeMirror 5 mode, `sqlflow`, and registers two MIME
dialects of it: `text/x-mysqlflow` (lines 325-339) and `text/x-hiveqlflow`
(lines 342-350). Its parts are:

| part | code | what it does |
|---|---|---|
| character classifier | lines 40-59 | Regexes for operators, brackets and punctuation, and the per-dialect `support` flags and word tables. |
| base tokenizer | `tokenBase`, lines 61-157 | A first-match chain that reads one token. Hooks run first, then hex, binary, number, placeholder, string, charset cast, `//`, `#`/`--`, `/*`, `.`, operator run, bracket run, punctuation run, ODBC date, and finally a word with an optional date literal. |
| sub-tokenizers | `tokenLiteral(quote)` 160-173, `tokenComment(depth)` 175-184 | Closures stored in `state.tokenize` that resume a quoted literal or a nested block comment on the next line. |
| dialect hooks | `hookVar` 275-299, `hookIdentifier` 250-259, `hookClient` 302-311 | Handle `@var`, `` `ident` `` and `\g`. `hookIdentifierDoublequote` (262-272) is registered by no dialect, so it is dead code. |
| context tracker | `pushContext`/`popContext` 186-198, `token` 208-229 | A linked list of open `(` / `[` contexts. Each context has an `align` flag, decided by the first real token after the bracket. |
| indentation | `indent` 231-237 | Indents a new line relative to the innermost context. |
| Jupyter glue | the two `custom.js` files | Registers the mode for `%%sqlflow` cells and re-highlights cells when the kernel is ready. |

CodeMirror (the host, which is not code of this repository) drives the mode.
For each line it creates a stream and calls `token(stream, state)` until the
line is consumed. It then passes the same `state` on to the next line.

The only state of the mode is `state.tokenize` (base, inside a literal, or
inside a comment of some depth) and `state.context`. Everything that is hard
about the mode is how that state is carried from one token to the next, and
from one line to the next:

- comment nesting that is held only in a closure;
- an escape flag that is local to one call;
- an `align` flag written in place at the start of a line or after a token;
- bracket contexts pushed and popped by exact-match tests on the token text.

## Modules

| module | models | state / actions |
|---|---|---|
| `SqlflowLexer` | The stateless tokenizing functions: the character classes, `tokenBase` with every branch in the code's order, `tokenLiteral`, `tokenComment` and the three hooks (`hookVar` with its `session.`, `local.` and `global.` prefixes, folded over `VarPrefixes`). | Pure operators only. `Step(mode, line, i)` returns `[len, style, next]`. `len` is how many characters the call consumes, including the characters a failing test such as `stream.eat("-")` already ate. `next` is the new `state.tokenize`. |
| `SqlflowMode` | `startState`, `token`, `pushContext`, `popContext`, `indent`, and the host's line loop. Contexts are values: `context` is a sequence of frames. | `Init` is `startState`. `EatSpace` is the `eatSpace` early return of `token` (line 213). `Scan` is a whole call of `token` that reads a token: the start-of-line `align` reset, the tokenize function, the `align` update, and the push or pop. It applies the tokenize function once (`Step`) and hands the result to `ScanToken`, which makes every state change of the call. `NextLine` is the host moving to the next line. |
| `SqlLexical` | The abstract specification of the lexical modes (spec §4.2 rules 6 and 10, §4.3, §4.4), one character at a time. It is written from the spec, not the code. | `lex` is base, inside a literal opened by quote `q`, or inside a comment of depth `d`. `Read` reads a chunk of the line that ends at the end of the line or right after the character that closed a literal or passed a comment marker. `NextLine` carries `lex` to the next line. |
| `SqlflowHost` | The mode's contexts as objects, and CodeMirror's cache of per-line states. | `heap` holds the context objects by address; `state.context` is an address. `Token` is one call of `token` (`TokenCall`, the same steps as `Scan` but writing `align` into the object in place). `NextLine` keeps the host's copy of the state for the next line in `saved`. `Edit` replaces a line, drops the copies after some line `j`, and resumes from `saved[j]`. `Fresh(d, k)` is highlighting `d` from scratch up to line `k`. |
| `SqlflowDialects` | The `text/x-mysqlflow` and `text/x-hiveqlflow` configurations of `defineMIME` (lines 325-350), `set()` (317-323), and the mode's reading of `parserConfig` with its defaults (41-59). | `MySQLConfig` and `HiveConfig` are records with the keys the code gives. `ModeConfig(cfg)` applies `parserConfig.x \|\| default`, so Hive gets no hooks, no client words and backslash escapes. `WordSet` splits a word list on spaces. The word lists hold one one-letter word each. |
| `SqlflowJupyter` | Both copies of `custom.js`, and the notebook page around them. | `LoadCustomDocker` and `LoadCustomScripts` are the top level of each copy: the `require` call, plus, in the docker copy, the title prefix (line 37) and the `document.title` setter (39-43). `RequireCallback` is the callback: `modeInfo.push`, the `magic_text/x-mysqlflow` highlight mode, and the `events.one` subscription. `OnKernelReady` is the handler. The page's steps are `LoadNotebook` (cells created and auto-highlighted), `KernelReady` (first start or a restart), `SetTitle` (the page names the notebook), `KernelBusy` (the notification area's `document.title = '(Busy) ' + document.title`) and `KernelIdle` (the name restored). `intended` is the title the page's own code means to show, for comparison with `title`. |
| `MCSqlflowMySQL`, `MCSqlflowHive`, `MCSqlflowHost`, `MCSqlflowJupyter` | Instances for TLC. | The documents to check: every line of up to `MaxLen` characters over a small alphabet, plus curated lines for the violation runs. |

`SqlflowMode` instantiates `SqlLexical` with `lex <- tokenize` (the closures
`tokenLiteral(q)` and `tokenComment(d)` are the modes `Str(q)` and
`Comment(d)`), and checks `Lex!Spec` as the property `LexicalModesRefined`. The
refinement is about the sub-tokenizers: it fixes how a literal or a comment
is read and resumed across lines, and leaves where a token read in the base
state ends to the lexer's own branches.
Each `Scan` step is one `Read` of the token's characters, each `EatSpace` a
`Read` of the spaces, each `NextLine` the abstract `NextLine`. So every
token boundary the mode produces is a boundary the character-level reading
allows, and the mode after it is the one the characters dictate. This
replaces the two per-state reference variables of the first version.

The abstractions are these:

- A line is a sequence of one-character strings, and a position is `stream.pos`.
- The keyword, builtin, atom, client and date word tables are each reduced to a one-letter word. The properties depend only on where a word ends, not on its class.
- Tabs are left out, so a column equals a position.
- The backtick is written as the string `"bt"`, because the TLA+ parser cannot read a backtick inside a string.
- `SqlflowMode` has an auxiliary variable `opened`, the reference bracket stack, read only by `BracketDepthMatchesNesting`. Each frame of `context` also records the line of its bracket (`openLine`) and the line of the first significant token after it (`firstSig`).
- In `SqlflowHost` an object is never freed; `Contexts(h, c)` reads the stack a state refers to as values.

## Runs

| run | cfg | expect | what it shows |
|---|---|---|---|
| `mysql_scan` | `MCSqlflowMySQL.cfg` | pass | Covers every 2-line document with lines of up to 3 characters over `( ) a space / * '`, in the MySQL dialect. Each open context's `align` agrees with where its first token was read (`AlignMatchesFirstToken`). The mode refines `SqlLexical` (`LexicalModesRefined`). Every document is scanned to the end (`DocumentScanned`). MySQL's `lineComment` (`#`), with a space after it, turns each of these lines into one comment token (`LineCommentCommentsOut`). About 24k states, under a minute. |
| `hive_scan` | `MCSqlflowHive.cfg` | pass | The refinement for every 2-line document with lines of up to 4 characters over `' \ / * ( -`, in the Hive dialect. This covers backslash escapes, including at the end of a line, and `--` comments with no space. It also checks `LineCommentCommentsOut`: Hive's `lineComment` (`--`), with the editor's space after it, turns each of these lines into one comment token. About 147k states, under two minutes. |
| `host_cache` | `MCSqlflowHost.cfg` | pass | Every 3-line document of lines up to 2 characters over `( a space`, with one edit of any line that restarts from any saved line state. At every line start the state, read with an undecided `align` as unaligned, equals the one a fresh highlight of the current document gives (`IncrementalMatchesFresh`). About 330k states. |
| `jupyter_glue` | `MCSqlflowJupyter.cfg` | pass | Either copy of `custom.js` with a notebook of two cells, of every type and first line. The page, `require.js` and the kernel (with one restart) run in any order, titles are assigned at any time, and the kernel goes busy and idle. `TitlePrefixedOnce`: once the docker copy has run, the title starts with `SQLFlow - ` exactly once, and the scripts copy leaves the page's title alone. `HighlightedWhenSubscribedFirst`: if the callback subscribes before the first `kernel_ready`, every `%%sqlflow` code cell ends up in the mode for good. About 2900 states. |
| `bracket_nesting` | `MCSqlflowMySQL_brackets.cfg` | violation | Checks the spec's claim that the context stack depth equals the bracket nesting. It fails on the line `((`: `eatWhile(brackets)` makes one token `((`, and `token()` pushes only for a token that is exactly `(`. |
| `odbc_date` | `MCSqlflowMySQL_odbc.cfg` | violation | Checks spec rule 15: `{d 'x'}` is one number token. It fails because the bracket branch (line 131) takes the `{` before the ODBC branch (line 139) is reached. |
| `cache_aliasing` | `MCSqlflowHost_cache.cfg` | violation | Checks the spec's rule that a scan state is never shared (`CachedStatesUnchanged`). It fails on the document `(`, `(`: the saved state for line 2 refers to the context of line 1, and the start-of-line reset of line 2 writes `align = false` into it. |
| `jupyter_ready_missed` | `MCSqlflowJupyter_ready.cfg` | violation | Checks the file's stated purpose: `%%sqlflow` cells end up highlighted in every order (`SqlflowCellsHighlighted`). It fails when the notebook loads and its kernel becomes ready before `require.js` runs the callback. The `events.one` handler then never fires. |
| `title_busy` | `MCSqlflowJupyter_title.cfg` | violation | Checks that the docker copy shows `SQLFlow - ` before the title the page means (`TitleShowsPageTitle`). It fails once the kernel is busy: the page reads `document.title`, which has no getter after line 39, and shows `SQLFlow - (Busy) undefined`. |
| `hookvar_quoted` | `MCSqlflowMySQL_hookvar.cfg` | violation | Checks that a quoted `@` variable ends at its closing quote, as `hookVar`'s comment says. It fails on `@'a'='b'`, which `/^.*'/` reads as one token. |

The bounds were chosen as follows:

- Two lines are enough for every cross-line behaviour of the mode itself:
  - a comment or literal continued on the next line;
  - an `align` decided on the next line;
  - a backslash escaping the line break.
- Lines of 3 or 4 characters fit `/*/*`, `*/`, `'\'`, `((`, `(a` and `--'`.
- The alphabets hold the characters that switch branches of `tokenBase`, plus one word character and the space. The Hive alphabet has no word character: `-` and `(` already give non-comment tokens, and a letter quadruples the run.
- The host run needs three lines, so that a restart can pick a line whose saved context was written by a later line. It needs one edit, so that the restart happens. Lines of two characters over `( a space` fit `((`, `(a`, `( ` and a blank line.

- The Jupyter run needs two cells, so that a code cell and a markdown cell, or a `%%sqlflow` cell and another one, are present together. It needs two names, so that a title is reassigned after the setter is installed. It needs two `kernel_ready` events, so that a restart comes after the one-shot handler has fired.

Every action and every disjunct of `Next` fires in the passing runs.

## Fairness

`SqlflowMode!Spec` has weak fairness on the mode's steps (`EatSpace \/ Scan`)
and on `NextLine`. This matches the host: CodeMirror's highlighter calls
`token` while `!stream.eol()`, and after each line it goes on to the next one.

`DocumentScanned` therefore states exactly the code's own obligation: every
call consumes at least one character.

`SqlflowJupyter!Spec` has weak fairness on loading `custom.js`, on the
`require` callback, on loading the notebook and on the first `kernel_ready`.
`require.js` calls a callback once its modules are loaded, and a started
kernel reports ready. Restarts, title changes and busy or idle periods are the
user's doing, and are not fair.

`SqlflowHost` has no fairness and only safety properties, since edits may
come at any time.

The models stop at the end of the document, where the host makes no more
calls. For that reason the configurations set `CHECK_DEADLOCK FALSE`.

## Findings

1. Adjacent brackets merge (`sqlflow.js:133`). `f((a)` or `((` push only one
   context or none, so `indent()` uses the wrong context. `)` followed by
   `)` pops nothing. The spec (§3) says the stack follows the nesting. See
   run `bracket_nesting`.
2. The ODBC date branch is unreachable (`sqlflow.js:139`), because `{` is in
   the default `brackets` class. See run `odbc_date`.
3. Saved line states share context objects (`sqlflow.js:211`). With no
   `copyState`, the host's copy is shallow and `token()` writes `align` into
   objects a saved state refers to. That breaks the spec's ownership rule
   (run `cache_aliasing`). It is harmless for highlighting: the writes only
   decide an undecided `align`, which a line start treats as false anyway
   (run `host_cache`).
4. `hookVar`'s `/^.*'/` is greedy (`sqlflow.js:287`). `@'a'='b'` is one
   variable token, and whatever follows the first closing quote up to the
   last quote of the line is never tokenized. See run `hookvar_quoted`.

5. The `kernel_ready` subscription can come too late (`custom.js:28`).
   `events.one` is called inside the asynchronous `require` callback. If the
   notebook's kernel becomes ready first, the handler never fires, and the
   cells created before the callback keep the default mode. See run
   `jupyter_ready_missed`.
6. The title setter hides the title (`custom.js:39`). `__defineSetter__`
   gives `document` its own `title` accessor, with no getter, so
   `document.title` reads `undefined` afterwards. The notebook marks a busy
   kernel with `document.title = '(Busy) ' + document.title`, and the tab
   shows `SQLFlow - (Busy) undefined` until the kernel is idle. See run
   `title_busy`.

The operator run at line 129 swallows `--`, so `*-- x` is no comment. This
follows spec rule 12 (an operator character starts a maximal run), so it is
not listed as a finding.

## Not modelled, and planned work

- **The notebook's highlighting** is abstracted to a mode per cell. How
  `auto_highlight` loads a mode file asynchronously is not modelled. Neither
  are cells added or edited after the notebook is loaded. `console.log` in the
  title setter is left out.
- **`hookIdentifierDoublequote`** (lines 262-272) is registered by no dialect,
  so it can never run.
- **`blockCommentStart`, `blockCommentEnd` and `closeBrackets`** (lines 239, 240 and 242)
  are read by editor add-ons this repository does not use.
- **CodeMirror's** `blankLine`, time slicing and viewport, and the styles it
  paints, are not modelled.
- **Indent properties** under `Indent`. One example is that a closer line
  indents to the column of its opener when the context is aligned.
- **Three-line curated documents**, for the `align` of outer contexts and for
  nested comments that close over several lines.
