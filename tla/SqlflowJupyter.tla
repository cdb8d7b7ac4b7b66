---------------------------- MODULE SqlflowJupyter ----------------------------
(***************************************************************************)
(* custom.js, the notebook glue that makes %%sqlflow cells use the mode,   *)
(* and the notebook page around it.                                        *)
(*                                                                         *)
(* The page loads custom.js, loads the notebook and starts its kernel      *)
(* asynchronously and in no fixed order.  custom.js (both copies) asks     *)
(* require.js for the codecell and CodeMirror modules; the callback runs    *)
(* later, registers the magic_text/x-mysqlflow highlight mode and only     *)
(* then subscribes, with events.one, to the next kernel_ready.Kernel to    *)
(* re-highlight the code cells.  The copy under src/docker also prefixes   *)
(* the window title and installs a setter for document.title.              *)
(*                                                                         *)
(* The notebook's own behaviour (cells highlighted when they are created,  *)
(* the kernel started once the notebook is loaded, the title assigned by   *)
(* the page) is not code of this repository.                               *)
(***************************************************************************)
EXTENDS Naturals, Sequences

CONSTANTS
    Cells,      \* the cells of the notebook
    Names,      \* titles the page may assign to document.title
    PageTitle,  \* the title of the page before custom.js runs
    Prefix,     \* the string "SQLFlow - "
    Undefined,  \* the value undefined
    Busy,       \* the string "(Busy) " the page puts before its title
    MaxReadies  \* bound on kernel_ready events (the first and restarts)

VARIABLES
    copy,       \* which custom.js the image installs: "docker" or "scripts"
    cellType,   \* cell.cell_type
    magic,      \* whether the cell's first line matches /^%%sqlflow/
    script,     \* "unloaded", "loaded" (require pending), "registered"
    modes,      \* the highlight modes registered, beside the notebook's own
    modeInfo,   \* CodeMirror.modeInfo entries pushed by custom.js
    listening,  \* the events.one handler is subscribed and has not fired
    loaded,     \* the notebook's cells exist
    mode,       \* mode[c]: the CodeMirror mode cell c is highlighted with
    readies,    \* kernel_ready.Kernel events so far
    title,      \* the text of the page's <title> node, as a sequence
    setter,     \* document has its own title setter
    busy,       \* the kernel is executing
    intended    \* the title the page's own code means to show (history)

vars == <<copy, cellType, magic, script, modes, modeInfo, listening, loaded,
          mode, readies, title, setter, busy, intended>>

-----------------------------------------------------------------------------
(* The notebook page                                                       *)

\* Cell.auto_highlight: the first highlight mode whose regex matches the
\* cell's first line, else the default mode
AutoHighlight(c, hm) ==
    IF magic[c] /\ "magic_text/x-mysqlflow" \in hm THEN "sqlflow" ELSE "default"

\* reading document.title: the page's own getter, or undefined once an own
\* accessor without a getter shadows it
ReadTitle == IF setter THEN <<Undefined>> ELSE title

\* the document.title setter of src/docker/jupyter/js/custom.js: the title
\* node's text becomes "SQLFlow - " + val
TitleSetter(val) == <<Prefix>> \o val

\* assigning document.title = val, a string as a sequence of parts
AssignTitle(val) == IF setter THEN TitleSetter(val) ELSE val

-----------------------------------------------------------------------------
(* custom.js                                                               *)

\* mutation: the setter installed before the title is prefixed
LoadCustomDocker_SetterFirst ==
    /\ copy = "docker" /\ script = "unloaded"
    /\ script' = "loaded"
    /\ title' = TitleSetter(<<Prefix, Undefined>>)
    /\ setter' = TRUE
    /\ UNCHANGED <<copy, cellType, magic, modes, modeInfo, listening, loaded,
                   mode, readies, busy, intended>>

\* src/docker/jupyter/js/custom.js, top level: require(...) returns at once,
\* the title is prefixed, then the setter is installed
LoadCustomDocker ==
    /\ copy = "docker" /\ script = "unloaded"
    /\ script' = "loaded"
    /\ title' = <<Prefix>> \o ReadTitle
    /\ setter' = TRUE
    /\ UNCHANGED <<copy, cellType, magic, modes, modeInfo, listening, loaded,
                   mode, readies, busy, intended>>

\* src/scripts/docker/js/custom.js, top level: only the require(...)
LoadCustomScripts ==
    /\ copy = "scripts" /\ script = "unloaded"
    /\ script' = "loaded"
    /\ UNCHANGED <<copy, cellType, magic, modes, modeInfo, listening, loaded,
                   mode, readies, title, setter, busy, intended>>

\* mutation: the callback registers the MIME type under another name
RequireCallback_WrongMime ==
    /\ script = "loaded"
    /\ script' = "registered"
    /\ modeInfo' = Append(modeInfo, "text/x-sqlflow")
    /\ modes' = modes \cup {"magic_text/x-mysqlflow"}
    /\ listening' = TRUE
    /\ UNCHANGED <<copy, cellType, magic, loaded, mode, readies, title, setter, busy, intended>>

\* mutation: the callback leaves out the highlight_modes entry
RequireCallback_NoHighlightMode ==
    /\ script = "loaded"
    /\ script' = "registered"
    /\ modeInfo' = Append(modeInfo, "text/x-mysqlflow")
    /\ listening' = TRUE
    /\ UNCHANGED <<copy, cellType, magic, modes, loaded, mode, readies, title, setter, busy, intended>>

\* the require callback: modeInfo.push, the highlight mode, events.one
RequireCallback ==
    /\ script = "loaded"
    /\ script' = "registered"
    /\ modeInfo' = Append(modeInfo, "text/x-mysqlflow")
    /\ modes' = modes \cup {"magic_text/x-mysqlflow"}
    /\ listening' = TRUE
    /\ UNCHANGED <<copy, cellType, magic, loaded, mode, readies, title, setter, busy, intended>>

\* the kernel_ready handler: auto_highlight every code cell
OnKernelReady(m) == [c \in Cells |-> IF cellType[c] = "code" THEN AutoHighlight(c, modes) ELSE m[c]]

-----------------------------------------------------------------------------
(* The notebook page's steps                                               *)

\* the notebook is loaded: each cell is created and highlighted
LoadNotebook ==
    /\ ~loaded
    /\ loaded' = TRUE
    /\ mode' = [c \in Cells |-> IF cellType[c] = "code" THEN AutoHighlight(c, modes) ELSE "markdown"]
    /\ UNCHANGED <<copy, cellType, magic, script, modes, modeInfo, listening,
                   readies, title, setter, busy, intended>>

\* the kernel of the loaded notebook becomes ready (first start or restart);
\* jQuery calls the handlers subscribed at that moment, an events.one
\* handler at most once
KernelReady ==
    /\ loaded /\ readies < MaxReadies
    /\ readies' = readies + 1
    /\ mode' = IF listening THEN OnKernelReady(mode) ELSE mode
    /\ listening' = FALSE
    /\ UNCHANGED <<copy, cellType, magic, script, modes, modeInfo, loaded,
                   title, setter, busy, intended>>

\* SaveWidget.update_document_title: document.title = the notebook's name
TitleAssigned(v) ==
    /\ title' = AssignTitle(<<v>>)
    /\ intended' = <<v>>

\* the page names the notebook (on load, on rename)
SetTitle(v) ==
    /\ TitleAssigned(v)
    /\ UNCHANGED <<copy, cellType, magic, script, modes, modeInfo, listening,
                   loaded, mode, readies, setter, busy>>

\* kernel_busy.Kernel: the notification area runs
\* window.document.title = '(Busy) ' + window.document.title
KernelBusy ==
    /\ loaded /\ readies > 0 /\ ~busy
    /\ busy' = TRUE
    /\ title' = AssignTitle(<<Busy>> \o ReadTitle)
    /\ intended' = <<Busy>> \o intended
    /\ UNCHANGED <<copy, cellType, magic, script, modes, modeInfo, listening,
                   loaded, mode, readies, setter>>

\* kernel_idle.Kernel: the notification area restores the notebook's name
KernelIdle(v) ==
    /\ busy /\ busy' = FALSE
    /\ TitleAssigned(v)
    /\ UNCHANGED <<copy, cellType, magic, script, modes, modeInfo, listening,
                   loaded, mode, readies, setter>>

Init ==
    /\ copy \in {"docker", "scripts"}
    /\ cellType \in [Cells -> {"code", "markdown"}]
    /\ magic \in [Cells -> BOOLEAN]
    /\ script = "unloaded"
    /\ modes = {}
    /\ modeInfo = <<>>
    /\ listening = FALSE
    /\ loaded = FALSE
    /\ mode = [c \in Cells |-> "none"]
    /\ readies = 0
    /\ title = <<PageTitle>>
    /\ setter = FALSE
    /\ busy = FALSE
    /\ intended = <<PageTitle>>

Next ==
    \/ LoadCustomDocker \/ LoadCustomScripts \/ RequireCallback
    \/ LoadNotebook \/ KernelReady \/ KernelBusy
    \/ \E v \in Names : SetTitle(v) \/ KernelIdle(v)

\* require.js runs a callback once its modules are loaded, the page loads
\* the notebook, and the kernel it starts becomes ready once; restarts
\* are the user's choice
Spec ==
    /\ Init /\ [][Next]_vars
    /\ WF_vars(LoadCustomDocker \/ LoadCustomScripts) /\ WF_vars(RequireCallback)
    /\ WF_vars(LoadNotebook) /\ WF_vars(readies = 0 /\ KernelReady)
-----------------------------------------------------------------------------
TypeOK ==
    /\ copy \in {"docker", "scripts"}
    /\ cellType \in [Cells -> {"code", "markdown"}] /\ magic \in [Cells -> BOOLEAN]
    /\ script \in {"unloaded", "loaded", "registered"}
    /\ modes \subseteq {"magic_text/x-mysqlflow"} /\ modeInfo \in Seq({"text/x-mysqlflow"})
    /\ listening \in BOOLEAN /\ loaded \in BOOLEAN /\ setter \in BOOLEAN
    /\ mode \in [Cells -> {"none", "default", "sqlflow", "markdown"}]
    /\ readies \in 0..MaxReadies
    /\ busy \in BOOLEAN
    /\ title \in Seq(Names \cup {PageTitle, Prefix, Undefined, Busy})
    /\ intended \in Seq(Names \cup {PageTitle, Busy})

\* every %%sqlflow code cell is highlighted with the sqlflow mode
AllSqlflowHighlighted ==
    \A c \in Cells : cellType[c] = "code" /\ magic[c] => mode[c] = "sqlflow"

(* Properties                                                              *)

\* The purpose custom.js states ("loads sqlflow.js to highlight keywords in
\* the magic cells"): whatever order the page, require.js and the kernel
\* take, the %%sqlflow code cells end up, and stay, highlighted by the mode.
SqlflowCellsHighlighted == <>[]AllSqlflowHighlighted

\* When the require callback has subscribed its events.one handler before
\* the kernel's first kernel_ready, every %%sqlflow code cell is eventually
\* highlighted by the mode for good: the cells created before the callback
\* by the handler, the ones created after it at their creation.
HighlightedWhenSubscribedFirst ==
    (listening /\ readies = 0) ~> []AllSqlflowHighlighted

\* What the docker copy of custom.js does to the title: from the moment it
\* ran (line 37, then the setter of lines 39-43) the title starts with
\* "SQLFlow - " and holds it exactly once, whatever the page assigns; the
\* scripts copy leaves the page's title alone.
TitlePrefixedOnce ==
    IF copy = "docker" /\ script # "unloaded"
    THEN title # <<>> /\ title[1] = Prefix /\ \A i \in 2..Len(title) : title[i] # Prefix
    ELSE title = intended

\* The title custom.js means to show (its comment at line 40 guards against
\* recursion, not against losing the title): "SQLFlow - " before the title
\* the page's own code would show, never text built from the undefined that
\* document.title reads once the setter is installed.
TitleShowsPageTitle ==
    title = (IF copy = "docker" /\ script # "unloaded" THEN <<Prefix>> ELSE <<>>) \o intended
====
