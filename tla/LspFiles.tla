------------------------------ MODULE LspFiles ------------------------------
(***************************************************************************)
(* internal/lsp, EnsureFileOpen: what a language server knows of a file a  *)
(* tool asks about, above the sessions of LspPool.                         *)
(*                                                                         *)
(* One file, whose content is the number of times it was edited.  Opening  *)
(* it is three steps of a caller that holds a session: it reads the file,  *)
(* takes note of the content under the lock, and sends the notification    *)
(* after it; every step of LspPool may come between.  A server that has    *)
(* not finished the handshake may drop a notification, and drops a change  *)
(* of a file that is not open.                                             *)
(***************************************************************************)
EXTENDS LspPool

CONSTANT MaxEdits      \* bound: edits of the file

ASSUME FilesAssumption == MaxEdits \in Nat /\ NULL \notin 0..MaxEdits

VARIABLES
    file,          \* the content on disk
    openFiles,     \* Session.openFiles[path]
    doc,           \* the document a server has, NULL if it is not open
    step,          \* where EnsureFileOpen is, for a caller that holds a session
    copy,          \* what a caller read, until its request is sent
    desynced       \* history: sessions with a notification overtaken or lost

fileVars == <<file, openFiles, doc, step, copy, desynced>>
allVars == <<vars, fileVars>>

Notifying(c) == step[c] \in {"didOpen", "didChange"}

Proceed(c, where) == step' = [step EXCEPT ![c] = where]

ReadFile(c) ==
    /\ pc[c] = "got"
    /\ step[c] = "new"
    /\ copy' = [copy EXCEPT ![c] = file]
    /\ Proceed(c, "read")
    /\ UNCHANGED <<vars, file, openFiles, doc, desynced>>

\* Defect: a file that is open is taken to be known.
NoteContentOnce(c) ==
    LET s == sess[c]
    IN  /\ pc[c] = "got"
        /\ step[c] = "read"
        /\ openFiles' = [openFiles EXCEPT ![s] = copy[c]]
        /\ Proceed(c, IF openFiles[s] = NULL THEN "didOpen" ELSE "synced")
        /\ desynced' = IF openFiles[s] # NULL /\ openFiles[s] > copy[c]
                       THEN desynced \cup {s} ELSE desynced
        /\ UNCHANGED <<vars, file, doc, copy>>

\* A caller that read the file before another, and takes the lock after it, puts
\* the older content back.
NoteContent(c) ==
    LET s == sess[c]
    IN  /\ pc[c] = "got"
        /\ step[c] = "read"
        /\ openFiles' = [openFiles EXCEPT ![s] = copy[c]]
        /\ Proceed(c, IF openFiles[s] = NULL THEN "didOpen"
                      ELSE IF openFiles[s] # copy[c] THEN "didChange"
                      ELSE "synced")
        /\ desynced' = IF openFiles[s] # NULL /\ openFiles[s] > copy[c]
                       THEN desynced \cup {s} ELSE desynced
        /\ UNCHANGED <<vars, file, doc, copy>>

Together(c) == \E d \in Caller \ {c} : sess[d] = sess[c] /\ Notifying(d)

Notify(c) ==
    LET s == sess[c]
    IN  /\ pc[c] = "got"
        /\ Notifying(c)
        /\ Writable(s)
        /\ \E accepted \in IF ready[s] = "ok" THEN {TRUE} ELSE BOOLEAN :
              /\ doc' = IF accepted /\ (step[c] = "didOpen" \/ doc[s] # NULL)
                        THEN [doc EXCEPT ![s] = copy[c]] ELSE doc
              /\ desynced' = IF accepted /\ ~Together(c) THEN desynced
                             ELSE desynced \cup {s}
        /\ Proceed(c, "synced")
        /\ UNCHANGED <<vars, file, openFiles, copy>>

FileStep(c) == ReadFile(c) \/ NoteContent(c) \/ Notify(c)

\* A step of LspPool.  A request is made once the file is in order; a tool that
\* opens no file, finds none, or cannot send the notification leaves.  A server
\* that cannot be written to is asked about no document.
Follow ==
    /\ \A c \in Caller : pc[c] = "got" =>
          /\ pc'[c] = "ready" => step[c] = "synced"
          /\ pc'[c] = "idle" => \/ step[c] = "new"
                                \/ Notifying(c) /\ ~Writable(sess[c])
    /\ step' = [c \in Caller |-> IF pc'[c] = "got" THEN step[c] ELSE "new"]
    /\ copy' = [c \in Caller |-> IF pc'[c] \in {"got", "ready", "send"}
                                 THEN copy[c] ELSE NULL]
    /\ desynced' = desynced \cup {sess[c] : c \in {b \in Caller :
                                     Notifying(b) /\ pc'[b] = "idle"}}
    /\ doc' = [s \in Session |-> IF Writable(s)' THEN doc[s] ELSE NULL]
    /\ UNCHANGED <<file, openFiles>>

\* Bound: an edit before the file is first read, or after it is last read, tells
\* nothing apart.
Edit ==
    /\ file < MaxEdits
    /\ \/ \E c \in Caller : copy[c] # NULL
       \/ \E s \in Session : openFiles[s] # NULL
    /\ \/ calls < MaxCalls
       \/ \E c \in Caller : pc[c] \in {"start", "got"} /\ step[c] = "new"
    /\ file' = file + 1
    /\ UNCHANGED <<vars, openFiles, doc, step, copy, desynced>>

FilesNext ==
    \/ (~down /\ \E c \in Caller : FileStep(c))
    \/ (Next /\ Follow)
    \/ (~down /\ Edit)

FilesInit ==
    /\ Init
    /\ file = 0
    /\ openFiles = [s \in Session |-> NULL]
    /\ doc = [s \in Session |-> NULL]
    /\ step = [c \in Caller |-> "new"]
    /\ copy = [c \in Caller |-> NULL]
    /\ desynced = {}

\* A handler's goroutine runs and a select with a timeout ends, and so does Wait
\* of a process that exited.  Nothing is asked of the server, of its initializer,
\* of readLoop, or of the clock of the sweep.
Fairness ==
    /\ \A c \in Caller :
          WF_allVars(/\ ~down /\ pc[c] # "idle"
                     /\ FileStep(c) \/ ((CallerStep(c) \/ RequestStep(c)) /\ Follow))
    /\ \A s \in Session : WF_allVars(~down /\ WatchSession(s) /\ Follow)

FairSpec == FilesInit /\ [][FilesNext]_allVars /\ Fairness

-----------------------------------------------------------------------------
\* A tool's question is answered about the file as the tool read it, or as it was
\* edited since: the server has that document when the request reaches it.  The
\* exceptions are a request that overtakes another tool's notification, and a
\* session where two notifications were under way together, an older content was
\* put back, or one went missing: sent before the handshake was over, or to a
\* server that could not be written to (session.go:353-393, handlers.go:279-285).
AnswersAreCurrent ==
    [][\A c \in Caller : pc[c] = "send" /\ pc'[c] = "wait" =>
          \/ doc[sess[c]] \in copy[c]..MaxEdits
          \/ Together(c)
          \/ sess[c] \in desynced]_allVars

=============================================================================
