------------------------------ MODULE LspPool -------------------------------
(***************************************************************************)
(* internal/lsp: the pool of language-server sessions, the JSON-RPC        *)
(* multiplexer of a session, and the sweep and shutdown that end sessions. *)
(*                                                                         *)
(* One workspace key: sessions of different keys share nothing but the     *)
(* lock.  A session stands for the goroutine that initializes it, too.     *)
(* Ids and replies are kept, methods and parameters are not.  Of a file    *)
(* opened before a request only the notification and its failure remain.   *)
(* A timeout may happen whenever its select waits.  The server is          *)
(* external: it answers late or never, asks with ids of its own, writes    *)
(* what cannot be read, and exits.                                         *)
(***************************************************************************)
EXTENDS Naturals, FiniteSets

CONSTANTS
    Caller,            \* MCP handlers
    Session,           \* the sessions that newSession may return
    Sweepers,          \* the sweep loop, in a set of one, or of none
    Stopper,           \* Shutdown's goroutine
    MaxCalls,          \* bound: tool calls
    Foreign,           \* marks a message that answers nobody
    NULL

Closer == Sweepers \cup {Stopper}
Agent == Caller \cup Session \cup Closer

\* Every request of a session belongs to a call, but its initializer's and its
\* closer's.
Id == 1..MaxCalls + 2

ASSUME LspAssumption ==
    /\ Caller \cap Session = {} /\ Closer \cap (Caller \cup Session) = {}
    /\ Stopper \notin Sweepers /\ NULL # Foreign /\ {NULL, Foreign} \cap Agent = {}
    /\ MaxCalls \in Nat
    /\ IsFiniteSet(Caller)

VARIABLES
    pool,          \* Manager.sessions[key]
    proc,          \* the server process of a session
    closed,        \* stdin is closed, at either end
    ready,         \* Session.ready and readyErr
    crashed,       \* Session.crashed is closed
    nextID,        \* Session.nextID
    pending,       \* Session.pending: the ids that have a channel
    slot,          \* the one-message buffer of each channel
    reading,       \* the message readLoop has looked up and must deliver
    inFlight,      \* Session.inFlight
    asked,         \* the requests a server has not answered: [id, by]
    pc, sess,      \* where each agent is, and the session it holds
    id,            \* the id of its request
    stopping,      \* Manager.done is closed
    calls,         \* calls begun
    down,          \* the gateway has panicked
    misdeleted     \* history: sessions unpooled by another's failed start

server == <<proc, closed, asked>>
channels == <<nextID, pending, slot, reading>>
agents == <<pc, sess, id>>
vars == <<pool, server, ready, crashed, channels, inFlight, agents,
          stopping, calls, down, misdeleted>>

Goto(a, where) == pc' = [pc EXCEPT ![a] = where]

\* An agent is through with its session; its locals are gone.
Leave(a) ==
    /\ Goto(a, "idle")
    /\ sess' = [sess EXCEPT ![a] = NULL]
    /\ id' = [id EXCEPT ![a] = 0]

Started(s) == proc[s] \in {"running", "exited"}
Writable(s) == proc[s] = "running" /\ ~closed[s]

\* A start that failed in cmd.Start leaves stdin behind, closed; one that failed
\* before StdinPipe leaves none.  StdoutPipe is taken not to fail after StdinPipe
\* has succeeded.
HasStdin(s) == Started(s) \/ (proc[s] = "failed" /\ closed[s])

-----------------------------------------------------------------------------
(* GetOrCreate.                                                             *)

Lookup(c) ==
    /\ pc[c] = "idle"
    /\ calls < MaxCalls
    /\ pool # NULL
    /\ sess' = [sess EXCEPT ![c] = pool]
    /\ Goto(c, "got")
    /\ calls' = calls + 1
    /\ UNCHANGED <<pool, server, ready, crashed, channels, inFlight, id,
                   stopping, down, misdeleted>>

\* newSession is pooled before it is started.
Create(c) ==
    /\ pc[c] = "idle"
    /\ calls < MaxCalls
    /\ pool = NULL
    /\ \E s \in Session :
          /\ proc[s] = "none"
          /\ proc' = [proc EXCEPT ![s] = "unstarted"]
          /\ pool' = s
          /\ sess' = [sess EXCEPT ![c] = s]
    /\ Goto(c, "start")
    /\ calls' = calls + 1
    /\ UNCHANGED <<closed, asked, ready, crashed, channels, inFlight, id,
                   stopping, down, misdeleted>>

\* Start the process, readLoop, initialize and watchSession.
Start(c) ==
    LET s == sess[c]
    IN  /\ pc[c] = "start"
        /\ proc' = [proc EXCEPT ![s] = "running"]
        /\ sess' = [sess EXCEPT ![s] = s]
        /\ pc' = [pc EXCEPT ![c] = "got", ![s] = "send"]
        /\ UNCHANGED <<pool, closed, asked, ready, crashed, channels, inFlight,
                       id, stopping, calls, down, misdeleted>>

\* No such binary, no pipe, or, with stdin already piped, no process.
StartFails(c) ==
    LET s == sess[c]
    IN  /\ pc[c] = "start"
        /\ proc' = [proc EXCEPT ![s] = "failed"]
        /\ \E piped \in BOOLEAN : closed' = [closed EXCEPT ![s] = piped]
        /\ Goto(c, "unpool")
        /\ UNCHANGED <<pool, asked, ready, crashed, channels, inFlight, sess,
                       id, stopping, calls, down, misdeleted>>

\* The entry is deleted by key, whichever session it holds by now.
Unpool(c) ==
    /\ pc[c] = "unpool"
    /\ pool' = NULL
    /\ misdeleted' = misdeleted \cup ({pool} \ {sess[c], NULL})
    /\ Leave(c)
    /\ UNCHANGED <<server, ready, crashed, channels, inFlight, stopping, calls,
                   down>>

\* lsp_open returns.  EnsureFileOpen of another tool fails: no such file, a
\* failed write, or no stdin yet and the handler panics, which loses the call
\* (the HTTP server recovers).
Opened(c) ==
    /\ pc[c] = "got"
    /\ Leave(c)
    /\ UNCHANGED <<pool, server, ready, crashed, channels, inFlight, stopping,
                   calls, down, misdeleted>>

-----------------------------------------------------------------------------
(* Request and request.                                                     *)

\* EnsureFileOpen succeeded, whether the session is ready or not, and Request
\* begins.
Request(c) ==
    LET s == sess[c]
    IN  /\ pc[c] = "got"
        /\ inFlight' = [inFlight EXCEPT ![s] = @ + 1]
        /\ Goto(c, "ready")
        /\ UNCHANGED <<pool, server, ready, crashed, channels, sess, id,
                       stopping, calls, down, misdeleted>>

\* Defect: request counts every request, and not Request only.
EndOfAny(a, succeeded) ==
    LET s == sess[a]
    IN  /\ Leave(a)
        /\ inFlight' = [inFlight EXCEPT ![s] = @ - 1]
        /\ ready' = IF a \in Session
                    THEN [ready EXCEPT ![s] = IF succeeded THEN "ok" ELSE "error"]
                    ELSE ready
        /\ closed' = IF a \in Closer THEN [closed EXCEPT ![s] = TRUE] ELSE closed

\* An agent's request is over, or was never sent.  A caller returns from Request;
\* an initializer leaves its session ready, or with a readyErr; a closer writes
\* the exit notification and closes stdin.
End(a, succeeded) ==
    LET s == sess[a]
    IN  /\ Leave(a)
        /\ inFlight' = IF a \in Caller THEN [inFlight EXCEPT ![s] = @ - 1]
                       ELSE inFlight
        /\ ready' = IF a \in Session
                    THEN [ready EXCEPT ![s] = IF succeeded THEN "ok" ELSE "error"]
                    ELSE ready
        /\ closed' = IF a \in Closer THEN [closed EXCEPT ![s] = TRUE] ELSE closed

\* waitReady: the select may take any case that is ready.
Ready(c) ==
    /\ pc[c] = "ready"
    /\ ready[sess[c]] = "ok"
    /\ Goto(c, "send")
    /\ UNCHANGED <<pool, server, ready, crashed, channels, inFlight, sess, id,
                   stopping, calls, down, misdeleted>>

\* Defect: the counter is not lowered when the session never became ready.
NotReadyCounted(c) ==
    /\ pc[c] = "ready"
    /\ Leave(c)
    /\ UNCHANGED <<pool, server, ready, crashed, channels, inFlight, stopping,
                   calls, down, misdeleted>>

\* A readyErr, the crash of the session, or the timeout.
NotReady(c) ==
    /\ pc[c] = "ready"
    /\ End(c, FALSE)
    /\ UNCHANGED <<pool, proc, asked, crashed, channels, stopping, calls, down,
                   misdeleted>>

\* Defect: the smallest id not in use.
FreeId(s) == CHOOSE i \in Id : i \notin pending[s] /\ \A j \in 1..i-1 : j \in pending[s]

NextId(s) == nextID[s] + 1

Forget(a) == pending' = [pending EXCEPT ![sess[a]] = @ \ {id[a]}]

\* The id, its channel, and the message on the wire.
Send(a) ==
    LET s == sess[a]
    IN  /\ pc[a] = "send"
        /\ Writable(s)
        /\ nextID' = [nextID EXCEPT ![s] = @ + 1]
        /\ id' = [id EXCEPT ![a] = NextId(s)]
        /\ pending' = [pending EXCEPT ![s] = @ \cup {NextId(s)}]
        /\ slot' = [slot EXCEPT ![s][NextId(s)] = NULL]
        /\ asked' = [asked EXCEPT ![s] = @ \cup {[id |-> NextId(s), by |-> a]}]
        /\ Goto(a, "wait")
        /\ UNCHANGED <<pool, proc, closed, ready, crashed, reading, inFlight,
                       sess, stopping, calls, down, misdeleted>>

\* The id it has taken is lost.
SendFails(a) ==
    LET s == sess[a]
    IN  /\ pc[a] = "send"
        /\ HasStdin(s) /\ ~Writable(s)
        /\ nextID' = [nextID EXCEPT ![s] = @ + 1]
        /\ End(a, FALSE)
        /\ UNCHANGED <<pool, proc, asked, crashed, pending, slot, reading,
                       stopping, calls, down, misdeleted>>

\* A closer writes to a session that has no stdin yet: nothing recovers.
SendPanics(a) ==
    /\ pc[a] = "send"
    /\ ~HasStdin(sess[a])
    /\ down' = TRUE
    /\ UNCHANGED <<pool, server, ready, crashed, channels, inFlight, agents,
                   stopping, calls, misdeleted>>

\* Any message but an error response is a success.
Respond(a) ==
    LET s == sess[a]
    IN  /\ pc[a] = "wait"
        /\ slot[s][id[a]] # NULL
        /\ slot' = [slot EXCEPT ![s][id[a]] = NULL]
        /\ Forget(a)
        /\ \E succeeded \in BOOLEAN : End(a, succeeded)
        /\ UNCHANGED <<pool, proc, asked, crashed, nextID, reading, stopping,
                       calls, down, misdeleted>>

\* Defect: a request that times out leaves its channel registered.
GiveUpRegistered(a) ==
    /\ pc[a] = "wait"
    /\ End(a, FALSE)
    /\ UNCHANGED <<pool, proc, asked, crashed, channels, stopping, calls, down,
                   misdeleted>>

\* Defect: no timeout of its own.
GiveUpOnCrash(a) ==
    /\ pc[a] = "wait"
    /\ crashed[sess[a]]
    /\ Forget(a)
    /\ End(a, FALSE)
    /\ UNCHANGED <<pool, proc, asked, crashed, nextID, slot, reading, stopping,
                   calls, down, misdeleted>>

\* The request's timeout, its context, or the crash of the session.  A channel
\* nobody can write to any more is garbage.
GiveUp(a) ==
    LET s == sess[a]
    IN  /\ pc[a] = "wait"
        /\ Forget(a)
        /\ slot' = IF reading[s] # NULL THEN slot
                   ELSE [slot EXCEPT ![s][id[a]] = NULL]
        /\ End(a, FALSE)
        /\ UNCHANGED <<pool, proc, asked, crashed, nextID, reading, stopping,
                       calls, down, misdeleted>>

-----------------------------------------------------------------------------
(* readLoop and watchSession.                                               *)

\* A message arrives.  readLoop looks its id up and puts it into the channel's
\* buffer; one that finds the buffer full keeps readLoop waiting.
Read(s, i, from) ==
    /\ reading[s] = NULL
    /\ IF i \notin pending[s] THEN UNCHANGED <<slot, reading>>
       ELSE IF slot[s][i] = NULL
       THEN slot' = [slot EXCEPT ![s][i] = from] /\ UNCHANGED reading
       ELSE reading' = [reading EXCEPT ![s] = [id |-> i, from |-> from]]
            /\ UNCHANGED slot
    /\ UNCHANGED <<pool, proc, closed, ready, crashed, nextID, pending,
                   inFlight, agents, stopping, calls, down, misdeleted>>

Answer(s) ==
    \E q \in asked[s] :
        /\ proc[s] = "running"
        /\ ~crashed[s]
        /\ asked' = [asked EXCEPT ![s] = @ \ {q}]
        /\ Read(s, q.id, q.by)

\* A request of the server's own, once it is initialized: its ids are not ours,
\* and one that nobody waits for is not routed.
\* Bound: one is under way at a time, and takes the id of a caller's request; a
\* closer is through with any message.
ServerAsks(s) ==
    \E i \in {id[c] : c \in {b \in Caller : sess[b] = s /\ pc[b] = "wait"}} :
        /\ proc[s] = "running"
        /\ ready[s] = "ok"
        /\ \A t \in Session : reading[t] # NULL => reading[t].from # Foreign
        /\ \A t \in Session : \A k \in Id : slot[t][k] # Foreign
        /\ ~crashed[s]
        /\ Read(s, i, Foreign)
        /\ UNCHANGED asked

\* The requester has emptied the buffer.
Deliver(s) ==
    /\ reading[s] # NULL
    /\ slot[s][reading[s].id] = NULL
    /\ slot' = IF reading[s].id \in pending[s]
               THEN [slot EXCEPT ![s][reading[s].id] = reading[s].from]
               ELSE slot
    /\ reading' = [reading EXCEPT ![s] = NULL]
    /\ UNCHANGED <<pool, server, ready, crashed, nextID, pending, inFlight,
                   agents, stopping, calls, down, misdeleted>>

\* End of file, or a message that cannot be read, whatever the process does.
ReadFails(s) ==
    /\ Started(s)
    /\ ~crashed[s]
    /\ reading[s] = NULL
    /\ crashed' = [crashed EXCEPT ![s] = TRUE]
    /\ asked' = [asked EXCEPT ![s] = {}]
    /\ UNCHANGED <<pool, proc, closed, ready, channels, inFlight, agents,
                   stopping, calls, down, misdeleted>>

\* The server exits, by itself, told to, or killed by Shutdown after five seconds.
Exit(s) ==
    /\ proc[s] = "running"
    /\ proc' = [proc EXCEPT ![s] = "exited"]
    /\ asked' = [asked EXCEPT ![s] = {}]
    /\ closed' = [closed EXCEPT ![s] = TRUE]
    /\ UNCHANGED <<pool, ready, crashed, channels, inFlight, agents, stopping,
                   calls, down, misdeleted>>

\* Defect: the entry is deleted whichever session it holds.
WatchSessionByKey(s) ==
    /\ proc[s] = "exited"
    /\ pool # NULL
    /\ pool' = NULL
    /\ UNCHANGED <<server, ready, crashed, channels, inFlight, agents,
                   stopping, calls, down, misdeleted>>

\* Defect: a session is watched only from when it is ready.
WatchSessionReady(s) ==
    /\ proc[s] = "exited"
    /\ ready[s] = "ok"
    /\ pool = s
    /\ pool' = NULL
    /\ UNCHANGED <<server, ready, crashed, channels, inFlight, agents,
                   stopping, calls, down, misdeleted>>

WatchSession(s) ==
    /\ proc[s] = "exited"
    /\ pool = s
    /\ pool' = NULL
    /\ UNCHANGED <<server, ready, crashed, channels, inFlight, agents,
                   stopping, calls, down, misdeleted>>

-----------------------------------------------------------------------------
(* The sweep and Shutdown.                                                  *)

TakeForClosing(a) ==
    /\ pool # NULL
    /\ pool' = NULL
    /\ sess' = [sess EXCEPT ![a] = pool]
    /\ Goto(a, "send")
    /\ UNCHANGED <<server, ready, crashed, channels, inFlight, id, calls, down,
                   misdeleted>>

\* idleSince is before the cutoff: the idle timeout may have passed at any time,
\* and a session that was never used always counts as idle.  Shutdown does not
\* keep a sweep from beginning: one may wait for the lock, and the select of
\* sweepLoop may take a tick although done is closed.
Sweep(a) ==
    /\ pc[a] = "idle"
    /\ pool # NULL
    /\ inFlight[pool] = 0
    /\ TakeForClosing(a)
    /\ UNCHANGED stopping

Shutdown ==
    /\ ~stopping
    /\ stopping' = TRUE
    /\ \/ TakeForClosing(Stopper)
       \/ /\ pool = NULL
          /\ UNCHANGED <<pool, server, ready, crashed, channels, inFlight,
                         agents, calls, down, misdeleted>>

-----------------------------------------------------------------------------
CallerStep(c) ==
    \/ Lookup(c) \/ Create(c) \/ Start(c) \/ StartFails(c) \/ Unpool(c)
    \/ Opened(c) \/ Request(c) \/ Ready(c) \/ NotReady(c)

RequestStep(a) ==
    Send(a) \/ SendFails(a) \/ SendPanics(a) \/ Respond(a) \/ GiveUp(a)

ServerStep(s) == Answer(s) \/ ServerAsks(s) \/ ReadFails(s) \/ Exit(s)

Next ==
    /\ ~down
    /\ \/ \E c \in Caller : CallerStep(c)
       \/ \E a \in Agent : RequestStep(a)
       \/ \E s \in Session : \/ ServerStep(s) \/ Deliver(s)
                             \/ WatchSession(s)
       \/ \E a \in Sweepers : Sweep(a)
       \/ Shutdown

Init ==
    /\ pool = NULL
    /\ proc = [s \in Session |-> "none"]
    /\ closed = [s \in Session |-> FALSE]
    /\ ready = [s \in Session |-> "no"]
    /\ crashed = [s \in Session |-> FALSE]
    /\ nextID = [s \in Session |-> 0]
    /\ pending = [s \in Session |-> {}]
    /\ slot = [s \in Session |-> [i \in Id |-> NULL]]
    /\ reading = [s \in Session |-> NULL]
    /\ inFlight = [s \in Session |-> 0]
    /\ asked = [s \in Session |-> {}]
    /\ pc = [a \in Agent |-> "idle"]
    /\ sess = [a \in Agent |-> NULL]
    /\ id = [a \in Agent |-> 0]
    /\ stopping = FALSE
    /\ calls = 0
    /\ down = FALSE
    /\ misdeleted = {}

Spec == Init /\ [][Next]_vars

-----------------------------------------------------------------------------
Where == {"idle", "start", "unpool", "got", "ready", "send", "wait"}
Answers == Agent \cup {Foreign}

TypeOK ==
    /\ pool \in Session \cup {NULL}
    /\ proc \in [Session -> {"none", "unstarted", "running", "failed", "exited"}]
    /\ closed \in [Session -> BOOLEAN]
    /\ ready \in [Session -> {"no", "ok", "error"}]
    /\ crashed \in [Session -> BOOLEAN]
    /\ nextID \in [Session -> Id \cup {0}]
    /\ pending \in [Session -> SUBSET Id]
    /\ slot \in [Session -> [Id -> Answers \cup {NULL}]]
    /\ reading \in [Session -> [id : Id, from : Answers] \cup {NULL}]
    /\ inFlight \in [Session -> 0..Cardinality(Caller)]
    /\ asked \in [Session -> SUBSET [id : Id, by : Agent]]
    /\ pc \in [Agent -> Where]
    /\ sess \in [Agent -> Session \cup {NULL}]
    /\ id \in [Agent -> Id \cup {0}]
    /\ stopping \in BOOLEAN /\ down \in BOOLEAN
    /\ calls \in 0..MaxCalls
    /\ misdeleted \subseteq Session

Awaiting(a, s) == sess[a] = s /\ pc[a] = "wait"

\* A channel is registered for exactly the requests under way, one each: none
\* leaks when a request times out, fails or the session crashes, and none is
\* shared (session.go:180-191).
PendingAwaited ==
    \A s \in Session :
        /\ pending[s] = {id[a] : a \in {b \in Agent : Awaiting(b, s)}}
        /\ \A a, b \in Agent :
              a # b /\ Awaiting(a, s) /\ Awaiting(b, s) => id[a] # id[b]

\* A caller never gets the answer to somebody else's request, however late an
\* answer arrives and however many requests timed out before (session.go:243-262).
AnswersMatch ==
    \A a \in Agent : pc[a] = "wait" => slot[sess[a]][id[a]] \in {a, Foreign, NULL}

\* What the sweep reads before it evicts a session counts the calls inside
\* Request, whatever way each of them returns (session.go:164-165).
InFlightCounts ==
    \A s \in Session :
        inFlight[s] = Cardinality({c \in Caller :
            sess[c] = s /\ pc[c] \in {"ready", "send", "wait"}})

\* A running server is pooled, being closed, or told to exit: the gateway has not
\* lost it.  The exception is a session whose entry the failed start of an
\* earlier session of the same key deleted (manager.go:96-116).
ServersAreReachable ==
    \A s \in Session :
        proc[s] = "running" /\ ~closed[s] =>
            \/ pool = s
            \/ \E a \in Closer : sess[a] = s /\ pc[a] # "idle"
            \/ s \in misdeleted

\* Every Request returns, whether the server answers, is silent, asks questions
\* of its own or dies: no caller hangs on a language server that reads what it is
\* sent (session.go:163-216).
RequestReturns ==
    \A c \in Caller : pc[c] = "ready" ~> pc[c] = "idle" \/ down

\* A session whose process is dead does not stay in the pool, so that the next
\* call starts a new one (manager.go:109-117).
DeadLeavesPool ==
    \A s \in Session : proc[s] = "exited" ~> pool # s \/ down

=============================================================================
