--------------------------- MODULE LspPoolProofs ----------------------------
(***************************************************************************)
(* Theorems about LspPool and LspFiles for every set of callers, sessions  *)
(* and sweep loops, and every number of calls and edits.  The inductive    *)
(* invariant has four parts: Held says which session an agent may hold in  *)
(* each of its states, Routed which request an id belongs to,              *)
(* InFlightCounts what the sweep reads, and Rationed why no session runs   *)
(* out of ids.  FilesInv says what a server knows of the file.             *)
(***************************************************************************)
EXTENDS LspFiles, FiniteSetTheorems, TLAPS

-----------------------------------------------------------------------------
(* The invariant.                                                           *)

\* The types, without the bounds that the other parts explain.  An agent is idle
\* when it holds no session.
Slots == slot \in [Session -> [Id -> Answers \cup {NULL}]]

Typed ==
    /\ pool \in Session \cup {NULL}
    /\ proc \in [Session -> {"none", "unstarted", "running", "failed", "exited"}]
    /\ closed \in [Session -> BOOLEAN]
    /\ ready \in [Session -> {"no", "ok", "error"}]
    /\ crashed \in [Session -> BOOLEAN]
    /\ nextID \in [Session -> Nat]
    /\ pending \in [Session -> SUBSET Nat]
    /\ reading \in [Session -> [id : Nat, from : Answers] \cup {NULL}]
    /\ inFlight \in [Session -> Int]
    /\ asked \in [Session -> SUBSET [id : Nat, by : Agent]]
    /\ pc \in [Agent -> Where]
    /\ sess \in [Agent -> Session \cup {NULL}]
    /\ \A a \in Agent : pc[a] = "idle" <=> sess[a] = NULL
    /\ id \in [Agent -> Nat]
    /\ stopping \in BOOLEAN /\ down \in BOOLEAN
    /\ calls \in 0..MaxCalls
    /\ misdeleted \subseteq Session

\* Only who waits has an id.  An initializer holds its own session.  A closer's session is in nobody's
\* reach: not pooled, and not another closer's.  Only one caller starts a session.
Held ==
    /\ \A a \in Agent : pc[a] # "wait" => id[a] = 0
    /\ \A a \in Session \cup Closer : pc[a] \in {"idle", "send", "wait"}
    /\ \A s \in Session : sess[s] \in {s, NULL}
    /\ \A s \in Session : proc[s] \in {"none", "unstarted"} => pc[s] = "idle"
    /\ \A a \in Agent : sess[a] # NULL => proc[sess[a]] # "none"
    /\ pool # NULL => proc[pool] # "none"
    /\ \A c \in Caller : /\ pc[c] = "start" => proc[sess[c]] = "unstarted"
                         /\ pc[c] = "unpool" => proc[sess[c]] = "failed"
    /\ \A c, d \in Caller : c # d /\ pc[c] = "start" /\ pc[d] = "start"
                               => sess[c] # sess[d]
    /\ stopping \/ pc[Stopper] = "idle"
    /\ \A a \in Closer : sess[a] # NULL => sess[a] # pool
    /\ \A a, b \in Closer : a # b /\ sess[a] # NULL => sess[a] # sess[b]

\* A server about to be started can be reached, too.
Reachable ==
    \A s \in Session :
        proc[s] \in {"unstarted", "running"} /\ ~closed[s] =>
            \/ pool = s
            \/ \E a \in Closer : sess[a] = s
            \/ s \in misdeleted

\* An id up to nextID belongs to one request: the channel, the message of a
\* server that is still to answer and the one readLoop holds back agree on it.
Registered ==
    \A s \in Session : \A a \in Agent : Awaiting(a, s) =>
        /\ id[a] \in pending[s]
        /\ \A b \in Agent : a # b /\ Awaiting(b, s) => id[a] # id[b]

Owned ==
    \A s \in Session : \A i \in pending[s] :
        /\ i \in 1..nextID[s]
        /\ \E a \in Agent : Awaiting(a, s) /\ id[a] = i

Expected ==
    \A s \in Session : \A q \in asked[s] :
        /\ q.id \in 1..nextID[s]
        /\ \A a \in Agent : Awaiting(a, s) /\ id[a] = q.id => q.by = a

HeldBack ==
    \A s \in Session : reading[s] # NULL =>
        /\ reading[s].id \in 1..nextID[s]
        /\ \A a \in Agent : Awaiting(a, s) /\ id[a] = reading[s].id
                               => reading[s].from \in {a, Foreign}

Routed == Registered /\ Owned /\ Expected /\ HeldBack /\ AnswersMatch

\* The calls that have yet to send their request, and may still do so.
Early == {c \in Caller : pc[c] \in {"start", "got", "ready", "send"}}

\* Whether a session is still to be initialized, and still to be closed.
ToInitialize(s) == proc[s] \in {"none", "unstarted"} \/ pc[s] = "send"
ToClose(s) ==
    \/ proc[s] = "none"
    \/ pool = s
    \/ \E a \in Closer : sess[a] = s /\ pc[a] = "send"

One(b) == IF b THEN 1 ELSE 0

\* Every id is paid for by a call, by the initializer or by a closer.
Rationed ==
    \A s \in Session :
        nextID[s] + Cardinality(Early) + One(ToInitialize(s)) + One(ToClose(s))
            <= calls + 2

IInv == Slots /\ Typed /\ Held /\ Reachable /\ Routed /\ InFlightCounts /\ Rationed

-----------------------------------------------------------------------------
(* Types.                                                                   *)

\* What EXCEPT does to a counter, and to a buffer of a session.
LEMMA Counting ==
  ASSUME NEW f \in [Session -> Int], NEW s \in Session
  PROVE  /\ [f EXCEPT ![s] = @ + 1] \in [Session -> Int]
         /\ [f EXCEPT ![s] = @ - 1] \in [Session -> Int]
  OBVIOUS

LEMMA Filling ==
  ASSUME NEW f \in [Session -> [Id -> Answers \cup {NULL}]],
         NEW s \in Session, NEW i, NEW m \in Answers \cup {NULL}
  PROVE  [f EXCEPT ![s][i] = m] \in [Session -> [Id -> Answers \cup {NULL}]]
<1> DEFINE Buffers == [Id -> Answers \cup {NULL}]
<1>1. f[s] \in Buffers
  OBVIOUS
<1>2. [f[s] EXCEPT ![i] = m] \in Buffers
  BY <1>1
<1>3. f \in [Session -> Buffers]
  OBVIOUS
<1> HIDE DEF Buffers
<1>4. [f EXCEPT ![s] = [f[s] EXCEPT ![i] = m]] \in [Session -> Buffers]
  BY <1>2, <1>3
<1> QED
  BY <1>4 DEF Buffers

\* NULL is no session, and a session is one kind of agent only.
LEMMA Kinds ==
  /\ NULL \notin Session
  /\ Caller \subseteq Agent /\ Session \subseteq Agent /\ Closer \subseteq Agent
  /\ Sweepers \subseteq Closer /\ Stopper \in Closer \ Sweepers
  /\ Caller \cap Session = {} /\ Closer \cap (Caller \cup Session) = {}
  /\ Agent \subseteq Answers /\ Foreign \in Answers /\ NULL \notin Answers
<1>1. NULL \notin Agent /\ Foreign \notin Agent
  BY LspAssumption, Zenon
<1> QED
  BY <1>1, LspAssumption DEF Agent, Closer, Answers

\* The initial state has the types.
LEMMA InitTyped == Init => Slots /\ Typed
<1> SUFFICES ASSUME Init PROVE Slots /\ Typed
  OBVIOUS
<1>1. /\ nextID \in [Session -> Nat] /\ inFlight \in [Session -> Int]
      /\ calls \in 0..MaxCalls /\ id \in [Agent -> Nat]
  BY LspAssumption DEF Init
<1>2. Slots
  BY DEF Init, Slots
<1> QED
  BY <1>1, <1>2 DEF Init, Typed, Where

\* What a request's end does to the state.
LEMMA EndTyped ==
  ASSUME Typed, NEW a \in Agent, pc[a] # "idle",
         NEW succeeded \in BOOLEAN, End(a, succeeded)
  PROVE  /\ pc' \in [Agent -> Where]
         /\ sess' \in [Agent -> Session \cup {NULL}]
         /\ \A b \in Agent : pc'[b] = "idle" <=> sess'[b] = NULL
         /\ id' \in [Agent -> Nat]
         /\ inFlight' \in [Session -> Int]
         /\ ready' \in [Session -> {"no", "ok", "error"}]
         /\ closed' \in [Session -> BOOLEAN]
<1> USE DEF End, Leave, Goto
<1>1. sess[a] \in Session
  BY DEF Typed
<1>2. inFlight' \in [Session -> Int]
  BY <1>1, Counting DEF Typed
<1>3. ready' \in [Session -> {"no", "ok", "error"}]
  BY DEF Typed
<1>4. closed' \in [Session -> BOOLEAN]
  BY DEF Typed
<1> QED
  BY <1>2, <1>3, <1>4 DEF Typed, Where

\* Every step of a caller keeps the types.
LEMMA CallerTyped ==
  ASSUME Typed, NEW c \in Caller, CallerStep(c)
  PROVE  Typed'
<1> USE Kinds, LspAssumption DEF Goto, Leave, server, channels, agents, Where
<1>1. CASE Lookup(c)
  BY <1>1 DEF Typed, Lookup
<1>2. CASE Create(c)
  BY <1>2 DEF Typed, Create
<1>3. CASE Start(c)
  BY <1>3 DEF Typed, Start
<1>4. CASE StartFails(c)
  BY <1>4 DEF Typed, StartFails
<1>5. CASE Unpool(c)
  BY <1>5 DEF Typed, Unpool
<1>6. CASE Opened(c)
  BY <1>6 DEF Typed, Opened
<1>7. CASE Request(c)
  <2>1. inFlight' \in [Session -> Int]
    BY <1>7, Counting DEF Typed, Request
  <2> QED
    BY <1>7, <2>1 DEF Typed, Request
<1>8. CASE Ready(c)
  BY <1>8 DEF Typed, Ready
<1>9. CASE NotReady(c)
  BY <1>9, EndTyped DEF Typed, NotReady
<1> QED
  BY <1>1, <1>2, <1>3, <1>4, <1>5, <1>6, <1>7, <1>8, <1>9 DEF CallerStep

\* Every step of a request keeps the types.
LEMMA RequestTyped ==
  ASSUME Typed, NEW a \in Agent, RequestStep(a)
  PROVE  Typed'
<1> USE DEF server, channels, agents
<1>1. CASE Send(a)
  <2>1. sess[a] \in Session
    BY <1>1 DEF Typed, Send
  <2>2. NextId(sess[a]) \in Nat
    BY <2>1 DEF Typed, NextId
  <2>3. nextID' \in [Session -> Nat]
    BY <1>1, <2>1 DEF Typed, Send
  <2>4. pending' \in [Session -> SUBSET Nat]
    BY <1>1, <2>1, <2>2 DEF Typed, Send
  <2>5. asked' \in [Session -> SUBSET [id : Nat, by : Agent]]
    BY <1>1, <2>1, <2>2 DEF Typed, Send
  <2> QED
    BY <1>1, <2>2, <2>3, <2>4, <2>5 DEF Typed, Send, Goto, Where
<1>2. CASE SendFails(a)
  <2>1. nextID' \in [Session -> Nat]
    BY <1>2 DEF Typed, SendFails
  <2> QED
    BY <1>2, <2>1, EndTyped DEF Typed, SendFails
<1>3. CASE SendPanics(a)
  BY <1>3 DEF Typed, SendPanics
<1>4. CASE Respond(a)
  <2> PICK succeeded \in BOOLEAN : End(a, succeeded)
    BY <1>4 DEF Respond
  <2>1. pending' \in [Session -> SUBSET Nat]
    BY <1>4 DEF Typed, Respond, Forget
  <2> QED
    BY <1>4, <2>1, EndTyped DEF Typed, Respond
<1>5. CASE GiveUp(a)
  <2>1. pending' \in [Session -> SUBSET Nat]
    BY <1>5 DEF Typed, GiveUp, Forget
  <2> QED
    BY <1>5, <2>1, EndTyped DEF Typed, GiveUp
<1> QED
  BY <1>1, <1>2, <1>3, <1>4, <1>5 DEF RequestStep

\* Every step of a session and its server keeps the types.
LEMMA SessionTyped ==
  ASSUME Typed, NEW s \in Session,
         ServerStep(s) \/ Deliver(s) \/ WatchSession(s)
  PROVE  Typed'
<1> USE DEF server, channels, agents
<1>1. CASE Answer(s)
  <2> PICK q \in asked[s] : Answer(s)!(q)
    BY <1>1 DEF Answer
  <2>1. q \in [id : Nat, by : Agent] /\ q.by \in Answers
    BY Kinds DEF Typed
  <2>2. reading' \in [Session -> [id : Nat, from : Answers] \cup {NULL}]
    BY <2>1 DEF Typed, Read
  <2> QED
    BY <2>2 DEF Typed, Read
<1>2. CASE ServerAsks(s)
  <2> PICK c \in Caller : Read(s, id[c], Foreign)
    BY <1>2 DEF ServerAsks
  <2>1. id[c] \in Nat
    BY Kinds DEF Typed
  <2>2. reading' \in [Session -> [id : Nat, from : Answers] \cup {NULL}]
    BY <2>1, Kinds DEF Typed, Read
  <2> QED
    BY <1>2, <2>2 DEF Typed, Read, ServerAsks
<1>3. CASE ReadFails(s)
  BY <1>3 DEF Typed, ReadFails
<1>4. CASE Exit(s)
  BY <1>4 DEF Typed, Exit
<1>5. CASE Deliver(s)
  BY <1>5 DEF Typed, Deliver
<1>6. CASE WatchSession(s)
  BY <1>6 DEF Typed, WatchSession
<1> QED
  BY <1>1, <1>2, <1>3, <1>4, <1>5, <1>6 DEF ServerStep

\* A pooled session is taken by a closer.
LEMMA ClosingTyped ==
  ASSUME Typed, NEW a \in Closer,
         (a \in Sweepers /\ Sweep(a)) \/ (a = Stopper /\ Shutdown)
  PROVE  Typed'
<1> USE Kinds DEF server, channels, agents, Goto
<1>1. CASE TakeForClosing(a) /\ stopping' \in BOOLEAN
  BY <1>1 DEF Typed, TakeForClosing, Where
<1>2. CASE ~TakeForClosing(a)
  BY <1>2 DEF Typed, Sweep, Shutdown
<1> QED
  BY <1>1, <1>2 DEF Typed, Sweep, Shutdown

\* Every step keeps the types.
LEMMA NextTyped == Typed /\ [Next]_vars => Typed'
<1> SUFFICES ASSUME Typed, [Next]_vars PROVE Typed'
  OBVIOUS
<1>1. CASE UNCHANGED vars
  BY <1>1 DEF Typed, vars, server, channels, agents
<1> QED
  BY <1>1, CallerTyped, RequestTyped, SessionTyped, ClosingTyped, Kinds DEF Next

\* Every step keeps a buffer for each id.
LEMMA NextSlots == Slots /\ Typed /\ [Next]_vars => Slots'
<1> SUFFICES ASSUME Slots, Typed, Next PROVE Slots'
  BY DEF Slots, vars, channels
<1> USE Filling, Kinds DEF Slots, channels
<1>1. ASSUME NEW c \in Caller, CallerStep(c)
      PROVE  Slots'
  BY <1>1 DEF CallerStep, Lookup, Create, Start, StartFails, Unpool, Opened,
              Request, Ready, NotReady
<1>2. ASSUME NEW a \in Agent, RequestStep(a)
      PROVE  Slots'
  <2>1. pc[a] # "idle" => sess[a] \in Session
    BY DEF Typed
  <2>2. CASE Send(a)
    BY <2>1, <2>2 DEF Send
  <2>3. CASE Respond(a)
    BY <2>1, <2>3 DEF Respond
  <2>4. CASE GiveUp(a)
    BY <2>1, <2>4 DEF GiveUp
  <2> QED
    BY <1>2, <2>2, <2>3, <2>4 DEF RequestStep, SendFails, SendPanics
<1>3. ASSUME NEW s \in Session, ServerStep(s) \/ Deliver(s) \/ WatchSession(s)
      PROVE  Slots'
  <2>1. ASSUME NEW i, NEW from \in Answers, Read(s, i, from)
        PROVE  Slots'
    BY <2>1 DEF Read
  <2>2. CASE Answer(s)
    <3>1. \A q \in asked[s] : q.by \in Answers
      BY DEF Typed
    <3> QED
      BY <2>1, <2>2, <3>1 DEF Answer
  <2>3. CASE ServerAsks(s)
    BY <2>1, <2>3 DEF ServerAsks
  <2>4. CASE Deliver(s)
    BY <2>4 DEF Deliver, Typed
  <2> QED
    BY <1>3, <2>2, <2>3, <2>4 DEF ServerStep, ReadFails, Exit, WatchSession
<1>4. ASSUME NEW a \in Closer, Sweep(a) \/ Shutdown
      PROVE  Slots'
  BY <1>4 DEF Sweep, Shutdown, TakeForClosing
<1> QED
  BY <1>1, <1>2, <1>3, <1>4 DEF Next

-----------------------------------------------------------------------------
(* Who may hold a session.                                                  *)

\* Nobody holds a session in the initial state.
LEMMA InitHeld == Init => Held
  BY Kinds DEF Init, Held

\* A caller looks a session up, or starts the one it alone is to start.
LEMMA CallerHeld ==
  ASSUME Typed, Held, NEW c \in Caller, CallerStep(c)
  PROVE  Held'
<1> USE Kinds DEF Goto, Leave, server, channels, agents
<1>1. CASE Lookup(c)
  BY <1>1 DEF Typed, Held, Lookup
<1>2. CASE Create(c)
  BY <1>2 DEF Typed, Held, Create
<1>3. CASE Start(c)
  <2> DEFINE s == sess[c]
  <2>1. s \in Session /\ s # c /\ proc[s] = "unstarted" /\ pc[s] = "idle"
    BY <1>3 DEF Typed, Held, Start
  <2>2. /\ pool' = pool
        /\ proc' = [proc EXCEPT ![s] = "running"]
        /\ pc' = [pc EXCEPT ![c] = "got", ![s] = "send"]
        /\ sess' = [sess EXCEPT ![s] = s]
    BY <1>3 DEF Start
  <2>3. \A a \in Agent : /\ pc'[a] = IF a = c THEN "got" ELSE IF a = s THEN "send" ELSE pc[a]
                         /\ sess'[a] = IF a = s THEN s ELSE sess[a]
    BY <2>1, <2>2 DEF Typed
  <2>4. \A t \in Session : proc'[t] = IF t = s THEN "running" ELSE proc[t]
    BY <2>1, <2>2 DEF Typed
  <2>5. \A d \in Caller : pc[d] = "start" /\ d # c => sess[d] # s
    BY <1>3 DEF Held, Start
  <2>6. pool' = pool /\ id' = id /\ stopping' = stopping /\ pc[c] = "start"
    BY <1>3 DEF Start
  <2>7. \A a \in Agent : sess[a] = NULL <=> pc[a] = "idle"
    BY DEF Typed
  <2> HIDE DEF s
  <2>8. /\ \A a \in Agent : pc'[a] # "wait" => id'[a] = 0
        /\ \A a \in Session \cup Closer : pc'[a] \in {"idle", "send", "wait"}
        /\ stopping' \/ pc'[Stopper] = "idle"
    BY <2>1, <2>3, <2>6 DEF Held
  <2>9. /\ \A t \in Session : sess'[t] \in {t, NULL}
        /\ \A t \in Session : proc'[t] \in {"none", "unstarted"} => pc'[t] = "idle"
        /\ \A a \in Agent : sess'[a] # NULL => proc'[sess'[a]] # "none"
        /\ pool' # NULL => proc'[pool'] # "none"
    BY <2>1, <2>3, <2>4, <2>6 DEF Typed, Held
  <2>10. /\ \A d \in Caller :
               /\ pc'[d] = "start" => proc'[sess'[d]] = "unstarted"
               /\ pc'[d] = "unpool" => proc'[sess'[d]] = "failed"
         /\ \A d, e \in Caller : d # e /\ pc'[d] = "start" /\ pc'[e] = "start"
                                 => sess'[d] # sess'[e]
    BY <2>1, <2>3, <2>4, <2>5, <2>7 DEF Typed, Held
  <2>11. /\ \A a \in Closer : sess'[a] # NULL => sess'[a] # pool'
         /\ \A a, b \in Closer : a # b /\ sess'[a] # NULL => sess'[a] # sess'[b]
    BY <2>1, <2>3, <2>6 DEF Held
  <2> QED
    BY <2>8, <2>9, <2>10, <2>11 DEF Held
<1>4. CASE StartFails(c)
  BY <1>4 DEF Typed, Held, StartFails
<1>5. CASE Unpool(c)
  BY <1>5 DEF Typed, Held, Unpool
<1>6. CASE Opened(c)
  BY <1>6 DEF Typed, Held, Opened
<1>7. CASE Request(c)
  BY <1>7 DEF Typed, Held, Request
<1>8. CASE Ready(c)
  BY <1>8 DEF Typed, Held, Ready
<1>9. CASE NotReady(c)
  BY <1>9 DEF Typed, Held, NotReady, End
<1> QED
  BY <1>1, <1>2, <1>3, <1>4, <1>5, <1>6, <1>7, <1>8, <1>9 DEF CallerStep

\* A request changes where its agent is, and nothing else that Held is about.
LEMMA RequestHeld ==
  ASSUME Typed, Held, NEW a \in Agent, RequestStep(a)
  PROVE  Held'
<1> USE Kinds DEF Goto, Leave, server, channels, agents
<1>1. CASE Send(a)
  BY <1>1 DEF Typed, Held, Send
<1>2. ASSUME pc[a] # "idle", Leave(a), UNCHANGED <<pool, proc, stopping>>
      PROVE  Held'
  BY <1>2 DEF Typed, Held
<1>3. CASE SendPanics(a)
  BY <1>3 DEF Held, SendPanics
<1> QED
  BY <1>1, <1>2, <1>3 DEF RequestStep, SendFails, Respond, GiveUp, End

\* A server only leaves the state in which it runs.
LEMMA SessionHeld ==
  ASSUME Typed, Held, NEW s \in Session,
         ServerStep(s) \/ Deliver(s) \/ WatchSession(s)
  PROVE  Held'
<1> USE Kinds DEF server, channels, agents
<1>1. CASE UNCHANGED <<pool, proc, agents, stopping>>
  BY <1>1 DEF Held
<1>2. CASE Exit(s)
  BY <1>2 DEF Typed, Held, Exit
<1>3. CASE WatchSession(s)
  BY <1>3 DEF Typed, Held, WatchSession
<1> QED
  BY <1>1, <1>2, <1>3
  DEF ServerStep, Answer, ServerAsks, Read, ReadFails, Deliver

\* What a closer takes is no longer pooled.
LEMMA ClosingHeld ==
  ASSUME Typed, Held, NEW a \in Closer,
         (a \in Sweepers /\ Sweep(a)) \/ (a = Stopper /\ Shutdown)
  PROVE  Held'
<1> USE Kinds DEF server, channels, agents, Goto
<1>1. CASE TakeForClosing(a)
  <2>1. stopping' \/ pc'[Stopper] = "idle"
    BY <1>1 DEF Typed, Held, TakeForClosing, Sweep, Shutdown
  <2>2. pc[a] = "idle" /\ id[a] = 0
    BY DEF Sweep, Shutdown, Held
  <2> QED
    BY <1>1, <2>1, <2>2 DEF Typed, Held, TakeForClosing
<1>2. CASE ~TakeForClosing(a)
  BY <1>2 DEF Held, Sweep, Shutdown
<1> QED
  BY <1>1, <1>2

\* Every step keeps what an agent may hold.
LEMMA NextHeld == Typed /\ Held /\ [Next]_vars => Held'
<1> SUFFICES ASSUME Typed, Held, [Next]_vars PROVE Held'
  OBVIOUS
<1>1. CASE UNCHANGED vars
  BY <1>1 DEF Held, vars, server, agents
<1> QED
  BY <1>1, CallerHeld, RequestHeld, SessionHeld, ClosingHeld, Kinds DEF Next

-----------------------------------------------------------------------------
(* No server is lost.                                                       *)

\* Nothing runs in the initial state.
LEMMA InitReachable == Init => Reachable
  BY DEF Init, Reachable

\* A caller unpools a session that failed to start, or notes whose it was.
LEMMA CallerReachable ==
  ASSUME Typed, Held, Reachable, NEW c \in Caller, CallerStep(c)
  PROVE  Reachable'
<1> USE Kinds DEF Goto, Leave, server, channels, agents
<1>1. CASE Lookup(c)
  BY <1>1 DEF Typed, Reachable, Lookup
<1>2. CASE Create(c)
  BY <1>2 DEF Typed, Held, Reachable, Create
<1>3. CASE Start(c)
  <2>1. sess[c] \in Session /\ proc[sess[c]] = "unstarted"
    BY <1>3 DEF Typed, Held, Start
  <2>2. \A a \in Closer : sess'[a] = sess[a]
    BY <1>3, <2>1 DEF Typed, Start
  <2>3. \A s \in Session : proc'[s] \in {"unstarted", "running"}
                              => proc[s] \in {"unstarted", "running"}
    BY <1>3, <2>1 DEF Typed, Start
  <2> QED
    BY <1>3, <2>2, <2>3 DEF Reachable, Start
<1>4. CASE StartFails(c)
  BY <1>4 DEF Typed, Reachable, StartFails
<1>5. CASE Unpool(c)
  <2>1. sess[c] \in Session /\ proc[sess[c]] = "failed"
    BY <1>5 DEF Typed, Held, Unpool
  <2>2. \A a \in Closer : sess'[a] = sess[a]
    BY <1>5 DEF Typed, Unpool
  <2>3. pool \in Session => pool = sess[c] \/ pool \in misdeleted'
    BY <1>5 DEF Unpool
  <2> QED
    BY <1>5, <2>1, <2>2, <2>3 DEF Reachable, Unpool
<1>6. CASE Opened(c)
  BY <1>6 DEF Typed, Reachable, Opened
<1>7. CASE Request(c)
  BY <1>7 DEF Reachable, Request
<1>8. CASE Ready(c)
  BY <1>8 DEF Reachable, Ready
<1>9. CASE NotReady(c)
  BY <1>9 DEF Typed, Reachable, NotReady, End
<1> QED
  BY <1>1, <1>2, <1>3, <1>4, <1>5, <1>6, <1>7, <1>8, <1>9 DEF CallerStep

\* A closer that leaves has closed the session it held.
LEMMA RequestReachable ==
  ASSUME Typed, Held, Reachable, NEW a \in Agent, RequestStep(a)
  PROVE  Reachable'
<1> USE Kinds DEF Goto, Leave, server, channels, agents
<1>1. CASE Send(a)
  BY <1>1 DEF Reachable, Send
<1>2. ASSUME NEW succeeded \in BOOLEAN, pc[a] # "idle", End(a, succeeded),
             UNCHANGED <<pool, proc, misdeleted>>
      PROVE  Reachable'
  <2>1. sess[a] \in Session
    BY <1>2 DEF Typed
  <2>2. CASE a \in Closer
    BY <1>2, <2>1, <2>2 DEF Typed, Reachable, End
  <2>3. CASE a \notin Closer
    BY <1>2, <2>1, <2>3 DEF Typed, Reachable, End
  <2> QED
    BY <2>2, <2>3
<1>3. CASE SendPanics(a)
  BY <1>3 DEF Reachable, SendPanics
<1> QED
  BY <1>1, <1>2, <1>3 DEF RequestStep, SendFails, Respond, GiveUp

\* Every step of a session keeps servers in reach.
LEMMA SessionReachable ==
  ASSUME Typed, Reachable, NEW s \in Session,
         ServerStep(s) \/ Deliver(s) \/ WatchSession(s)
  PROVE  Reachable'
<1> USE DEF server, channels, agents
<1>1. CASE UNCHANGED <<pool, proc, closed, agents, misdeleted>>
  BY <1>1 DEF Reachable
<1>2. CASE Exit(s)
  BY <1>2 DEF Typed, Reachable, Exit
<1>3. CASE WatchSession(s)
  BY <1>3 DEF Reachable, WatchSession
<1> QED
  BY <1>1, <1>2, <1>3
  DEF ServerStep, Answer, ServerAsks, Read, ReadFails, Deliver

\* Every step keeps servers in reach.
LEMMA NextReachable == Typed /\ Held /\ Reachable /\ [Next]_vars => Reachable'
<1> SUFFICES ASSUME Typed, Held, Reachable, [Next]_vars PROVE Reachable'
  OBVIOUS
<1> USE Kinds DEF server, channels, agents
<1>1. ASSUME NEW a \in Closer, pc[a] = "idle", TakeForClosing(a)
      PROVE  Reachable'
  BY <1>1 DEF Typed, Reachable, TakeForClosing
<1>2. CASE (\E a \in Sweepers : Sweep(a)) \/ Shutdown
  BY <1>1, <1>2 DEF Sweep, Shutdown, Held, Reachable
<1>3. CASE UNCHANGED vars
  BY <1>3 DEF Reachable, vars
<1> QED
  BY <1>2, <1>3, CallerReachable, RequestReachable, SessionReachable DEF Next

-----------------------------------------------------------------------------
(* What inFlight counts.                                                    *)

Within == {"ready", "send", "wait"}
Busy(s) == {c \in Caller : sess[c] = s /\ pc[c] \in Within}

\* The sets that are counted are finite.
LEMMA Finite ==
  /\ IsFiniteSet(Early) /\ Cardinality(Early) \in Nat
  /\ \A s : /\ IsFiniteSet(Busy(s)) /\ Cardinality(Busy(s)) \in Nat
            /\ Cardinality(Busy(s)) <= Cardinality(Caller)
  /\ Cardinality(Caller) \in Nat
<1>1. IsFiniteSet(Caller)
  BY LspAssumption
<1>2. Early \in SUBSET Caller /\ \A s : Busy(s) \in SUBSET Caller
  BY DEF Early, Busy
<1> QED
  BY <1>1, <1>2, FS_Subset, FS_CardinalityType

\* A step that no caller enters or leaves Request in.
LEMMA CountFrame ==
  ASSUME InFlightCounts, inFlight' = inFlight,
         \A c \in Caller, s \in Session :
            sess'[c] = s /\ pc'[c] \in Within <=> sess[c] = s /\ pc[c] \in Within
  PROVE  InFlightCounts'
<1>1. \A s \in Session : Busy(s)' = Busy(s)
  BY DEF Busy
<1>2. \A s \in Session : inFlight[s] = Cardinality(Busy(s))
  BY DEF InFlightCounts, Busy, Within
<1>3. \A s \in Session : inFlight'[s] = Cardinality(Busy(s)')
  BY <1>1, <1>2
<1> QED
  BY <1>3 DEF InFlightCounts, Busy, Within

\* A caller's request is over: it is no longer counted, and nothing else changes.
LEMMA CountEnd ==
  ASSUME Typed, InFlightCounts, NEW a \in Agent, pc[a] \in Within,
         NEW succeeded \in BOOLEAN, End(a, succeeded)
  PROVE  InFlightCounts'
<1> USE DEF End, Leave, Goto
<1>1. CASE a \notin Caller
  <2>1. \A c \in Caller : sess'[c] = sess[c] /\ pc'[c] = pc[c]
    BY <1>1, Kinds DEF Typed
  <2> QED
    BY <1>1, <2>1, CountFrame
<1>2. CASE a \in Caller
  <2>1. PICK s \in Session : s = sess[a]
    BY DEF Typed, Within
  <2>2. \A t \in Session : inFlight[t] = Cardinality(Busy(t))
    BY DEF InFlightCounts, Busy, Within
  <2>8. /\ sess' = [sess EXCEPT ![a] = NULL] /\ pc' = [pc EXCEPT ![a] = "idle"]
        /\ inFlight \in [Session -> Int]
    BY DEF Typed
  <2>9. a \in Busy(s)
    BY <1>2, <2>1 DEF Busy
  <2>3. a \in Busy(s) /\ Busy(s)' = Busy(s) \ {a}
    BY <2>1, <2>8, <2>9, Kinds DEF Busy, Typed
  <2>4. \A t \in Session \ {s} : Busy(t)' = Busy(t)
    BY <1>2, <2>1, Kinds DEF Busy, Typed
  <2>5. Cardinality(Busy(s) \ {a}) = Cardinality(Busy(s)) - 1
    BY <2>3, Finite, FS_RemoveElement
  <2>6. inFlight' = [inFlight EXCEPT ![s] = @ - 1]
    BY <1>2, <2>1
  <2>10. inFlight'[s] = Cardinality(Busy(s)')
    BY <2>1, <2>2, <2>3, <2>5, <2>6, <2>8
  <2>7. \A t \in Session : inFlight'[t] = Cardinality(Busy(t)')
    BY <2>1, <2>2, <2>4, <2>6, <2>8, <2>10
  <2> QED
    BY <2>7 DEF InFlightCounts, Busy, Within
<1> QED
  BY <1>1, <1>2

\* Request counts the caller that enters it.
LEMMA CountRequest ==
  ASSUME Typed, InFlightCounts, NEW c \in Caller, Request(c)
  PROVE  InFlightCounts'
<1>1. PICK s \in Session : s = sess[c]
  BY Kinds DEF Typed, Request
<1>2. \A t \in Session : inFlight[t] = Cardinality(Busy(t))
  BY DEF InFlightCounts, Busy, Within
<1>3. c \notin Busy(s) /\ Busy(s)' = Busy(s) \cup {c}
  BY <1>1, Kinds DEF Busy, Typed, Within, Request, Goto
<1>4. \A t \in Session \ {s} : Busy(t)' = Busy(t)
  BY <1>1, Kinds DEF Busy, Typed, Request, Goto
<1>5. Cardinality(Busy(s) \cup {c}) = Cardinality(Busy(s)) + 1
  BY <1>3, Finite, FS_AddElement
<1>6. inFlight' = [inFlight EXCEPT ![s] = @ + 1] /\ inFlight \in [Session -> Int]
  BY <1>1 DEF Request, Typed
<1>7. inFlight'[s] = Cardinality(Busy(s)')
  BY <1>1, <1>2, <1>3, <1>5, <1>6
<1>8. \A t \in Session : inFlight'[t] = Cardinality(Busy(t)')
  BY <1>1, <1>2, <1>4, <1>6, <1>7
<1> QED
  BY <1>8 DEF InFlightCounts, Busy, Within

\* In the initial state nobody is counted.
LEMMA InitCounted == Init => InFlightCounts
<1> SUFFICES ASSUME Init PROVE InFlightCounts
  OBVIOUS
<1>1. \A s \in Session : Busy(s) = {} /\ inFlight[s] = 0
  BY Kinds DEF Init, Busy, Within
<1>2. \A s \in Session : inFlight[s] = Cardinality(Busy(s))
  BY <1>1, FS_EmptySet
<1> QED
  BY <1>2 DEF InFlightCounts, Busy, Within

\* Every step keeps the count.
LEMMA NextCounted ==
  Typed /\ Held /\ InFlightCounts /\ [Next]_vars => InFlightCounts'
<1> SUFFICES ASSUME Typed, Held, InFlightCounts, [Next]_vars PROVE InFlightCounts'
  OBVIOUS
<1> USE Kinds DEF server, channels, agents, Goto
<1>1. ASSUME NEW c \in Caller, CallerStep(c)
      PROVE  InFlightCounts'
  <2> USE DEF Typed, Within
  <2>1. CASE Lookup(c)
    BY <2>1, CountFrame DEF Lookup
  <2>2. CASE Create(c)
    BY <2>2, CountFrame DEF Create
  <2>3. CASE Start(c)
    BY <2>3, CountFrame DEF Start
  <2>4. CASE StartFails(c)
    BY <2>4, CountFrame DEF StartFails
  <2>5. CASE Unpool(c)
    BY <2>5, CountFrame DEF Unpool, Leave
  <2>6. CASE Opened(c)
    BY <2>6, CountFrame DEF Opened, Leave
  <2>7. CASE Ready(c)
    BY <2>7, CountFrame DEF Ready
  <2>8. CASE NotReady(c)
    BY <2>8, CountEnd DEF NotReady
  <2> QED
    BY <1>1, <2>1, <2>2, <2>3, <2>4, <2>5, <2>6, <2>7, <2>8, CountRequest
    DEF CallerStep
<1>2. ASSUME NEW a \in Agent, RequestStep(a)
      PROVE  InFlightCounts'
  <2>1. CASE Send(a)
    BY <2>1, CountFrame DEF Send, Typed, Within
  <2>2. CASE SendPanics(a)
    BY <2>2, CountFrame DEF SendPanics
  <2>3. CASE SendFails(a) \/ Respond(a) \/ GiveUp(a)
    BY <2>3, CountEnd DEF SendFails, Respond, GiveUp, Within
  <2> QED
    BY <1>2, <2>1, <2>2, <2>3 DEF RequestStep
<1>3. CASE UNCHANGED <<inFlight, agents>>
  BY <1>3, CountFrame
<1>4. ASSUME NEW s \in Session, ServerStep(s) \/ Deliver(s) \/ WatchSession(s)
      PROVE  UNCHANGED <<inFlight, agents>>
  BY <1>4 DEF ServerStep, Answer, ServerAsks, Read, ReadFails, Exit, Deliver,
              WatchSession
<1>5. ASSUME NEW a \in Closer, TakeForClosing(a)
      PROVE  InFlightCounts'
  BY <1>5, CountFrame DEF TakeForClosing, Typed
<1>6. CASE (\E a \in Sweepers : Sweep(a)) \/ Shutdown
  BY <1>3, <1>5, <1>6 DEF Sweep, Shutdown
<1> QED
  BY <1>1, <1>2, <1>3, <1>4, <1>6 DEF Next, vars

-----------------------------------------------------------------------------
(* The supply of ids.                                                       *)

\* A step that sends nothing: no claim to an id is new.
LEMMA RationFrame ==
  ASSUME Typed, Rationed, nextID' = nextID, calls' = calls, Early' \subseteq Early,
         \A s \in Session : /\ ToInitialize(s)' => ToInitialize(s)
                            /\ ToClose(s)' => ToClose(s)
  PROVE  Rationed'
<1>1. /\ Cardinality(Early) \in Nat /\ Cardinality(Early') \in Nat
      /\ Cardinality(Early') <= Cardinality(Early)
  BY Finite, FS_Subset, FS_CardinalityType
<1>2. Cardinality(Early)' = Cardinality(Early')
  OBVIOUS
<1>3. ASSUME NEW s \in Session
      PROVE  /\ One(ToInitialize(s))' <= One(ToInitialize(s))
             /\ One(ToClose(s))' <= One(ToClose(s))
             /\ One(ToInitialize(s)) \in Nat /\ One(ToClose(s)) \in Nat
             /\ One(ToInitialize(s))' \in Nat /\ One(ToClose(s))' \in Nat
  BY DEF One
<1>4. \A s \in Session : nextID[s] \in Nat
  BY DEF Typed
<1>5. calls \in Nat
  BY LspAssumption DEF Typed
<1> QED
  BY <1>1, <1>2, <1>3, <1>4, <1>5 DEF Rationed

\* A call that begins brings an id with it.
LEMMA RationCall ==
  ASSUME Typed, Rationed, nextID' = nextID, calls' = calls + 1,
         NEW c \in Caller, Early' \subseteq Early \cup {c},
         \A s \in Session : /\ ToInitialize(s)' => ToInitialize(s)
                            /\ ToClose(s)' => ToClose(s)
  PROVE  Rationed'
<1>1. /\ IsFiniteSet(Early \cup {c})
      /\ Cardinality(Early \cup {c}) <= Cardinality(Early) + 1
      /\ Cardinality(Early) \in Nat /\ Cardinality(Early \cup {c}) \in Nat
  <2>1. IsFiniteSet(Early) /\ Cardinality(Early) \in Nat
    BY Finite
  <2>2. /\ IsFiniteSet(Early \cup {c})
        /\ Cardinality(Early \cup {c}) =
             IF c \in Early THEN Cardinality(Early) ELSE Cardinality(Early) + 1
    BY <2>1, FS_AddElement
  <2> QED
    BY <2>1, <2>2
<1>2. /\ Cardinality(Early') \in Nat
      /\ Cardinality(Early') <= Cardinality(Early \cup {c})
  BY <1>1, FS_Subset, FS_CardinalityType
<1>3. ASSUME NEW s \in Session
      PROVE  /\ One(ToInitialize(s))' <= One(ToInitialize(s))
             /\ One(ToClose(s))' <= One(ToClose(s))
             /\ One(ToInitialize(s)) \in Nat /\ One(ToClose(s)) \in Nat
             /\ One(ToInitialize(s))' \in Nat /\ One(ToClose(s))' \in Nat
  BY DEF One
<1>4. \A s \in Session : nextID[s] \in Nat
  BY DEF Typed
<1>5. calls \in Nat
  BY LspAssumption DEF Typed
<1> QED
  BY <1>1, <1>2, <1>3, <1>4, <1>5 DEF Rationed

\* The claim that Send(a) uses up, whether the message can be written or not, and
\* what remains of the others.
LEMMA RationSend ==
  ASSUME Typed, Held, Rationed, NEW a \in Agent, Send(a) \/ SendFails(a)
  PROVE  Rationed' /\ NextId(sess[a]) \in Id
<1> USE Kinds DEF Goto, Leave, End, server
<1>0. pc[a] = "send"
  BY DEF Send, SendFails
<1>1. PICK s \in Session : s = sess[a]
  BY <1>0 DEF Typed
<1>2. /\ nextID' = [nextID EXCEPT ![s] = @ + 1]
      /\ nextID \in [Session -> Nat] /\ calls \in Nat /\ calls <= MaxCalls
      /\ calls' = calls /\ MaxCalls \in Nat
  BY <1>1, LspAssumption DEF Typed, Send, SendFails
<1>3. /\ pc'[a] \in {"wait", "idle"}
      /\ \A b \in Agent : b # a => pc'[b] = pc[b] /\ sess'[b] = sess[b]
  BY DEF Typed, Send, SendFails
<1>4. pool' = pool /\ proc' = proc /\ proc[s] \notin {"none", "unstarted"}
  BY <1>1 DEF Send, SendFails, Writable, HasStdin, Started
<1>5. \A t \in Session : /\ ToInitialize(t)' => ToInitialize(t)
                         /\ ToClose(t)' => ToClose(t)
  BY <1>3, <1>4 DEF ToInitialize, ToClose
<1> DEFINE I(t) == One(ToInitialize(t))
           C(t) == One(ToClose(t))
           E == Cardinality(Early)
<1>6. \A t \in Session : /\ I(t) \in Nat /\ C(t) \in Nat
                         /\ I(t)' \in Nat /\ C(t)' \in Nat
                         /\ I(t)' <= I(t) /\ C(t)' <= C(t)
  BY <1>5 DEF One
<1>7. Early' \subseteq Early
  BY <1>3 DEF Early
<1>8. E \in Nat /\ E' \in Nat /\ E' <= E
  BY <1>7, Finite, FS_Subset, FS_CardinalityType
<1>9. E' + I(s)' + C(s)' + 1 <= E + I(s) + C(s)
  <2>1. CASE a \in Caller
    <3>1. a \in Early /\ Early' = Early \ {a}
      BY <2>1, <1>0, <1>3 DEF Early
    <3>2. E' = E - 1
      BY <3>1, Finite, FS_RemoveElement
    <3> QED
      BY <3>2, <1>6, <1>8
  <2>2. CASE a \in Session
    <3>1. a = s
      BY <2>2, <1>1 DEF Held
    <3>2. I(s) = 1 /\ I(s)' = 0
      BY <3>1, <1>0, <1>3, <1>4 DEF ToInitialize, One
    <3> QED
      BY <3>2, <1>6, <1>8
  <2>3. CASE a \in Closer
    <3>1. ToClose(s)
      BY <2>3, <1>0, <1>1 DEF ToClose
    <3>2. ~ToClose(s)'
      BY <2>3, <1>1, <1>3, <1>4 DEF ToClose, Held, Typed
    <3>3. C(s) = 1 /\ C(s)' = 0
      BY <3>1, <3>2 DEF One
    <3> QED
      BY <3>3, <1>6, <1>8
  <2> QED
    BY <2>1, <2>2, <2>3 DEF Agent
<1>10. \A t \in Session : nextID[t] + E + I(t) + C(t) <= calls + 2
  BY DEF Rationed
<1> HIDE DEF I, C, E
<1>11. nextID[s] \in Nat /\ nextID[s] + 1 + E' + I(s)' + C(s)' <= calls + 2
  BY <1>2, <1>6, <1>8, <1>9, <1>10
<1>12. NextId(sess[a]) \in Id
  BY <1>1, <1>2, <1>6, <1>8, <1>11 DEF NextId, Id
<1>13. ASSUME NEW t \in Session
       PROVE  nextID'[t] + E' + I(t)' + C(t)' <= calls + 2
  <2>1. CASE t = s
    BY <2>1, <1>2, <1>11
  <2>2. CASE t # s
    BY <2>2, <1>2, <1>6, <1>8, <1>10
  <2> QED
    BY <2>1, <2>2
<1>14. Rationed'
  BY <1>2, <1>13 DEF Rationed, I, C, E
<1> QED
  BY <1>12, <1>14

\* In the initial state every session is to be initialized and to be closed.
LEMMA InitRationed == Init => Rationed
<1> SUFFICES ASSUME Init PROVE Rationed
  OBVIOUS
<1>1. Early = {} /\ Cardinality(Early) = 0
  <2>1. Early = {}
    BY Kinds DEF Init, Early
  <2> QED
    BY <2>1, FS_EmptySet
<1> QED
  BY <1>1 DEF Init, Rationed, One

\* Every step keeps an id for every claim.
LEMMA NextRationed == Typed /\ Held /\ Rationed /\ [Next]_vars => Rationed'
<1> SUFFICES ASSUME Typed, Held, Rationed, [Next]_vars PROVE Rationed'
  OBVIOUS
<1> USE Kinds DEF server, channels, agents, Goto, Leave
<1>1. ASSUME NEW c \in Caller, CallerStep(c)
      PROVE  Rationed'
  <2>1. CASE Lookup(c)
    <3>1. Early' \subseteq Early \cup {c}
      BY <2>1 DEF Lookup, Typed, Early
    <3>2. \A s \in Session : /\ ToInitialize(s)' => ToInitialize(s)
                             /\ ToClose(s)' => ToClose(s)
      BY <2>1 DEF Lookup, Typed, ToInitialize, ToClose
    <3> QED
      BY <2>1, <3>1, <3>2, RationCall DEF Lookup
  <2>2. CASE Create(c)
    <3>1. Early' \subseteq Early \cup {c}
      BY <2>2 DEF Create, Typed, Early
    <3>2. \A s \in Session : /\ ToInitialize(s)' => ToInitialize(s)
                             /\ ToClose(s)' => ToClose(s)
      BY <2>2 DEF Create, Typed, ToInitialize, ToClose
    <3> QED
      BY <2>2, <3>1, <3>2, RationCall DEF Create
  <2>3. CASE Start(c)
    <3>1. sess[c] \in Session /\ proc[sess[c]] = "unstarted"
      BY <2>3 DEF Start, Typed, Held
    <3>2. /\ \A b \in Closer : sess'[b] = sess[b] /\ pc'[b] = pc[b]
          /\ \A s \in Session : s # sess[c] => pc'[s] = pc[s]
          /\ \A d \in Caller : pc'[d] = IF d = c THEN "got" ELSE pc[d]
      BY <2>3, <3>1 DEF Start, Typed
    <3>3. \A s \in Session : proc'[s] \in {"none", "unstarted"} => proc'[s] = proc[s]
      BY <2>3 DEF Start, Typed
    <3>4. \A s \in Session : /\ ToInitialize(s)' => ToInitialize(s)
                             /\ ToClose(s)' => ToClose(s)
      BY <2>3, <3>1, <3>2, <3>3 DEF Start, ToInitialize, ToClose
    <3>5. Early' \subseteq Early
      BY <2>3, <3>2 DEF Start, Early
    <3> QED
      BY <2>3, <3>4, <3>5, RationFrame DEF Start
  <2>4. CASE StartFails(c)
    BY <2>4, RationFrame DEF StartFails, Typed, Early, ToInitialize, ToClose
  <2>5. CASE Unpool(c)
    BY <2>5, RationFrame DEF Unpool, Typed, Early, ToInitialize, ToClose
  <2>6. CASE Opened(c)
    BY <2>6, RationFrame DEF Opened, Typed, Early, ToInitialize, ToClose
  <2>7. CASE Request(c)
    BY <2>7, RationFrame DEF Request, Typed, Early, ToInitialize, ToClose
  <2>8. CASE Ready(c)
    BY <2>8, RationFrame DEF Ready, Typed, Early, ToInitialize, ToClose
  <2>9. CASE NotReady(c)
    BY <2>9, RationFrame
    DEF NotReady, End, Typed, Early, ToInitialize, ToClose
  <2> QED
    BY <1>1, <2>1, <2>2, <2>3, <2>4, <2>5, <2>6, <2>7, <2>8, <2>9
    DEF CallerStep
<1>2. ASSUME NEW a \in Agent, RequestStep(a)
      PROVE  Rationed'
  <2>1. ASSUME Leave(a), UNCHANGED <<pool, proc, nextID, calls>>
        PROVE  Rationed'
    BY <2>1, RationFrame DEF Typed, Early, ToInitialize, ToClose
  <2>2. CASE SendPanics(a)
    BY <2>2, RationFrame DEF SendPanics, Early, ToInitialize, ToClose
  <2> QED
    BY <1>2, <2>1, <2>2, RationSend DEF RequestStep, Respond, GiveUp, End
<1>3. CASE UNCHANGED <<nextID, calls, pool, proc, agents>>
  BY <1>3, RationFrame DEF Early, ToInitialize, ToClose
<1>4. ASSUME NEW s \in Session, ServerStep(s) \/ Deliver(s) \/ WatchSession(s)
      PROVE  Rationed'
  <2>1. CASE Exit(s)
    BY <2>1, RationFrame DEF Exit, Typed, Early, ToInitialize, ToClose
  <2>2. CASE WatchSession(s)
    BY <2>2, RationFrame DEF WatchSession, Typed, Early, ToInitialize, ToClose
  <2> QED
    BY <1>3, <1>4, <2>1, <2>2
    DEF ServerStep, Answer, ServerAsks, Read, ReadFails, Deliver
<1>5. ASSUME NEW a \in Closer, TakeForClosing(a)
      PROVE  Rationed'
  <2>1. Early' \subseteq Early
    BY <1>5 DEF TakeForClosing, Typed, Early
  <2>2. \A s \in Session : /\ ToInitialize(s)' => ToInitialize(s)
                           /\ ToClose(s)' => ToClose(s)
    BY <1>5 DEF TakeForClosing, Typed, ToInitialize, ToClose
  <2> QED
    BY <1>5, <2>1, <2>2, RationFrame DEF TakeForClosing
<1>6. CASE (\E a \in Sweepers : Sweep(a)) \/ Shutdown
  BY <1>3, <1>5, <1>6 DEF Sweep, Shutdown
<1> QED
  BY <1>1, <1>2, <1>3, <1>4, <1>6 DEF Next, vars

\* No session has used more ids than there are.
LEMMA IdsFit ==
  ASSUME Typed, Rationed
  PROVE  \A s \in Session : nextID[s] \in Nat /\ nextID[s] <= MaxCalls + 2
                            /\ 1..nextID[s] \subseteq Id
<1> SUFFICES ASSUME NEW s \in Session
             PROVE  nextID[s] \in Nat /\ nextID[s] <= MaxCalls + 2
                    /\ 1..nextID[s] \subseteq Id
  OBVIOUS
<1>1. nextID[s] \in Nat /\ calls \in Nat /\ calls <= MaxCalls /\ MaxCalls \in Nat
  BY LspAssumption DEF Typed
<1>2. /\ One(ToInitialize(s)) \in Nat /\ One(ToClose(s)) \in Nat
      /\ Cardinality(Early) \in Nat
  BY Finite DEF One
<1>3. nextID[s] + Cardinality(Early) + One(ToInitialize(s)) + One(ToClose(s))
        <= calls + 2
  BY DEF Rationed
<1>4. nextID[s] <= MaxCalls + 2
  BY <1>1, <1>2, <1>3
<1> QED
  BY <1>1, <1>4 DEF Id

-----------------------------------------------------------------------------
(* Whose request an id is.                                                  *)

\* No request is under way in the initial state.
LEMMA InitRouted == Init => Routed
  BY Kinds DEF Init, Routed, Registered, Owned, Expected, HeldBack, AnswersMatch, Awaiting

\* A step that leaves the requests under way, and their channels, as they are.
LEMMA RoutedFrame ==
  ASSUME Routed, UNCHANGED channels,
         \A s \in Session : asked'[s] \subseteq asked[s],
         \A a \in Agent : pc'[a] = "wait" <=> pc[a] = "wait",
         \A a \in Agent : pc[a] = "wait" => sess'[a] = sess[a] /\ id'[a] = id[a]
  PROVE  Routed'
  BY DEF Routed, Registered, Owned, Expected, HeldBack, AnswersMatch,
      Awaiting, channels

\* An id that is taken and lost leaves them as they are, too.
LEMMA SkipRouted ==
  ASSUME Typed, Routed, NEW a \in Agent, SendFails(a)
  PROVE  Routed'
<1>1. \A s \in Session : 1..nextID[s] \subseteq 1..nextID'[s]
  <2>1. sess[a] \in Session /\ \A s \in Session : nextID[s] \in Nat
    BY DEF Typed, SendFails
  <2>2. \A s \in Session : nextID'[s] \in {nextID[s], nextID[s] + 1}
    BY <2>1 DEF SendFails, Typed
  <2> QED
    BY <2>1, <2>2
<1>2. UNCHANGED <<pending, slot, reading, asked>>
  BY DEF SendFails
<1>3. \A b \in Agent : /\ pc'[b] = "wait" <=> pc[b] = "wait"
                       /\ pc[b] = "wait" => sess'[b] = sess[b] /\ id'[b] = id[b]
  BY DEF SendFails, End, Leave, Goto, Typed
<1>4. \A b \in Agent, s \in Session : Awaiting(b, s)' <=> Awaiting(b, s)
  BY <1>3, Kinds DEF Awaiting
<1>5. Registered' /\ AnswersMatch'
  BY <1>2, <1>3, <1>4 DEF Routed, Registered, AnswersMatch, Awaiting
<1>6. Owned'
  BY <1>1, <1>2, <1>3, <1>4 DEF Routed, Owned, Awaiting
<1>7. Expected' /\ HeldBack'
  BY <1>1, <1>2, <1>3, <1>4 DEF Routed, Expected, HeldBack, Awaiting
<1> QED
  BY <1>5, <1>6, <1>7 DEF Routed

\* A new id is above all that were given out before.
LEMMA SendRouted ==
  ASSUME Slots, Typed, Held, Rationed, Routed, NEW a \in Agent, Send(a)
  PROVE  Routed'
<1>1. PICK s \in Session : s = sess[a]
  BY DEF Typed, Send
<1> DEFINE n == nextID[s] + 1
<1>2. n \in Id /\ n \in Nat
  BY <1>1, RationSend DEF NextId, Typed
<1>3. /\ pc'[a] = "wait" /\ id'[a] = n
      /\ \A b \in Agent : b # a => pc'[b] = pc[b] /\ id'[b] = id[b]
      /\ sess' = sess
  BY <1>1 DEF Typed, Send, Goto, NextId
<1>4. \A t \in Session :
         /\ nextID'[t] = IF t = s THEN n ELSE nextID[t]
         /\ pending'[t] = IF t = s THEN pending[t] \cup {n} ELSE pending[t]
         /\ asked'[t] = IF t = s THEN asked[t] \cup {[id |-> n, by |-> a]}
                        ELSE asked[t]
         /\ reading'[t] = reading[t]
  BY <1>1 DEF Typed, Send, NextId
<1>5. \A t \in Session : \A i \in Id :
         slot'[t][i] = IF t = s /\ i = n THEN NULL ELSE slot[t][i]
  BY <1>1, <1>2 DEF Slots, Send, NextId
<1>6. pc[a] = "send" /\ nextID[s] \in Nat
  BY DEF Send, Typed
<1>7. \A t \in Session : 1..nextID[t] \subseteq Id /\ nextID[t] \in Nat
  BY IdsFit
<1>8. \A b \in Agent : pc[b] = "wait" => sess[b] \in Session
  BY DEF Typed
<1>9. \A b \in Agent : Awaiting(b, s) => id[b] \in 1..nextID[s]
  BY DEF Routed, Registered, Owned
<1>10. /\ n \in 1..n
       /\ \A i \in 1..nextID[s] : i \in 1..n /\ i # n
  BY <1>2, <1>6
<1>11. \A b \in Agent, t \in Session :
          /\ Awaiting(b, t)' <=> Awaiting(b, t) \/ (b = a /\ t = s)
          /\ Awaiting(b, t) => b # a
  BY <1>1, <1>3, <1>6 DEF Awaiting
<1> HIDE DEF n
<1>12. Registered'
  <2> SUFFICES ASSUME NEW t \in Session, NEW b \in Agent, Awaiting(b, t)'
               PROVE  /\ id'[b] \in pending'[t]
                      /\ \A d \in Agent : b # d /\ Awaiting(d, t)' => id'[b] # id'[d]
    BY DEF Registered
  <2>1. CASE b = a
    BY <2>1, <1>3, <1>4, <1>9, <1>10, <1>11
  <2>2. CASE b # a
    <3>1. /\ Awaiting(b, t) /\ id'[b] = id[b] /\ id[b] \in pending[t]
          /\ \A d \in Agent : b # d /\ Awaiting(d, t) => id[b] # id[d]
      BY <2>2, <1>3, <1>11 DEF Routed, Registered
    <3> QED
      BY <3>1, <1>3, <1>4, <1>9, <1>10, <1>11
  <2> QED
    BY <2>1, <2>2
<1>13. Owned'
  <2> SUFFICES ASSUME NEW t \in Session, NEW i \in pending'[t]
               PROVE  /\ i \in 1..nextID'[t]
                      /\ \E b \in Agent : Awaiting(b, t)' /\ id'[b] = i
    BY DEF Owned
  <2>1. CASE t = s /\ i = n
    BY <2>1, <1>3, <1>4, <1>10, <1>11
  <2>2. CASE ~(t = s /\ i = n)
    <3>1. i \in pending[t]
      BY <2>2, <1>4
    <3>2. PICK b \in Agent : Awaiting(b, t) /\ id[b] = i
      BY <3>1 DEF Routed, Owned
    <3>3. i \in 1..nextID[t]
      BY <3>1 DEF Routed, Owned
    <3>4. Awaiting(b, t)' /\ id'[b] = i
      BY <3>2, <1>3, <1>11
    <3> QED
      BY <3>3, <3>4, <1>4, <1>10
  <2> QED
    BY <2>1, <2>2
<1>14. Expected'
  <2> SUFFICES ASSUME NEW t \in Session, NEW q \in asked'[t]
               PROVE  /\ q.id \in 1..nextID'[t]
                      /\ \A b \in Agent : Awaiting(b, t)' /\ id'[b] = q.id
                                             => q.by = b
    BY DEF Expected
  <2>1. CASE q \in asked[t]
    <3>1. /\ q.id \in 1..nextID[t]
          /\ \A b \in Agent : Awaiting(b, t) /\ id[b] = q.id => q.by = b
      BY <2>1 DEF Routed, Expected
    <3> QED
      BY ZenonT(60), <3>1, <1>3, <1>4, <1>10, <1>11
  <2>2. CASE t = s /\ q = [id |-> n, by |-> a]
    <3>1. q.id = n /\ q.by = a
      BY <2>2
    <3> QED
      BY <2>2, <3>1, <1>3, <1>4, <1>9, <1>10, <1>11
  <2> QED
    BY <2>1, <2>2, <1>4
<1>15. HeldBack'
  BY <1>3, <1>4, <1>10, <1>11 DEF Routed, HeldBack
<1>16. AnswersMatch'
  <2> SUFFICES ASSUME NEW b \in Agent, pc'[b] = "wait"
               PROVE  slot'[sess'[b]][id'[b]] \in {b, Foreign, NULL}
    BY DEF AnswersMatch
  <2>1. CASE b = a
    BY <2>1, <1>1, <1>2, <1>3, <1>5
  <2>2. CASE b # a
    <3>1. pc[b] = "wait" /\ sess'[b] = sess[b] /\ id'[b] = id[b]
      BY <2>2, <1>3
    <3>2. sess[b] \in Session /\ id[b] \in Id
      BY <3>1, <1>7, <1>8 DEF Routed, Registered, Owned, Awaiting
    <3>3. slot[sess[b]][id[b]] \in {b, Foreign, NULL}
      BY <3>1 DEF Routed, AnswersMatch
    <3> QED
      BY <3>1, <3>2, <3>3, <1>5
  <2> QED
    BY <2>1, <2>2
<1> QED
  BY <1>12, <1>13, <1>14, <1>15, <1>16 DEF Routed

\* A request that ends takes its channel with it, and nobody else's.
LEMMA EndRouted ==
  ASSUME Slots, Typed, Rationed, Routed, NEW a \in Agent, Respond(a) \/ GiveUp(a)
  PROVE  Routed'
<1>1. PICK s \in Session : s = sess[a] /\ pc[a] = "wait"
  BY DEF Typed, Respond, GiveUp
<1>2. /\ pc'[a] = "idle" /\ sess'[a] = NULL
      /\ \A b \in Agent : b # a => /\ pc'[b] = pc[b] /\ id'[b] = id[b]
                                   /\ sess'[b] = sess[b]
  BY DEF Typed, Respond, GiveUp, End, Leave, Goto
<1>3. \A t \in Session :
         pending'[t] = IF t = s THEN pending[t] \ {id[a]} ELSE pending[t]
  BY <1>1 DEF Typed, Respond, GiveUp, Forget
<1>4. UNCHANGED <<nextID, asked, reading>>
  BY DEF Respond, GiveUp
<1>5. \A t \in Session : \A i \in Id :
         slot'[t][i] = slot[t][i] \/ slot'[t][i] = NULL
  BY ZenonT(60), <1>1 DEF Slots, Respond, GiveUp
<1>6. \A b \in Agent : pc[b] = "wait" => sess[b] \in Session /\ id[b] \in Id
  BY IdsFit DEF Typed, Routed, Registered, Owned, Awaiting
<1>12. /\ \A b \in Agent, t \in Session :
               Awaiting(b, t)' <=> Awaiting(b, t) /\ b # a
       /\ Awaiting(a, s)
       /\ \A t \in Session : Awaiting(a, t) => t = s
  BY <1>1, <1>2, Kinds DEF Awaiting
<1>7. Registered'
  <2> SUFFICES ASSUME NEW t \in Session, NEW b \in Agent, Awaiting(b, t)'
               PROVE  /\ id'[b] \in pending'[t]
                      /\ \A d \in Agent : b # d /\ Awaiting(d, t)' => id'[b] # id'[d]
    BY DEF Registered
  <2>1. /\ Awaiting(b, t) /\ b # a /\ id'[b] = id[b] /\ id[b] \in pending[t]
        /\ \A d \in Agent : b # d /\ Awaiting(d, t) => id[b] # id[d]
    BY <1>2, <1>12 DEF Routed, Registered
  <2>2. id'[b] \in pending'[t]
    BY <2>1, <1>3, <1>12
  <2> QED
    BY <2>1, <2>2, <1>2, <1>12
<1>8. Owned'
  <2> SUFFICES ASSUME NEW t \in Session, NEW i \in pending'[t]
               PROVE  /\ i \in 1..nextID'[t]
                      /\ \E b \in Agent : Awaiting(b, t)' /\ id'[b] = i
    BY DEF Owned
  <2>1. i \in pending[t] /\ (t = s => i # id[a])
    BY <1>3
  <2>2. i \in 1..nextID'[t]
    BY <2>1, <1>4 DEF Routed, Owned
  <2>3. PICK b \in Agent : Awaiting(b, t) /\ id[b] = i
    BY <2>1 DEF Routed, Owned
  <2>4. b # a
    BY <2>1, <2>3, <1>12
  <2> QED
    BY <2>2, <2>3, <2>4, <1>2, <1>12
<1>9. Expected'
  BY <1>2, <1>4, <1>12 DEF Routed, Expected
<1>10. HeldBack'
  BY <1>2, <1>4, <1>12 DEF Routed, HeldBack
<1>11. AnswersMatch'
  BY <1>2, <1>5, <1>6 DEF Routed, AnswersMatch
<1> QED
  BY <1>7, <1>8, <1>9, <1>10, <1>11 DEF Routed

\* A message is put into the channel of whoever has its id.
LEMMA ReadRouted ==
  ASSUME Slots, Typed, Rationed, Routed, NEW s \in Session,
         NEW i \in 1..nextID[s], NEW from \in Answers, Read(s, i, from),
         \A t \in Session : asked'[t] \subseteq asked[t],
         \A a \in Agent : Awaiting(a, s) /\ id[a] = i => from \in {a, Foreign}
  PROVE  Routed'
<1>1. UNCHANGED <<nextID, pending, agents>>
  BY DEF Read
<1>2. i \in Id
  BY IdsFit
<1>3. \A t \in Session : \A j \in Id :
         \/ slot'[t][j] = slot[t][j]
         \/ t = s /\ j = i /\ slot'[t][j] = from
  BY <1>2 DEF Slots, Read
<1>4. \A t \in Session :
         \/ reading'[t] = reading[t]
         \/ t = s /\ reading'[t] = [id |-> i, from |-> from]
  BY DEF Typed, Read
<1>5. \A b \in Agent : pc[b] = "wait" => sess[b] \in Session /\ id[b] \in Id
  BY IdsFit DEF Typed, Routed, Registered, Owned, Awaiting
<1> QED
  BY <1>1, <1>2, <1>3, <1>4, <1>5 DEF Routed, Registered, Owned, Expected, HeldBack, AnswersMatch,
      Awaiting, agents

\* What readLoop held back is delivered to whoever still has its id.
LEMMA DeliverRouted ==
  ASSUME Slots, Typed, Rationed, Routed, NEW s \in Session, Deliver(s)
  PROVE  Routed'
<1>1. UNCHANGED <<nextID, pending, asked, agents>> /\ reading[s] # NULL
  BY DEF Deliver, server
<1>2. reading[s].id \in Id
  BY <1>1, IdsFit DEF Routed, HeldBack
<1>3. \A t \in Session : \A j \in Id :
         \/ slot'[t][j] = slot[t][j]
         \/ t = s /\ j = reading[s].id /\ slot'[t][j] = reading[s].from
  BY <1>2 DEF Slots, Deliver
<1>4. \A t \in Session : reading'[t] = reading[t] \/ reading'[t] = NULL
  BY DEF Typed, Deliver
<1>5. \A b \in Agent : pc[b] = "wait" => sess[b] \in Session /\ id[b] \in Id
  BY IdsFit DEF Typed, Routed, Registered, Owned, Awaiting
<1> QED
  BY <1>1, <1>2, <1>3, <1>4, <1>5 DEF Routed, Registered, Owned, Expected, HeldBack, AnswersMatch,
      Awaiting, agents

\* Every step keeps requests and ids together.
LEMMA NextRouted ==
  Slots /\ Typed /\ Held /\ Rationed /\ Routed /\ [Next]_vars => Routed'
<1> SUFFICES ASSUME Slots, Typed, Held, Rationed, Routed, [Next]_vars
             PROVE  Routed'
  OBVIOUS
<1> USE Kinds DEF server, channels, agents, Goto
<1>1. ASSUME NEW c \in Caller, CallerStep(c)
      PROVE  Routed'
  <2> USE DEF Typed, Leave
  <2>1. CASE Lookup(c)
    BY <2>1, RoutedFrame DEF Lookup
  <2>2. CASE Create(c)
    BY <2>2, RoutedFrame DEF Create
  <2>3. CASE Start(c)
    <3>1. sess[c] \in Session /\ pc[sess[c]] = "idle" /\ pc[c] = "start"
      BY <2>3 DEF Start, Held
    <3>2. \A a \in Agent : /\ pc'[a] = "wait" <=> pc[a] = "wait"
                           /\ pc[a] = "wait" => sess'[a] = sess[a] /\ id'[a] = id[a]
      BY <2>3, <3>1 DEF Start
    <3> QED
      BY <2>3, <3>2, RoutedFrame DEF Start
  <2>4. CASE StartFails(c)
    BY <2>4, RoutedFrame DEF StartFails
  <2>5. CASE Unpool(c)
    BY <2>5, RoutedFrame DEF Unpool
  <2>6. CASE Opened(c)
    BY <2>6, RoutedFrame DEF Opened
  <2>7. CASE Request(c)
    BY <2>7, RoutedFrame DEF Request
  <2>8. CASE Ready(c)
    BY <2>8, RoutedFrame DEF Ready
  <2>9. CASE NotReady(c)
    BY <2>9, RoutedFrame DEF NotReady, End
  <2> QED
    BY <1>1, <2>1, <2>2, <2>3, <2>4, <2>5, <2>6, <2>7, <2>8, <2>9
    DEF CallerStep
<1>2. ASSUME NEW a \in Agent, RequestStep(a)
      PROVE  Routed'
  <2>1. CASE SendFails(a)
    BY <2>1, SkipRouted
  <2>2. CASE SendPanics(a)
    BY <2>2, RoutedFrame DEF SendPanics
  <2> QED
    BY <1>2, <2>1, <2>2, SendRouted, EndRouted DEF RequestStep
<1>3. ASSUME NEW s \in Session, ServerStep(s) \/ Deliver(s) \/ WatchSession(s)
      PROVE  Routed'
  <2>1. CASE Answer(s)
    <3> PICK q \in asked[s] : Answer(s)!(q)
      BY <2>1 DEF Answer
    <3>1. q.id \in 1..nextID[s] /\ q.by \in Answers
          /\ \A a \in Agent : Awaiting(a, s) /\ id[a] = q.id => q.by = a
      BY DEF Routed, Expected, Typed
    <3>2. \A t \in Session : asked'[t] \subseteq asked[t]
      BY DEF Typed
    <3> QED
      BY <3>1, <3>2, ReadRouted
  <2>2. CASE ServerAsks(s)
    <3> PICK c \in Caller : /\ sess[c] = s /\ pc[c] = "wait"
                            /\ Read(s, id[c], Foreign)
      BY <2>2 DEF ServerAsks
    <3>1. id[c] \in 1..nextID[s]
      BY DEF Routed, Registered, Owned, Awaiting
    <3>2. asked' = asked
      BY <2>2 DEF ServerAsks
    <3> QED
      BY <3>1, <3>2, ReadRouted
  <2>3. CASE ReadFails(s)
    BY <2>3, RoutedFrame DEF ReadFails, Typed
  <2>4. CASE Exit(s)
    BY <2>4, RoutedFrame DEF Exit, Typed
  <2>5. CASE WatchSession(s)
    BY <2>5, RoutedFrame DEF WatchSession
  <2> QED
    BY <1>3, <2>1, <2>2, <2>3, <2>4, <2>5, DeliverRouted DEF ServerStep
<1>4. ASSUME NEW a \in Closer, TakeForClosing(a), pc[a] = "idle"
      PROVE  Routed'
  BY <1>4, RoutedFrame DEF TakeForClosing, Typed
<1>5. CASE UNCHANGED <<channels, asked, agents>>
  BY <1>5, RoutedFrame
<1>6. CASE (\E a \in Sweepers : Sweep(a)) \/ Shutdown
  BY <1>4, <1>5, <1>6 DEF Sweep, Shutdown, Held
<1> QED
  BY <1>1, <1>2, <1>3, <1>5, <1>6 DEF Next, vars

-----------------------------------------------------------------------------
(* The theorems.                                                            *)

\* The parts of the invariant hold together.
LEMMA Inductive == Spec => []IInv
<1>1. Init => IInv
  BY InitTyped, InitHeld, InitReachable, InitRouted, InitCounted, InitRationed
  DEF IInv
<1>2. IInv /\ [Next]_vars => IInv'
  BY NextTyped, NextSlots, NextHeld, NextReachable, NextRouted, NextCounted,
     NextRationed DEF IInv
<1> QED
  BY <1>1, <1>2, PTL DEF Spec

\* Type correctness of the pool, with the bounds: no session uses more ids than
\* there are, and no counter exceeds the number of callers.
THEOREM TypeCorrect == Spec => []TypeOK
<1>1. IInv => TypeOK
  <2> SUFFICES ASSUME IInv PROVE TypeOK
    OBVIOUS
  <2>1. Typed /\ Slots /\ Held /\ Routed /\ InFlightCounts /\ Rationed
    BY DEF IInv
  <2>2. nextID \in [Session -> Id \cup {0}]
    BY <2>1, IdsFit, LspAssumption DEF Typed, Id
  <2>3. \A s \in Session : 1..nextID[s] \subseteq Id
    BY <2>1, IdsFit
  <2>4. pending \in [Session -> SUBSET Id]
    BY <2>1, <2>3 DEF Typed, Routed, Owned
  <2>5. reading \in [Session -> [id : Id, from : Answers] \cup {NULL}]
    BY <2>1, <2>3 DEF Typed, Routed, HeldBack
  <2>6. asked \in [Session -> SUBSET [id : Id, by : Agent]]
    BY <2>1, <2>3 DEF Typed, Routed, Expected
  <2>7. inFlight \in [Session -> 0..Cardinality(Caller)]
    <3>1. \A s \in Session : inFlight[s] = Cardinality(Busy(s))
      BY <2>1 DEF InFlightCounts, Busy, Within
    <3>2. \A s \in Session : inFlight[s] \in 0..Cardinality(Caller)
      BY <3>1, Finite
    <3> QED
      BY <2>1, <3>2 DEF Typed
  <2>8. id \in [Agent -> Id \cup {0}]
    <3>1. \A a \in Agent : pc[a] = "wait" => id[a] \in Id
      BY <2>1, <2>3 DEF Typed, Routed, Registered, Owned, Awaiting
    <3> QED
      BY <2>1, <3>1 DEF Typed, Held
  <2> QED
    BY <2>1, <2>2, <2>4, <2>5, <2>6, <2>7, <2>8 DEF Typed, Slots, TypeOK
<1> QED
  BY <1>1, Inductive, PTL

\* A channel is registered for exactly the requests under way, one each
\* (session.go:180-191).
THEOREM ChannelsOwned == Spec => []PendingAwaited
<1>1. IInv => PendingAwaited
  BY DEF IInv, Routed, Registered, Owned, PendingAwaited
<1> QED
  BY <1>1, Inductive, PTL

\* A caller never gets the answer to somebody else's request (session.go:243-262).
THEOREM OwnAnswer == Spec => []AnswersMatch
<1>1. IInv => AnswersMatch
  BY DEF IInv, Routed
<1> QED
  BY <1>1, Inductive, PTL

\* The sweep's counter is the number of callers inside Request (session.go:164-165).
THEOREM InFlightExact == Spec => []InFlightCounts
<1>1. IInv => InFlightCounts
  BY DEF IInv
<1> QED
  BY <1>1, Inductive, PTL

\* A running server is pooled, being closed, or told to exit, but for one whose
\* entry another session's failed start deleted (manager.go:96-116).
THEOREM NoServerLost == Spec => []ServersAreReachable
<1>1. IInv => ServersAreReachable
  <2> SUFFICES ASSUME IInv, NEW s \in Session, proc[s] = "running", ~closed[s]
               PROVE  \/ pool = s
                      \/ \E a \in Closer : sess[a] = s /\ pc[a] # "idle"
                      \/ s \in misdeleted
    BY DEF ServersAreReachable
  <2> QED
    BY Kinds DEF IInv, Reachable, Typed
<1> QED
  BY <1>1, Inductive, PTL

-----------------------------------------------------------------------------
(* LspFiles: what a server knows of the file.                               *)

Content == 0..MaxEdits

FilesTyped ==
    /\ file \in Content
    /\ openFiles \in [Session -> Content \cup {NULL}]
    /\ doc \in [Session -> Content \cup {NULL}]
    /\ step \in [Caller -> {"new", "read", "didOpen", "didChange", "synced"}]
    /\ copy \in [Caller -> Content \cup {NULL}]
    /\ \A c \in Caller :
          /\ pc[c] # "got" => step[c] = "new"
          /\ step[c] # "new" \/ pc[c] \in {"ready", "send"} => copy[c] # NULL
    /\ \A s \in Session : ~Writable(s) => doc[s] = NULL

\* A caller that has taken note of what it read, until its request is sent.
Told(c) == step[c] \in {"didOpen", "didChange", "synced"} \/ pc[c] \in {"ready", "send"}

NotesOn(s) == {c \in Caller : sess[c] = s /\ Notifying(c)}

\* A session that can still be told of the file, and was told in order.
Alive(s) == proc[s] \in {"none", "unstarted"} \/ Writable(s)
Settled(s) == Alive(s) /\ s \notin desynced

\* A settled session's server has the content noted, or a single notification
\* with it is on its way.  What is noted is not older than what a caller read.
Noted(s) ==
    /\ NotesOn(s) = {} => doc[s] = openFiles[s]
    /\ \A c \in Caller : NotesOn(s) = {c} =>
          /\ copy[c] = openFiles[s]
          /\ step[c] = "didChange" => doc[s] # NULL
    /\ \A c \in Caller : sess[c] = s /\ Told(c) =>
          openFiles[s] # NULL /\ openFiles[s] >= copy[c]

FilesInv == FilesTyped /\ \A s \in Session : Settled(s) => Noted(s)

\* Nothing is noted, and nothing is open, in the initial state.
LEMMA InitFiles == FilesInit => FilesInv
<1> SUFFICES ASSUME FilesInit PROVE FilesInv
  OBVIOUS
<1>1. FilesTyped
  BY FilesAssumption, Kinds DEF FilesTyped, Content, FilesInit, Init
<1>2. \A s \in Session : Noted(s)
  BY Kinds DEF FilesInit, Init, Noted, NotesOn, Notifying, Told
<1> QED
  BY <1>1, <1>2 DEF FilesInv

\* The ways of a caller that holds a session, and of a session that can be told.
Leads(c) ==
    /\ pc[c] = "got" => pc'[c] \in {"got", "ready", "idle"}
    /\ pc'[c] = "ready" => pc[c] \in {"got", "ready"}
    /\ pc'[c] = "send" => pc[c] \in {"ready", "send"}
    /\ pc[c] \in {"got", "ready", "send"} /\ pc'[c] # "idle" => sess'[c] = sess[c]
    /\ pc[c] = "send" /\ pc'[c] = "wait" => Writable(sess[c])

Lasts(s) == /\ Alive(s)' => Alive(s)
            /\ proc'[s] \in {"none", "unstarted"} => proc[s] \in {"none", "unstarted"}

\* A caller's own step.
LEMMA CallerLeads ==
  ASSUME Typed, Held, NEW c \in Caller, CallerStep(c), NEW d \in Caller
  PROVE  Leads(d)
<1> USE Kinds DEF Goto, Leave, server, channels, agents, Leads
<1>1. CASE Lookup(c)
  BY <1>1 DEF Typed, Lookup
<1>2. CASE Create(c)
  BY <1>2 DEF Typed, Create
<1>3. CASE Start(c)
  <2> PICK s \in Session : s = sess[c]
    BY <1>3 DEF Typed, Start
  <2>1. s # c /\ s # d
    OBVIOUS
  <2>2. sess'[d] = sess[d] /\ pc'[d] = IF d = c THEN "got" ELSE pc[d]
    BY <1>3, <2>1 DEF Typed, Start
  <2> QED
    BY <1>3, <2>2 DEF Start
<1>4. CASE StartFails(c)
  BY <1>4 DEF Typed, StartFails
<1>5. CASE Unpool(c)
  BY <1>5 DEF Typed, Unpool
<1>6. CASE Opened(c)
  BY <1>6 DEF Typed, Opened
<1>7. CASE Request(c)
  BY <1>7 DEF Typed, Request
<1>8. CASE Ready(c)
  BY <1>8 DEF Typed, Ready
<1>9. CASE NotReady(c)
  BY <1>9 DEF Typed, NotReady, End
<1> QED
  BY <1>1, <1>2, <1>3, <1>4, <1>5, <1>6, <1>7, <1>8, <1>9 DEF CallerStep

\* Every step.
LEMMA NextLeads ==
  ASSUME Typed, Held, Next, NEW d \in Caller
  PROVE  Leads(d)
<1> USE Kinds DEF Goto, Leave, server, channels, agents, Leads
<1>1. ASSUME NEW a \in Agent, RequestStep(a)
      PROVE  Leads(d)
  <2>1. CASE Send(a)
    BY <2>1 DEF Typed, Send
  <2>2. CASE UNCHANGED agents
    BY <2>2
  <2>3. ASSUME pc[a] \in {"send", "wait"}, Leave(a) PROVE Leads(d)
    BY <2>3 DEF Typed
  <2> QED
    BY <1>1, <2>1, <2>2, <2>3
    DEF RequestStep, SendFails, SendPanics, Respond, GiveUp, End
<1>2. ASSUME NEW s \in Session, ServerStep(s) \/ Deliver(s) \/ WatchSession(s)
      PROVE  Leads(d)
  BY <1>2 DEF ServerStep, Answer, ServerAsks, Read, ReadFails, Exit, Deliver,
              WatchSession
<1>3. ASSUME NEW a \in Closer, Sweep(a) \/ (a = Stopper /\ Shutdown)
      PROVE  Leads(d)
  BY <1>3 DEF Typed, Sweep, Shutdown, TakeForClosing
<1> QED
  BY <1>1, <1>2, <1>3, CallerLeads DEF Next

\* A session that was closed is not opened again, and one that failed to start,
\* or exited, is not started.
LEMMA NextLasts ==
  ASSUME Typed, Held, Next, NEW s \in Session
  PROVE  Lasts(s)
<1> USE Kinds DEF Lasts, Alive, Writable, server, channels, agents
<1>1. CASE UNCHANGED <<proc, closed>>
  BY <1>1
<1>2. ASSUME NEW c \in Caller, CallerStep(c)
      PROVE  Lasts(s)
  <2>1. CASE Create(c)
    BY <2>1 DEF Typed, Create
  <2>2. CASE Start(c)
    <3>1. proc[sess[c]] = "unstarted"
      BY <2>2 DEF Held, Start
    <3> QED
      BY <2>2, <3>1 DEF Typed, Start
  <2>3. CASE StartFails(c)
    BY <2>3 DEF Typed, StartFails
  <2>4. CASE NotReady(c)
    BY <1>1, <2>4 DEF NotReady, End
  <2> QED
    BY <1>1, <1>2, <2>1, <2>2, <2>3, <2>4
    DEF CallerStep, Lookup, Unpool, Opened, Request, Ready
<1>3. ASSUME NEW a \in Agent, RequestStep(a)
      PROVE  Lasts(s)
  <2>1. ASSUME NEW succeeded \in BOOLEAN, End(a, succeeded), proc' = proc
        PROVE  Lasts(s)
    BY <2>1 DEF Typed, End
  <2> QED
    BY <1>1, <1>3, <2>1 DEF RequestStep, Send, SendFails, SendPanics, Respond, GiveUp
<1>4. ASSUME NEW t \in Session, ServerStep(t) \/ Deliver(t) \/ WatchSession(t)
      PROVE  Lasts(s)
  <2>1. CASE Exit(t)
    BY <2>1 DEF Typed, Exit
  <2> QED
    BY <1>1, <1>4, <2>1
    DEF ServerStep, Answer, ServerAsks, Read, ReadFails, Deliver, WatchSession
<1>5. ASSUME NEW a \in Closer, Sweep(a) \/ Shutdown
      PROVE  Lasts(s)
  BY <1>1, <1>5 DEF Sweep, Shutdown, TakeForClosing
<1> QED
  BY <1>2, <1>3, <1>4, <1>5 DEF Next

\* The steps of EnsureFileOpen keep the types.
LEMMA FileStepTyped ==
  ASSUME Typed, FilesTyped, NEW c \in Caller, FileStep(c)
  PROVE  FilesTyped'
<1> USE FilesAssumption, Kinds DEF FilesTyped, Content, Proceed, Writable, vars, server, agents
<1>1. pc[c] = "got" /\ sess[c] \in Session
  BY DEF Typed, FileStep, ReadFile, NoteContent, Notify
<1>2. CASE ReadFile(c)
  BY <1>1, <1>2 DEF ReadFile
<1>3. CASE NoteContent(c)
  <2>1. copy[c] \in Content
    BY <1>3 DEF NoteContent
  <2> QED
    BY <1>1, <1>3, <2>1 DEF NoteContent
<1>4. CASE Notify(c)
  <2>1. copy[c] \in Content
    BY <1>4 DEF Notify, Notifying
  <2>2. Writable(sess[c])
    BY <1>4 DEF Notify
  <2>3. doc' = [doc EXCEPT ![sess[c]] = copy[c]] \/ doc' = doc
    BY <1>4 DEF Notify
  <2>4. /\ doc' \in [Session -> Content \cup {NULL}]
        /\ \A s \in Session : ~Writable(s) => doc'[s] = NULL
    BY <1>1, <2>1, <2>2, <2>3
  <2> QED
    BY <1>1, <1>4, <2>4 DEF Notify, Notifying
<1> QED
  BY <1>2, <1>3, <1>4 DEF FileStep

\* So does what the other steps do to the file's variables.
LEMMA FollowTyped ==
  ASSUME Typed, Held, FilesTyped, Next, Follow
  PROVE  FilesTyped'
<1>1. /\ file' \in Content
      /\ openFiles' \in [Session -> Content \cup {NULL}]
  BY DEF FilesTyped, Follow
<1>2. /\ doc' \in [Session -> Content \cup {NULL}]
      /\ \A s \in Session : ~Writable(s)' => doc'[s] = NULL
  BY DEF FilesTyped, Follow
<1>3. ASSUME NEW c \in Caller
      PROVE  /\ step'[c] = IF pc'[c] = "got" THEN step[c] ELSE "new"
             /\ copy'[c] = IF pc'[c] \in {"got", "ready", "send"}
                           THEN copy[c] ELSE NULL
  BY DEF Follow
<1>4. /\ step' \in [Caller -> {"new", "read", "didOpen", "didChange", "synced"}]
      /\ copy' \in [Caller -> Content \cup {NULL}]
  BY DEF FilesTyped, Follow
<1>5. ASSUME NEW c \in Caller
      PROVE  /\ pc'[c] # "got" => step'[c] = "new"
             /\ step'[c] # "new" \/ pc'[c] \in {"ready", "send"} => copy'[c] # NULL
  <2>1. Leads(c)
    BY NextLeads
  <2>2. pc[c] = "got" /\ pc'[c] = "ready" => step[c] = "synced"
    BY DEF Follow
  <2> QED
    BY <1>3, <2>1, <2>2 DEF FilesTyped, Leads
<1> QED
  BY <1>1, <1>2, <1>4, <1>5 DEF FilesTyped

\* A settled session stays in order when one of its callers takes note of the
\* content, or tells the server.
LEMMA FileStepNoted ==
  ASSUME Typed, FilesInv, NEW c \in Caller, FileStep(c),
         NEW s \in Session, Settled(s)'
  PROVE  Noted(s)'
<1> USE Kinds DEF FilesTyped, Proceed, vars, server, agents
<1>1. FilesTyped /\ pc[c] = "got" /\ sess[c] \in Session
  BY DEF Typed, FilesInv, FileStep, ReadFile, NoteContent, Notify
<1>2. UNCHANGED <<sess, pc>> /\ Alive(s)
  BY DEF Settled, Alive, Writable, FileStep, ReadFile, NoteContent, Notify
<1>3. \A d \in Caller \ {c} : step'[d] = step[d] /\ copy'[d] = copy[d]
  BY <1>1 DEF FileStep, ReadFile, NoteContent, Notify
<1>4. s \notin desynced
  BY DEF Settled, FileStep, ReadFile, NoteContent, Notify
<1>5. Noted(s)
  BY <1>2, <1>4 DEF FilesInv, Settled
<1>6. CASE ReadFile(c)
  <2>1. step[c] = "new" /\ step'[c] = "read"
    BY <1>1, <1>6 DEF ReadFile
  <2>2. NotesOn(s)' = NotesOn(s)
    BY <1>2, <1>3, <2>1 DEF NotesOn, Notifying
  <2>3. UNCHANGED <<doc, openFiles>>
    BY <1>6 DEF ReadFile
  <2>4. \A d \in NotesOn(s) : d # c
    BY <2>1 DEF NotesOn, Notifying
  <2>5. ~Told(c)'
    BY <1>1, <1>2, <2>1 DEF Told
  <2> QED
    BY <1>2, <1>3, <1>5, <2>2, <2>3, <2>4, <2>5 DEF Noted, Told
<1>7. CASE sess[c] # s
  <2>1. UNCHANGED <<doc[s], openFiles[s]>>
    BY <1>1, <1>7 DEF FileStep, ReadFile, NoteContent, Notify
  <2>2. NotesOn(s)' = NotesOn(s) /\ c \notin NotesOn(s)
    BY <1>2, <1>3, <1>7 DEF NotesOn, Notifying
  <2> QED
    BY <1>2, <1>3, <1>5, <1>7, <2>1, <2>2 DEF Noted, Told
<1>8. CASE sess[c] = s /\ NoteContent(c)
  <2>1. /\ step[c] = "read" /\ doc' = doc /\ copy' = copy
        /\ copy[c] \in Content
        /\ openFiles'[s] = copy[c]
        /\ openFiles[s] # NULL => openFiles[s] <= copy[c]
    <3>1. openFiles[s] \in Content \cup {NULL} /\ copy[c] \in Content
      BY <1>1, <1>8 DEF NoteContent
    <3>2. ~(openFiles[s] # NULL /\ openFiles[s] > copy[c])
      BY <1>8 DEF NoteContent, Settled
    <3> QED
      BY <1>1, <1>8, <3>1, <3>2, FilesAssumption DEF NoteContent, Content
  <2>2. step'[c] = IF openFiles[s] = NULL THEN "didOpen"
                   ELSE IF openFiles[s] # copy[c] THEN "didChange" ELSE "synced"
    BY <1>1, <1>8 DEF NoteContent
  <2>3. c \notin NotesOn(s)
    BY <2>1 DEF NotesOn, Notifying
  <2>4. CASE step'[c] = "synced"
    <3>1. NotesOn(s)' = NotesOn(s) /\ openFiles'[s] = openFiles[s]
      BY <1>2, <1>3, <2>1, <2>2, <2>3, <2>4 DEF NotesOn, Notifying
    <3>2. \A d \in Caller : sess'[d] = s /\ Told(d)' => openFiles'[s] # NULL /\ openFiles'[s] >= copy'[d]
      BY <1>2, <1>3, <1>5, <2>1, <2>2, <2>4, <3>1, FilesAssumption
      DEF Noted, Told, Content
    <3> QED
      BY <1>3, <1>5, <2>1, <2>3, <3>1, <3>2 DEF Noted
  <2>5. CASE step'[c] \in {"didOpen", "didChange"}
    <3>1. NotesOn(s)' = NotesOn(s) \cup {c}
      BY <1>2, <1>3, <1>8, <2>5 DEF NotesOn, Notifying
    <3>2. ASSUME NEW d \in Caller, NotesOn(s)' = {d}
          PROVE  copy'[d] = openFiles'[s] /\ (step'[d] = "didChange" => doc'[s] # NULL)
      <4>1. d = c /\ NotesOn(s) = {}
        BY <2>3, <3>1, <3>2
      <4> QED
        BY <1>5, <2>1, <2>2, <4>1 DEF Noted
    <3>3. ASSUME NEW d \in Caller, sess'[d] = s, Told(d)'
          PROVE  openFiles'[s] # NULL /\ openFiles'[s] >= copy'[d]
      <4>1. CASE d = c
        BY <2>1, <4>1, FilesAssumption DEF Content
      <4>2. CASE d # c
        <5>1. Told(d) /\ sess[d] = s
          BY <1>2, <1>3, <3>3, <4>2 DEF Told
        <5>2. openFiles[s] # NULL /\ openFiles[s] >= copy[d]
          BY <1>5, <5>1 DEF Noted
        <5>3. copy[d] \in Content /\ openFiles[s] \in Content
          BY <1>1, <5>1, <5>2 DEF Told
        <5> QED
          BY <2>1, <5>2, <5>3, FilesAssumption DEF Content
      <4> QED
        BY <4>1, <4>2
    <3>4. NotesOn(s)' # {}
      BY <3>1
    <3> QED
      BY <3>2, <3>3, <3>4 DEF Noted
  <2> QED
    BY <2>2, <2>4, <2>5
<1>9. CASE sess[c] = s /\ Notify(c)
  <2>1. /\ UNCHANGED <<openFiles, copy>> /\ Notifying(c) /\ ~Together(c)
        /\ step'[c] = "synced"
        /\ doc' = IF step[c] = "didOpen" \/ doc[s] # NULL
                  THEN [doc EXCEPT ![s] = copy[c]] ELSE doc
    BY <1>1, <1>9 DEF Notify, Settled
  <2>2. NotesOn(s) = {c}
    BY <1>9, <2>1 DEF NotesOn, Together
  <2>3. NotesOn(s)' = {}
    BY <1>2, <1>3, <2>1, <2>2 DEF NotesOn, Notifying
  <2>4. doc'[s] = openFiles'[s]
    BY <1>1, <1>5, <2>1, <2>2 DEF Noted, Notifying
  <2>5. \A d \in Caller : Told(d)' => Told(d)
    BY <1>2, <1>3, <2>1 DEF Told, Notifying
  <2> QED
    BY <1>2, <1>5, <2>1, <2>3, <2>4, <2>5 DEF Noted
<1> QED
  BY <1>6, <1>7, <1>8, <1>9 DEF FileStep

\* Nor do the other steps disturb a settled session: one whose notification was
\* dropped is settled no longer.
LEMMA FollowNoted ==
  ASSUME Typed, Held, FilesInv, Next, Follow, NEW s \in Session, Settled(s)'
  PROVE  Noted(s)'
<1>1. FilesTyped
  BY DEF FilesInv
<1>2. \A c \in Caller : Leads(c)
  BY NextLeads
<1>3. Lasts(s) /\ Alive(s)
  BY NextLasts DEF Lasts, Settled
<1>4. /\ s \notin desynced
      /\ \A c \in Caller : Notifying(c) /\ pc'[c] = "idle" => sess[c] # s
  BY DEF Settled, Follow
<1>5. Noted(s)
  BY <1>3, <1>4 DEF FilesInv, Settled
<1>6. doc'[s] = doc[s] /\ openFiles'[s] = openFiles[s]
  <2>1. doc'[s] = IF Writable(s)' THEN doc[s] ELSE NULL
    BY DEF Follow
  <2>2. ~Writable(s)' => ~Writable(s)
    BY <1>3 DEF Lasts, Settled, Alive, Writable
  <2> QED
    BY <1>1, <2>1, <2>2 DEF FilesTyped, Follow
<1>7. ASSUME NEW c \in Caller
      PROVE  /\ step'[c] = IF pc'[c] = "got" THEN step[c] ELSE "new"
             /\ copy'[c] = IF pc'[c] \in {"got", "ready", "send"}
                           THEN copy[c] ELSE NULL
             /\ pc[c] = "got" /\ pc'[c] = "ready" => step[c] = "synced"
  BY DEF Follow
<1>8. ASSUME NEW c \in Caller
      PROVE  c \in NotesOn(s)' <=> c \in NotesOn(s)
  <2>1. Leads(c)
    BY <1>2
  <2>2. Notifying(c)' => Notifying(c) /\ pc[c] = "got" /\ pc'[c] = "got"
    BY <1>1, <1>7 DEF FilesTyped, Notifying
  <2>3. c \in NotesOn(s) => pc[c] = "got" /\ pc'[c] = "got"
    BY <1>1, <1>4, <1>7, <2>1 DEF FilesTyped, Notifying, NotesOn, Leads
  <2> QED
    BY <1>7, <2>1, <2>2, <2>3 DEF NotesOn, Notifying, Leads
<1>9. NotesOn(s)' = NotesOn(s)
  BY <1>8 DEF NotesOn
<1>10. ASSUME NEW c \in NotesOn(s)
       PROVE  step'[c] = step[c] /\ copy'[c] = copy[c]
  BY <1>1, <1>7, <1>8 DEF FilesTyped, NotesOn, Notifying
<1>11. ASSUME NEW c \in Caller, sess'[c] = s, Told(c)'
       PROVE  sess[c] = s /\ Told(c) /\ copy'[c] = copy[c]
  <2>1. Leads(c)
    BY <1>2
  <2> QED
    BY <1>1, <1>7, <1>11, <2>1 DEF FilesTyped, Told, Leads
<1> QED
  <2>1. \A c \in Caller : NotesOn(s)' = {c} =>
          copy'[c] = openFiles'[s] /\ (step'[c] = "didChange" => doc'[s] # NULL)
    BY <1>5, <1>6, <1>9, <1>10 DEF Noted
  <2>2. \A c \in Caller : sess'[c] = s /\ Told(c)' =>
          openFiles'[s] # NULL /\ openFiles'[s] >= copy'[c]
    BY <1>5, <1>6, <1>11 DEF Noted
  <2> QED
    BY <1>5, <1>6, <1>9, <2>1, <2>2 DEF Noted

\* Every step of LspFiles is one of LspPool, or leaves it alone.
LEMMA FilesSteps == [FilesNext]_allVars => [Next]_vars
  BY DEF FilesNext, FileStep, ReadFile, NoteContent, Notify, Edit, allVars

\* Every step keeps the invariant.
LEMMA NextFiles ==
  Typed /\ Held /\ FilesInv /\ [FilesNext]_allVars => FilesInv'
<1> SUFFICES ASSUME Typed, Held, FilesInv, [FilesNext]_allVars PROVE FilesInv'
  OBVIOUS
<1> USE DEF FilesInv
<1>1. ASSUME NEW c \in Caller, FileStep(c)
      PROVE  FilesInv'
  BY <1>1, FileStepTyped, FileStepNoted
<1>2. CASE Next /\ Follow
  BY <1>2, FollowTyped, FollowNoted
<1>3. CASE Edit
  <2>1. UNCHANGED <<vars, openFiles, doc, step, copy, desynced>>
    BY <1>3 DEF Edit
  <2>2. file' \in Content
    BY <1>3, FilesAssumption DEF Edit, FilesTyped, Content
  <2>3. FilesTyped'
    BY <2>1, <2>2 DEF FilesTyped, Writable, vars, server, agents
  <2>4. ASSUME NEW s \in Session PROVE Settled(s)' = Settled(s) /\ Noted(s)' = Noted(s)
    BY <2>1 DEF Settled, Alive, Noted, NotesOn, Notifying, Told, Writable,
                vars, server, agents
  <2> QED
    BY <2>3, <2>4
<1>4. CASE UNCHANGED allVars
  BY <1>4 DEF FilesTyped, Settled, Alive, Noted, NotesOn, Notifying, Told, Writable,
              allVars, fileVars, vars, server, agents
<1> QED
  BY <1>1, <1>2, <1>3, <1>4 DEF FilesNext

\* A tool's question reaches a server that has the file as the tool read it, or
\* newer, unless it overtakes another tool's notification or the notifications of
\* the session went wrong before: for any number of tools, sessions and edits
\* (session.go:353-393).
THEOREM CurrentAnswers == FairSpec => AnswersAreCurrent
<1>1. ASSUME FilesInv, [FilesNext]_allVars, Typed, Held,
             NEW c \in Caller, pc[c] = "send", pc'[c] = "wait"
      PROVE  \/ doc[sess[c]] \in copy[c]..MaxEdits
             \/ Together(c)
             \/ sess[c] \in desynced
  <2> SUFFICES ASSUME ~Together(c), sess[c] \notin desynced
               PROVE  doc[sess[c]] \in copy[c]..MaxEdits
    OBVIOUS
  <2> PICK s \in Session : s = sess[c]
    BY <1>1, Kinds DEF Typed
  <2>1. Next
    BY <1>1, FilesSteps DEF vars, agents
  <2>2. Settled(s)
    BY <1>1, <2>1, NextLeads DEF Leads, Settled, Alive
  <2>3. Noted(s) /\ FilesTyped
    BY <1>1, <2>2 DEF FilesInv
  <2>4. c \notin NotesOn(s)
    BY <1>1, <2>3 DEF FilesTyped, NotesOn, Notifying
  <2>5. NotesOn(s) = {}
    BY <2>4 DEF NotesOn, Together
  <2>6. doc[s] = openFiles[s] /\ doc[s] # NULL /\ doc[s] >= copy[c]
    BY <1>1, <2>3, <2>5 DEF Noted, Told
  <2>7. doc[s] \in Content /\ copy[c] \in Content
    BY <1>1, <2>3, <2>6 DEF FilesTyped
  <2> QED
    BY <2>6, <2>7, FilesAssumption DEF Content
<1>2. FilesInit => Typed /\ Held /\ FilesInv
  BY InitTyped, InitHeld, InitFiles DEF FilesInit
<1>3. Typed /\ Held /\ FilesInv /\ [FilesNext]_allVars
         => (Typed /\ Held /\ FilesInv)'
  BY NextTyped, NextHeld, NextFiles, FilesSteps
<1> DEFINE Asked == \A c \in Caller : pc[c] = "send" /\ pc'[c] = "wait" =>
                       \/ doc[sess[c]] \in copy[c]..MaxEdits
                       \/ Together(c)
                       \/ sess[c] \in desynced
<1>4. Typed /\ Held /\ FilesInv /\ [FilesNext]_allVars => [Asked]_allVars
  BY <1>1
<1>5. [][Asked]_allVars => AnswersAreCurrent
  BY PTL DEF AnswersAreCurrent
<1> HIDE DEF Asked
<1> QED
  BY <1>2, <1>3, <1>4, <1>5, PTL DEF FairSpec

=============================================================================
