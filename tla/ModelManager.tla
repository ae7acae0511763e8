---------------------------- MODULE ModelManager ----------------------------
(***************************************************************************)
(* internal/modelmanager: the manager that keeps one local llama-server    *)
(* model in VRAM and swaps it on demand.                                   *)
(*                                                                         *)
(* Actors, each a goroutine of the gateway:                                *)
(*   - callers: handler goroutines that call EnsureLoaded, then Complete;  *)
(*   - the swap processor, which serializes doSwap;                        *)
(*   - one watchProcess goroutine per model that was marked resident;      *)
(*   - Shutdown, called once by main.                                      *)
(* llama-server processes are external: they load, bind their port, answer *)
(* and exit when they like; a signal is only recorded.                     *)
(*                                                                         *)
(* Time is abstracted: a wait with a timeout may end either way.  A        *)
(* process identifier stands for one incarnation of a process and is used  *)
(* again only when nothing in the gateway refers to the old one.  Every    *)
(* tier has a port of its own, as in config.yaml.                          *)
(***************************************************************************)
EXTENDS Naturals, Sequences, FiniteSets

CONSTANTS
    Caller,        \* slots for handler goroutines
    Proc,          \* process identifiers
    TierName,      \* tier names a caller may ask for
    Model,         \* the tiers ManagerConfig.Models describes
    Need,          \* VRAMRequirementMiB of each of them
    TotalMiB,      \* TotalVRAMMiB
    NULL           \* Go's nil

ASSUME ModelAssumption ==
    /\ Model \subseteq TierName
    /\ Need \in [Model -> Nat]
    /\ TotalMiB \in Nat

VARIABLES
    resident,      \* Manager.resident
    queue,         \* Manager.swapQueue, a channel of capacity QueueCap
    closed,        \* Manager.done has been closed
    ppc,           \* where the swap processor is
    preq,          \* the request it works on
    pproc,         \* the process it stops or starts
    pres,          \* the outcome it is about to send
    state,         \* what each process does
    sig,           \* the strongest signal each live process was sent
    tierOf,        \* the tier each process was started for
    armed,         \* processes with a watchProcess goroutine
    cpc,           \* where each caller is
    want,          \* the tier each caller is about to queue a request for
    answer,        \* what is in the caller's result channel
    target,        \* the process a caller's completion was sent to
    spc,           \* where Shutdown is
    sproc,         \* the process Shutdown stops
    late,          \* history: processes published after Shutdown looked
    miscleared     \* history: a watcher once cleared another process's entry

managerVars == <<resident, queue, closed>>
processorVars == <<ppc, preq, pproc, pres>>
procVars == <<state, sig, tierOf>>
callerVars == <<cpc, want, answer, target>>
shutdownVars == <<spc, sproc, late>>
vars == <<managerVars, processorVars, procVars, armed, callerVars,
          shutdownVars, miscleared>>

-----------------------------------------------------------------------------

QueueCap == 1
hardCeilingMultiplier == 4

ResidentState == [tier : TierName, proc : Proc, swapping : BOOLEAN]

\* A caller that gave up has left its result channel: nobody owns the request.
SwapRequest == [tier : TierName, owner : Caller \cup {NULL}]

ASSUME NullAssumption ==
    /\ NULL \notin Caller \cup Proc \cup TierName
    /\ NULL \notin ResidentState \cup SwapRequest

\* The configured tiers that ComputeBudget accepts.
Loadable == {t \in Model : Need[t] <= TotalMiB * hardCeilingMultiplier}

Live(p) == state[p] # "dead"

\* A process that was sent SIGKILL keeps its memory and its port until it is
\* gone, but answers nobody.
Answers(p) == state[p] = "serving" /\ sig[p] # "kill"

Healthy(t) == \E p \in Proc : Answers(p) /\ tierOf[p] = t

\* doSwap has started p and not yet published it, nor killed it.
Starting(p) == p = pproc /\ ppc \in {"poll", "publish", "abort"}

ResidentProc == IF resident = NULL THEN NULL ELSE resident.proc

Forgotten(p) ==
    /\ p \notin armed
    /\ p \notin {ResidentProc, pproc, sproc}
    /\ \A c \in Caller : target[c] # p

Strongest(old, new) == IF old = "kill" THEN "kill" ELSE new

\* A signal to a process that is gone does nothing.
Signal(p, s) ==
    sig' = [sig EXCEPT ![p] = IF Live(p) THEN Strongest(@, s) ELSE @]

-----------------------------------------------------------------------------

Init ==
    /\ resident = NULL
    /\ queue = <<>>
    /\ closed = FALSE
    /\ ppc = "idle"
    /\ preq = NULL
    /\ pproc = NULL
    /\ pres = "none"
    /\ state = [p \in Proc |-> "dead"]
    /\ sig = [p \in Proc |-> "none"]
    /\ tierOf = [p \in Proc |-> NULL]
    /\ armed = {}
    /\ cpc = [c \in Caller |-> "idle"]
    /\ want = [c \in Caller |-> NULL]
    /\ answer = [c \in Caller |-> "none"]
    /\ target = [c \in Caller |-> NULL]
    /\ spc = "running"
    /\ sproc = NULL
    /\ late = {}
    /\ miscleared = FALSE

-----------------------------------------------------------------------------
(* Callers: EnsureLoaded, then Complete.                                    *)

Leave(c) ==
    /\ cpc' = [cpc EXCEPT ![c] = "idle"]
    /\ want' = [want EXCEPT ![c] = NULL]
    /\ answer' = [answer EXCEPT ![c] = "none"]
    /\ target' = [target EXCEPT ![c] = NULL]

FastPath(t) ==
    /\ resident # NULL
    /\ resident.tier = t
    /\ ~resident.swapping

EnsureLoaded(c, t) ==
    /\ cpc[c] = "idle"
    /\ cpc' = [cpc EXCEPT ![c] = IF FastPath(t) THEN "loaded" ELSE "enqueue"]
    /\ want' = [want EXCEPT ![c] = IF FastPath(t) THEN NULL ELSE t]
    /\ UNCHANGED <<managerVars, processorVars, procVars, armed, answer, target,
                   shutdownVars, miscleared>>

\* Defect: the capacity of the channel is off by one.
EnqueueOffByOne(c) ==
    /\ cpc[c] = "enqueue"
    /\ Len(queue) <= QueueCap
    /\ queue' = Append(queue, [tier |-> want[c], owner |-> c])
    /\ cpc' = [cpc EXCEPT ![c] = "waiting"]
    /\ want' = [want EXCEPT ![c] = NULL]
    /\ UNCHANGED <<resident, closed, processorVars, procVars, armed, answer,
                   target, shutdownVars, miscleared>>

Enqueue(c) ==
    /\ cpc[c] = "enqueue"
    /\ Len(queue) < QueueCap
    /\ queue' = Append(queue, [tier |-> want[c], owner |-> c])
    /\ cpc' = [cpc EXCEPT ![c] = "waiting"]
    /\ want' = [want EXCEPT ![c] = NULL]
    /\ UNCHANGED <<resident, closed, processorVars, procVars, armed, answer,
                   target, shutdownVars, miscleared>>

QueueFull(c) ==
    /\ cpc[c] = "enqueue"
    /\ Len(queue) >= QueueCap
    /\ Leave(c)
    /\ UNCHANGED <<managerVars, processorVars, procVars, armed, shutdownVars,
                   miscleared>>

Receive(c) ==
    /\ cpc[c] = "waiting"
    /\ \/ /\ answer[c] = "loaded"
          /\ cpc' = [cpc EXCEPT ![c] = "loaded"]
          /\ answer' = [answer EXCEPT ![c] = "none"]
          /\ UNCHANGED <<want, target>>
       \/ /\ answer[c] = "error"
          /\ Leave(c)
    /\ UNCHANGED <<managerVars, processorVars, procVars, armed, shutdownVars,
                   miscleared>>

Disown(req, c) == IF req.owner = c THEN [req EXCEPT !.owner = NULL] ELSE req

\* ctx.Done: the request stays in the queue or in work, its answer is lost.
CtxDone(c) ==
    /\ cpc[c] = "waiting"
    /\ Leave(c)
    /\ queue' = [i \in DOMAIN queue |-> Disown(queue[i], c)]
    /\ preq' = IF preq = NULL THEN NULL ELSE Disown(preq, c)
    /\ UNCHANGED <<resident, closed, ppc, pproc, pres, procVars, armed,
                   shutdownVars, miscleared>>

\* Complete looks the resident up again: it need not be the tier ensured.
Complete(c) ==
    /\ cpc[c] = "loaded"
    /\ \/ /\ resident = NULL
          /\ Leave(c)
       \/ /\ resident # NULL
          /\ cpc' = [cpc EXCEPT ![c] = "sent"]
          /\ target' = [target EXCEPT ![c] = resident.proc]
          /\ UNCHANGED <<want, answer>>
    /\ UNCHANGED <<managerVars, processorVars, procVars, armed, shutdownVars,
                   miscleared>>

\* The completion is answered, fails, or runs into the client's timeout.
Completed(c) ==
    /\ cpc[c] = "sent"
    /\ Leave(c)
    /\ UNCHANGED <<managerVars, processorVars, procVars, armed, shutdownVars,
                   miscleared>>

CallerStep(c) ==
    \/ \E t \in TierName : EnsureLoaded(c, t)
    \/ Enqueue(c) \/ QueueFull(c) \/ Receive(c) \/ CtxDone(c)
    \/ Complete(c) \/ Completed(c)

-----------------------------------------------------------------------------
(* The swap processor.                                                      *)

Goto(l) == ppc' = l

Finish(outcome) == Goto("reply") /\ pres' = outcome /\ pproc' = NULL

TakeRequest ==
    /\ ppc = "idle"
    /\ queue # <<>>
    /\ preq' = Head(queue)
    /\ queue' = Tail(queue)
    /\ Goto("begin")
    /\ UNCHANGED <<resident, closed, pproc, pres, procVars, armed, callerVars,
                   shutdownVars, miscleared>>

ProcessorExit ==
    /\ ppc = "idle"
    /\ closed
    /\ Goto("exited")
    /\ UNCHANGED <<managerVars, preq, pproc, pres, procVars, armed, callerVars,
                   shutdownVars, miscleared>>

\* Defect: the refusal comes after the resident was marked.
RejectSwapLate ==
    /\ ppc = "begin"
    /\ preq.tier \notin Loadable
    /\ resident' = IF resident = NULL THEN NULL
                   ELSE [resident EXCEPT !.swapping = TRUE]
    /\ Finish("error")
    /\ UNCHANGED <<queue, closed, preq, procVars, armed, callerVars,
                   shutdownVars, miscleared>>

\* An unknown tier, or one ComputeBudget refuses.
RejectSwap ==
    /\ ppc = "begin"
    /\ preq.tier \notin Loadable
    /\ Finish("error")
    /\ UNCHANGED <<managerVars, preq, procVars, armed, callerVars,
                   shutdownVars, miscleared>>

\* Defect: the resident is not marked.
MarkNothing ==
    /\ ppc = "begin"
    /\ preq.tier \in Loadable
    /\ Goto("stop")
    /\ UNCHANGED <<managerVars, preq, pproc, pres, procVars, armed,
                   callerVars, shutdownVars, miscleared>>

MarkSwapping ==
    /\ ppc = "begin"
    /\ preq.tier \in Loadable
    /\ resident' = IF resident = NULL THEN NULL
                   ELSE [resident EXCEPT !.swapping = TRUE]
    /\ Goto("stop")
    /\ UNCHANGED <<queue, closed, preq, pproc, pres, procVars, armed,
                   callerVars, shutdownVars, miscleared>>

NothingToStop ==
    /\ ppc = "stop"
    /\ resident = NULL
    /\ Goto("start")
    /\ UNCHANGED <<managerVars, preq, pproc, pres, procVars, armed, callerVars,
                   shutdownVars, miscleared>>

StopResident ==
    /\ ppc = "stop"
    /\ resident # NULL
    /\ pproc' = resident.proc
    /\ Signal(resident.proc, "term")
    /\ Goto("stopping")
    /\ UNCHANGED <<managerVars, preq, pres, state, tierOf, armed, callerVars,
                   shutdownVars, miscleared>>

\* Defect: no SIGKILL after the timeout.
ResidentStoppedNoKill ==
    /\ ppc = "stopping"
    /\ Goto("clear")
    /\ UNCHANGED <<managerVars, preq, pproc, pres, procVars, armed,
                   callerVars, shutdownVars, miscleared>>

\* killProcess returns because the process is gone, or sends SIGKILL after the
\* timeout and returns without waiting for it.
ResidentStopped ==
    /\ ppc = "stopping"
    /\ Signal(pproc, "kill")
    /\ Goto("clear")
    /\ UNCHANGED <<managerVars, preq, pproc, pres, state, tierOf, armed,
                   callerVars, shutdownVars, miscleared>>

ClearResident ==
    /\ ppc = "clear"
    /\ resident' = NULL
    /\ pproc' = NULL
    /\ Goto("start")
    /\ UNCHANGED <<queue, closed, preq, pres, procVars, armed, callerVars,
                   shutdownVars, miscleared>>

StartFails ==
    /\ ppc = "start"
    /\ Finish("error")
    /\ UNCHANGED <<managerVars, preq, procVars, armed, callerVars,
                   shutdownVars, miscleared>>

StartProcess(p) ==
    /\ ppc = "start"
    /\ ~Live(p)
    /\ Forgotten(p)
    /\ pproc' = p
    /\ state' = [state EXCEPT ![p] = "loading"]
    /\ tierOf' = [tierOf EXCEPT ![p] = preq.tier]
    /\ Goto("poll")
    /\ UNCHANGED <<managerVars, preq, pres, sig, armed, callerVars, shutdownVars,
                   miscleared>>

\* GET /health on the tier's port: whoever holds the port answers.
HealthOK ==
    /\ ppc = "poll"
    /\ Healthy(preq.tier)
    /\ Goto("publish")
    /\ UNCHANGED <<managerVars, preq, pproc, pres, procVars, armed, callerVars,
                   shutdownVars, miscleared>>

HealthTimeout ==
    /\ ppc = "poll"
    /\ Signal(pproc, "term")
    /\ Goto("abort")
    /\ UNCHANGED <<managerVars, preq, pproc, pres, state, tierOf, armed,
                   callerVars, shutdownVars, miscleared>>

\* Defect: a process that failed its health check is not killed.
AbortedNoKill ==
    /\ ppc = "abort"
    /\ Goto("aborted")
    /\ UNCHANGED <<managerVars, preq, pproc, pres, procVars, armed, callerVars,
                   shutdownVars, miscleared>>

Aborted ==
    /\ ppc = "abort"
    /\ Signal(pproc, "kill")
    /\ Goto("aborted")
    /\ UNCHANGED <<managerVars, preq, pproc, pres, state, tierOf, armed,
                   callerVars, shutdownVars, miscleared>>

\* Whatever is resident by then.
ClearAborted ==
    /\ ppc = "aborted"
    /\ resident' = NULL
    /\ Finish("error")
    /\ UNCHANGED <<queue, closed, preq, procVars, armed, callerVars,
                   shutdownVars, miscleared>>

\* Shutdown, which stops what is resident once, has already looked.
Looked == spc \in {"stopping", "returned"}

NoteLate(p) ==
    /\ late' = IF Looked THEN late \cup {p} ELSE late
    /\ UNCHANGED <<spc, sproc>>

\* Mark resident.
Publish ==
    /\ ppc = "publish"
    /\ resident' = [tier |-> preq.tier, proc |-> pproc, swapping |-> FALSE]
    /\ NoteLate(pproc)
    /\ Goto("watch")
    /\ UNCHANGED <<queue, closed, preq, pproc, pres, procVars, armed, callerVars,
                   miscleared>>

\* Defect: no watcher is started.
WatchNothing ==
    /\ ppc = "watch"
    /\ Finish("loaded")
    /\ UNCHANGED <<managerVars, preq, procVars, armed, callerVars, shutdownVars,
                   miscleared>>

\* go watchProcess: by now the model may have died, the entry may have been
\* cleared, and Shutdown may have stopped the process.
Watch ==
    /\ ppc = "watch"
    /\ armed' = armed \cup {pproc}
    /\ Finish("loaded")
    /\ UNCHANGED <<managerVars, preq, procVars, callerVars, shutdownVars,
                   miscleared>>

\* Defect: an error is not sent to the result channel.
ReplySuccessOnly ==
    /\ ppc = "reply"
    /\ answer' = IF preq.owner = NULL \/ pres = "error" THEN answer
                 ELSE [answer EXCEPT ![preq.owner] = pres]
    /\ preq' = NULL
    /\ pres' = "none"
    /\ Goto("idle")
    /\ UNCHANGED <<managerVars, pproc, procVars, armed, cpc, want, target,
                   shutdownVars, miscleared>>

Reply ==
    /\ ppc = "reply"
    /\ answer' = IF preq.owner = NULL THEN answer
                 ELSE [answer EXCEPT ![preq.owner] = pres]
    /\ preq' = NULL
    /\ pres' = "none"
    /\ Goto("idle")
    /\ UNCHANGED <<managerVars, pproc, procVars, armed, cpc, want, target,
                   shutdownVars, miscleared>>

ProcessorStep ==
    \/ TakeRequest \/ ProcessorExit
    \/ RejectSwap \/ MarkSwapping
    \/ NothingToStop \/ StopResident \/ ResidentStopped \/ ClearResident
    \/ StartFails \/ \E p \in Proc : StartProcess(p)
    \/ HealthOK \/ HealthTimeout \/ Aborted \/ ClearAborted
    \/ Publish \/ Watch \/ Reply

-----------------------------------------------------------------------------
(* watchProcess compares tiers, not processes.                              *)

WatchProcess(p) ==
    /\ p \in armed
    /\ ~Live(p)
    /\ armed' = armed \ {p}
    /\ IF resident # NULL /\ resident.tier = tierOf[p]
       THEN /\ resident' = NULL
            /\ miscleared' = (miscleared \/ resident.proc # p)
       ELSE UNCHANGED <<resident, miscleared>>
    /\ UNCHANGED <<queue, closed, processorVars, procVars, callerVars,
                   shutdownVars>>

-----------------------------------------------------------------------------
(* Shutdown.                                                                *)

CloseDone ==
    /\ spc = "running"
    /\ closed' = TRUE
    /\ spc' = "closed"
    /\ UNCHANGED <<resident, queue, processorVars, procVars, armed, callerVars,
                   sproc, late, miscleared>>

ShutdownKill ==
    /\ spc = "closed"
    /\ \/ /\ resident = NULL
          /\ spc' = "returned"
          /\ UNCHANGED <<sproc, sig>>
       \/ /\ resident # NULL
          /\ spc' = "stopping"
          /\ sproc' = resident.proc
          /\ Signal(resident.proc, "term")
    /\ UNCHANGED <<managerVars, processorVars, state, tierOf, armed,
                   callerVars, late, miscleared>>

\* Defect: Shutdown asks the process to stop and does not see to it.
ShutdownReturnNoKill ==
    /\ spc = "stopping"
    /\ spc' = "returned"
    /\ sproc' = NULL
    /\ UNCHANGED <<managerVars, processorVars, procVars, armed, callerVars,
                   late, miscleared>>

ShutdownReturn ==
    /\ spc = "stopping"
    /\ Signal(sproc, "kill")
    /\ spc' = "returned"
    /\ sproc' = NULL
    /\ UNCHANGED <<managerVars, processorVars, state, tierOf, armed,
                   callerVars, late, miscleared>>

ShutdownStep == CloseDone \/ ShutdownKill \/ ShutdownReturn

-----------------------------------------------------------------------------
(* llama-server, external.                                                  *)

\* A loaded model answers once its port is free to bind.
Bind(p) ==
    /\ state[p] = "loading"
    /\ sig[p] # "kill"
    /\ \A q \in Proc : state[q] = "serving" => tierOf[q] # tierOf[p]
    /\ state' = [state EXCEPT ![p] = "serving"]
    /\ UNCHANGED <<managerVars, processorVars, sig, tierOf, armed, callerVars,
                   shutdownVars, miscleared>>

\* It exits on a signal, on a bind error, or by crashing.
Exit(p) ==
    /\ Live(p)
    /\ state' = [state EXCEPT ![p] = "dead"]
    /\ sig' = [sig EXCEPT ![p] = "none"]
    /\ UNCHANGED <<managerVars, processorVars, tierOf, armed, callerVars,
                   shutdownVars, miscleared>>

-----------------------------------------------------------------------------

Next ==
    \/ \E c \in Caller : CallerStep(c)
    \/ ProcessorStep
    \/ \E p \in Proc : WatchProcess(p) \/ Bind(p) \/ Exit(p)
    \/ ShutdownStep

Spec == Init /\ [][Next]_vars

(* The Go scheduler runs every goroutine that can run, and every wait in    *)
(* killProcess and pollHealth has a timeout, so the processor, the watchers *)
(* and a caller whose answer has arrived are weakly fair.  Nothing makes a  *)
(* caller's context end, a caller start, main shut down, or llama-server do *)
(* anything.                                                                *)
Fairness ==
    /\ WF_vars(ProcessorStep)
    /\ \A p \in Proc : WF_vars(WatchProcess(p))
    /\ \A c \in Caller : WF_vars(Receive(c))

FairSpec == Spec /\ Fairness

-----------------------------------------------------------------------------
(* Properties.                                                              *)

TypeOK ==
    /\ resident \in ResidentState \cup {NULL}
    /\ queue \in Seq(SwapRequest)
    /\ Len(queue) <= QueueCap
    /\ closed \in BOOLEAN
    /\ ppc \in {"idle", "begin", "stop", "stopping", "clear", "start", "poll",
                "publish", "watch", "abort", "aborted", "reply", "exited"}
    /\ preq \in SwapRequest \cup {NULL}
    /\ pproc \in Proc \cup {NULL}
    /\ pres \in {"none", "loaded", "error"}
    /\ state \in [Proc -> {"dead", "loading", "serving"}]
    /\ sig \in [Proc -> {"none", "term", "kill"}]
    /\ tierOf \in [Proc -> TierName \cup {NULL}]
    /\ armed \subseteq Proc
    /\ cpc \in [Caller -> {"idle", "enqueue", "waiting", "loaded", "sent"}]
    /\ want \in [Caller -> TierName \cup {NULL}]
    /\ answer \in [Caller -> {"none", "loaded", "error"}]
    /\ target \in [Caller -> Proc \cup {NULL}]
    /\ spc \in {"running", "closed", "stopping", "returned"}
    /\ sproc \in Proc \cup {NULL}
    /\ late \subseteq Proc
    /\ miscleared \in BOOLEAN

\* A swap that marked the resident always goes on to replace the entry: no
\* refusal or failure leaves a resident whose Swapping flag is stuck, which
\* the fast path of EnsureLoaded would then never accept again.
SwappingIsTransient ==
    resident # NULL /\ resident.swapping => ppc \in {"stop", "stopping", "clear"}

\* While the gateway is not shutting down, a resident whose process has been
\* told to stop is marked Swapping, so no caller is handed it by the fast path.
SignalledIsMarked ==
    resident # NULL /\ sig[resident.proc] # "none"
        => resident.swapping \/ spc \in {"stopping", "returned"}

\* Shutdown leaves no llama-server behind that was running when it looked, even
\* when a swap is replacing the resident meanwhile: after it returned (and unless
\* a late watcher cleared the entry of another process) only a process that
\* doSwap is starting, or that it published later, can still be running.
ShutdownStopsWhatItSaw ==
    spc = "returned" /\ ~miscleared =>
        \A p \in Proc : Live(p) /\ sig[p] # "kill" => Starting(p) \/ p \in late

\* Every resident process has its own watcher, or doSwap is about to start it,
\* whatever watchers of earlier processes of the same tier have done: its death
\* cannot go unnoticed (swap.go:104-107).
ResidentWatched ==
    resident # NULL =>
        \/ resident.proc \in armed
        \/ ppc = "watch" /\ resident.proc = pproc

\* "only one model loaded at a time" (README.md:67), not counting processes that
\* were sent SIGKILL and are about to go.  The code does not keep this.
OnlyOneLoaded ==
    \A p, q \in Proc :
        (Live(p) /\ sig[p] # "kill" /\ Live(q) /\ sig[q] # "kill") => p = q

\* Unless a late watcher cleared the entry of another process (watchProcess
\* compares tiers and not processes), the gateway never has two llama-servers
\* that were not killed: neither failed starts, nor crashes, nor shutdown, nor
\* queued swaps make it lose one.
OneModelUnlessMiscleared == ~miscleared => OnlyOneLoaded

\* Unless a late watcher cleared the entry of another process, the health poll
\* of doSwap is answered by the process it started, not by an earlier one that
\* still holds the port.
HealthIsItsOwn ==
    ~miscleared /\ ppc = "poll" /\ Healthy(preq.tier) => Answers(pproc)

\* The places a caller's request or its answer can be.
Places(c) ==
    {<<"queue", i>> : i \in {j \in DOMAIN queue : queue[j].owner = c}}
        \cup (IF preq # NULL /\ preq.owner = c THEN {<<"work", 0>>} ELSE {})
        \cup (IF answer[c] # "none" THEN {<<"answer", 0>>} ELSE {})

\* A waiting caller's request is in exactly one place (queued, in work or
\* answered), and a caller that is not waiting has left nothing behind that a
\* later call of it could take for its own answer.
RequestConserved ==
    \A c \in Caller :
        Cardinality(Places(c)) = IF cpc[c] = "waiting" THEN 1 ELSE 0

\* Every caller waiting for a swap gets an answer or gives up, however many
\* swaps fail and crash meanwhile, unless the manager was shut down.
WaitingResolved ==
    \A c \in Caller : cpc[c] = "waiting" ~> (cpc[c] # "waiting" \/ closed)

\* A resident whose process died does not stay resident.
DeadResidentCleared ==
    \A p \in Proc :
        (ResidentProc = p /\ ~Live(p)) ~> ~(ResidentProc = p /\ ~Live(p))

=============================================================================
