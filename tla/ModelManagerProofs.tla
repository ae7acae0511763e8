------------------------- MODULE ModelManagerProofs -------------------------
(***************************************************************************)
(* Theorems about ModelManager for every set of callers, processes, tiers  *)
(* and models.  The inductive invariant IInv says where the identity of a  *)
(* running process is remembered: in the resident entry, or in the local   *)
(* variable of doSwap between startProcess and setResident.                *)
(***************************************************************************)
EXTENDS ModelManager, FiniteSetTheorems, TLAPS

-----------------------------------------------------------------------------
(* Types, and the local variables each program counter can rely on.         *)

Shape ==
    /\ ppc \notin {"idle", "exited"} => preq # NULL
    /\ ppc \in {"stopping", "clear", "poll", "publish", "watch", "abort"}
          => pproc # NULL
    /\ spc = "stopping" => sproc # NULL
    /\ \A c \in Caller : cpc[c] = "enqueue" => want[c] # NULL

TypeInv == TypeOK /\ Shape

\* The initial state satisfies the type invariant.
LEMMA InitTypeInv == Init => TypeInv
<1> SUFFICES ASSUME Init PROVE TypeInv
  OBVIOUS
<1>1. queue \in Seq(SwapRequest) /\ Len(queue) <= QueueCap
  BY DEF Init, QueueCap
<1> QED
  BY <1>1 DEF Init, TypeInv, TypeOK, Shape

\* What a caller does keeps the types.
LEMMA CallerTypeInv ==
  ASSUME TypeInv, NEW c \in Caller, CallerStep(c)
  PROVE  TypeInv'
<1> USE DEF managerVars, processorVars, procVars, callerVars, shutdownVars
<1>1. ASSUME NEW t \in TierName, EnsureLoaded(c, t)
      PROVE  TypeInv'
  BY <1>1, NullAssumption DEF TypeInv, TypeOK, Shape, EnsureLoaded
<1>2. CASE Enqueue(c)
  <2>1. want[c] \in TierName
    BY <1>2 DEF TypeInv, TypeOK, Shape, Enqueue
  <2>2. queue' \in Seq(SwapRequest) /\ Len(queue') <= QueueCap
    BY <1>2, <2>1 DEF TypeInv, TypeOK, Enqueue, QueueCap, SwapRequest
  <2> QED
    BY <1>2, <2>2 DEF TypeInv, TypeOK, Shape, Enqueue
<1>3. CASE QueueFull(c)
  BY <1>3 DEF TypeInv, TypeOK, Shape, QueueFull, Leave
<1>4. CASE Receive(c)
  BY <1>4 DEF TypeInv, TypeOK, Shape, Receive, Leave
<1>5. CASE CtxDone(c)
  <2>1. \A req \in SwapRequest : Disown(req, c) \in SwapRequest
    BY DEF Disown, SwapRequest
  <2>2. queue' \in Seq(SwapRequest) /\ Len(queue') = Len(queue)
    BY <1>5, <2>1 DEF TypeInv, TypeOK, CtxDone
  <2>3. preq' \in SwapRequest \cup {NULL} /\ (preq # NULL => preq' # NULL)
    BY <1>5, <2>1, NullAssumption DEF TypeInv, TypeOK, CtxDone
  <2> QED
    BY <1>5, <2>2, <2>3 DEF TypeInv, TypeOK, Shape, CtxDone, Leave
<1>6. CASE Complete(c)
  <2>1. resident # NULL => resident.proc \in Proc
    BY DEF TypeInv, TypeOK, ResidentState
  <2>2. /\ cpc' \in [Caller -> {"idle", "enqueue", "waiting", "loaded", "sent"}]
        /\ want' \in [Caller -> TierName \cup {NULL}]
        /\ answer' \in [Caller -> {"none", "loaded", "error"}]
        /\ target' \in [Caller -> Proc \cup {NULL}]
    BY <1>6, <2>1 DEF TypeInv, TypeOK, Complete, Leave
  <2>3. \A d \in Caller : cpc'[d] = "enqueue" => want'[d] # NULL
    BY <1>6, <2>1 DEF TypeInv, TypeOK, Shape, Complete, Leave
  <2>4. UNCHANGED <<managerVars, processorVars, procVars, armed, shutdownVars,
                    miscleared>>
    BY <1>6 DEF Complete
  <2> QED
    BY <2>2, <2>3, <2>4 DEF TypeInv, TypeOK, Shape
<1>7. CASE Completed(c)
  BY <1>7 DEF TypeInv, TypeOK, Shape, Completed, Leave
<1> QED
  BY <1>1, <1>2, <1>3, <1>4, <1>5, <1>6, <1>7 DEF CallerStep

\* What the swap processor does keeps the types.
LEMMA ProcessorTypeInv ==
  ASSUME TypeInv, ProcessorStep
  PROVE  TypeInv'
<1> USE DEF managerVars, processorVars, procVars, callerVars, shutdownVars
<1>1. CASE TakeRequest
  <2>1. Head(queue) \in SwapRequest /\ Tail(queue) \in Seq(SwapRequest)
    BY <1>1 DEF TypeInv, TypeOK, TakeRequest
  <2>2. Len(Tail(queue)) <= QueueCap
    BY <1>1 DEF TypeInv, TypeOK, TakeRequest, QueueCap
  <2>3. Head(queue) # NULL
    BY <2>1, NullAssumption
  <2> QED
    BY <1>1, <2>1, <2>2, <2>3 DEF TypeInv, TypeOK, Shape, TakeRequest, Goto
<1>2. CASE ProcessorExit
  BY <1>2 DEF TypeInv, TypeOK, Shape, ProcessorExit, Goto
<1>3. CASE RejectSwap
  BY <1>3 DEF TypeInv, TypeOK, Shape, RejectSwap, Finish, Goto
<1>4. CASE MarkSwapping
  <2>1. resident' \in ResidentState \cup {NULL}
    BY <1>4 DEF TypeInv, TypeOK, MarkSwapping, ResidentState
  <2> QED
    BY <1>4, <2>1 DEF TypeInv, TypeOK, Shape, MarkSwapping, Goto
<1>5. CASE NothingToStop
  BY <1>5 DEF TypeInv, TypeOK, Shape, NothingToStop, Goto
<1>6. CASE StopResident
  <2>1. resident.proc \in Proc
    BY <1>6 DEF TypeInv, TypeOK, StopResident, ResidentState
  <2> QED
    BY <1>6, <2>1, NullAssumption
    DEF TypeInv, TypeOK, Shape, StopResident, Goto, Signal, Strongest
<1>7. CASE ResidentStopped
  BY <1>7 DEF TypeInv, TypeOK, Shape, ResidentStopped, Goto, Signal, Strongest
<1>8. CASE ClearResident
  BY <1>8 DEF TypeInv, TypeOK, Shape, ClearResident, Goto
<1>9. CASE StartFails
  BY <1>9 DEF TypeInv, TypeOK, Shape, StartFails, Finish, Goto
<1>10. ASSUME NEW p \in Proc, StartProcess(p)
       PROVE  TypeInv'
  <2>1. preq.tier \in TierName
    BY <1>10 DEF TypeInv, TypeOK, Shape, StartProcess, SwapRequest
  <2> QED
    BY <1>10, <2>1, NullAssumption
    DEF TypeInv, TypeOK, Shape, StartProcess, Goto
<1>11. CASE HealthOK
  BY <1>11 DEF TypeInv, TypeOK, Shape, HealthOK, Goto
<1>12. CASE HealthTimeout
  BY <1>12 DEF TypeInv, TypeOK, Shape, HealthTimeout, Goto, Signal, Strongest
<1>13. CASE Aborted
  BY <1>13 DEF TypeInv, TypeOK, Shape, Aborted, Goto, Signal, Strongest
<1>14. CASE Publish
  <2>1. preq.tier \in TierName /\ pproc \in Proc
    BY <1>14 DEF TypeInv, TypeOK, Shape, Publish, SwapRequest
  <2>2. resident' \in ResidentState
    BY <1>14, <2>1 DEF Publish, ResidentState
  <2> QED
    BY <1>14, <2>1, <2>2
    DEF TypeInv, TypeOK, Shape, Publish, NoteLate, Goto
<1>15. CASE Reply
  BY <1>15 DEF TypeInv, TypeOK, Shape, Reply, Goto, SwapRequest
<1>16. CASE ClearAborted
  BY <1>16 DEF TypeInv, TypeOK, Shape, ClearAborted, Finish, Goto
<1>17. CASE Watch
  BY <1>17 DEF TypeInv, TypeOK, Shape, Watch, Finish, Goto
<1> QED
  BY <1>1, <1>2, <1>3, <1>4, <1>5, <1>6, <1>7, <1>8, <1>9, <1>10, <1>11,
     <1>12, <1>13, <1>14, <1>15, <1>16, <1>17 DEF ProcessorStep

\* Every step keeps the types.
LEMMA NextTypeInv == TypeInv /\ [Next]_vars => TypeInv'
<1> SUFFICES ASSUME TypeInv, [Next]_vars PROVE TypeInv'
  OBVIOUS
<1> USE DEF managerVars, processorVars, procVars, callerVars, shutdownVars
<1>1. ASSUME NEW c \in Caller, CallerStep(c)
      PROVE  TypeInv'
  BY <1>1, CallerTypeInv
<1>2. CASE ProcessorStep
  BY <1>2, ProcessorTypeInv
<1>3. ASSUME NEW p \in Proc, WatchProcess(p)
      PROVE  TypeInv'
  <2>1. miscleared' \in BOOLEAN
    BY <1>3, Zenon DEF TypeInv, TypeOK, WatchProcess
  <2>2. resident' \in ResidentState \cup {NULL} /\ armed' \subseteq Proc
    BY <1>3 DEF TypeInv, TypeOK, WatchProcess
  <2> QED
    BY <1>3, <2>1, <2>2 DEF TypeInv, TypeOK, Shape, WatchProcess
<1>4. ASSUME NEW p \in Proc, Bind(p)
      PROVE  TypeInv'
  BY <1>4 DEF TypeInv, TypeOK, Shape, Bind
<1>5. ASSUME NEW p \in Proc, Exit(p)
      PROVE  TypeInv'
  BY <1>5 DEF TypeInv, TypeOK, Shape, Exit
<1>6. CASE ShutdownStep
  <2>1. CASE CloseDone
    BY <2>1 DEF TypeInv, TypeOK, Shape, CloseDone
  <2>2. CASE ShutdownKill
    <3>1. resident # NULL => resident.proc \in Proc
      BY DEF TypeInv, TypeOK, ResidentState
    <3> QED
      BY <2>2, <3>1, NullAssumption
      DEF TypeInv, TypeOK, Shape, ShutdownKill, Signal, Strongest
  <2>3. CASE ShutdownReturn
    BY <2>3 DEF TypeInv, TypeOK, Shape, ShutdownReturn, Signal, Strongest
  <2> QED
    BY <1>6, <2>1, <2>2, <2>3 DEF ShutdownStep
<1>7. CASE UNCHANGED vars
  BY <1>7 DEF TypeInv, TypeOK, Shape, vars
<1> QED
  BY <1>1, <1>2, <1>3, <1>4, <1>5, <1>6, <1>7 DEF Next

\* Type correctness of the manager, with what each program counter implies
\* about the local variables of doSwap and Shutdown.
THEOREM TypeCorrect == Spec => []TypeOK
<1>1. TypeInv => TypeOK
  BY DEF TypeInv
<1> QED
  BY <1>1, InitTypeInv, NextTypeInv, PTL DEF Spec

-----------------------------------------------------------------------------
(* The swap invariant.                                                      *)

\* What is resident in each phase of doSwap.
Phase ==
    /\ ppc \in {"start", "poll", "publish", "abort", "aborted"} => resident = NULL
    /\ ppc \in {"stopping", "clear", "watch"} /\ resident # NULL
          => resident.proc = pproc
    /\ resident # NULL =>
          (resident.swapping <=> ppc \in {"stop", "stopping", "clear"})
    /\ ppc \in {"poll", "publish", "abort"} => tierOf[pproc] = preq.tier
    /\ resident # NULL => tierOf[resident.proc] = resident.tier
    /\ ResidentWatched

\* Who has been told to stop.
Signals ==
    /\ \A p \in Proc : ~Live(p) => sig[p] = "none"
    /\ ppc = "clear" => ~Live(pproc) \/ sig[pproc] = "kill"
    /\ ppc \in {"poll", "publish"} => sproc # pproc /\ sig[pproc] = "none"
    /\ SignalledIsMarked

\* A process that was not killed is remembered somewhere.
Tracked ==
    ~miscleared =>
        \A p \in Proc :
            Live(p) /\ sig[p] # "kill" =>
                \/ resident # NULL /\ resident.proc = p
                \/ Starting(p)

\* What Shutdown has yet to stop, and what it did not see.
Seen ==
    ~miscleared /\ resident # NULL =>
        /\ spc = "stopping" => resident.proc \in {sproc} \cup late
        /\ spc = "returned" =>
              \/ resident.proc \in late
              \/ ~Live(resident.proc)
              \/ sig[resident.proc] = "kill"

SwapInv == Phase /\ Signals /\ Tracked /\ Seen

IInv == TypeInv /\ SwapInv

\* Nothing runs initially.
LEMMA InitSwapInv == Init => SwapInv
  BY DEF Init, SwapInv, Phase, Signals, Tracked, Seen, Starting, Live,
         ResidentWatched, SignalledIsMarked

\* Callers read the manager's state and write only the queue.
LEMMA CallerSwapInv ==
  ASSUME IInv, NEW c \in Caller, CallerStep(c)
  PROVE  SwapInv'
<1> USE DEF managerVars, processorVars, procVars, callerVars, shutdownVars
<1>1. UNCHANGED <<resident, ppc, pproc, procVars, armed, shutdownVars,
                  miscleared>>
  BY DEF CallerStep, EnsureLoaded, Enqueue, QueueFull, Receive, CtxDone,
         Complete, Completed
<1>2. ppc \in {"poll", "publish", "abort"} => preq'.tier = preq.tier
  <2>1. CASE CtxDone(c)
    BY <2>1, NullAssumption
    DEF IInv, TypeInv, TypeOK, Shape, CtxDone, Disown, SwapRequest
  <2>2. CASE ~CtxDone(c)
    BY <2>2 DEF CallerStep, EnsureLoaded, Enqueue, QueueFull, Receive,
                Complete, Completed
  <2> QED
    BY <2>1, <2>2
<1> QED
  BY <1>1, <1>2
  DEF IInv, SwapInv, Phase, Signals, Tracked, Seen, Starting, Live,
      ResidentWatched, SignalledIsMarked

\* The processor hands the identity of a process from one holder to the next.
LEMMA ProcessorSwapInv ==
  ASSUME IInv, ProcessorStep
  PROVE  SwapInv'
<1> USE DEF managerVars, processorVars, procVars, callerVars, shutdownVars,
            Goto, Starting, Live, ResidentWatched, SignalledIsMarked
<1>a. TypeInv /\ TypeOK /\ Shape /\ Phase /\ Signals /\ Tracked /\ Seen
  BY DEF IInv, TypeInv, SwapInv
<1>b. resident # NULL => resident \in ResidentState /\ resident.proc \in Proc
  BY <1>a DEF TypeOK, ResidentState
<1>1. CASE TakeRequest
  BY <1>1, <1>a DEF SwapInv, Phase, Signals, Tracked, Seen, TakeRequest
<1>2. CASE ProcessorExit
  BY <1>2, <1>a DEF SwapInv, Phase, Signals, Tracked, Seen, ProcessorExit
<1>3. CASE RejectSwap
  BY <1>3, <1>a DEF SwapInv, Phase, Signals, Tracked, Seen, RejectSwap, Finish
<1>4. CASE MarkSwapping
  <2>1. (resident' = NULL) <=> (resident = NULL)
    BY <1>4, <1>b, NullAssumption DEF MarkSwapping, ResidentState
  <2>2. resident # NULL =>
          /\ resident'.proc = resident.proc
          /\ resident'.tier = resident.tier
          /\ resident'.swapping
    BY <1>4, <1>b DEF MarkSwapping, ResidentState
  <2> QED
    BY <1>4, <1>a, <2>1, <2>2
    DEF SwapInv, Phase, Signals, Tracked, Seen, MarkSwapping
<1>5. CASE NothingToStop
  BY <1>5, <1>a DEF SwapInv, Phase, Signals, Tracked, Seen, NothingToStop
<1>6. CASE StopResident
  BY <1>6, <1>a, <1>b
  DEF SwapInv, Phase, Signals, Tracked, Seen, StopResident, Signal, Strongest, TypeOK
<1>7. CASE ResidentStopped
  BY <1>7, <1>a, <1>b
  DEF SwapInv, Phase, Signals, Tracked, Seen, ResidentStopped, Signal, Strongest,
      TypeOK, Shape
<1>8. CASE ClearResident
  BY <1>8, <1>a DEF SwapInv, Phase, Signals, Tracked, Seen, ClearResident
<1>9. CASE StartFails
  BY <1>9, <1>a DEF SwapInv, Phase, Signals, Tracked, Seen, StartFails, Finish
<1>10. ASSUME NEW p \in Proc, StartProcess(p)
       PROVE  SwapInv'
  BY <1>10, <1>a, NullAssumption
  DEF SwapInv, Phase, Signals, Tracked, Seen, StartProcess, Forgotten, TypeOK
<1>11. CASE HealthOK
  BY <1>11, <1>a DEF SwapInv, Phase, Signals, Tracked, Seen, HealthOK
<1>12. CASE HealthTimeout
  BY <1>12, <1>a
  DEF SwapInv, Phase, Signals, Tracked, Seen, HealthTimeout, Signal, Strongest,
      TypeOK, Shape
<1>13. CASE Aborted
  BY <1>13, <1>a
  DEF SwapInv, Phase, Signals, Tracked, Seen, Aborted, Signal, Strongest,
      TypeOK, Shape
<1>14. CASE Publish
  <2>1. resident' # NULL /\ resident'.proc = pproc
          /\ resident'.tier = preq.tier /\ ~resident'.swapping
    <3>1. preq.tier \in TierName /\ pproc \in Proc
      BY <1>14, <1>a DEF Publish, TypeOK, Shape, SwapRequest
    <3>2. resident' \in ResidentState
      BY <1>14, <3>1 DEF Publish, ResidentState
    <3> QED
      BY <1>14, <3>2, NullAssumption DEF Publish
  <2> QED
    BY <1>14, <1>a, <2>1
    DEF SwapInv, Phase, Signals, Tracked, Seen, Publish, NoteLate, Looked
<1>15. CASE Reply
  BY <1>15, <1>a DEF SwapInv, Phase, Signals, Tracked, Seen, Reply
<1>16. CASE ClearAborted
  BY <1>16, <1>a DEF SwapInv, Phase, Signals, Tracked, Seen, ClearAborted, Finish
<1>17. CASE Watch
  BY <1>17, <1>a DEF SwapInv, Phase, Signals, Tracked, Seen, Watch, Finish
<1> QED
  BY <1>1, <1>2, <1>3, <1>4, <1>5, <1>6, <1>7, <1>8, <1>9, <1>10, <1>11,
     <1>12, <1>13, <1>14, <1>15, <1>16, <1>17 DEF ProcessorStep

\* The other goroutines and the processes themselves.
LEMMA NextSwapInv == IInv /\ [Next]_vars => SwapInv'
<1> SUFFICES ASSUME IInv, [Next]_vars PROVE SwapInv'
  OBVIOUS
<1> USE DEF managerVars, processorVars, procVars, callerVars, shutdownVars,
            Starting, Live, ResidentWatched, SignalledIsMarked
<1>a. TypeInv /\ TypeOK /\ Shape /\ Phase /\ Signals /\ Tracked /\ Seen
  BY DEF IInv, TypeInv, SwapInv
<1>1. ASSUME NEW c \in Caller, CallerStep(c)
      PROVE  SwapInv'
  BY <1>1, CallerSwapInv
<1>2. CASE ProcessorStep
  BY <1>2, ProcessorSwapInv
<1>3. ASSUME NEW p \in Proc, WatchProcess(p)
      PROVE  SwapInv'
  <2>1. CASE resident # NULL /\ resident.tier = tierOf[p]
    <3>1. resident' = NULL /\ (~miscleared' => ~miscleared /\ resident.proc = p)
      BY <1>3, <2>1, Zenon DEF WatchProcess
    <3> QED
      BY <1>3, <1>a, <3>1 DEF SwapInv, Phase, Signals, Tracked, Seen, WatchProcess
  <2>2. CASE ~(resident # NULL /\ resident.tier = tierOf[p])
    <3>1. UNCHANGED <<resident, miscleared>>
      BY <1>3, <2>2 DEF WatchProcess
    <3> QED
      BY <1>3, <1>a, <2>2, <3>1
      DEF SwapInv, Phase, Signals, Tracked, Seen, WatchProcess
  <2> QED
    BY <2>1, <2>2
<1>4. ASSUME NEW p \in Proc, Bind(p)
      PROVE  SwapInv'
  BY <1>4, <1>a DEF SwapInv, Phase, Signals, Tracked, Seen, Bind, TypeOK
<1>5. ASSUME NEW p \in Proc, Exit(p)
      PROVE  SwapInv'
  BY <1>5, <1>a DEF SwapInv, Phase, Signals, Tracked, Seen, Exit, TypeOK
<1>6. CASE CloseDone
  BY <1>6, <1>a DEF SwapInv, Phase, Signals, Tracked, Seen, CloseDone
<1>7. CASE ShutdownKill
  BY <1>7, <1>a
  DEF SwapInv, Phase, Signals, Tracked, Seen, ShutdownKill, Signal, Strongest,
      TypeOK, ResidentState
<1>8. CASE ShutdownReturn
  BY <1>8, <1>a
  DEF SwapInv, Phase, Signals, Tracked, Seen, ShutdownReturn, Signal, Strongest,
      TypeOK, Shape
<1>9. CASE UNCHANGED vars
  BY <1>9, <1>a DEF SwapInv, Phase, Signals, Tracked, Seen, vars
<1> QED
  BY <1>1, <1>2, <1>3, <1>4, <1>5, <1>6, <1>7, <1>8, <1>9
  DEF Next, ShutdownStep

\* IInv is inductive.
LEMMA Inductive == Spec => []IInv
<1>1. Init => IInv
  BY InitTypeInv, InitSwapInv DEF IInv
<1>2. IInv /\ [Next]_vars => IInv'
  BY NextTypeInv, NextSwapInv DEF IInv
<1> QED
  BY <1>1, <1>2, PTL DEF Spec

-----------------------------------------------------------------------------

\* However many models are configured and however many callers ask for them,
\* the only way for the manager to have two llama-servers that were not killed
\* is a late watcher that cleared the entry of another process.
THEOREM OneModel == Spec => []OneModelUnlessMiscleared
<1>1. IInv => OneModelUnlessMiscleared
  BY DEF IInv, SwapInv, Phase, Tracked, Starting, OneModelUnlessMiscleared,
         OnlyOneLoaded
<1> QED
  BY <1>1, Inductive, PTL

\* With the same exception, a passed health check is the started model's own.
THEOREM HealthOwn == Spec => []HealthIsItsOwn
<1>1. IInv => HealthIsItsOwn
  BY DEF IInv, SwapInv, Phase, Tracked, Starting, HealthIsItsOwn, Healthy,
         Answers, Live
<1> QED
  BY <1>1, Inductive, PTL

\* The Swapping flag is never left behind by a swap.
THEOREM SwappingTransient == Spec => []SwappingIsTransient
<1>1. IInv => SwappingIsTransient
  BY DEF IInv, SwapInv, Phase, SwappingIsTransient
<1> QED
  BY <1>1, Inductive, PTL

\* Outside shutdown the fast path never returns a model that was told to stop.
THEOREM SignalledMarked == Spec => []SignalledIsMarked
<1>1. IInv => SignalledIsMarked
  BY DEF IInv, SwapInv, Signals
<1> QED
  BY <1>1, Inductive, PTL

\* The death of a resident process cannot go unnoticed.
THEOREM Watched == Spec => []ResidentWatched
<1>1. IInv => ResidentWatched
  BY DEF IInv, SwapInv, Phase
<1> QED
  BY <1>1, Inductive, PTL

\* Shutdown stops what it saw running, whatever a swap does meanwhile.
THEOREM ShutdownStops == Spec => []ShutdownStopsWhatItSaw
<1>1. IInv => ShutdownStopsWhatItSaw
  BY DEF IInv, SwapInv, Tracked, Seen, ShutdownStopsWhatItSaw
<1> QED
  BY <1>1, Inductive, PTL

-----------------------------------------------------------------------------
(* Where a caller's request is.                                             *)

Queued(c) == queue # <<>> /\ Head(queue).owner = c
InWork(c) == preq # NULL /\ preq.owner = c
Answered(c) == answer[c] # "none"

OnePlace(c) ==
    /\ cpc[c] = "waiting" <=> Queued(c) \/ InWork(c) \/ Answered(c)
    /\ ~(Queued(c) /\ InWork(c))
    /\ ~(Queued(c) /\ Answered(c))
    /\ ~(InWork(c) /\ Answered(c))

RequestInv ==
    /\ ppc \in {"idle", "exited"} => preq = NULL
    /\ ppc = "reply" => pres # "none"
    /\ \A c \in Caller : OnePlace(c)

\* What nobody does to a caller's request leaves it where it is.
LEMMA OnePlaceFrame ==
  ASSUME NEW c, OnePlace(c), UNCHANGED <<queue, preq, answer[c], cpc[c]>>
  PROVE  OnePlace(c)'
  BY DEF OnePlace, Queued, InWork, Answered

LEMMA OneElement ==
  ASSUME NEW S, NEW q \in Seq(S), Len(q) <= 1, q # <<>>
  PROVE  Len(q) = 1 /\ q[1] \in S /\ Head(q) = q[1]
<1>1. Len(q) = 1
  <2>1. Len(q) \in Nat /\ Len(q) # 0
    OBVIOUS
  <2> DEFINE n == Len(q)
  <2>2. n \in Nat /\ n # 0 /\ n <= 1
    BY <2>1
  <2> HIDE DEF n
  <2>3. n = 1
    BY <2>2
  <2> QED
    BY <2>3 DEF n
<1> QED
  BY <1>1

LEMMA InitRequestInv == Init => RequestInv
  BY DEF Init, RequestInv, OnePlace, Queued, InWork, Answered

LEMMA CallerRequestInv ==
  ASSUME TypeInv, RequestInv, NEW c \in Caller, CallerStep(c)
  PROVE  RequestInv'
<1> USE DEF managerVars, processorVars, procVars, callerVars, shutdownVars
<1>a. TypeOK /\ Shape /\ \A d \in Caller : OnePlace(d)
  BY DEF TypeInv, RequestInv
<1>b. /\ queue \in Seq(SwapRequest) /\ Len(queue) <= 1
      /\ NULL \notin Caller /\ NULL \notin SwapRequest
  BY <1>a, NullAssumption DEF TypeOK, QueueCap
<1>c. /\ \A d \in Caller : d # c => UNCHANGED <<cpc[d], answer[d]>>
      /\ UNCHANGED <<ppc, pres>>
  BY <1>a DEF CallerStep, EnsureLoaded, Enqueue, QueueFull, Receive, CtxDone,
              Complete, Completed, Leave, TypeOK
<1>1. CASE UNCHANGED <<queue, preq>>
  <2>1. OnePlace(c)'
    <3>1. CASE \E t \in TierName : EnsureLoaded(c, t)
      BY <3>1, <1>1, <1>a DEF EnsureLoaded, OnePlace, Queued, InWork, Answered, TypeOK
    <3>2. CASE QueueFull(c)
      BY <3>2, <1>1, <1>a DEF QueueFull, Leave, OnePlace, Queued, InWork, Answered, TypeOK
    <3>3. CASE Receive(c)
      BY <3>3, <1>1, <1>a DEF Receive, Leave, OnePlace, Queued, InWork, Answered, TypeOK
    <3>4. CASE Complete(c) \/ Completed(c)
      BY <3>4, <1>1, <1>a
      DEF Complete, Completed, Leave, OnePlace, Queued, InWork, Answered, TypeOK
    <3>5. CASE Enqueue(c)
      <4>1. queue' # queue
        BY <3>5, <1>b DEF Enqueue
      <4> QED
        BY <4>1, <1>1
    <3>6. CASE CtxDone(c)
      <4>1. ~Queued(c) /\ ~InWork(c)
        <5>1. InWork(c) => preq'.owner = NULL
          BY <3>6, <1>a DEF CtxDone, Disown, InWork, TypeOK, SwapRequest
        <5>2. Queued(c) => 1 \in DOMAIN queue /\ queue[1] = Head(queue)
          BY <1>b DEF Queued
        <5>3. Queued(c) => queue'[1].owner = NULL
          BY <3>6, <5>2, <1>b DEF CtxDone, Disown, Queued, SwapRequest
        <5> QED
          BY <5>1, <5>2, <5>3, <1>1, <1>b DEF InWork, Queued
      <4> QED
        BY <3>6, <4>1, <1>1, <1>a DEF CtxDone, Leave, OnePlace, Queued, InWork, Answered, TypeOK
    <3> QED
      BY <3>1, <3>2, <3>3, <3>4, <3>5, <3>6 DEF CallerStep
  <2>2. \A d \in Caller : OnePlace(d)'
    BY <2>1, <1>1, <1>a, <1>c, OnePlaceFrame
  <2> QED
    BY <2>2, <1>1, <1>c DEF RequestInv
<1>2. CASE Enqueue(c)
  <2>1. queue = <<>>
    BY <1>2, <1>b DEF Enqueue, QueueCap
  <2>2. queue' # <<>> /\ Head(queue').owner = c
    BY <1>2, <2>1 DEF Enqueue
  <2>3. cpc[c] = "enqueue" /\ cpc'[c] = "waiting" /\ UNCHANGED <<preq, answer>>
    BY <1>2, <1>a DEF Enqueue, TypeOK
  <2>4. \A d \in Caller : OnePlace(d)'
    BY <2>1, <2>2, <2>3, <1>a, <1>c DEF OnePlace, Queued, InWork, Answered
  <2> QED
    BY <2>3, <2>4, <1>c DEF RequestInv
<1>3. CASE CtxDone(c)
  <2>1. /\ cpc[c] = "waiting" /\ cpc'[c] = "idle" /\ answer'[c] = "none"
    BY <1>3, <1>a DEF CtxDone, Leave, TypeOK
  <2>2. /\ (preq' = NULL) <=> (preq = NULL)
        /\ preq # NULL => preq'.owner = IF preq.owner = c THEN NULL ELSE preq.owner
    BY <1>3, <1>a, <1>b DEF CtxDone, Disown, SwapRequest, TypeOK
  <2>3. /\ (queue' = <<>>) <=> (queue = <<>>)
        /\ queue # <<>> =>
             Head(queue').owner = IF Head(queue).owner = c THEN NULL ELSE Head(queue).owner
    <3>1. queue' = [i \in 1..Len(queue) |-> Disown(queue[i], c)]
      BY <1>3, <1>b DEF CtxDone
    <3>2. CASE queue = <<>>
      BY <3>1, <3>2
    <3>3. CASE queue # <<>>
      <4>1. Len(queue) = 1 /\ queue[1] \in SwapRequest /\ Head(queue) = queue[1]
        BY <3>3, <1>b, OneElement
      <4>2. Disown(queue[1], c) \in SwapRequest
            /\ Disown(queue[1], c).owner = IF queue[1].owner = c THEN NULL ELSE queue[1].owner
        BY <4>1 DEF Disown, SwapRequest
      <4>3. queue' \in Seq(SwapRequest) /\ Len(queue') = 1 /\ queue'[1] = Disown(queue[1], c)
        BY <3>1, <4>1, <4>2
      <4>4. queue' # <<>> /\ Head(queue') = queue'[1]
        BY <4>3
      <4> QED
        BY <3>3, <4>1, <4>2, <4>3, <4>4
    <3> QED
      BY <3>2, <3>3
  <2>4. \A d \in Caller : OnePlace(d)'
    BY <2>1, <2>2, <2>3, <1>a, <1>b, <1>c DEF OnePlace, Queued, InWork, Answered
  <2> QED
    BY <2>2, <2>4, <1>c DEF RequestInv
<1> QED
  BY <1>1, <1>2, <1>3
  DEF CallerStep, EnsureLoaded, QueueFull, Receive, Complete, Completed

LEMMA ProcessorRequestInv ==
  ASSUME TypeInv, RequestInv, ProcessorStep
  PROVE  RequestInv'
<1> USE DEF managerVars, processorVars, procVars, callerVars, shutdownVars
<1>a. TypeOK /\ Shape /\ \A d \in Caller : OnePlace(d)
  BY DEF TypeInv, RequestInv
<1>1. CASE TakeRequest
  <2>1. /\ queue # <<>> /\ queue' = Tail(queue) /\ preq' = Head(queue) /\ preq = NULL
        /\ UNCHANGED <<cpc, answer>> /\ ppc' = "begin"
    BY <1>1 DEF TakeRequest, RequestInv, Goto
  <2>2. Tail(queue) = <<>> /\ Head(queue) # NULL
    <3>1. queue \in Seq(SwapRequest) /\ Len(queue) <= 1 /\ NULL \notin SwapRequest
      BY <1>a, NullAssumption DEF TypeOK, QueueCap
    <3> QED
      BY <3>1, <2>1
  <2>3. \A d \in Caller : OnePlace(d)'
    BY <2>1, <2>2, <1>a DEF OnePlace, Queued, InWork, Answered
  <2> QED
    BY <2>1, <2>3 DEF RequestInv
<1>2. CASE Reply
  <2>1. /\ preq' = NULL /\ ppc' = "idle" /\ UNCHANGED <<queue, cpc>> /\ preq # NULL
        /\ pres # "none" /\ preq.owner \in Caller \cup {NULL}
        /\ answer' = IF preq.owner = NULL THEN answer
                     ELSE [answer EXCEPT ![preq.owner] = pres]
    BY <1>2, <1>a DEF Reply, Shape, RequestInv, TypeOK, SwapRequest, Goto
  <2>2. \A d \in Caller : answer'[d] = IF preq.owner = d THEN pres ELSE answer[d]
    BY <2>1, <1>a, NullAssumption DEF TypeOK
  <2>3. \A d \in Caller : OnePlace(d)'
    BY <2>1, <2>2, <1>a DEF OnePlace, Queued, InWork, Answered
  <2> QED
    BY <2>1, <2>3 DEF RequestInv
<1>3. CASE ~TakeRequest /\ ~Reply
  <2>1. /\ UNCHANGED <<queue, preq, answer, cpc>>
        /\ ppc' = "idle" => FALSE
        /\ ppc' = "exited" => ppc = "idle"
        /\ ppc' = "reply" => pres' # "none"
    BY <1>3 DEF ProcessorStep, ProcessorExit, RejectSwap, MarkSwapping, NothingToStop,
       StopResident, ResidentStopped, ClearResident, StartFails, StartProcess, HealthOK,
       HealthTimeout, Aborted, ClearAborted, Publish, Watch, Finish, Goto
  <2>2. \A d \in Caller : OnePlace(d)'
    BY <2>1, <1>a, OnePlaceFrame
  <2> QED
    BY <2>1, <2>2 DEF RequestInv
<1> QED
  BY <1>1, <1>2, <1>3

LEMMA NextRequestInv == TypeInv /\ RequestInv /\ [Next]_vars => RequestInv'
<1> SUFFICES ASSUME TypeInv, RequestInv, [Next]_vars PROVE RequestInv'
  OBVIOUS
<1>1. ASSUME NEW c \in Caller, CallerStep(c) PROVE RequestInv'
  BY <1>1, CallerRequestInv
<1>2. CASE ProcessorStep
  BY <1>2, ProcessorRequestInv
<1>3. CASE \/ \E p \in Proc : WatchProcess(p) \/ Bind(p) \/ Exit(p)
           \/ ShutdownStep \/ UNCHANGED vars
  <2>1. UNCHANGED <<queue, preq, answer, cpc, ppc, pres>>
    BY <1>3 DEF WatchProcess, Bind, Exit, ShutdownStep, CloseDone, ShutdownKill,
       ShutdownReturn, vars, managerVars, processorVars, procVars, callerVars, shutdownVars
  <2>2. \A d \in Caller : OnePlace(d)'
    BY <2>1, OnePlaceFrame DEF RequestInv
  <2> QED
    BY <2>1, <2>2 DEF RequestInv
<1> QED
  BY <1>1, <1>2, <1>3 DEF Next

LEMMA PlacesCounted ==
  ASSUME TypeOK, NEW c \in Caller, OnePlace(c)
  PROVE  Cardinality(Places(c)) = IF cpc[c] = "waiting" THEN 1 ELSE 0
<1>1. {j \in DOMAIN queue : queue[j].owner = c} = IF Queued(c) THEN {1} ELSE {}
  <2>1. queue \in Seq(SwapRequest) /\ Len(queue) <= 1 /\ DOMAIN queue = 1..Len(queue)
    BY DEF TypeOK, QueueCap
  <2>2. CASE queue = <<>>
    BY <2>1, <2>2 DEF Queued
  <2>3. CASE queue # <<>>
    <3>1. DOMAIN queue = {1} /\ Head(queue) = queue[1]
      BY <2>1, <2>3
    <3> QED
      BY <3>1, <2>3 DEF Queued
  <2> QED
    BY <2>2, <2>3
<1>2. Places(c) = (IF Queued(c) THEN {<<"queue", 1>>} ELSE {})
                      \cup (IF InWork(c) THEN {<<"work", 0>>} ELSE {})
                      \cup (IF Answered(c) THEN {<<"answer", 0>>} ELSE {})
  BY <1>1 DEF Places, InWork, Answered
<1>3. CASE cpc[c] = "waiting"
  <2>1. \E x : Places(c) = {x}
    BY <1>2, <1>3 DEF OnePlace
  <2> QED
    BY <2>1, <1>3, FS_Singleton
<1>4. CASE cpc[c] # "waiting"
  <2>1. Places(c) = {}
    BY <1>2, <1>4 DEF OnePlace
  <2> QED
    BY <2>1, <1>4, FS_EmptySet
<1> QED
  BY <1>3, <1>4

\* For any number of callers, a waiting caller's request is queued, in work or
\* answered, in one of the three places and never in two, and no answer is left
\* for a caller that gave up (swap.go:15-57).
THEOREM Conserved == Spec => []RequestConserved
<1>1. TypeInv /\ RequestInv => RequestConserved
  BY PlacesCounted DEF TypeInv, RequestInv, RequestConserved
<1> QED
  BY <1>1, InitTypeInv, NextTypeInv, InitRequestInv, NextRequestInv, PTL DEF Spec

=============================================================================
