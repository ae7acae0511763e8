--------------------------- MODULE GatewayProofs ----------------------------
(***************************************************************************)
(* Theorems about Gateway for any number of requests, any limits and any   *)
(* number of retries.                                                      *)
(***************************************************************************)
EXTENDS Gateway, Induction

\* A handler that has not dispatched its request.
Early == {"new", "route", "check", "dispatch"}

\* What the providers were asked, against where the adapter is.
Attempts(r) ==
    /\ remote[r] = "idle" =>
          /\ provider[r] = "primary"
          /\ calls[r]["primary"] = 0
    /\ remote[r] # "idle" => calls[r][provider[r]] = attempt[r] + 1
    /\ provider[r] = "primary" => calls[r]["openrouter_fallback"] = 0
    /\ provider[r] = "openrouter_fallback" =>
          /\ remote[r] # "idle"
          /\ calls[r]["primary"] <= maxRetries + 1
          /\ primaryErr[r] = "TerminalError"
    /\ remote[r] = "waiting" => attempt[r] < maxRetries
    /\ remote[r] = "RateLimitedError" => attempt[r] = maxRetries
    /\ primaryErr[r] = "RateLimitedError" => remote[r] = "RateLimitedError"

\* A request's local model, against where its handler is.
Models(r) ==
    /\ pc[r] \in Early \cup {"load"} => model[r] = NULL
    /\ pc[r] \in {"load", "complete", "abandoned"} => tier[r] \in Local
    /\ pc[r] = "complete" => swapped[r] \/ resident \in {tier[r], NULL}
    /\ model[r] \in Local => model[r] = tier[r] \/ swapped[r]

IInv ==
    /\ TypeOK
    /\ \A r \in Request : /\ pc[r] \in Early => remote[r] = "idle"
                          /\ Attempts(r)
                          /\ Models(r)

-----------------------------------------------------------------------------
(* The adapters' steps.                                                     *)

CallsType ==
    /\ DOMAIN calls = Request
    /\ \A r \in Request : calls[r] \in [Provider -> 0..CallCap]

RemoteInv == RemoteTypeOK /\ \A r \in Request : Attempts(r)

\* One more call to p, and no other count changes.
LEMMA CallCounts ==
    ASSUME RemoteTypeOK, NEW r \in Request, NEW p \in Provider, NEW n,
           calls[r][p] <= maxRetries + 1, Call(r, p, n)
    PROVE  /\ CallsType'
           /\ calls'[r][p] = calls[r][p] + 1
           /\ \A o \in Provider \ {p} : calls'[r][o] = calls[r][o]
           /\ \A q \in Request \ {r} : calls'[q] = calls[q]
  <1> DEFINE c == [calls[r] EXCEPT ![p] = calls[r][p] + 1]
  <1>1. calls[r] \in [Provider -> 0..CallCap] /\ calls[r][p] < CallCap
    BY RemoteAssumption DEF RemoteTypeOK, CallCap
  <1>2. calls' = [calls EXCEPT ![r] = c]
    BY <1>1 DEF Call
  <1>3. /\ c \in [Provider -> 0..CallCap]
        /\ c[p] = calls[r][p] + 1
        /\ \A o \in Provider \ {p} : c[o] = calls[r][o]
    BY <1>1, RemoteAssumption DEF CallCap
  <1> HIDE DEF c
  <1> QED
    BY <1>2, <1>3 DEF RemoteTypeOK, CallsType

LEMMA DoAttempts ==
    ASSUME RemoteInv, NEW r \in Request, remote[r] = "idle", Do(r)
    PROVE  RemoteInv'
  <1>1. /\ RemoteTypeOK /\ Call(r, "primary", 0) /\ Attempts(r)
        /\ calls[r]["primary"] = 0
        /\ UNCHANGED <<keys, provider, expired, primaryErr, tokens>>
    BY DEF Do, RemoteInv, Attempts
  <1>2. /\ CallsType'
        /\ calls'[r]["primary"] = 1
        /\ calls'[r]["openrouter_fallback"] = calls[r]["openrouter_fallback"]
        /\ \A q \in Request \ {r} : calls'[q] = calls[q]
    BY <1>1, CallCounts, RemoteAssumption DEF Provider
  <1> QED
    BY <1>1, <1>2, RemoteAssumption
    DEF RemoteInv, RemoteTypeOK, CallsType, Attempts, Call, RemoteError

LEMMA ExpireAttempts ==
    ASSUME RemoteInv, NEW r \in Request, Expire(r)
    PROVE  RemoteInv'
  BY DEF RemoteInv, RemoteTypeOK, Attempts, Expire

LEMMA DoStepAttempts ==
    ASSUME RemoteInv, NEW r \in Request, NEW t, DoStep(r, t)
    PROVE  RemoteInv'
  <1> USE DEF RemoteInv
  <1>1. CASE Respond(r)
    BY <1>1 DEF Respond, RemoteTypeOK, Attempts, RemoteError
  <1>2. CASE TooManyRequests(r) /\ attempt[r] = maxRetries
    BY <1>2 DEF TooManyRequests, Return, RemoteTypeOK, Attempts, RemoteError, Provider
  <1>3. CASE TooManyRequests(r) /\ attempt[r] # maxRetries
    <2>1. attempt[r] \in 0..maxRetries
      BY DEF RemoteTypeOK
    <2>2. attempt[r] < maxRetries
      BY <1>3, <2>1, RemoteAssumption
    <2> QED
      BY <1>3, <2>2 DEF TooManyRequests, RemoteTypeOK, Attempts
  <1>4. CASE Retry(r)
    <2>1. /\ provider[r] \in Provider /\ attempt[r] + 1 \in 0..maxRetries
          /\ calls[r][provider[r]] = attempt[r] + 1
          /\ remote[r] = "waiting"
      BY <1>4, RemoteAssumption DEF Retry, RemoteTypeOK, Attempts
    <2>0. /\ RemoteTypeOK /\ Call(r, provider[r], attempt[r] + 1)
          /\ calls[r][provider[r]] <= maxRetries + 1
          /\ attempt[r] + 1 + 1 = attempt[r] + 2
      BY <1>4, <2>1, RemoteAssumption DEF Retry, RemoteTypeOK
    <2>2. /\ CallsType'
          /\ calls'[r][provider[r]] = attempt[r] + 2
          /\ \A o \in Provider \ {provider[r]} : calls'[r][o] = calls[r][o]
          /\ \A q \in Request \ {r} : calls'[q] = calls[q]
      BY <2>0, <2>1, CallCounts
    <2>3. /\ attempt' = [attempt EXCEPT ![r] = attempt[r] + 1]
          /\ remote' = [remote EXCEPT ![r] = "calling"]
          /\ UNCHANGED <<keys, provider, expired, primaryErr, tokens>>
      BY <1>4 DEF Retry, Call
    <2>4. RemoteTypeOK'
      BY <2>1, <2>2, <2>3 DEF RemoteTypeOK, CallsType
    <2>5. Attempts(r)'
      BY <2>1, <2>2, <2>3, RemoteAssumption DEF RemoteTypeOK, Attempts, Provider
    <2>6. \A q \in Request \ {r} : Attempts(q)'
      BY <2>2, <2>3 DEF RemoteTypeOK, Attempts
    <2> QED
      BY <2>4, <2>5, <2>6
  <1>5. CASE DeadlineInWait(r)
    BY <1>5 DEF DeadlineInWait, Return, RemoteTypeOK, Attempts, RemoteError, Provider
  <1>6. CASE Fail(r, t) /\ provider[r] = "primary" /\ HasFallback(t)
    <2>1. /\ remote[r] = "calling" /\ calls[r]["openrouter_fallback"] = 0
          /\ calls[r]["primary"] = attempt[r] + 1
          /\ attempt[r] + 1 <= maxRetries + 1
      BY <1>6, RemoteAssumption DEF Fail, RemoteTypeOK, Attempts
    <2>2. /\ Call(r, "openrouter_fallback", 0)
          /\ attempt' = [attempt EXCEPT ![r] = 0]
          /\ remote' = [remote EXCEPT ![r] = "calling"]
          /\ primaryErr' = [primaryErr EXCEPT ![r] = "TerminalError"]
          /\ provider' = [provider EXCEPT ![r] = "openrouter_fallback"]
          /\ expired' = [expired EXCEPT ![r] = FALSE]
          /\ UNCHANGED <<keys, tokens>>
      BY <1>6 DEF Fail, Call
    <2>3. /\ CallsType'
          /\ calls'[r]["openrouter_fallback"] = 1
          /\ calls'[r]["primary"] = attempt[r] + 1
          /\ \A q \in Request \ {r} : calls'[q] = calls[q]
      BY <2>1, <2>2, CallCounts, RemoteAssumption DEF Provider
    <2>4. RemoteTypeOK'
      BY <2>2, <2>3, RemoteAssumption DEF RemoteTypeOK, CallsType, RemoteError, Provider
    <2>5. Attempts(r)'
      BY <2>1, <2>2, <2>3 DEF RemoteTypeOK, Attempts
    <2>6. \A q \in Request \ {r} : Attempts(q)'
      BY <2>2, <2>3 DEF RemoteTypeOK, Attempts
    <2> QED
      BY <2>4, <2>5, <2>6
  <1>7. CASE Fail(r, t) /\ ~(provider[r] = "primary" /\ HasFallback(t))
    BY SMTT(20), <1>7 DEF Fail, Return, RemoteTypeOK, Attempts, RemoteError, Provider
  <1> QED
    BY <1>1, <1>2, <1>3, <1>4, <1>5, <1>6, <1>7 DEF DoStep

-----------------------------------------------------------------------------
(* The handlers.                                                            *)

\* What TypeOK says of the variables that are not the adapters'.
HandlerTypes ==
    /\ entry \in [Request -> Entry \cup {NULL}]
    /\ pc \in [Request -> {"new", "route", "check", "dispatch", "load", "complete",
                           "completing", "remote", "completed", "charge",
                           "chargeTier", "abandoned"} \cup Final]
    /\ tier \in [Request -> Local \cup Budgeted \cup ForceTier \cup {NULL}]
    /\ gone \in [Request -> BOOLEAN]
    /\ spent \in Nat
    /\ remaining \in [Budgeted -> Int]
    /\ resident \in Local \cup {NULL}
    /\ model \in [Request -> Local \cup {NULL}]
    /\ swapped \in [Request -> BOOLEAN]

HandlerInv == HandlerTypes /\ \A r \in Request : Models(r)

Idle == \A r \in Request : pc[r] \in Early => remote[r] = "idle"

LEMMA IInvParts ==
    /\ IInv <=> RemoteInv /\ HandlerInv /\ Idle
    /\ IInv' <=> RemoteInv' /\ HandlerInv' /\ Idle'
  BY DEF IInv, TypeOK, RemoteInv, HandlerInv, HandlerTypes, Idle

\* The router names a tier or, for an unknown complexity, none.
LEMMA RouteToTier ==
    ASSUME NEW c, NEW f \in ForceTier \cup {""}
    PROVE  RouteTo(c, f) \in Local \cup Budgeted \cup ForceTier \cup {NULL}
  <1>1. c \in Complexity => complexityToTier[c] \in Local \cup Budgeted
    BY DEF complexityToTier, Local, Budgeted
  <1> QED
    BY <1>1 DEF RouteTo, complexityToTier

LEMMA FallbackTier ==
    ASSUME NEW t \in DOMAIN fallbackChain
    PROVE  fallbackChain[t] \in Local \cup Budgeted
  BY DEF fallbackChain, Local, Budgeted

\* The adapters' variables are as they were, but for the tokens reported.
LEMMA TokensOnly ==
    ASSUME RemoteInv, tokens' \in [Request -> Tokens \cup {0}],
           UNCHANGED <<keys, provider, attempt, remote, expired, primaryErr, calls>>
    PROVE  RemoteInv'
  BY DEF RemoteInv, RemoteTypeOK, Attempts

LEMMA InitIInv == Init => IInv
  <1> SUFFICES ASSUME Init PROVE IInv
    OBVIOUS
  <1> USE DEF Init, RemoteInit
  <1>1. CallsType /\ \A r \in Request, p \in Provider : calls[r][p] = 0
    BY RemoteAssumption DEF CallsType, CallCap
  <1>2. RemoteInv
    BY <1>1, RemoteAssumption
    DEF RemoteInv, RemoteTypeOK, CallsType, Attempts, Provider
  <1>3. HandlerInv
    BY GatewayAssumption DEF HandlerInv, HandlerTypes, Models, Early, Local
  <1>4. Idle
    BY DEF Idle
  <1> QED
    BY <1>2, <1>3, <1>4, IInvParts

\* Handlers that call no provider: the adapters are left alone.
LEMMA HandlerRemote ==
    ASSUME IInv, NEW r \in Request, HandlerStep(r), ~DispatchRemote(r)
    PROVE  RemoteInv' /\ Idle'
  <1>1. RemoteInv /\ HandlerTypes /\ Idle
    BY IInvParts DEF HandlerInv
  <1> USE <1>1 DEF HandlerTypes, Idle, Early, Final, Goto, Completed
  <1>2. CASE UNCHANGED remoteVars
    <2>1. RemoteInv'
      BY <1>2 DEF RemoteInv, RemoteTypeOK, Attempts, remoteVars
    <2>2. Idle'
      BY <1>2 DEF remoteVars, HandlerStep, CheckSession, Route, CheckTier, NoAdapter,
                  RemoteReturns, DispatchLocal, EnsureLoaded, LoadFails, AbandonSwap,
                  Complete, CtxCheck, DeductSession, DeductTier, DispatchPlaceholder,
                  CompletionReturns
    <2> QED
      BY <2>1, <2>2
  <1>3. CASE DispatchPlaceholder(r)
    <2>1. /\ tokens' \in [Request -> Tokens \cup {0}]
          /\ UNCHANGED <<keys, provider, attempt, remote, expired, primaryErr, calls>>
      BY <1>3 DEF DispatchPlaceholder, RemoteInv, RemoteTypeOK
    <2> QED
      BY <1>3, <2>1, TokensOnly DEF DispatchPlaceholder
  <1>4. CASE CompletionReturns(r)
    <2>1. /\ tokens' \in [Request -> Tokens \cup {0}]
          /\ UNCHANGED <<keys, provider, attempt, remote, expired, primaryErr, calls>>
      BY SMTT(20), <1>4 DEF CompletionReturns, RemoteInv, RemoteTypeOK
    <2> QED
      BY <1>4, <2>1, TokensOnly DEF CompletionReturns
  <1> QED
    BY <1>2, <1>3, <1>4
    DEF HandlerStep, CheckSession, Route, CheckTier, NoAdapter, RemoteReturns,
        DispatchLocal, EnsureLoaded, LoadFails, AbandonSwap, Complete, CtxCheck,
        DeductSession, DeductTier

LEMMA HandlerLocal ==
    ASSUME IInv, NEW r \in Request, HandlerStep(r)
    PROVE  HandlerInv'
  <1>1. HandlerInv /\ RemoteInv
    BY IInvParts
  <1>2. /\ HandlerTypes
        /\ \A q \in Request : Models(q)
        /\ tokens[r] \in Nat
    <2>1. tokens[r] \in Tokens \cup {0}
      BY <1>1 DEF RemoteInv, RemoteTypeOK
    <2>2. \A n \in Tokens \cup {0} : n \in Nat
      BY RemoteAssumption
    <2> QED
      BY <1>1, <2>1, <2>2 DEF HandlerInv
  <1> USE <1>2 DEF HandlerInv, HandlerTypes, Models, Early, Final, Goto, Completed,
                   policyVars, localVars
  <1>3. CASE CheckSession(r)
    BY <1>3 DEF CheckSession
  <1>4. CASE Route(r)
    <2>1. PICK c \in Named(entry[r]), f \in ForceTier \cup {""} :
             LET t == RouteTo(c, f) IN
                IF t = NULL
                THEN Goto(r, "refused") /\ UNCHANGED tier
                ELSE /\ tier' = [tier EXCEPT ![r] = t]
                     /\ Goto(r, IF entry[r] = "mcp" THEN "check" ELSE "dispatch")
      BY <1>4 DEF Route
    <2>2. RouteTo(c, f) \in Local \cup Budgeted \cup ForceTier \cup {NULL}
      BY RouteToTier
    <2>3. /\ \/ pc' = [pc EXCEPT ![r] = "refused"] /\ UNCHANGED tier
             \/ /\ tier' = [tier EXCEPT ![r] = RouteTo(c, f)]
                /\ \/ pc' = [pc EXCEPT ![r] = "check"]
                   \/ pc' = [pc EXCEPT ![r] = "dispatch"]
          /\ pc[r] = "route"
          /\ UNCHANGED <<entry, gone, policyVars, localVars>>
      BY <1>4, <2>1 DEF Route
    <2>4. HandlerTypes'
      BY ZenonT(60), <2>2, <2>3
    <2>5. \A q \in Request : Models(q)'
      BY ZenonT(60), <2>2, <2>3, GatewayAssumption
    <2> QED
      BY <2>4, <2>5
  <1>5. CASE CheckTier(r)
    <2>1. /\ \/ UNCHANGED tier
             \/ \E t \in Local \cup Budgeted : tier' = [tier EXCEPT ![r] = t]
          /\ \/ pc' = [pc EXCEPT ![r] = "refused"]
             \/ pc' = [pc EXCEPT ![r] = "dispatch"]
          /\ pc[r] = "check"
          /\ UNCHANGED <<entry, gone, policyVars, localVars>>
      BY <1>5, FallbackTier DEF CheckTier
    <2>2. HandlerTypes'
      BY <2>1
    <2>3. \A q \in Request : Models(q)'
      BY <2>1, GatewayAssumption
    <2> QED
      BY <2>2, <2>3
  <1>6. CASE DispatchPlaceholder(r)
    BY <1>6 DEF DispatchPlaceholder
  <1>7. CASE DispatchRemote(r)
    BY <1>7 DEF DispatchRemote
  <1>8. CASE NoAdapter(r)
    BY <1>8 DEF NoAdapter
  <1>9. CASE RemoteReturns(r)
    BY <1>9 DEF RemoteReturns
  <1>10. CASE DispatchLocal(r)
    BY <1>10 DEF DispatchLocal
  <1>11. CASE EnsureLoaded(r)
    BY <1>11 DEF EnsureLoaded, Publish
  <1>12. CASE LoadFails(r)
    BY <1>12 DEF LoadFails
  <1>13. CASE AbandonSwap(r)
    BY <1>13 DEF AbandonSwap
  <1>14. CASE Complete(r)
    BY <1>14, GatewayAssumption DEF Complete
  <1>15. CASE CompletionReturns(r)
    BY <1>15 DEF CompletionReturns
  <1>16. CASE CtxCheck(r)
    BY <1>16 DEF CtxCheck
  <1>17. CASE DeductSession(r)
    BY <1>17 DEF DeductSession
  <1>18. CASE DeductTier(r)
    BY <1>18 DEF DeductTier
  <1> QED
    BY <1>3, <1>4, <1>5, <1>6, <1>7, <1>8, <1>9, <1>10, <1>11, <1>12, <1>13, <1>14,
       <1>15, <1>16, <1>17, <1>18 DEF HandlerStep

LEMMA StepIInv == IInv /\ [Next]_vars => IInv'
  <1> SUFFICES ASSUME IInv, [Next]_vars PROVE IInv'
    OBVIOUS
  <1>1. RemoteInv /\ HandlerInv /\ Idle
    BY IInvParts
  <1>2. ASSUME NEW r \in Request, HandlerStep(r) PROVE IInv'
    <2>1. CASE DispatchRemote(r)
      <3>1. remote[r] = "idle" /\ Do(r) /\ pc' = [pc EXCEPT ![r] = "remote"]
        BY <1>1, <2>1 DEF DispatchRemote, Idle, Early, Goto
      <3>2. RemoteInv'
        BY <1>1, <3>1, DoAttempts
      <3>3. Idle'
        BY <1>1, <3>1 DEF Do, Call, Idle, Early, HandlerInv, HandlerTypes,
                          RemoteInv, RemoteTypeOK
      <3> QED
        BY <1>2, <3>2, <3>3, HandlerLocal, IInvParts
    <2>2. CASE ~DispatchRemote(r)
      BY <1>2, <2>2, HandlerRemote, HandlerLocal, IInvParts
    <2> QED
      BY <2>1, <2>2
  <1>3. ASSUME NEW r \in Request, RemoteStep(r) \/ DeadlinePasses(r) PROVE IInv'
    <2>1. RemoteInv'
      BY <1>1, <1>3, DoStepAttempts, ExpireAttempts DEF RemoteStep, DeadlinePasses
    <2>2. HandlerInv'
      BY <1>1, <1>3 DEF RemoteStep, DeadlinePasses, HandlerInv, HandlerTypes, Models,
                        policyVars, localVars
    <2>3. remote[r] \notin {"idle"} /\ \A q \in Request \ {r} : remote'[q] = remote[q]
      BY <1>1, <1>3 DEF RemoteStep, DeadlinePasses, DoStep, Expire, Respond,
                        TooManyRequests, Retry, DeadlineInWait, Fail, Return, Call,
                        RemoteInv, RemoteTypeOK
    <2>4. Idle'
      BY <1>1, <1>3, <2>3 DEF RemoteStep, DeadlinePasses, Idle
    <2> QED
      BY <2>1, <2>2, <2>4, IInvParts
  <1>4. ASSUME NEW r \in Request, AbandonedSwap(r) PROVE IInv'
    <2>1. RemoteInv' /\ Idle'
      BY <1>1, <1>4 DEF AbandonedSwap, Goto, remoteVars, RemoteInv, RemoteTypeOK,
                        Attempts, Idle, Early, HandlerInv, HandlerTypes
    <2>2. HandlerInv'
      BY <1>1, <1>4 DEF AbandonedSwap, Publish, Goto, policyVars, HandlerInv,
                        HandlerTypes, Models, Early, Final
    <2> QED
      BY <2>1, <2>2, IInvParts
  <1>5. CASE \/ \E r \in Request : ClientGoes(r)
             \/ ModelDies
             \/ UNCHANGED vars
    <2>0. UNCHANGED <<pc, remoteVars>>
      BY <1>5 DEF ClientGoes, ModelDies, vars
    <2>1. RemoteInv' /\ Idle'
      BY <1>1, <2>0 DEF remoteVars, RemoteInv, RemoteTypeOK, Attempts, Idle
    <2>2. HandlerInv'
      BY <1>1, <1>5 DEF ClientGoes, ModelDies, vars, policyVars, localVars, HandlerInv,
                        HandlerTypes, Models
    <2> QED
      BY <2>1, <2>2, IInvParts
  <1> QED
    BY <1>2, <1>3, <1>4, <1>5 DEF Next

\* Every variable keeps its type; no loop makes more attempts than its bound.
THEOREM TypeCorrect == Spec => []TypeOK
  <1>1. IInv => TypeOK
    BY DEF IInv
  <1> QED
    BY <1>1, InitIInv, StepIInv, PTL DEF Spec

\* No mixture of 429s, failures and deadlines makes a request call a provider
\* more often than maxRetries + 1 times, or OpenRouter after a 429.
THEOREM RetriesBounded == Spec => []RetriesAccounted
  <1>1. IInv => RetriesAccounted
    <2> SUFFICES ASSUME IInv PROVE RetriesAccounted
      OBVIOUS
    <2>1. ASSUME NEW r \in Request
          PROVE  /\ attempt[r] \in 0..maxRetries
                 /\ remote[r] \in {"idle", "calling", "waiting", "ok"} \cup RemoteError
                 /\ provider[r] \in Provider
                 /\ Attempts(r)
      BY DEF IInv, TypeOK, RemoteTypeOK
    <2> QED
      BY <2>1, RemoteAssumption DEF RetriesAccounted, Attempts, Provider
  <1> QED
    BY <1>1, InitIInv, StepIInv, PTL DEF Spec

\* A local completion is served by the tier it was routed to unless models were
\* swapped in between.
THEOREM ItsTier == Spec => []AnsweredByItsTier
  <1>1. IInv => AnsweredByItsTier
    BY DEF IInv, Models, AnsweredByItsTier
  <1> QED
    BY <1>1, InitIInv, StepIInv, PTL DEF Spec

-----------------------------------------------------------------------------
(* The books.                                                               *)

\* The requests whose session was charged, and those charged to a tier.
Charged == {r \in Request : pc[r] \in {"chargeTier", "answered"}}
Billed(t) == {r \in Request : pc[r] = "answered" /\ tier[r] = t}

Books ==
    /\ IsFiniteSet(Charged)
    /\ spent = Total(tokens, Charged)
    /\ \A t \in Budgeted : Limit[t] - remaining[t] = Total(tokens, Billed(t))

LEMMA SpentIsTotal == ASSUME NEW S PROVE Spent(S) = Total(tokens, S)
  BY DEF Spent, Total, MapThenSumSet, MapThenFoldSet

LEMMA TokensNat == ASSUME RemoteInv PROVE \A r \in Request : tokens[r] \in Nat
  <1>1. \A r \in Request : tokens[r] \in Tokens \cup {0}
    BY DEF RemoteInv, RemoteTypeOK
  <1>2. \A n \in Tokens \cup {0} : n \in Nat
    BY RemoteAssumption
  <1> QED
    BY <1>1, <1>2

LEMMA FiniteBills ==
    ASSUME Books
    PROVE  \A t : IsFiniteSet(Billed(t)) /\ Billed(t) \subseteq Charged
  <1>1. \A t : Billed(t) \in SUBSET Charged
    BY DEF Billed, Charged
  <1> QED
    BY <1>1, FS_Subset DEF Books

\* A step that charges nobody.
LEMMA BooksFrame ==
    ASSUME IInv, Books, UNCHANGED policyVars,
           \A q \in Request :
              /\ pc'[q] \in {"chargeTier", "answered"} <=> pc[q] \in {"chargeTier", "answered"}
              /\ pc'[q] = "answered" <=> pc[q] = "answered"
              /\ pc[q] \in {"chargeTier", "answered"} => UNCHANGED <<tier[q], tokens[q]>>
    PROVE  Books'
  <1>1. Charged' = Charged /\ \A t : Billed(t)' = Billed(t)
    BY DEF Charged, Billed
  <1>2. \A r \in Charged : tokens'[r] = tokens[r] /\ tokens[r] \in Int
    BY IInvParts, TokensNat DEF Charged
  <1>3. Total(tokens', Charged) = Total(tokens, Charged)
    BY <1>2, TotalSame DEF Books
  <1>4. ASSUME NEW t PROVE Total(tokens', Billed(t)) = Total(tokens, Billed(t))
    <2>1. IsFiniteSet(Billed(t)) /\ Billed(t) \subseteq Charged
      BY FiniteBills
    <2>2. \A r \in Billed(t) : tokens'[r] = tokens[r] /\ tokens[r] \in Int
      BY <2>1, <1>2
    <2> QED
      BY <2>1, <2>2, TotalSame
  <1>5. /\ IsFiniteSet(Charged') /\ spent' = Total(tokens', Charged')
    BY <1>1, <1>3 DEF Books, policyVars
  <1>6. \A t \in Budgeted : Limit[t] - remaining'[t] = Total(tokens', Billed(t)')
    BY <1>1, <1>4 DEF Books, policyVars
  <1> QED
    BY <1>5, <1>6 DEF Books

LEMMA DeductSessionBooks ==
    ASSUME IInv, Books, NEW r \in Request, DeductSession(r)
    PROVE  Books'
  <1>1. /\ pc[r] = "charge" /\ pc' = [pc EXCEPT ![r] = "chargeTier"]
        /\ spent' = spent + tokens[r]
        /\ UNCHANGED <<tier, remaining, tokens>>
    BY DEF DeductSession, Goto, remoteVars
  <1>2. pc \in [Request -> {"new", "route", "check", "dispatch", "load", "complete",
                            "completing", "remote", "completed", "charge",
                            "chargeTier", "abandoned"} \cup Final]
    BY DEF IInv, TypeOK
  <1>3. /\ Charged' = Charged \cup {r} /\ r \notin Charged
        /\ \A t : Billed(t)' = Billed(t)
    BY <1>1, <1>2 DEF Charged, Billed
  <1>4. /\ IsFiniteSet(Charged) /\ spent = Total(tokens, Charged)
        /\ \A q \in Charged \cup {r} : tokens[q] \in Int
    <2>1. \A q \in Request : tokens[q] \in Nat
      BY IInvParts, TokensNat
    <2> QED
      BY <2>1 DEF Books, Charged
  <1>5. Total(tokens, Charged \cup {r}) = tokens[r] + Total(tokens, Charged)
    BY <1>3, <1>4, TotalAdd
  <1>6. IsFiniteSet(Charged \cup {r})
    BY <1>4, FS_AddElement
  <1>7. Total(tokens, Charged) \in Int
    BY <1>4, TotalSplits
  <1>8. spent' = Total(tokens', Charged') /\ IsFiniteSet(Charged')
    <2>1. spent' = Total(tokens, Charged \cup {r})
      BY <1>1, <1>4, <1>5, <1>7
    <2> QED
      BY <2>1, <1>1, <1>3, <1>6
  <1>9. \A t \in Budgeted : Limit[t] - remaining'[t] = Total(tokens', Billed(t)')
    BY <1>1, <1>3 DEF Books
  <1> QED
    BY <1>8, <1>9 DEF Books

LEMMA DeductTierBooks ==
    ASSUME IInv, Books, NEW r \in Request, DeductTier(r)
    PROVE  Books'
  <1>1. /\ pc[r] = "chargeTier" /\ pc' = [pc EXCEPT ![r] = "answered"]
        /\ remaining' = IF tier[r] \in Budgeted
                        THEN [remaining EXCEPT ![tier[r]] = @ - tokens[r]]
                        ELSE remaining
        /\ UNCHANGED <<tier, spent, tokens>>
    BY DEF DeductTier, Goto, remoteVars
  <1>2. /\ pc \in [Request -> {"new", "route", "check", "dispatch", "load", "complete",
                               "completing", "remote", "completed", "charge",
                               "chargeTier", "abandoned"} \cup Final]
        /\ remaining \in [Budgeted -> Int]
    BY DEF IInv, TypeOK
  <1>3. /\ Charged' = Charged
        /\ \A t : Billed(t)' = IF t = tier[r] THEN Billed(t) \cup {r} ELSE Billed(t)
        /\ \A t : r \notin Billed(t)
    BY <1>1, <1>2 DEF Charged, Billed
  <1>4. \A q \in Request : tokens[q] \in Nat
    BY IInvParts, TokensNat
  <1>5. ASSUME NEW t \in Budgeted
        PROVE  Limit[t] - remaining'[t] = Total(tokens, Billed(t)')
    <2>1. Limit[t] - remaining[t] = Total(tokens, Billed(t))
      BY DEF Books
    <2>2. CASE t # tier[r]
      <3>1. remaining'[t] = remaining[t]
        BY <2>2, <1>1, <1>2
      <3> QED
        BY <2>1, <2>2, <3>1, <1>3
    <2>3. CASE t = tier[r]
      <3>1. remaining'[t] = remaining[t] - tokens[r]
        BY <2>3, <1>1, <1>2
      <3>2. Billed(t)' = Billed(t) \cup {r} /\ r \notin Billed(t)
        BY <2>3, <1>3
      <3>3. IsFiniteSet(Billed(t)) /\ \A q \in Billed(t) \cup {r} : tokens[q] \in Int
        <4>1. IsFiniteSet(Billed(t))
          BY FiniteBills
        <4>2. \A q \in Billed(t) : q \in Request
          BY DEF Billed
        <4> QED
          BY <1>4, <4>1, <4>2
      <3>4. Total(tokens, Billed(t) \cup {r}) = tokens[r] + Total(tokens, Billed(t))
        BY <3>2, <3>3, TotalAdd
      <3>5. Limit[t] \in Int /\ remaining[t] \in Int /\ tokens[r] \in Int
            /\ Total(tokens, Billed(t)) \in Int
        <4>1. Total(tokens, Billed(t)) \in Int
          BY <3>3, TotalSplits
        <4>2. Limit[t] \in Nat
          BY GatewayAssumption
        <4> QED
          BY <1>2, <1>4, <4>1, <4>2
      <3> DEFINE b == Total(tokens, Billed(t))
      <3>6. Limit[t] - (remaining[t] - tokens[r]) = tokens[r] + b
        <4>1. Limit[t] - remaining[t] = b /\ b \in Int
          BY <2>1, <3>5
        <4> HIDE DEF b
        <4> QED
          BY <3>5, <4>1
      <3> QED
        BY <3>1, <3>2, <3>4, <3>6
    <2> QED
      BY <2>2, <2>3
  <1>6. IsFiniteSet(Charged') /\ spent' = Total(tokens', Charged')
    BY <1>1, <1>3 DEF Books
  <1>7. \A t \in Budgeted : Limit[t] - remaining'[t] = Total(tokens', Billed(t)')
    BY <1>1, <1>5
  <1> QED
    BY <1>6, <1>7 DEF Books

LEMMA StepBooks == IInv /\ Books /\ [Next]_vars => Books'
  <1> SUFFICES ASSUME IInv, Books, [Next]_vars PROVE Books'
    OBVIOUS
  <1> DEFINE Served == {"chargeTier", "answered"}
  <1>1. HandlerTypes /\ RemoteInv
    BY IInvParts DEF HandlerInv
  <1>3. tokens \in [Request -> Tokens \cup {0}]
    BY <1>1 DEF RemoteInv, RemoteTypeOK
  <1>4. ASSUME NEW r \in Request, HandlerStep(r), ~DeductSession(r), ~DeductTier(r)
        PROVE  Books'
    <2>1. /\ pc[r] \notin Served /\ pc'[r] \notin Served
          /\ \A q \in Request : q # r => UNCHANGED <<pc[q], tier[q], tokens[q]>>
          /\ UNCHANGED policyVars
      BY <1>1, <1>3, <1>4
      DEF HandlerTypes, HandlerStep, CheckSession, Route, CheckTier, NoAdapter,
          RemoteReturns, DispatchLocal, EnsureLoaded, LoadFails, AbandonSwap, Complete,
          CtxCheck, DispatchPlaceholder, DispatchRemote, Do, CompletionReturns, Completed,
          Goto, remoteVars
    <2> QED
      BY <2>1, BooksFrame
  <1>5. ASSUME NEW r \in Request, HandlerStep(r) PROVE Books'
    BY <1>4, <1>5, DeductSessionBooks, DeductTierBooks
  <1>6. ASSUME NEW r \in Request, RemoteStep(r) \/ DeadlinePasses(r) PROVE Books'
    <2>1. /\ UNCHANGED <<pc, tier, policyVars>>
          /\ \A q \in Request : q # r => UNCHANGED tokens[q]
          /\ pc[r] = "remote" \/ UNCHANGED tokens[r]
      BY <1>3, <1>6
      DEF RemoteStep, DeadlinePasses, DoStep, Expire, Respond, TooManyRequests, Retry,
          DeadlineInWait, Fail
    <2> QED
      BY <2>1, BooksFrame
  <1>7. ASSUME NEW r \in Request, AbandonedSwap(r) PROVE Books'
    <2>1. /\ pc[r] \notin Served /\ pc'[r] \notin Served
          /\ \A q \in Request : q # r => UNCHANGED pc[q]
          /\ UNCHANGED <<tier, tokens, policyVars>>
      BY <1>1, <1>7 DEF AbandonedSwap, Goto, remoteVars, HandlerTypes
    <2> QED
      BY <2>1, BooksFrame
  <1>8. CASE \/ \E r \in Request : ClientGoes(r)
             \/ ModelDies \/ UNCHANGED vars
    <2>1. UNCHANGED <<pc, tier, tokens, policyVars>>
      BY <1>8 DEF ClientGoes, ModelDies, vars, remoteVars
    <2> QED
      BY <2>1, BooksFrame
  <1> QED
    BY <1>5, <1>6, <1>7, <1>8 DEF Next

\* For any number of requests and any token counts, sessions and tiers are
\* charged with exactly what the answered requests used, once each and at the
\* tier that served them (handlers.go:136-143).
THEOREM BooksBalance == Spec => []ChargedAsAnswered
  <1>1. Init => Books
    <2> SUFFICES ASSUME Init PROVE Books
      OBVIOUS
    <2>1. Charged = {} /\ \A t : Billed(t) = {}
      BY DEF Init, Charged, Billed
    <2>2. IsFiniteSet({}) /\ Total(tokens, {}) = 0
      BY FS_EmptySet, TotalEmpty
    <2>3. \A t \in Budgeted : Limit[t] - Limit[t] = 0
      BY GatewayAssumption
    <2> QED
      BY <2>1, <2>2, <2>3 DEF Init, Books
  <1>2. Books => ChargedAsAnswered
    <2> SUFFICES ASSUME Books PROVE ChargedAsAnswered
      OBVIOUS
    <2>1. /\ {r \in Request : pc[r] \in {"chargeTier", "answered"}} = Charged
          /\ \A t : {r \in {q \in Request : pc[q] \in {"answered"}} : tier[r] = t} = Billed(t)
      BY DEF Charged, Billed
    <2>2. /\ spent = Spent({r \in Request : pc[r] \in {"chargeTier", "answered"}})
          /\ \A t \in Budgeted : Limit[t] - remaining[t]
                = Spent({r \in {q \in Request : pc[q] \in {"answered"}} : tier[r] = t})
      BY <2>1, SpentIsTotal DEF Books
    <2> QED
      BY <2>2 DEF ChargedAsAnswered
  <1> QED
    BY <1>1, <1>2, InitIInv, StepIInv, StepBooks, PTL DEF Spec

=============================================================================
