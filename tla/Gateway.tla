------------------------------ MODULE Gateway -------------------------------
(***************************************************************************)
(* The two entry points that dispatch a completion, internal/mcp           *)
(* routeComplete and internal/rest implement, with the router's tables,    *)
(* the policy's budgets, the resident local model and the remote clients   *)
(* (module Remote) they share.                                             *)
(*                                                                         *)
(* A request is one handler call.  The components with a concurrency of    *)
(* their own appear as their callers see them: SessionLimiter says whom    *)
(* CheckSession admits, TierBudget how Deduct and Prune share a counter,   *)
(* ModelManager how a swap ends.  The behaviour is that of one day, so     *)
(* that no deduction leaves the window.                                    *)
(***************************************************************************)
EXTENDS Remote, FiniteSetsExt, Functions

CONSTANTS
    Limit,         \* daily limit of the tiers that have one
    ForceTier,     \* values of force_tier besides the empty string
    NULL

Entry == {"mcp", "rest"}
Local == {"local_ornith", "local_qwen"}
Budgeted == {"remote_deepseek", "remote_glm"}

ASSUME GatewayAssumption ==
    /\ Limit \in [Budgeted -> Nat]
    /\ NULL \notin Local \cup {"remote_deepseek"} \cup ForceTier

VARIABLES
    entry,         \* which handler a request came to
    pc,            \* where each handler is
    tier,          \* routeResult.Tier
    gone,          \* the request's context is done
    spent,         \* tokens deducted from sessions
    remaining,     \* TierBudget.mu of each tier that has one
    resident,      \* tier of the resident model, or NULL
    model,         \* the local model that was sent the request
    swapped        \* history: another model was loaded before it was sent

policyVars == <<spent, remaining>>
localVars == <<resident, model, swapped>>
vars == <<entry, pc, tier, gone, policyVars, localVars, remoteVars>>

Final == {"answered", "rejected", "refused", "failed", "cancelled"}

-----------------------------------------------------------------------------
(* The router.                                                              *)

Complexity == {"scaffold", "single_file", "recovery", "text_op", "multi_file"}

complexityToTier ==
    [c \in Complexity |-> IF c = "multi_file" THEN "remote_deepseek" ELSE "local_qwen"]

\* What a task description mentions, in the order in which it is looked for.
Keywords == <<"text_op", "scaffold", "recovery", "multi_file">>

classifyTask(words) ==
    LET found == {i \in DOMAIN Keywords : Keywords[i] \in words} IN
    IF found = {} THEN "single_file" ELSE Keywords[Min(found)]

fallbackChain ==
    [remote_glm |-> "remote_deepseek", remote_deepseek |-> "local_ornith"]

\* Route: an unknown complexity is an error even when a tier is forced, and
\* the forced tier, "" for none, is not looked at.
RouteTo(complexity, force) ==
    IF complexity \notin Complexity THEN NULL
    ELSE IF force = "" THEN complexityToTier[complexity] ELSE force

-----------------------------------------------------------------------------

Init ==
    /\ RemoteInit
    /\ entry = [r \in Request |-> NULL]
    /\ pc = [r \in Request |-> "new"]
    /\ tier = [r \in Request |-> NULL]
    /\ gone = [r \in Request |-> FALSE]
    /\ spent = 0
    /\ remaining = Limit
    /\ resident = NULL
    /\ model = [r \in Request |-> NULL]
    /\ swapped = [r \in Request |-> FALSE]

Goto(r, l) == pc' = [pc EXCEPT ![r] = l]

\* A request comes in.  CheckSession: some limit of the session is reached, or none.
CheckSession(r) ==
    /\ pc[r] = "new"
    /\ \E e \in Entry : entry' = [entry EXCEPT ![r] = e]
    /\ Goto(r, "rejected") \/ Goto(r, "route")
    /\ UNCHANGED <<tier, gone, policyVars, localVars, remoteVars>>

\* An MCP caller names the complexity, REST classifies the task, which has none
\* if it is empty.
Named(e) ==
    IF e = "mcp" THEN Complexity \cup {"unknown"}
    ELSE {classifyTask(words) : words \in SUBSET Range(Keywords)} \cup {"none"}

\* Only MCP goes on to CheckTier.
Route(r) ==
    /\ pc[r] = "route"
    /\ \E c \in Named(entry[r]), f \in ForceTier \cup {""} :
          LET t == RouteTo(c, f) IN
             IF t = NULL
             THEN Goto(r, "refused") /\ UNCHANGED tier
             ELSE /\ tier' = [tier EXCEPT ![r] = t]
                  /\ Goto(r, IF entry[r] = "mcp" THEN "check" ELSE "dispatch")
    /\ UNCHANGED <<entry, gone, policyVars, localVars, remoteVars>>

Exhausted(t) == t \in Budgeted /\ remaining[t] <= 0

\* CheckTier, and one step down the fallback chain when the budget is gone.
CheckTier(r) ==
    /\ pc[r] = "check"
    /\ IF ~Exhausted(tier[r])
       THEN Goto(r, "dispatch") /\ UNCHANGED tier
       ELSE IF tier[r] \in DOMAIN fallbackChain
       THEN /\ tier' = [tier EXCEPT ![r] = fallbackChain[tier[r]]]
            /\ Goto(r, "dispatch")
       ELSE Goto(r, "refused") /\ UNCHANGED tier
    /\ UNCHANGED <<entry, gone, policyVars, localVars, remoteVars>>

\* Only routeComplete looks at its context before it deducts.
Completed(r) == Goto(r, IF entry[r] = "mcp" THEN "completed" ELSE "charge")

\* The remote branch of routeComplete is a placeholder: no provider is called.
DispatchPlaceholder(r) ==
    /\ pc[r] = "dispatch"
    /\ entry[r] = "mcp" /\ tier[r] \notin Local
    /\ \E n \in Tokens : tokens' = [tokens EXCEPT ![r] = n]
    /\ Completed(r)
    /\ UNCHANGED <<entry, tier, gone, policyVars, localVars, keys, provider,
                   attempt, remote, expired, primaryErr, calls>>

\* The remote branch of implement; the call does not get the request's context.
DispatchRemote(r) ==
    /\ pc[r] = "dispatch"
    /\ entry[r] = "rest" /\ tier[r] \in Adapters \ Local
    /\ Do(r)
    /\ Goto(r, "remote")
    /\ UNCHANGED <<entry, tier, gone, policyVars, localVars>>

NoAdapter(r) ==
    /\ pc[r] = "dispatch"
    /\ entry[r] = "rest" /\ tier[r] \notin Adapters \cup Local
    /\ Goto(r, "refused")
    /\ UNCHANGED <<entry, tier, gone, policyVars, localVars, remoteVars>>

RemoteStep(r) ==
    /\ pc[r] = "remote"
    /\ DoStep(r, tier[r])
    /\ UNCHANGED <<entry, pc, tier, gone, policyVars, localVars>>

RemoteReturns(r) ==
    /\ pc[r] = "remote"
    /\ remote[r] \in {"ok"} \cup RemoteError
    /\ IF remote[r] = "ok" THEN Completed(r) ELSE Goto(r, "failed")
    /\ UNCHANGED <<entry, tier, gone, policyVars, localVars, remoteVars>>

-----------------------------------------------------------------------------
(* Local models, as ModelManager answers its callers.                       *)

DispatchLocal(r) ==
    /\ pc[r] = "dispatch"
    /\ tier[r] \in Local
    /\ Goto(r, "load")
    /\ UNCHANGED <<entry, tier, gone, policyVars, localVars, remoteVars>>

\* The processor publishes a model; callers that have not sent their request
\* yet may be on their way to another one.
Publish(t) ==
    /\ resident' = t
    /\ swapped' = [r \in Request |->
                     swapped[r] \/ (pc[r] = "complete" /\ tier[r] # t)]

\* Defect: the fast path accepts whatever is resident.
EnsureLoadedAny(r) ==
    /\ pc[r] = "load"
    /\ Publish(IF resident = NULL THEN tier[r] ELSE resident)
    /\ Goto(r, "complete")
    /\ UNCHANGED <<entry, tier, gone, policyVars, model, remoteVars>>

\* EnsureLoaded succeeds: the tier is resident, or has been swapped in.
EnsureLoaded(r) ==
    /\ pc[r] = "load"
    /\ Publish(tier[r])
    /\ Goto(r, "complete")
    /\ UNCHANGED <<entry, tier, gone, policyVars, model, remoteVars>>

\* It fails: before the old model was stopped, or after.
LoadFails(r) ==
    /\ pc[r] = "load"
    /\ resident' \in {resident, NULL}
    /\ Goto(r, "failed")
    /\ UNCHANGED <<entry, tier, gone, policyVars, model, swapped, remoteVars>>

\* The context ends while the swap is queued or in work: it goes on.
AbandonSwap(r) ==
    /\ pc[r] = "load"
    /\ Goto(r, "abandoned")
    /\ UNCHANGED <<entry, tier, gone, policyVars, localVars, remoteVars>>

AbandonedSwap(r) ==
    /\ pc[r] = "abandoned"
    /\ Publish(tier[r])
    /\ Goto(r, "failed")
    /\ UNCHANGED <<entry, tier, gone, policyVars, model, remoteVars>>

\* Complete is given no tier: it reads whatever is resident now.
Complete(r) ==
    /\ pc[r] = "complete"
    /\ model' = [model EXCEPT ![r] = resident]
    /\ Goto(r, IF resident = NULL THEN "failed" ELSE "completing")
    /\ UNCHANGED <<entry, tier, gone, policyVars, resident, swapped, remoteVars>>

CompletionReturns(r) ==
    /\ pc[r] = "completing"
    /\ \/ \E n \in Tokens : /\ tokens' = [tokens EXCEPT ![r] = n]
                            /\ Completed(r)
       \/ Goto(r, "failed") /\ UNCHANGED tokens
    /\ UNCHANGED <<entry, tier, gone, policyVars, localVars, keys, provider,
                   attempt, remote, expired, primaryErr, calls>>

ModelDies ==
    /\ resident # NULL
    /\ resident' = NULL
    /\ UNCHANGED <<entry, pc, tier, gone, policyVars, model, swapped, remoteVars>>

-----------------------------------------------------------------------------
(* The end of a handler.                                                    *)

\* The context of an MCP request is done.  implement never asks; what its
\* context does to EnsureLoaded and Complete is among their failures.
ClientGoes(r) ==
    /\ entry[r] = "mcp"
    /\ pc[r] \notin Final
    /\ ~gone[r]
    /\ gone' = [gone EXCEPT ![r] = TRUE]
    /\ UNCHANGED <<entry, pc, tier, policyVars, localVars, remoteVars>>

CtxCheck(r) ==
    /\ pc[r] = "completed"
    /\ Goto(r, IF gone[r] THEN "cancelled" ELSE "charge")
    /\ UNCHANGED <<entry, tier, gone, policyVars, localVars, remoteVars>>

DeductSession(r) ==
    /\ pc[r] = "charge"
    /\ spent' = spent + tokens[r]
    /\ Goto(r, "chargeTier")
    /\ UNCHANGED <<entry, tier, gone, remaining, localVars, remoteVars>>

\* Defect: every attempt is charged for.
DeductTierPerCall(r) ==
    /\ pc[r] = "chargeTier"
    /\ remaining' = IF tier[r] \in Budgeted
                    THEN [remaining EXCEPT ![tier[r]] =
                            @ - tokens[r] * (attempt[r] + 1)]
                    ELSE remaining
    /\ Goto(r, "answered")
    /\ UNCHANGED <<entry, tier, gone, spent, localVars, remoteVars>>

DeductTier(r) ==
    /\ pc[r] = "chargeTier"
    /\ remaining' = IF tier[r] \in Budgeted
                    THEN [remaining EXCEPT ![tier[r]] = @ - tokens[r]]
                    ELSE remaining
    /\ Goto(r, "answered")
    /\ UNCHANGED <<entry, tier, gone, spent, localVars, remoteVars>>

HandlerStep(r) ==
    \/ CheckSession(r) \/ Route(r) \/ CheckTier(r)
    \/ DispatchPlaceholder(r) \/ DispatchRemote(r) \/ NoAdapter(r)
    \/ RemoteReturns(r)
    \/ DispatchLocal(r) \/ EnsureLoaded(r) \/ LoadFails(r) \/ AbandonSwap(r)
    \/ Complete(r) \/ CompletionReturns(r)
    \/ CtxCheck(r) \/ DeductSession(r) \/ DeductTier(r)

DeadlinePasses(r) ==
    /\ Expire(r)
    /\ UNCHANGED <<entry, pc, tier, gone, policyVars, localVars>>

Next ==
    \/ \E r \in Request : \/ HandlerStep(r) \/ RemoteStep(r)
                          \/ DeadlinePasses(r) \/ AbandonedSwap(r)
                          \/ ClientGoes(r)
    \/ ModelDies

Spec == Init /\ [][Next]_vars

\* A handler runs when it can; EnsureLoaded and Complete return (the swap
\* answers or the context ends, http.Client has a timeout), and so does every
\* call of a provider (client.timeout).  Clients and models need not fail.
FairSpec ==
    /\ Spec
    /\ \A r \in Request : WF_vars(HandlerStep(r)) /\ WF_vars(RemoteStep(r))

-----------------------------------------------------------------------------

TypeOK ==
    /\ RemoteTypeOK
    /\ entry \in [Request -> Entry \cup {NULL}]
    /\ pc \in [Request -> {"new", "route", "check", "dispatch", "load", "complete",
                           "completing", "remote", "completed", "charge",
                           "chargeTier", "abandoned"} \cup Final]
    /\ tier \in [Request -> Local \cup Budgeted \cup ForceTier \cup {NULL}]
    /\ gone \in [Request -> BOOLEAN]
    /\ spent \in Nat
    /\ remaining \in [Budgeted -> Int]
    /\ resident \in Local \cup {NULL}
    /\ model \in [Request -> Local \cup {NULL}]
    /\ swapped \in [Request -> BOOLEAN]

Spent(S) == MapThenSumSet(LAMBDA r : tokens[r], S)

\* The books balance: sessions and tiers are charged with the tokens of the
\* answered requests, once each and at the tier that served them, whatever was
\* retried, fell back, failed or was cancelled on the way (proposal.md:49 of
\* remote-clients-v03, handlers.go:136-143).
ChargedAsAnswered ==
    LET Served(l) == {r \in Request : pc[r] \in l} IN
    /\ spent = Spent(Served({"chargeTier", "answered"}))
    /\ \A t \in Budgeted :
          Limit[t] - remaining[t] = Spent({r \in Served({"answered"}) : tier[r] = t})

\* A completion is answered by a model of the tier it was routed to, unless
\* another request swapped models between EnsureLoaded and Complete, which
\* takes no tier (handlers.go:110-121, client.go:56).
AnsweredByItsTier ==
    \A r \in Request : model[r] \in Local => model[r] = tier[r] \/ swapped[r]

\* Every request comes to its end: retries, the fallback and the chain of
\* tiers are finite (retry.go:121, openrouter_fallback.go:23).
RequestEnds == \A r \in Request : <>(pc[r] \in Final \cup {"abandoned"})

\* What README.md:106 says of exhausted budgets: a request goes down the chain
\* until it reaches a tier that has budget left, or a local one.
CascadeOnExhaustion ==
    [][\A r \in Request : pc[r] # "dispatch" /\ pc'[r] = "dispatch" => ~Exhausted(tier'[r])]_vars

=============================================================================
