----------------------------- MODULE TierBudget -----------------------------
(***************************************************************************)
(* internal/policy/tierbudget.go: the rolling daily token budget of one    *)
(* remote tier, as the handlers, the registry's sweep and the restoring    *)
(* goroutines of MarkUpstreamRateLimit use it concurrently.                *)
(*                                                                         *)
(* The remaining counter is atomic; the list of deductions is guarded by a *)
(* channel used as a try-lock, so whoever finds it taken gives up.  A      *)
(* request stands for one handler call: Check, the remote completion, then *)
(* Deduct.  Its deduction is identified with it, so that the list is a set *)
(* of requests with their tokens and times.                                *)
(***************************************************************************)
EXTENDS Integers, FiniteSets, FiniteSetsExt

CONSTANTS
    Request,       \* handler calls
    Restorer,      \* slots for the goroutines MarkUpstreamRateLimit starts
    Sweeper,       \* the registry's sweepLoop
    Limit,         \* dailyLimit
    Tokens,        \* token counts a completion may report
    Window,        \* 24 hours, in ticks of the clock
    RetryAfter,    \* the duration given to MarkUpstreamRateLimit, in ticks
    MaxTime,       \* bound on the clock
    NULL

ASSUME BudgetAssumption ==
    /\ Limit \in Nat
    /\ Tokens \subseteq Nat
    /\ Window \in Nat \ {0}
    /\ RetryAfter \in Nat
    /\ MaxTime \in Nat
    /\ Sweeper \notin Restorer
    /\ Request \cap (Restorer \cup {Sweeper}) = {}
    /\ NULL \notin Request \cup Restorer \cup {Sweeper}

Pruner == Restorer \cup {Sweeper}

VARIABLES
    now,           \* time.Now()
    remaining,     \* TierBudget.mu, the atomic counter
    deductions,    \* TierBudget.deductions
    lock,          \* who holds the token of deductMu, or NULL
    rpc,           \* where each request is
    tokens,        \* what each request spent
    at,            \* when its deduction was recorded, or dropped
    ppc,           \* where each pruner is
    pnow,          \* the time each pruner's Prune was given
    pkept,         \* the deductions it found to be in the window
    wake,          \* when a restorer wakes up
    marked,        \* history: zeroed by MarkUpstreamRateLimit, not pruned since
    erased         \* history: requests whose charge the last Prune overwrote

requestVars == <<rpc, tokens, at>>
prunerVars == <<ppc, pnow, pkept, wake>>
vars == <<now, remaining, deductions, lock, requestVars, prunerVars, marked,
          erased>>

TokensOf(S) == MapThenSumSet(LAMBDA r : tokens[r], S)

\* d.at.After(cutoff), for the cutoff of time t.
InWindow(r, t) == at[r] > t - Window

\* Requests that have subtracted their tokens and not yet recorded them.
Pending == {r \in Request : rpc[r] \in {"charged", "recording"}}

-----------------------------------------------------------------------------

Init ==
    /\ now = 0
    /\ remaining = Limit
    /\ deductions = {}
    /\ lock = NULL
    /\ rpc = [r \in Request |-> "new"]
    /\ tokens = [r \in Request |-> 0]
    /\ at = [r \in Request |-> 0]
    /\ ppc = [p \in Pruner |-> "idle"]
    /\ pnow = [p \in Pruner |-> 0]
    /\ pkept = [p \in Pruner |-> {}]
    /\ wake = [p \in Restorer |-> 0]
    /\ marked = FALSE
    /\ erased = {}

-----------------------------------------------------------------------------
(* Handlers: Check and Deduct.                                              *)

RequestGoto(r, l) == rpc' = [rpc EXCEPT ![r] = l]

Check(r) ==
    /\ rpc[r] = "new"
    /\ RequestGoto(r, IF remaining <= 0 THEN "rejected" ELSE "admitted")
    /\ UNCHANGED <<now, remaining, deductions, lock, tokens, at, prunerVars,
                   marked, erased>>

\* The completion fails or its context ends: nothing is deducted.
CompletionFails(r) ==
    /\ rpc[r] = "admitted"
    /\ RequestGoto(r, "failed")
    /\ UNCHANGED <<now, remaining, deductions, lock, tokens, at, prunerVars,
                   marked, erased>>

\* Defect: the spend is only recorded.
DeductAddNothing(r) ==
    /\ rpc[r] = "admitted"
    /\ \E k \in Tokens : tokens' = [tokens EXCEPT ![r] = k]
    /\ RequestGoto(r, "charged")
    /\ UNCHANGED <<now, remaining, deductions, lock, at, prunerVars, marked,
                   erased>>

\* Deduct, first half: the atomic subtraction.
DeductAdd(r) ==
    /\ rpc[r] = "admitted"
    /\ \E k \in Tokens :
          /\ tokens' = [tokens EXCEPT ![r] = k]
          /\ remaining' = remaining - k
    /\ RequestGoto(r, "charged")
    /\ UNCHANGED <<now, deductions, lock, at, prunerVars, marked, erased>>

\* Deduct, second half: recorded only if nobody holds the lock.
DeductTryLock(r) ==
    /\ rpc[r] = "charged"
    /\ \/ /\ lock = NULL
          /\ lock' = r
          /\ RequestGoto(r, "recording")
          /\ UNCHANGED at
       \/ /\ lock # NULL
          /\ RequestGoto(r, "dropped")
          /\ at' = [at EXCEPT ![r] = now]
          /\ UNCHANGED lock
    /\ UNCHANGED <<now, remaining, deductions, tokens, prunerVars, marked,
                   erased>>

\* Defect: the lock is not released.
DeductAppendLocked(r) ==
    /\ rpc[r] = "recording"
    /\ at' = [at EXCEPT ![r] = now]
    /\ deductions' = deductions \cup {r}
    /\ RequestGoto(r, "recorded")
    /\ UNCHANGED <<now, remaining, lock, tokens, prunerVars, marked, erased>>

DeductAppend(r) ==
    /\ rpc[r] = "recording"
    /\ at' = [at EXCEPT ![r] = now]
    /\ deductions' = deductions \cup {r}
    /\ lock' = NULL
    /\ RequestGoto(r, "recorded")
    /\ UNCHANGED <<now, remaining, tokens, prunerVars, marked, erased>>

RequestStep(r) ==
    \/ Check(r) \/ CompletionFails(r)
    \/ DeductAdd(r) \/ DeductTryLock(r) \/ DeductAppend(r)

-----------------------------------------------------------------------------
(* Prune, by the sweep or by a restorer.                                    *)

PrunerGoto(p, l) == ppc' = [ppc EXCEPT ![p] = l]

\* Defect: sweep passes the cutoff where Prune expects the time.
SweepBeginCutoff ==
    /\ ppc[Sweeper] = "idle"
    /\ PrunerGoto(Sweeper, "prune")
    /\ pnow' = [pnow EXCEPT ![Sweeper] = now - Window]
    /\ UNCHANGED <<now, remaining, deductions, lock, requestVars, pkept, wake,
                   marked, erased>>

\* sweep reads the clock once, long before it reaches this tier.
SweepBegin ==
    /\ ppc[Sweeper] = "idle"
    /\ PrunerGoto(Sweeper, "prune")
    /\ pnow' = [pnow EXCEPT ![Sweeper] = now]
    /\ UNCHANGED <<now, remaining, deductions, lock, requestVars, pkept, wake,
                   marked, erased>>

\* Registry.Stop.
Stop ==
    /\ ppc[Sweeper] = "idle"
    /\ PrunerGoto(Sweeper, "stopped")
    /\ UNCHANGED <<now, remaining, deductions, lock, requestVars, pnow, pkept,
                   wake, marked, erased>>

MarkUpstreamRateLimit(p) ==
    /\ ppc[p] = "idle"
    /\ remaining' = 0
    /\ marked' = TRUE
    /\ wake' = [wake EXCEPT ![p] = now + RetryAfter]
    /\ PrunerGoto(p, "sleep")
    /\ UNCHANGED <<now, deductions, lock, requestVars, pnow, pkept, erased>>

RestorerWakes(p) ==
    /\ ppc[p] = "sleep"
    /\ now >= wake[p]
    /\ PrunerGoto(p, "prune")
    /\ pnow' = [pnow EXCEPT ![p] = now]
    /\ wake' = [wake EXCEPT ![p] = 0]
    /\ UNCHANGED <<now, remaining, deductions, lock, requestVars, pkept, marked,
                   erased>>

\* Defect: Prune does not take the lock.
PruneUnlocked(p) ==
    /\ ppc[p] = "prune"
    /\ PrunerGoto(p, "compute")
    /\ UNCHANGED <<now, remaining, deductions, lock, requestVars, pnow, pkept,
                   wake, marked, erased>>

PruneTryLock(p) ==
    /\ ppc[p] = "prune"
    /\ \/ /\ lock = NULL
          /\ lock' = p
          /\ PrunerGoto(p, "compute")
          /\ UNCHANGED pnow
       \/ /\ lock # NULL
          /\ PrunerGoto(p, "idle")
          /\ pnow' = [pnow EXCEPT ![p] = 0]
          /\ UNCHANGED lock
    /\ UNCHANGED <<now, remaining, deductions, requestVars, pkept, wake, marked,
                   erased>>

PruneCompute(p) ==
    /\ ppc[p] = "compute"
    /\ pkept' = [pkept EXCEPT ![p] = {r \in deductions : InWindow(r, pnow[p])}]
    /\ PrunerGoto(p, "store")
    /\ UNCHANGED <<now, remaining, deductions, lock, requestVars, pnow, wake,
                   marked, erased>>

\* The store overwrites what was subtracted and is not recorded.
PruneStore(p) ==
    /\ ppc[p] = "store"
    /\ deductions' = pkept[p]
    /\ remaining' = Limit - TokensOf(pkept[p])
    /\ marked' = FALSE
    /\ erased' = Pending
    /\ PrunerGoto(p, "unlock")
    /\ pnow' = [pnow EXCEPT ![p] = 0]
    /\ pkept' = [pkept EXCEPT ![p] = {}]
    /\ UNCHANGED <<now, lock, requestVars, wake>>

\* Until then the budget is offered again and charges are still dropped.
PruneUnlock(p) ==
    /\ ppc[p] = "unlock"
    /\ lock' = NULL
    /\ PrunerGoto(p, "idle")
    /\ UNCHANGED <<now, remaining, deductions, requestVars, pnow, pkept, wake,
                   marked, erased>>

PruneStep(p) ==
    PruneTryLock(p) \/ PruneCompute(p) \/ PruneStore(p) \/ PruneUnlock(p)

-----------------------------------------------------------------------------

Tick ==
    /\ now < MaxTime
    /\ now' = now + 1
    /\ UNCHANGED <<remaining, deductions, lock, requestVars, prunerVars,
                   marked, erased>>

Next ==
    \/ \E r \in Request : RequestStep(r)
    \/ SweepBegin \/ Stop
    \/ \E p \in Restorer : MarkUpstreamRateLimit(p) \/ RestorerWakes(p)
    \/ \E p \in Pruner : PruneStep(p)
    \/ Tick

Spec == Init /\ [][Next]_vars

(* The ticker keeps firing until the registry is stopped, and a goroutine   *)
(* that has begun a Deduct or a Prune finishes it.  Clocks, completions,    *)
(* marks and Stop are not fair.                                             *)
Fairness ==
    /\ WF_vars(SweepBegin)
    /\ \A p \in Pruner : WF_vars(PruneStep(p))
    /\ \A r \in Request : WF_vars(DeductTryLock(r) \/ DeductAppend(r))

FairSpec == Spec /\ Fairness

-----------------------------------------------------------------------------
(* Properties.                                                              *)

TypeOK ==
    /\ now \in Nat
    /\ remaining \in Int
    /\ deductions \subseteq Request
    /\ lock \in Request \cup Pruner \cup {NULL}
    /\ rpc \in [Request -> {"new", "rejected", "admitted", "failed", "charged",
                            "recording", "recorded", "dropped"}]
    /\ tokens \in [Request -> Nat]
    /\ at \in [Request -> Nat]
    /\ ppc \in [Pruner -> {"idle", "stopped", "sleep", "prune", "compute",
                           "store", "unlock"}]
    /\ pnow \in [Pruner -> Nat]
    /\ pkept \in [Pruner -> SUBSET Request]
    /\ wake \in [Restorer -> Nat]
    /\ marked \in BOOLEAN
    /\ erased \subseteq Request

\* A deduction that was recorded stays in the list for the whole window,
\* whatever sweeps and restorers prune meanwhile with whatever stale clock.
RecordKept ==
    \A r \in Request :
        rpc[r] = "recorded" /\ InWindow(r, now) => r \in deductions

\* The budget offered is never more than the limit less everything recorded
\* or about to be recorded, except for the charges that the last Prune
\* overwrote because they were not recorded yet.
BudgetHonest ==
    remaining <= Max({0, Limit - TokensOf(deductions \cup Pending)}) + TokensOf(erased)

\* A tier zeroed by an upstream 429 gets its budget recomputed although the
\* restorer may find the lock taken and give up: a later sweep does it, as
\* long as the registry is not stopped.
MarkEnds == marked ~> (~marked \/ ppc[Sweeper] = "stopped")

-----------------------------------------------------------------------------
(* What the comments say and the code does not do.                          *)

\* "Deduct atomically subtracts tokens from the tier's remaining budget and
\* records the deduction for rolling window reset" (tierbudget.go:46-47).
DeductionsAreRecorded ==
    \A r \in Request :
        rpc[r] \in {"recorded", "dropped"} /\ InWindow(r, now)
            => r \in deductions

=============================================================================
