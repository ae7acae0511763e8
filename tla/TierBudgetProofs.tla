-------------------------- MODULE TierBudgetProofs --------------------------
(***************************************************************************)
(* Theorems about TierBudget for every set of requests and restorers and   *)
(* every limit and window.  The try-lock is what makes the read of the     *)
(* list in Prune and its later replacement one step for everybody else.    *)
(***************************************************************************)
EXTENDS TierBudget, Induction

\* Whoever is in a critical section holds the lock.
LockInv ==
    /\ \A r \in Request : rpc[r] = "recording" => lock = r
    /\ \A p \in Pruner : ppc[p] \in {"compute", "store", "unlock"} => lock = p

\* What a pruner kept is what the list still holds for the time it was given,
\* and that time is not in the future.
KeptInv ==
    \A p \in Pruner :
        /\ pnow[p] <= now
        /\ ppc[p] = "store" =>
              pkept[p] = {r \in deductions : InWindow(r, pnow[p])}

\* The part of the type invariant the proofs rest on.
Types ==
    /\ now \in Nat
    /\ deductions \subseteq Request
    /\ rpc \in [Request -> {"new", "rejected", "admitted", "failed", "charged",
                            "recording", "recorded", "dropped"}]
    /\ at \in [Request -> Nat]
    /\ ppc \in [Pruner -> {"idle", "stopped", "sleep", "prune", "compute",
                           "store", "unlock"}]
    /\ pnow \in [Pruner -> Nat]
    /\ pkept \in [Pruner -> SUBSET Request]

\* The list holds only what was recorded.
ListInv == \A r \in deductions : rpc[r] = "recorded"

IInv == Types /\ LockInv /\ ListInv /\ KeptInv /\ RecordKept

LEMMA InitIInv == Init => IInv
  BY DEF Init, IInv, Types, LockInv, ListInv, KeptInv, RecordKept

\* Requests and pruners are different goroutines, and none is NULL.
LEMMA Distinct ==
  /\ \A r \in Request, p \in Pruner : r # p
  /\ NULL \notin Request \cup Pruner
  /\ Sweeper \in Pruner /\ Restorer \subseteq Pruner
  BY BudgetAssumption DEF Pruner

\* A handler's step.
LEMMA RequestIInv ==
  ASSUME IInv, NEW r \in Request, RequestStep(r)
  PROVE  IInv'
<1> USE BudgetAssumption, Distinct
    DEF IInv, Types, LockInv, ListInv, KeptInv, RecordKept, InWindow, requestVars,
        prunerVars, RequestGoto
<1>1. CASE Check(r)
  BY <1>1 DEF Check
<1>2. CASE CompletionFails(r)
  BY <1>2 DEF CompletionFails
<1>3. CASE DeductAdd(r)
  BY <1>3 DEF DeductAdd
<1>4. CASE DeductTryLock(r)
  <2>1. r \notin deductions
    BY <1>4 DEF DeductTryLock
  <2>2. Types' /\ LockInv' /\ ListInv'
    BY <1>4 DEF DeductTryLock
  <2>3. KeptInv'
    BY <1>4, <2>1 DEF DeductTryLock
  <2>4. RecordKept'
    BY <1>4 DEF DeductTryLock
  <2> QED
    BY <2>2, <2>3, <2>4
<1>5. CASE DeductAppend(r)
  <2>1. \A p \in Pruner : ppc[p] # "store"
    BY <1>5 DEF DeductAppend
  <2>2. Types' /\ LockInv' /\ ListInv'
    BY <1>5 DEF DeductAppend
  <2>3. KeptInv'
    BY <1>5, <2>1 DEF DeductAppend
  <2>4. RecordKept'
    BY <1>5 DEF DeductAppend
  <2> QED
    BY <2>2, <2>3, <2>4
<1> QED
  BY <1>1, <1>2, <1>3, <1>4, <1>5 DEF RequestStep

\* A step of Prune.
LEMMA PruneIInv ==
  ASSUME IInv, NEW p \in Pruner, PruneStep(p)
  PROVE  IInv'
<1> USE BudgetAssumption, Distinct
    DEF IInv, Types, LockInv, ListInv, KeptInv, RecordKept, InWindow, requestVars,
        prunerVars, PrunerGoto
<1>1. CASE PruneTryLock(p)
  BY <1>1 DEF PruneTryLock
<1>2. CASE PruneCompute(p)
  BY <1>2 DEF PruneCompute
<1>3. CASE PruneStore(p)
  BY <1>3 DEF PruneStore
<1>4. CASE PruneUnlock(p)
  BY <1>4 DEF PruneUnlock
<1> QED
  BY <1>1, <1>2, <1>3, <1>4 DEF PruneStep

\* Every other step.
LEMMA NextIInv == IInv /\ [Next]_vars => IInv'
<1> SUFFICES ASSUME IInv, [Next]_vars PROVE IInv'
  OBVIOUS
<1>1. ASSUME NEW r \in Request, RequestStep(r)
      PROVE  IInv'
  BY <1>1, RequestIInv
<1>2. ASSUME NEW p \in Pruner, PruneStep(p)
      PROVE  IInv'
  BY <1>2, PruneIInv
<1> USE BudgetAssumption, Distinct
    DEF IInv, Types, LockInv, ListInv, KeptInv, RecordKept, InWindow, requestVars,
        prunerVars, PrunerGoto
<1>3. CASE SweepBegin
  BY <1>3 DEF SweepBegin
<1>4. CASE Stop
  BY <1>4 DEF Stop
<1>5. ASSUME NEW p \in Restorer, MarkUpstreamRateLimit(p)
      PROVE  IInv'
  BY <1>5 DEF MarkUpstreamRateLimit
<1>6. ASSUME NEW p \in Restorer, RestorerWakes(p)
      PROVE  IInv'
  BY <1>6 DEF RestorerWakes
<1>7. CASE Tick
  BY <1>7 DEF Tick
<1>8. CASE UNCHANGED vars
  BY <1>8 DEF vars
<1> QED
  BY <1>1, <1>2, <1>3, <1>4, <1>5, <1>6, <1>7, <1>8 DEF Next

\* No recorded deduction leaves the list before it is older than the window,
\* for any number of handlers, sweeps and restorers.
THEOREM RecordsKept == Spec => []RecordKept
<1>1. IInv => RecordKept
  BY DEF IInv
<1> QED
  BY <1>1, InitIInv, NextIInv, PTL DEF Spec

-----------------------------------------------------------------------------
(* Sums of tokens, and the budget.                                          *)

\* The requests whose tokens are known, of which there are finitely many, since
\* each came with a step of its own.
Charged == {r \in Request : rpc[r] \in {"charged", "recording", "recorded", "dropped"}}

Charges ==
    /\ IsFiniteSet(Charged)
    /\ deductions \subseteq Charged /\ erased \subseteq Charged
    /\ \A p \in Pruner : ppc[p] = "store" => pkept[p] \subseteq deductions

Ledger == TypeOK /\ Charges /\ BudgetHonest

\* TokensOf is Total of the tokens; it grows with its set, by what is added to it.
LEMMA TokensOfIsTotal == ASSUME NEW S PROVE TokensOf(S) = Total(tokens, S)
  BY DEF TokensOf, Total, MapThenSumSet, MapThenFoldSet

LEMMA TokensOfFacts ==
  ASSUME tokens \in [Request -> Nat],
         NEW S \in SUBSET Request, NEW T \in SUBSET Request,
         IsFiniteSet(S), IsFiniteSet(T)
  PROVE  /\ TokensOf(S) \in Nat /\ TokensOf(T) \in Nat /\ TokensOf(S \cup T) \in Nat
         /\ TokensOf(S \cup T) <= TokensOf(S) + TokensOf(T)
         /\ S \subseteq T => TokensOf(S) <= TokensOf(T)
<1>1. \A x \in S \cup T : tokens[x] \in Nat
  OBVIOUS
<1>2. IsFiniteSet(S \cup T)
  BY FS_Union
<1>3. Total(tokens, S) \in Nat /\ Total(tokens, T) \in Nat /\ Total(tokens, S \cup T) \in Nat
  BY <1>1, <1>2, TotalNat
<1>4. Total(tokens, S \cup T) <= Total(tokens, S) + Total(tokens, T)
  BY <1>1, TotalSubadditive
<1>5. S \subseteq T => Total(tokens, S) <= Total(tokens, T)
  BY <1>1, TotalMonotone
<1> QED
  BY <1>3, <1>4, <1>5, TokensOfIsTotal


LEMMA MaxOfZero ==
  ASSUME NEW x \in Int
  PROVE  Max({0, x}) = IF x >= 0 THEN x ELSE 0
<1> DEFINE m == IF x >= 0 THEN x ELSE 0
<1>1. m \in {0, x} /\ \A y \in {0, x} : m >= y
  OBVIOUS
<1>2. \A n \in {0, x} : (\A y \in {0, x} : n >= y) => n = m
  OBVIOUS
<1> QED
  BY <1>1, <1>2 DEF Max

\* What BudgetHonest compares the counter with.
Offered(w, S, E) == Max({0, Limit - Total(w, S)}) + Total(w, E)

LEMMA HonestIsOffered ==
  BudgetHonest <=> remaining <= Offered(tokens, deductions \cup Pending, erased)
  BY TokensOfIsTotal DEF BudgetHonest, Offered

LEMMA PendingCharged ==
  Pending \subseteq Charged /\ Charged \subseteq Request
  BY DEF Pending, Charged

\* The fewer tokens are out, the more is offered.
LEMMA OfferedMonotone ==
  ASSUME NEW w \in [Request -> Nat],
         NEW T \in SUBSET Request, IsFiniteSet(T), NEW S \in SUBSET T,
         NEW E \in SUBSET Request, IsFiniteSet(E)
  PROVE  Offered(w, T, E) <= Offered(w, S, E)
<1>1. Total(w, S) <= Total(w, T)
  BY TotalMonotone
<1>2. Total(w, S) \in Nat /\ Total(w, T) \in Nat /\ Total(w, E) \in Nat
  BY FS_Subset, TotalNat
<1>3. Limit \in Int
  BY BudgetAssumption
<1> DEFINE s == Total(w, S) t == Total(w, T) e == Total(w, E)
<1>4. /\ Max({0, Limit - s}) = IF Limit - s >= 0 THEN Limit - s ELSE 0
      /\ Max({0, Limit - t}) = IF Limit - t >= 0 THEN Limit - t ELSE 0
  BY <1>2, <1>3, MaxOfZero
<1> HIDE DEF s, t, e
<1>5. Max({0, Limit - t}) + e <= Max({0, Limit - s}) + e
  BY <1>1, <1>2, <1>3, <1>4 DEF s, t, e
<1> QED
  BY <1>5 DEF Offered, s, t, e

LEMMA OfferedNat ==
  ASSUME NEW w \in [Request -> Nat],
         NEW S \in SUBSET Request, IsFiniteSet(S),
         NEW E \in SUBSET Request, IsFiniteSet(E)
  PROVE  Offered(w, S, E) \in Nat
<1>1. Total(w, S) \in Nat /\ Total(w, E) \in Nat /\ Limit \in Int
  BY TotalNat, BudgetAssumption
<1>2. Max({0, Limit - Total(w, S)}) \in Nat
  BY <1>1, MaxOfZero
<1> QED
  BY <1>1, <1>2 DEF Offered

\* A step that changes no tokens and neither raises the counter nor brings new
\* charges keeps the budget honest.
LEMMA HonestFrame ==
  ASSUME Ledger, TypeOK', Charges',
         tokens' = tokens, erased' = erased, remaining' = remaining,
         (deductions \cup Pending)' \subseteq deductions \cup Pending
  PROVE  BudgetHonest'
<1> DEFINE T == deductions \cup Pending
           S == deductions' \cup Pending'
<1>1. /\ T \in SUBSET Request /\ IsFiniteSet(T) /\ S \in SUBSET T
      /\ erased \in SUBSET Request /\ IsFiniteSet(erased)
  BY PendingCharged, FS_Subset DEF Ledger, Charges
<1>2. tokens \in [Request -> Nat] /\ remaining \in Int
  BY DEF Ledger, TypeOK
<1>3. remaining <= Offered(tokens, T, erased)
  BY HonestIsOffered DEF Ledger
<1> HIDE DEF S, T
<1>4. Offered(tokens, T, erased) <= Offered(tokens, S, erased)
  BY <1>1, <1>2, OfferedMonotone
<1>5. S \in SUBSET Request /\ IsFiniteSet(S)
  BY <1>1, FS_Subset
<1>6. Offered(tokens, T, erased) \in Int /\ Offered(tokens, S, erased) \in Int
  BY <1>1, <1>2, <1>5, OfferedNat
<1>7. remaining <= Offered(tokens, S, erased)
  BY <1>2, <1>3, <1>4, <1>6
<1> QED
  BY <1>7, TokensOfIsTotal DEF BudgetHonest, Offered, S, TokensOf, Total,
     MapThenSumSet, MapThenFoldSet


LEMMA InitLedger == Init => Ledger
<1> SUFFICES ASSUME Init PROVE Ledger
  OBVIOUS
<1>1. TypeOK
  <2>1. remaining \in Int /\ now \in Nat
    BY BudgetAssumption DEF Init
  <2> QED
    BY <2>1 DEF Init, TypeOK
<1>2. Charges /\ deductions \cup Pending = {} /\ erased = {}
  BY FS_EmptySet DEF Init, Charges, Charged, Pending
<1>3. BudgetHonest
  <2>1. Offered(tokens, {}, {}) = Limit
    BY TotalEmpty, MaxOfZero, BudgetAssumption DEF Offered
  <2> QED
    BY <1>2, <2>1, HonestIsOffered, BudgetAssumption DEF Init
<1> QED
  BY <1>1, <1>2, <1>3 DEF Ledger

\* A handler's step.
LEMMA RequestLedger ==
  ASSUME IInv, Ledger, NEW r \in Request, RequestStep(r)
  PROVE  Ledger'
<1> USE DEF RequestGoto, requestVars, prunerVars
<1>1. CASE Check(r) \/ CompletionFails(r)
  <2>1. TypeOK'
    BY <1>1 DEF Ledger, TypeOK, Check, CompletionFails
  <2>2. Charged' = Charged /\ Pending' = Pending
    BY <1>1 DEF Ledger, TypeOK, Charged, Pending, Check, CompletionFails
  <2>3. Charges'
    BY <1>1, <2>2 DEF Ledger, Charges, Check, CompletionFails
  <2>4. BudgetHonest'
    BY <1>1, <2>1, <2>2, <2>3, HonestFrame DEF Check, CompletionFails
  <2> QED
    BY <2>1, <2>3, <2>4 DEF Ledger
<1>2. CASE DeductAdd(r)
  <2>1. PICK k \in Tokens : /\ tokens' = [tokens EXCEPT ![r] = k]
                            /\ remaining' = remaining - k
    BY <1>2 DEF DeductAdd
  <2>2. k \in Nat /\ tokens \in [Request -> Nat] /\ tokens' \in [Request -> Nat]
        /\ remaining \in Int
    BY <2>1, BudgetAssumption DEF Ledger, TypeOK
  <2>3. TypeOK'
    BY <1>2, <2>1, <2>2 DEF DeductAdd, Ledger, TypeOK
  <2>4. /\ Charged' = Charged \cup {r} /\ Pending' = Pending \cup {r}
        /\ r \notin Charged /\ UNCHANGED <<deductions, erased, ppc, pkept>>
    BY <1>2 DEF DeductAdd, Ledger, TypeOK, Charged, Pending
  <2>5. Charges'
    BY <2>4, FS_AddElement DEF Ledger, Charges
  <2> DEFINE S == deductions \cup Pending
             E == erased
  <2>6. /\ S \in SUBSET Request /\ IsFiniteSet(S) /\ r \notin S
        /\ E \in SUBSET Request /\ IsFiniteSet(E) /\ r \notin E
        /\ deductions' \cup Pending' = S \cup {r} /\ erased' = E
    BY <2>4, PendingCharged, FS_Subset DEF Ledger, Charges
  <2>7. remaining <= Offered(tokens, S, E)
    BY HonestIsOffered DEF Ledger
  <2> HIDE DEF S, E
  <2>8. /\ Total(tokens', S) = Total(tokens, S)
        /\ Total(tokens', E) = Total(tokens, E)
    <3>1. \A x \in S \cup E : tokens'[x] = tokens[x] /\ tokens[x] \in Int
      BY <2>1, <2>2, <2>6
    <3> QED
      BY <3>1, <2>6, TotalSame
  <2>9. Total(tokens', S \cup {r}) = k + Total(tokens', S)
    <3>1. \A x \in S \cup {r} : tokens'[x] \in Int
      BY <2>2, <2>6
    <3>2. tokens'[r] = k
      BY <2>1, <2>2
    <3> QED
      BY <3>1, <3>2, <2>6, TotalAdd
  <2> DEFINE s == Total(tokens, S)
             e == Total(tokens, E)
  <2>10. s \in Nat /\ e \in Nat /\ Limit \in Int
    BY <2>2, <2>6, TotalNat, BudgetAssumption
  <2>11. /\ Offered(tokens, S, E) = Max({0, Limit - s}) + e
         /\ Offered(tokens', S \cup {r}, E) = Max({0, Limit - (k + s)}) + e
    BY <2>8, <2>9 DEF Offered
  <2> HIDE DEF s, e
  <2>12. /\ Max({0, Limit - s}) = IF Limit - s >= 0 THEN Limit - s ELSE 0
         /\ Max({0, Limit - (k + s)}) = IF Limit - (k + s) >= 0 THEN Limit - (k + s) ELSE 0
    BY <2>2, <2>10, MaxOfZero
  <2>13. remaining' <= Offered(tokens', S \cup {r}, E)
    BY <2>1, <2>2, <2>7, <2>10, <2>11, <2>12
  <2>14. BudgetHonest'
    BY <2>13, <2>6, TokensOfIsTotal DEF BudgetHonest, Offered, TokensOf, Total,
       MapThenSumSet, MapThenFoldSet
  <2> QED
    BY <2>3, <2>5, <2>14 DEF Ledger
<1>3. CASE DeductTryLock(r)
  <2>1. TypeOK'
    BY <1>3 DEF Ledger, TypeOK, DeductTryLock
  <2>2. Charged' = Charged /\ Pending' \subseteq Pending
    BY <1>3 DEF Ledger, TypeOK, Charged, Pending, DeductTryLock
  <2>3. Charges'
    BY <1>3, <2>2 DEF Ledger, Charges, DeductTryLock
  <2>4. BudgetHonest'
    BY <1>3, <2>1, <2>2, <2>3, HonestFrame DEF DeductTryLock
  <2> QED
    BY <2>1, <2>3, <2>4 DEF Ledger
<1>4. CASE DeductAppend(r)
  <2>1. TypeOK'
    BY <1>4 DEF Ledger, TypeOK, DeductAppend
  <2>2. Charged' = Charged /\ r \in Pending /\ r \in Charged /\ Pending' \subseteq Pending
        /\ deductions' = deductions \cup {r}
    BY <1>4 DEF Ledger, TypeOK, Charged, Pending, DeductAppend
  <2>3. Charges'
    BY <1>4, <2>2 DEF Ledger, Charges, DeductAppend
  <2>4. BudgetHonest'
    BY <1>4, <2>1, <2>2, <2>3, HonestFrame DEF DeductAppend
  <2> QED
    BY <2>1, <2>3, <2>4 DEF Ledger
<1> QED
  BY <1>1, <1>2, <1>3, <1>4 DEF RequestStep


\* The step that overwrites the counter: what it forgets, it forgets of those
\* that have charged and not recorded.
LEMMA StoreLedger ==
  ASSUME IInv, Ledger, NEW p \in Pruner, PruneStore(p)
  PROVE  Ledger'
<1> DEFINE kept == pkept[p]
<1>1. /\ kept \subseteq deductions /\ deductions' = kept /\ erased' = Pending
      /\ Pending' = Pending /\ Charged' = Charged /\ tokens' = tokens
  BY DEF PruneStore, requestVars, Ledger, Charges, Pending, Charged
<1>2. /\ kept \in SUBSET Request /\ IsFiniteSet(kept)
      /\ Pending \in SUBSET Request /\ IsFiniteSet(Pending)
      /\ IsFiniteSet(kept \cup Pending) /\ kept \cup Pending \in SUBSET Request
  BY <1>1, PendingCharged, FS_Subset, FS_Union DEF Ledger, Charges
<1>3. tokens \in [Request -> Nat] /\ Limit \in Int
  BY BudgetAssumption DEF Ledger, TypeOK
<1>4. remaining' = Limit - Total(tokens, kept)
  BY TokensOfIsTotal DEF PruneStore
<1> HIDE DEF kept
<1>5. TokensOf(kept) \in Nat
  BY <1>2, <1>3, TokensOfFacts
<1>6. TypeOK'
  <2>1. remaining' \in Int /\ deductions' \subseteq Request /\ erased' \subseteq Request
    BY <1>1, <1>2, <1>3, <1>4, <1>5, TokensOfIsTotal
  <2> QED
    BY <2>1 DEF PruneStore, PrunerGoto, requestVars, Ledger, TypeOK
<1>7. Charges'
  <2>1. ppc \in [Pruner -> {"idle", "stopped", "sleep", "prune", "compute", "store",
                           "unlock"}]
        /\ pkept \in [Pruner -> SUBSET Request]
        /\ ppc[p] = "store" /\ ppc' = [ppc EXCEPT ![p] = "unlock"]
    BY DEF PruneStore, PrunerGoto, Ledger, TypeOK
  <2>2. \A q \in Pruner : ppc'[q] # "store"
    <3> SUFFICES ASSUME NEW q \in Pruner PROVE ppc'[q] # "store"
      OBVIOUS
    <3>1. CASE q = p
      BY <2>1, <3>1
    <3>2. CASE q # p
      BY <2>1, <3>2 DEF IInv, LockInv
    <3> QED
      BY <3>1, <3>2
  <2>3. deductions' \subseteq Charged' /\ erased' \subseteq Charged' /\ IsFiniteSet(Charged')
    BY <1>1, PendingCharged DEF Ledger, Charges
  <2> QED
    BY <2>2, <2>3 DEF Charges
<1> DEFINE k == Total(tokens, kept)
           e == Total(tokens, Pending)
           s == Total(tokens, kept \cup Pending)
<1>8. k \in Nat /\ e \in Nat /\ s \in Nat /\ s <= k + e
  BY <1>2, <1>3, TokensOfFacts, TokensOfIsTotal
<1>9. Offered(tokens, kept \cup Pending, Pending) = Max({0, Limit - s}) + e
  BY DEF Offered
<1> HIDE DEF k, e, s
<1>10. Max({0, Limit - s}) = IF Limit - s >= 0 THEN Limit - s ELSE 0
  BY <1>3, <1>8, MaxOfZero
<1>11. remaining' <= Offered(tokens, kept \cup Pending, Pending)
  BY <1>3, <1>4, <1>8, <1>9, <1>10 DEF k
<1>12. BudgetHonest'
  BY <1>1, <1>11, TokensOfIsTotal DEF BudgetHonest, Offered, TokensOf, Total,
     MapThenSumSet, MapThenFoldSet
<1> QED
  BY <1>6, <1>7, <1>12 DEF Ledger

LEMMA MarkLedger ==
  ASSUME IInv, Ledger, NEW p \in Restorer, MarkUpstreamRateLimit(p)
  PROVE  Ledger'
<1> USE DEF PrunerGoto, requestVars
<1>1. TypeOK'
  BY BudgetAssumption DEF Ledger, TypeOK, MarkUpstreamRateLimit, Pruner
<1>2. /\ Charged' = Charged /\ Pending' = Pending /\ tokens' = tokens
      /\ UNCHANGED <<deductions, erased, pkept>>
  BY DEF MarkUpstreamRateLimit, Charged, Pending
<1>3. Charges'
  BY <1>2 DEF Ledger, TypeOK, Charges, MarkUpstreamRateLimit
<1> DEFINE S == deductions \cup Pending
<1>4. /\ S \in SUBSET Request /\ IsFiniteSet(S)
      /\ erased \in SUBSET Request /\ IsFiniteSet(erased)
      /\ tokens \in [Request -> Nat]
  BY PendingCharged, FS_Subset DEF Ledger, TypeOK, Charges
<1>5. Offered(tokens, S, erased) \in Nat
  BY <1>4, OfferedNat
<1>6. remaining' <= Offered(tokens, S, erased)
  BY <1>5 DEF MarkUpstreamRateLimit
<1>7. BudgetHonest'
  BY <1>2, <1>6, TokensOfIsTotal DEF BudgetHonest, Offered, TokensOf, Total,
     MapThenSumSet, MapThenFoldSet
<1> QED
  BY <1>1, <1>3, <1>7 DEF Ledger

LEMMA NextLedger == IInv /\ Ledger /\ [Next]_vars => Ledger'
<1> SUFFICES ASSUME IInv, Ledger, [Next]_vars PROVE Ledger'
  OBVIOUS
<1>1. ASSUME NEW r \in Request, RequestStep(r)
      PROVE  Ledger'
  BY <1>1, RequestLedger
<1>2. ASSUME NEW p \in Pruner, PruneStore(p)
      PROVE  Ledger'
  BY <1>2, StoreLedger
<1>3. ASSUME NEW p \in Restorer, MarkUpstreamRateLimit(p)
      PROVE  Ledger'
  BY <1>3, MarkLedger
<1> DEFINE Quiet == UNCHANGED <<remaining, deductions, requestVars, erased>>
<1>4. ASSUME Quiet, TypeOK',
             \A p \in Pruner : ppc'[p] = "store" => pkept'[p] \subseteq deductions
      PROVE  Ledger'
  <2>1. Charged' = Charged /\ Pending' = Pending /\ tokens' = tokens
    BY <1>4 DEF Charged, Pending, requestVars
  <2>2. Charges'
    BY <1>4, <2>1 DEF Ledger, Charges
  <2>3. BudgetHonest'
    BY <1>4, <2>1, <2>2, HonestFrame
  <2> QED
    BY <1>4, <2>2, <2>3 DEF Ledger
<1>5. \A p \in Pruner : ppc[p] = "store" => pkept[p] \subseteq deductions
  BY DEF Ledger, Charges
<1> USE <1>5, BudgetAssumption, Distinct DEF Ledger, TypeOK, PrunerGoto, requestVars
<1>6. ASSUME NEW p \in Pruner, PruneTryLock(p)
      PROVE  Ledger'
  BY <1>6, <1>4 DEF PruneTryLock
<1>7. ASSUME NEW p \in Pruner, PruneCompute(p)
      PROVE  Ledger'
  BY <1>7, <1>4 DEF PruneCompute
<1>8. CASE SweepBegin
  BY <1>8, <1>4 DEF SweepBegin
<1>9. CASE Stop
  BY <1>9, <1>4 DEF Stop
<1>10. ASSUME NEW p \in Restorer, RestorerWakes(p)
      PROVE  Ledger'
  BY <1>10, <1>4 DEF RestorerWakes
<1>11. CASE Tick
  BY <1>11, <1>4 DEF Tick, prunerVars
<1>12. ASSUME NEW p \in Pruner, PruneUnlock(p)
       PROVE  Ledger'
  BY <1>12, <1>4 DEF PruneUnlock
<1>13. CASE UNCHANGED vars
  BY <1>13, <1>4 DEF vars, prunerVars
<1> QED
  BY <1>1, <1>2, <1>3, <1>6, <1>7, <1>8, <1>9, <1>10, <1>11, <1>12, <1>13
  DEF Next, PruneStep

\* Every variable keeps its type, the counter being an integer that a race may
\* leave below zero.
THEOREM TypeCorrect == Spec => []TypeOK
<1>1. Ledger => TypeOK
  BY DEF Ledger
<1> QED
  BY <1>1, InitIInv, NextIInv, InitLedger, NextLedger, PTL DEF Spec

\* The counter never offers more than the limit less what is recorded or about
\* to be, but for the charges that the last Prune overwrote.
THEOREM Honest == Spec => []BudgetHonest
<1>1. Ledger => BudgetHonest
  BY DEF Ledger
<1> QED
  BY <1>1, InitIInv, NextIInv, InitLedger, NextLedger, PTL DEF Spec

=============================================================================
