------------------------ MODULE SessionLimiterProofs ------------------------
(***************************************************************************)
(* Theorems about SessionLimiter for every set of sessions, handlers and   *)
(* buckets, every limit, window and idle time.                             *)
(***************************************************************************)
EXTENDS SessionLimiter, Induction

-----------------------------------------------------------------------------
(* The windows.                                                             *)

LEMMA RecentFacts ==
  ASSUME NEW times \in Seq(Nat), NEW t0 \in Nat, NEW t1 \in Nat, t0 <= t1,
         NEW t \in Nat, NEW w \in Nat
  PROVE  /\ Recent(times, t0, w) \in Seq(Nat)
         /\ Recent(Recent(times, t0, w), t1, w) = Recent(times, t1, w)
         /\ Recent(Append(times, t), t1, w) =
               IF After(t, t1, w) THEN Append(Recent(times, t1, w), t)
               ELSE Recent(times, t1, w)
         /\ Len(Recent(times, t1, w)) <= Len(times)
<1> DEFINE S == {u \in Nat : After(u, t0, w)}
           T == {u \in Nat : After(u, t1, w)}
<1>1. T \cap Nat \subseteq S
  BY DEF After
<1>2. t \in T <=> After(t, t1, w)
  OBVIOUS
<1>3. \A s : Recent(s, t0, w) = Among(s, S) /\ Recent(s, t1, w) = Among(s, T)
  BY DEF Recent
<1> HIDE DEF S, T
<1>4. Among(times, S) \in Seq(Nat)
  BY AmongFacts
<1>5. Among(Among(times, S), T) = Among(times, T)
  BY <1>1, AmongAmong
<1>6. Among(Append(times, t), T) =
         IF t \in T THEN Append(Among(times, T), t) ELSE Among(times, T)
  BY AmongAppend
<1>7. Len(Among(times, T)) <= Len(times)
  BY AmongShorter
<1> QED
  BY <1>2, <1>3, <1>4, <1>5, <1>6, <1>7

LEMMA RecentSpendsFacts ==
  ASSUME NEW ds \in Seq(Deduction), NEW t0 \in Nat, NEW t1 \in Nat, t0 <= t1,
         NEW d \in Deduction
  PROVE  /\ RecentSpends(ds, t0) \in Seq(Deduction)
         /\ RecentSpends(RecentSpends(ds, t0), t1) = RecentSpends(ds, t1)
         /\ RecentSpends(Append(ds, d), t1) =
               IF After(d.at, t1, TokenWindow) THEN Append(RecentSpends(ds, t1), d)
               ELSE RecentSpends(ds, t1)
<1> DEFINE S == {u \in Deduction : After(u.at, t0, TokenWindow)}
           T == {u \in Deduction : After(u.at, t1, TokenWindow)}
<1>1. T \cap Deduction \subseteq S
  BY LimiterAssumption DEF After, Deduction
<1>2. d \in T <=> After(d.at, t1, TokenWindow)
  OBVIOUS
<1>3. \A s : RecentSpends(s, t0) = Among(s, S) /\ RecentSpends(s, t1) = Among(s, T)
  BY DEF RecentSpends
<1> HIDE DEF S, T
<1>4. Among(ds, S) \in Seq(Deduction)
  BY AmongFacts
<1>5. Among(Among(ds, S), T) = Among(ds, T)
  BY <1>1, AmongAmong
<1>6. Among(Append(ds, d), T) =
         IF d \in T THEN Append(Among(ds, T), d) ELSE Among(ds, T)
  BY AmongAppend
<1> QED
  BY <1>2, <1>3, <1>4, <1>5, <1>6

LEMMA NothingRecent ==
  ASSUME NEW t, NEW w
  PROVE  Recent(<<>>, t, w) = <<>> /\ RecentSpends(<<>>, t) = <<>>
  BY AmongEmpty DEF Recent, RecentSpends

LEMMA SpendsTwice ==
  ASSUME NEW ds \in Seq(Deduction), NEW t0 \in Nat, NEW t1 \in Nat, t0 <= t1
  PROVE  /\ RecentSpends(ds, t0) \in Seq(Deduction)
         /\ RecentSpends(RecentSpends(ds, t0), t1) = RecentSpends(ds, t1)
<1>1. CASE Deduction = {}
  <2>1. ds = <<>> /\ <<>> \in Seq(Deduction)
    BY <1>1
  <2>2. RecentSpends(<<>>, t0) = <<>> /\ RecentSpends(<<>>, t1) = <<>>
    BY NothingRecent
  <2> QED
    BY <2>1, <2>2
<1>2. CASE Deduction # {}
  <2>1. PICK d \in Deduction : TRUE
    BY <1>2
  <2> QED
    BY RecentSpendsFacts
<1> QED
  BY <1>1, <1>2

-----------------------------------------------------------------------------
(* Sums.                                                                    *)

\* What the first i deductions of ds come to, for each i.
Sums(ds) ==
    CHOOSE sum : sum = [i \in 0..Len(ds) |-> IF i = 0 THEN 0
                                             ELSE sum[i-1] + ds[i].tokens]

LEMMA SpendIsSums == ASSUME NEW ds PROVE Spend(ds) = Sums(ds)[Len(ds)]
  BY DEF Spend, Sums

LEMMA SumsDefined ==
  ASSUME NEW ds \in Seq(Deduction)
  PROVE  /\ \A i \in 0..Len(ds) : Sums(ds)[i] \in Nat
         /\ Sums(ds)[0] = 0
         /\ \A i \in 1..Len(ds) : Sums(ds)[i] = Sums(ds)[i-1] + ds[i].tokens
<1> DEFINE n == Len(ds)
           step == [p \in (1..n) \X Nat |-> p[2] + ds[p[1]].tokens]
<1>1. n \in Nat /\ \A i \in 1..n : ds[i].tokens \in Nat
  <2>1. \A i \in 1..n : ds[i] \in Deduction
    OBVIOUS
  <2>2. \A d \in Deduction : d.tokens \in Nat
    BY LimiterAssumption DEF Deduction
  <2> QED
    BY <2>1, <2>2
<1>2. step \in [(1..n) \X Nat -> Nat]
  BY <1>1
<1>3. \A i \in 1..n, v \in Nat : step[<<i, v>>] = v + ds[i].tokens
  OBVIOUS
<1> HIDE DEF n, step
<1>4. PICK f \in [0..n -> Nat] : f[0] = 0 /\ \A i \in 1..n : f[i] = step[<<i, f[i - 1]>>]
  <2>1. 0 \in Nat /\ \E f : Iterates(f, n, Nat, 0, step)
    BY <1>1, <1>2, Recursion
  <2> QED
    BY <2>1 DEF Iterates
<1>5. \A i \in 1..n : f[i] = f[i - 1] + ds[i].tokens /\ f[i - 1] \in Nat
  <2> SUFFICES ASSUME NEW i \in 1..n
               PROVE  f[i] = f[i - 1] + ds[i].tokens /\ f[i - 1] \in Nat
    OBVIOUS
  <2>1. i - 1 \in 0..n
    BY <1>1
  <2> QED
    BY <1>3, <1>4, <2>1
<1>6. f = [i \in 0..n |-> IF i = 0 THEN 0 ELSE f[i-1] + ds[i].tokens]
  <2> DEFINE g == [i \in 0..n |-> IF i = 0 THEN 0 ELSE f[i-1] + ds[i].tokens]
  <2>1. DOMAIN f = 0..n /\ DOMAIN g = 0..n /\ f = [i \in 0..n |-> f[i]]
    BY <1>4
  <2>2. \A i \in 0..n : f[i] = g[i]
    <3>1. \A i \in 0..n : i = 0 \/ i \in 1..n
      BY <1>1
    <3> QED
      BY <1>4, <1>5, <3>1
  <2> HIDE DEF g
  <2>3. g = [i \in 0..n |-> g[i]]
    BY DEF g
  <2>4. f = g
    BY <2>1, <2>2, <2>3
  <2> QED
    BY <2>4 DEF g
<1> DEFINE sum == Sums(ds)
<1>7. sum = [i \in 0..n |-> IF i = 0 THEN 0 ELSE sum[i-1] + ds[i].tokens]
  BY <1>6, Zenon DEF Sums, n
<1> HIDE DEF sum
<1>8. sum[0] = 0 /\ \A i \in 1..n : sum[i] = sum[i-1] + ds[i].tokens
  <2> DEFINE rhs == [i \in 0..n |-> IF i = 0 THEN 0 ELSE sum[i-1] + ds[i].tokens]
  <2>1. rhs[0] = 0 /\ \A i \in 1..n : rhs[i] = sum[i-1] + ds[i].tokens
    BY <1>1
  <2>2. sum = rhs
    BY <1>7
  <2> HIDE DEF rhs
  <2> QED
    BY <2>1, <2>2
<1>9. \A i \in 0..n : sum[i] \in Nat
  <2> DEFINE K == {i \in Nat : i <= n => sum[i] \in Nat}
  <2>1. 0 \in K
    BY <1>8
  <2>2. ASSUME NEW i \in Nat, i \in K PROVE i + 1 \in K
    <3> SUFFICES ASSUME i + 1 <= n PROVE sum[i + 1] \in Nat
      OBVIOUS
    <3>1. i + 1 \in 1..n /\ (i + 1) - 1 = i /\ sum[i] \in Nat
      BY <1>1, <2>2
    <3>2. sum[i + 1] = sum[(i + 1) - 1] + ds[i + 1].tokens
      BY <1>8, <3>1
    <3> QED
      BY <1>1, <3>1, <3>2
  <2> HIDE DEF K
  <2>3. Nat \subseteq K
    BY <2>1, <2>2, NatSetInduction
  <2> QED
    BY <1>1, <2>3 DEF K
<1> QED
  BY <1>8, <1>9 DEF sum, n

LEMMA SpendNat ==
  ASSUME NEW ds \in Seq(Deduction)
  PROVE  Spend(ds) \in Nat /\ (Len(ds) = 0 => Spend(ds) = 0)
<1>1. Len(ds) \in 0..Len(ds)
  OBVIOUS
<1> QED
  BY <1>1, SpendIsSums, SumsDefined

LEMMA SpendEmpty == Spend(<<>>) = 0
<1>1. <<>> \in Seq(Deduction) /\ Len(<<>>) = 0
  OBVIOUS
<1> QED
  BY <1>1, SpendNat

LEMMA SpendAppend ==
  ASSUME NEW ds \in Seq(Deduction), NEW d \in Deduction
  PROVE  Spend(Append(ds, d)) = Spend(ds) + d.tokens
<1> DEFINE r == Append(ds, d)
           n == Len(ds)
           a == Sums(ds)
           b == Sums(r)
           K == {i \in Nat : i <= n => b[i] = a[i]}
<1>1. /\ r \in Seq(Deduction) /\ n \in Nat /\ Len(r) = n + 1 /\ r[n + 1] = d
      /\ \A i \in 1..n : r[i] = ds[i]
  OBVIOUS
<1>2. a[0] = 0 /\ \A i \in 1..n : a[i] = a[i-1] + ds[i].tokens
  BY SumsDefined
<1>3. b[0] = 0 /\ \A i \in 1..Len(r) : b[i] = b[i-1] + r[i].tokens
  <2> HIDE DEF r
  <2> QED
    BY <1>1, SumsDefined
<1>4. Spend(ds) = a[n] /\ Spend(r) = b[Len(r)]
  BY SpendIsSums
<1> HIDE DEF r, n, a, b
<1>5. 0 \in K
  BY <1>2, <1>3
<1>6. ASSUME NEW i \in Nat, i \in K PROVE i + 1 \in K
  <2> SUFFICES ASSUME i + 1 <= n PROVE b[i + 1] = a[i + 1]
    OBVIOUS
  <2>1. /\ i + 1 \in 1..n /\ i + 1 \in 1..Len(r) /\ (i + 1) - 1 = i /\ i <= n
    BY <1>1
  <2>2. /\ b[i + 1] = b[(i + 1) - 1] + r[i + 1].tokens
        /\ a[i + 1] = a[(i + 1) - 1] + ds[i + 1].tokens
        /\ r[i + 1] = ds[i + 1] /\ b[i] = a[i]
    BY <1>1, <1>2, <1>3, <1>6, <2>1
  <2> QED
    BY <2>1, <2>2
<1> HIDE DEF K
<1>7. n \in K
  BY <1>1, <1>5, <1>6, NatSetInduction
<1>8. b[n] = a[n]
  BY <1>1, <1>7 DEF K
<1>9. n + 1 \in 1..Len(r) /\ (n + 1) - 1 = n
  BY <1>1
<1>10. b[n + 1] = b[(n + 1) - 1] + r[n + 1].tokens
  BY <1>3, <1>9
<1> QED
  BY <1>1, <1>4, <1>8, <1>9, <1>10 DEF r

\* Old deductions leave the window: what is recent later comes to no more.
LEMMA SpendDecreases ==
  ASSUME NEW ds \in Seq(Deduction), NEW t \in Nat
  PROVE  Spend(RecentSpends(ds, t)) <= Spend(ds)
<1> DEFINE T == {u \in Deduction : After(u.at, t, TokenWindow)}
           K == {u \in Seq(Deduction) : Spend(Among(u, T)) <= Spend(u)}
<1>1. <<>> \in K
  <2>1. <<>> \in Seq(Deduction)
    OBVIOUS
  <2> QED
    BY <2>1, AmongEmpty, SpendEmpty
<1> HIDE DEF T
<1>2. ASSUME NEW u \in Seq(Deduction), NEW d \in Deduction, u \in K
      PROVE  Append(u, d) \in K
  <2> DEFINE v == Among(u, T)
  <2>1. v \in Seq(Deduction) /\ Spend(v) <= Spend(u)
    BY <1>2, AmongFacts
  <2>2. Among(Append(u, d), T) = IF d \in T THEN Append(v, d) ELSE v
    BY AmongAppend
  <2> HIDE DEF v
  <2>3. /\ Spend(Append(v, d)) = Spend(v) + d.tokens
        /\ Spend(Append(u, d)) = Spend(u) + d.tokens
        /\ Spend(u) \in Nat /\ Spend(v) \in Nat
    BY <2>1, SpendAppend, SpendNat
  <2>4. Append(u, d) \in Seq(Deduction) /\ d.tokens \in Nat
    <3>1. d.tokens \in Tokens /\ Append(u, d) \in Seq(Deduction)
      BY DEF Deduction
    <3> QED
      BY <3>1, LimiterAssumption
  <2>5. Spend(Among(Append(u, d), T)) <= Spend(Append(u, d))
    BY <2>1, <2>2, <2>3, <2>4
  <2> QED
    BY <2>4, <2>5
<1> HIDE DEF K
<1>3. ds \in K
  BY <1>1, <1>2, SeqSetInduction
<1> QED
  BY <1>3 DEF K, T, RecentSpends

-----------------------------------------------------------------------------
(* The invariant.                                                           *)

\* Which bucket a handler works on, and for whom.
Wired ==
    /\ \A h \in Handler : /\ pc[h] = "idle" <=> sid[h] = NULL
                          /\ pc[h] \in {"rate", "tokens", "deduct"} <=> ref[h] # NULL
                          /\ clock[h] <= now
    /\ \A s, r \in Session : sessions[s] # NULL /\ sessions[s] = sessions[r] => s = r
    /\ \A h \in Handler, s \in Session :
          ref[h] # NULL /\ sessions[s] = ref[h] => sid[h] = s
    /\ \A h \in Handler : ref[h] # NULL =>
          sid[h] \in forgot \/ sessions[sid[h]] = ref[h]

Histories ==
    /\ admitted \in [Session -> Seq(Nat)]
    /\ ledger \in [Session -> Seq(Deduction)]

\* The bucket of a session that was not forgotten knows its windows.
Tracks(s) ==
    IF sessions[s] = NULL
    THEN /\ Recent(admitted[s], now, RateWindow) = <<>>
         /\ RecentSpends(ledger[s], now) = <<>>
    ELSE /\ Recent(admitted[s], now, RateWindow)
              = Recent(requestTimes[sessions[s]], now, RateWindow)
         /\ RecentSpends(ledger[s], now)
              = RecentSpends(tokenDeductions[sessions[s]], now)

\* The handlers that have passed the token check for s and are not done.
Busy(s) == {h \in Handler : sid[h] = s /\ pc[h] \in {"completing", "deduct"}}

\* What s has spent and what its completions under way may still cost.
Covered(s) ==
    Spent(s) + Cardinality(Busy(s)) * Most
        <= (tokenLimitPerHour - 1) + Cardinality(Handler) * Most

Windows ==
    \A s \in Session \ forgot :
        /\ Tracks(s)
        /\ Len(Recent(admitted[s], now, RateWindow)) <= rateLimitPerMin
        /\ Covered(s)

IInv == TypeOK /\ Wired /\ Histories /\ Windows

LEMMA MostFacts ==
  /\ Most \in Tokens /\ Most \in Nat /\ \A k \in Tokens : k <= Most
  /\ Cardinality(Handler) \in Nat
  /\ \A s : Cardinality(Busy(s)) \in Nat /\ Cardinality(Busy(s)) <= Cardinality(Handler)
            /\ IsFiniteSet(Busy(s))
<1>1. \E k \in Tokens : \A j \in Tokens : j <= k
  BY LimiterAssumption
<1>2. Most \in Tokens /\ \A k \in Tokens : k <= Most
  BY <1>1 DEF Most
<1>3. IsFiniteSet(Handler) /\ Tokens \subseteq Nat
  BY LimiterAssumption
<1>4. \A s : Busy(s) \in SUBSET Handler
  BY DEF Busy
<1> QED
  BY <1>2, <1>3, <1>4, FS_Subset, FS_CardinalityType

LEMMA InitIInv == Init => IInv
<1> SUFFICES ASSUME Init PROVE IInv
  OBVIOUS
<1> USE LimiterAssumption
<1>1. <<>> \in Seq(Nat) /\ <<>> \in Seq(Deduction)
  OBVIOUS
<1>2. TypeOK
  BY <1>1 DEF Init, TypeOK
<1>3. Wired /\ Histories
  BY <1>1 DEF Init, Wired, Histories
<1>4. ASSUME NEW s \in Session
      PROVE  /\ Tracks(s)
             /\ Len(Recent(admitted[s], now, RateWindow)) <= rateLimitPerMin
             /\ Covered(s)
  <2>1. admitted[s] = <<>> /\ ledger[s] = <<>> /\ sessions[s] = NULL
    BY DEF Init
  <2>2. Tracks(s)
    BY <2>1, NothingRecent DEF Tracks
  <2>3. Len(Recent(admitted[s], now, RateWindow)) = 0
    BY <2>1, NothingRecent
  <2>4. Spent(s) = 0
    BY <2>1, NothingRecent, SpendEmpty DEF Spent
  <2>5. Busy(s) = {}
    BY DEF Init, Busy
  <2>6. Cardinality(Busy(s)) = 0
    BY <2>5, FS_EmptySet
  <2>7. Cardinality(Handler) * Most \in Nat /\ 0 * Most = 0
    BY MostFacts
  <2> QED
    BY <2>2, <2>3, <2>4, <2>6, <2>7 DEF Covered
<1> QED
  BY <1>2, <1>3, <1>4 DEF IInv, Windows

LEMMA TimesMonotone ==
  ASSUME NEW m \in Nat, NEW n \in Nat, NEW k \in Nat, m <= n
  PROVE  /\ m * k <= n * k /\ m * k \in Nat /\ n * k \in Nat
         /\ n > 0 => n * k = (n - 1) * k + k
  OBVIOUS

LEMMA SpentNat ==
  ASSUME IInv, NEW s \in Session
  PROVE  Spent(s) \in Nat /\ RecentSpends(ledger[s], now) \in Seq(Deduction)
<1>1. ledger[s] \in Seq(Deduction) /\ now \in Nat
  BY DEF IInv, Histories, TypeOK
<1>2. RecentSpends(ledger[s], now) \in Seq(Deduction)
  <2>1. now <= now
    BY <1>1
  <2> QED
    BY <1>1, <2>1, SpendsTwice
<1> QED
  BY <1>2, SpendNat DEF Spent

\* A session that spends nothing and gets no completion under way stays covered.
LEMMA CoveredFrame ==
  ASSUME NEW s, Covered(s), Spent(s) \in Nat, Spent(s)' \in Nat, Spent(s)' <= Spent(s),
         Busy(s)' \subseteq Busy(s)
  PROVE  Covered(s)'
<1>1. IsFiniteSet(Busy(s)) /\ Cardinality(Busy(s)) \in Nat /\ Most \in Nat
      /\ Cardinality(Handler) \in Nat
  BY MostFacts
<1>2. Cardinality(Busy(s)') \in Nat /\ Cardinality(Busy(s)') <= Cardinality(Busy(s))
  BY <1>1, FS_Subset, FS_CardinalityType
<1> DEFINE m == Cardinality(Busy(s)')
           n == Cardinality(Busy(s))
           H == Cardinality(Handler)
<1>3. m * Most <= n * Most /\ m * Most \in Nat /\ n * Most \in Nat /\ H * Most \in Nat
  BY <1>1, <1>2, TimesMonotone
<1>4. Spent(s) + n * Most <= (tokenLimitPerHour - 1) + H * Most
  BY DEF Covered
<1>5. tokenLimitPerHour \in Nat
  BY LimiterAssumption
<1> HIDE DEF m, n, H
<1>6. Spent(s)' + m * Most <= (tokenLimitPerHour - 1) + H * Most
  BY <1>3, <1>4, <1>5
<1> QED
  BY <1>6 DEF Covered, m, H

\* What the invariant says of one session.
Session1(s) ==
    /\ Tracks(s)
    /\ Len(Recent(admitted[s], now, RateWindow)) <= rateLimitPerMin
    /\ Covered(s)

\* A step that leaves a session's windows and completions alone.
LEMMA SessionFrame ==
  ASSUME IInv, NEW s \in Session \ forgot,
         UNCHANGED <<now, sessions[s], admitted[s], ledger[s]>>,
         sessions[s] # NULL => UNCHANGED <<requestTimes[sessions[s]],
                                           tokenDeductions[sessions[s]]>>,
         Busy(s)' \subseteq Busy(s)
  PROVE  Session1(s)'
<1>1. Tracks(s) /\ Len(Recent(admitted[s], now, RateWindow)) <= rateLimitPerMin /\ Covered(s)
  BY DEF IInv, Windows
<1>2. Spent(s)' = Spent(s) /\ Spent(s) \in Nat
  BY SpentNat DEF Spent
<1>3. Covered(s)'
  BY <1>1, <1>2, CoveredFrame
<1>4. Tracks(s)'
  BY <1>1 DEF Tracks
<1> QED
  BY <1>1, <1>3, <1>4 DEF Session1

\* Look-up: the session's bucket, which may be new.
LEMMA GetOrCreate ==
  ASSUME IInv, NEW h \in Handler, NEW s \in Session, getOrCreateSession(h, s),
         UNCHANGED <<now, sweepAt, historyVars>>,
         sid' = [sid EXCEPT ![h] = s], NEW l \in {"rate", "deduct"}, Goto(h, l),
         l = "deduct" => pc[h] = "completing" /\ sid[h] = s,
         l = "rate" => pc[h] = "idle"
  PROVE  IInv'
<1> USE DEF historyVars, bucketVars
<1>1. TypeOK /\ Wired /\ Histories /\ Windows
  BY DEF IInv
<1>2. /\ now \in Nat /\ pc' = [pc EXCEPT ![h] = l] /\ clock' = [clock EXCEPT ![h] = now]
      /\ \A g \in Handler : /\ pc'[g] = IF g = h THEN l ELSE pc[g]
                            /\ sid'[g] = IF g = h THEN s ELSE sid[g]
                            /\ clock'[g] = IF g = h THEN now ELSE clock[g]
  BY <1>1 DEF getOrCreateSession, TypeOK, Goto
<1>3. NULL \notin Session /\ NULL \notin Bucket
  BY LimiterAssumption
<1>4. PICK b \in Bucket :
        /\ ref' = [ref EXCEPT ![h] = b]
        /\ \/ /\ sessions[s] = b /\ UNCHANGED <<sessions, bucketVars>>
           \/ /\ sessions[s] = NULL /\ Free(b)
              /\ sessions' = [sessions EXCEPT ![s] = b]
              /\ requestTimes' = [requestTimes EXCEPT ![b] = <<>>]
              /\ tokenDeductions' = [tokenDeductions EXCEPT ![b] = <<>>]
              /\ lastSeen' = [lastSeen EXCEPT ![b] = now]
  BY <1>1 DEF getOrCreateSession, TypeOK
<1>5. \A g \in Handler : ref'[g] = IF g = h THEN b ELSE ref[g]
  BY <1>1, <1>4 DEF TypeOK
<1>6. sessions'[s] = b /\ \A r \in Session : r # s => sessions'[r] = sessions[r] /\ sessions[r] # b
  BY <1>1, <1>3, <1>4 DEF TypeOK, Wired, Free
<1>7. TypeOK'
  <2>1. <<>> \in Seq(Nat) /\ <<>> \in Seq(Deduction)
    OBVIOUS
  <2>2. CASE sessions[s] = b /\ UNCHANGED <<sessions, bucketVars>>
    BY <2>2, <1>1, <1>2, <1>4 DEF TypeOK
  <2>3. CASE /\ sessions[s] = NULL /\ Free(b)
             /\ sessions' = [sessions EXCEPT ![s] = b]
             /\ requestTimes' = [requestTimes EXCEPT ![b] = <<>>]
             /\ tokenDeductions' = [tokenDeductions EXCEPT ![b] = <<>>]
             /\ lastSeen' = [lastSeen EXCEPT ![b] = now]
    BY <2>1, <2>3, <1>1, <1>2, <1>4 DEF TypeOK
  <2> QED
    BY <2>2, <2>3, <1>4
<1>8. Wired'
  <2>1. \A g \in Handler : /\ pc'[g] = "idle" <=> sid'[g] = NULL
                           /\ pc'[g] \in {"rate", "tokens", "deduct"} <=> ref'[g] # NULL
                           /\ clock'[g] <= now'
    BY <1>1, <1>2, <1>3, <1>5 DEF Wired
  <2>2. \A r, q \in Session : sessions'[r] # NULL /\ sessions'[r] = sessions'[q] => r = q
    BY <1>1, <1>6 DEF Wired
  <2>3. ASSUME NEW g \in Handler, NEW r \in Session, ref'[g] # NULL, sessions'[r] = ref'[g]
        PROVE  sid'[g] = r
    <3>1. CASE g = h
      BY <3>1, <2>3, <1>2, <1>5, <1>6
    <3>2. CASE g # h /\ r = s
      <4>1. ref[g] = b /\ ~Free(b)
        BY <3>2, <2>3, <1>5, <1>6 DEF Free, Using
      <4>2. sessions[s] = b
        BY <4>1, <1>4
      <4> QED
        BY <4>1, <4>2, <3>2, <2>3, <1>1, <1>2, <1>5 DEF Wired
    <3>3. CASE g # h /\ r # s
      BY <3>3, <2>3, <1>1, <1>2, <1>5, <1>6 DEF Wired
    <3> QED
      BY <3>1, <3>2, <3>3
  <2>4. ASSUME NEW g \in Handler, ref'[g] # NULL, sid'[g] \notin forgot'
        PROVE  sessions'[sid'[g]] = ref'[g]
    <3>1. CASE g = h
      BY <3>1, <1>2, <1>5, <1>6
    <3>2. CASE g # h
      <4>1. ref[g] # NULL /\ sid[g] \notin forgot /\ sid'[g] = sid[g] /\ ref'[g] = ref[g]
        BY <3>2, <2>4, <1>2, <1>5
      <4>2. sessions[sid[g]] = ref[g] /\ sid[g] \in Session
        BY <4>1, <1>1 DEF Wired, TypeOK
      <4>3. CASE sid[g] = s
        BY <4>1, <4>2, <4>3, <1>4, <1>6
      <4>4. CASE sid[g] # s
        BY <4>1, <4>2, <4>4, <1>6
      <4> QED
        BY <4>3, <4>4
    <3> QED
      BY <3>1, <3>2
  <2> QED
    BY <2>1, <2>2, <2>3, <2>4 DEF Wired
<1>9. Histories'
  BY <1>1 DEF Histories
<1>10. \A r : Busy(r)' \subseteq Busy(r)
  BY <1>2 DEF Busy
<1>11. ASSUME NEW r \in Session \ forgot PROVE Session1(r)'
  <2>1. CASE r # s \/ sessions[s] # NULL
    <3>1. /\ sessions'[r] = sessions[r]
          /\ sessions[r] # NULL => /\ requestTimes'[sessions[r]] = requestTimes[sessions[r]]
                                   /\ tokenDeductions'[sessions[r]] = tokenDeductions[sessions[r]]
      BY <2>1, <1>1, <1>3, <1>4, <1>6 DEF TypeOK
    <3> QED
      BY <3>1, <1>10, SessionFrame
  <2>2. CASE r = s /\ sessions[s] = NULL
    <3>1. sessions'[s] = b /\ requestTimes'[b] = <<>> /\ tokenDeductions'[b] = <<>>
      BY <2>2, <1>1, <1>3, <1>4 DEF TypeOK
    <3>2. /\ Recent(admitted[s], now, RateWindow) = <<>>
          /\ RecentSpends(ledger[s], now) = <<>>
          /\ Len(Recent(admitted[s], now, RateWindow)) <= rateLimitPerMin /\ Covered(s)
      BY <2>2, <1>1 DEF Windows, Tracks
    <3>3. Tracks(s)'
      BY <3>1, <3>2, <1>3, NothingRecent DEF Tracks
    <3>4. Covered(s)'
      <4>1. Spent(s)' = Spent(s) /\ Spent(s) \in Nat
        BY SpentNat DEF Spent
      <4> QED
        BY <4>1, <3>2, <1>10, CoveredFrame
    <3> QED
      BY <2>2, <3>2, <3>3, <3>4 DEF Session1
  <2> QED
    BY <2>1, <2>2
<1> QED
  BY <1>7, <1>8, <1>9, <1>11 DEF IInv, Windows, Session1

LEMMA CheckSessionIInv ==
  ASSUME IInv, NEW h \in Handler, NEW s \in Session, CheckSession(h, s)
  PROVE  IInv'
<1>1. /\ getOrCreateSession(h, s) /\ UNCHANGED <<now, sweepAt, historyVars>>
      /\ sid' = [sid EXCEPT ![h] = s] /\ Goto(h, "rate") /\ pc[h] = "idle"
  BY DEF CheckSession
<1>2. "rate" \in {"rate", "deduct"} /\ "rate" # "deduct"
  OBVIOUS
<1> QED
  BY <1>1, <1>2, GetOrCreate

LEMMA DeductSessionIInv ==
  ASSUME IInv, NEW h \in Handler, DeductSession(h)
  PROVE  IInv'
<1>1. /\ getOrCreateSession(h, sid[h]) /\ UNCHANGED <<now, sweepAt, historyVars>>
      /\ sid' = sid /\ Goto(h, "deduct") /\ pc[h] = "completing"
  BY DEF DeductSession
<1>2. sid[h] \in Session /\ sid \in [Handler -> Session \cup {NULL}]
  BY <1>1 DEF IInv, Wired, TypeOK
<1>3. sid' = [sid EXCEPT ![h] = sid[h]]
  BY <1>1, <1>2
<1>4. "deduct" \in {"rate", "deduct"} /\ "rate" # "deduct"
  OBVIOUS
<1> QED
  BY <1>1, <1>2, <1>3, <1>4, GetOrCreate

\* A handler that holds a bucket: whose bucket it is.
LEMMA Holder ==
  ASSUME IInv, NEW h \in Handler, ref[h] # NULL
  PROVE  /\ sid[h] \in Session /\ ref[h] \in Bucket
         /\ \A s \in Session : s # sid[h] => sessions[s] # ref[h]
         /\ sid[h] \notin forgot => sessions[sid[h]] = ref[h]
  BY DEF IInv, Wired, TypeOK

\* A handler goes on with its bucket, goes on without it, or returns.
LEMMA WiredStep ==
  ASSUME IInv, NEW h \in Handler, UNCHANGED <<now, sessions, forgot>>,
         NEW l, NEW x, NEW b, NEW c \in Nat, c <= now,
         pc' = [pc EXCEPT ![h] = l], sid' = [sid EXCEPT ![h] = x],
         ref' = [ref EXCEPT ![h] = b], clock' = [clock EXCEPT ![h] = c],
         \/ l = "idle" /\ x = NULL /\ b = NULL
         \/ l = "completing" /\ x = sid[h] /\ x # NULL /\ b = NULL
         \/ l = "tokens" /\ x = sid[h] /\ x # NULL /\ b = ref[h] /\ b # NULL
  PROVE  /\ Wired'
         /\ pc' \in [Handler -> {"idle", "rate", "tokens", "completing", "deduct"}]
         /\ sid' \in [Handler -> Session \cup {NULL}]
         /\ ref' \in [Handler -> Bucket \cup {NULL}]
         /\ clock' \in [Handler -> Nat]
<1>1. TypeOK /\ Wired
  BY DEF IInv
<1>2. \A g \in Handler : /\ pc'[g] = IF g = h THEN l ELSE pc[g]
                         /\ sid'[g] = IF g = h THEN x ELSE sid[g]
                         /\ ref'[g] = IF g = h THEN b ELSE ref[g]
                         /\ clock'[g] = IF g = h THEN c ELSE clock[g]
  BY <1>1 DEF TypeOK
<1>3. \A g \in Handler : /\ pc'[g] = "idle" <=> sid'[g] = NULL
                         /\ pc'[g] \in {"rate", "tokens", "deduct"} <=> ref'[g] # NULL
                         /\ clock'[g] <= now'
  BY <1>1, <1>2 DEF Wired
<1>4. \A g \in Handler : ref'[g] # NULL => ref'[g] = ref[g] /\ sid'[g] = sid[g]
  BY <1>2
<1>5. Wired'
  BY <1>1, <1>3, <1>4 DEF Wired
<1>6. l \in {"idle", "completing", "tokens"} /\ x \in Session \cup {NULL}
      /\ b \in Bucket \cup {NULL}
  BY <1>1 DEF TypeOK
<1> QED
  BY <1>1, <1>5, <1>6 DEF TypeOK

LEMMA CompletionFailsIInv ==
  ASSUME IInv, NEW h \in Handler, CompletionFails(h)
  PROVE  IInv'
<1> USE DEF bucketVars, historyVars
<1>1. UNCHANGED <<now, sessions, bucketVars, sweepAt, historyVars>> /\ Return(h)
  BY DEF CompletionFails
<1>2. TypeOK /\ Histories /\ 0 \in Nat /\ 0 <= now
  BY DEF IInv, TypeOK
<1>3. /\ Wired'
      /\ pc' \in [Handler -> {"idle", "rate", "tokens", "completing", "deduct"}]
      /\ sid' \in [Handler -> Session \cup {NULL}]
      /\ ref' \in [Handler -> Bucket \cup {NULL}]
      /\ clock' \in [Handler -> Nat]
  BY <1>1, <1>2, WiredStep DEF Return, Goto
<1>4. TypeOK' /\ Histories'
  BY <1>1, <1>2, <1>3 DEF TypeOK, Histories
<1>5. \A s : Busy(s)' \subseteq Busy(s)
  BY <1>1, <1>2, LimiterAssumption DEF Return, Goto, Busy, TypeOK
<1>6. \A s \in Session \ forgot : Session1(s)'
  BY <1>1, <1>5, SessionFrame
<1> QED
  BY <1>1, <1>3, <1>4, <1>6 DEF IInv, Windows, Session1

\* A request is counted or refused: what the windows of its session become.
LEMMA RateWindows ==
  ASSUME IInv, NEW h \in Handler, ref[h] # NULL, NEW t \in Nat, t <= now,
         NEW s \in Session \ forgot,
         UNCHANGED <<now, sessions, tokenDeductions, ledger>>,
         Busy(s)' \subseteq Busy(s),
         LET valid == Recent(requestTimes[ref[h]], t, RateWindow)
         IN  \/ /\ requestTimes' = [requestTimes EXCEPT ![ref[h]] = valid]
                /\ admitted' = admitted
             \/ /\ requestTimes' = [requestTimes EXCEPT ![ref[h]] = Append(valid, t)]
                /\ admitted' = [admitted EXCEPT ![sid[h]] = Append(@, t)]
                /\ Len(valid) < rateLimitPerMin
  PROVE  Session1(s)'
<1> DEFINE b == ref[h]
           times == requestTimes[b]
           valid == Recent(times, t, RateWindow)
<1>1. /\ sid[h] \in Session /\ b \in Bucket /\ times \in Seq(Nat)
      /\ \A r \in Session : r # sid[h] => sessions[r] # b
      /\ sid[h] \notin forgot => sessions[sid[h]] = b
      /\ now \in Nat /\ RateWindow \in Nat /\ rateLimitPerMin \in Nat
      /\ requestTimes \in [Bucket -> Seq(Nat)] /\ sessions \in [Session -> Bucket \cup {NULL}]
  BY Holder, LimiterAssumption DEF IInv, TypeOK
<1>2. valid \in Seq(Nat) /\ Recent(valid, now, RateWindow) = Recent(times, now, RateWindow)
  BY <1>1, RecentFacts
<1>3. CASE s # sid[h]
  <2>1. sessions[s] # b /\ admitted'[s] = admitted[s]
    BY <1>3, <1>1 DEF IInv, Histories
  <2>2. sessions[s] # NULL => requestTimes'[sessions[s]] = requestTimes[sessions[s]]
    BY <2>1, <1>1
  <2> QED
    BY <2>1, <2>2, SessionFrame
<1>4. CASE s = sid[h]
  <2>1. sessions[s] = b /\ b # NULL
    BY <1>4, <1>1
  <2>2. /\ admitted[s] \in Seq(Nat) /\ admitted \in [Session -> Seq(Nat)]
        /\ Recent(admitted[s], now, RateWindow) = Recent(times, now, RateWindow)
        /\ RecentSpends(ledger[s], now) = RecentSpends(tokenDeductions[b], now)
        /\ Len(Recent(admitted[s], now, RateWindow)) <= rateLimitPerMin /\ Covered(s)
    BY <2>1 DEF IInv, Windows, Tracks, Histories
  <2>3. Covered(s)'
    <3>1. Spent(s)' = Spent(s) /\ Spent(s) \in Nat
      BY SpentNat DEF Spent
    <3> QED
      BY <3>1, <2>2, CoveredFrame
  <2>4. /\ Recent(admitted'[s], now, RateWindow) = Recent(requestTimes'[b], now, RateWindow)
        /\ Len(Recent(admitted'[s], now, RateWindow)) <= rateLimitPerMin
    <3>1. CASE requestTimes' = [requestTimes EXCEPT ![b] = valid] /\ admitted' = admitted
      BY <3>1, <2>2, <1>1, <1>2
    <3>2. CASE /\ requestTimes' = [requestTimes EXCEPT ![b] = Append(valid, t)]
               /\ admitted' = [admitted EXCEPT ![sid[h]] = Append(@, t)]
               /\ Len(valid) < rateLimitPerMin
      <4>1. admitted'[s] = Append(admitted[s], t) /\ requestTimes'[b] = Append(valid, t)
        BY <3>2, <2>2, <1>1, <1>4
      <4>2. \A u \in Seq(Nat) :
               Recent(Append(u, t), now, RateWindow)
                  = IF After(t, now, RateWindow)
                    THEN Append(Recent(u, now, RateWindow), t)
                    ELSE Recent(u, now, RateWindow)
        <5>1. now \in Nat /\ t \in Nat /\ RateWindow \in Nat /\ now <= now
          BY <1>1, LimiterAssumption
        <5> HIDE DEF b
        <5> QED
          BY <5>1, RecentFacts
      <4> DEFINE q == Append(valid, t)
      <4>3. q \in Seq(Nat) /\ Len(q) <= rateLimitPerMin
        BY <1>1, <1>2, <3>2
      <4> HIDE DEF q
      <4>4. Len(Recent(q, now, RateWindow)) <= Len(q) /\ Recent(q, now, RateWindow) \in Seq(Nat)
        BY <4>3, <1>1, RecentFacts
      <4>5. Len(Recent(q, now, RateWindow)) <= rateLimitPerMin
        BY <4>3, <4>4, <1>1
      <4>6. Recent(admitted'[s], now, RateWindow) = Recent(requestTimes'[b], now, RateWindow)
        BY <4>1, <4>2, <1>2, <2>2
      <4>7. requestTimes'[b] = q
        BY <4>1 DEF q
      <4> HIDE DEF b
      <4> QED
        BY <4>5, <4>6, <4>7
    <3> QED
      BY <3>1, <3>2
  <2>5. Tracks(s)'
    BY <2>1, <2>2, <2>4 DEF Tracks
  <2> QED
    BY <2>3, <2>4, <2>5 DEF Session1
<1> QED
  BY <1>3, <1>4

LEMMA CheckRateIInv ==
  ASSUME IInv, NEW h \in Handler, CheckRate(h)
  PROVE  IInv'
<1>1. TypeOK /\ Wired /\ Histories /\ ref[h] # NULL
  BY DEF IInv, Wired, CheckRate
<1>2. PICK t \in Clocks(h) :
        LET valid == Recent(requestTimes[ref[h]], t, RateWindow)
        IN  /\ lastSeen' = [lastSeen EXCEPT ![ref[h]] = t]
            /\ \/ Len(valid) >= rateLimitPerMin /\ RateRejected(h, valid)
               \/ Len(valid) < rateLimitPerMin /\ RateAdmitted(h, t, valid)
  BY DEF CheckRate
<1> DEFINE b == ref[h]
           valid == Recent(requestTimes[b], t, RateWindow)
<1>3. /\ t \in Nat /\ t <= now /\ now \in Nat
      /\ UNCHANGED <<now, sessions, tokenDeductions, sweepAt, ledger, forgot>>
  BY <1>1 DEF CheckRate, Clocks, TypeOK
<1>4. /\ b \in Bucket /\ sid[h] \in Session /\ requestTimes[b] \in Seq(Nat) /\ RateWindow \in Nat
      /\ NULL \notin Session
  BY <1>1, Holder, LimiterAssumption DEF TypeOK
<1>5. valid \in Seq(Nat) /\ Append(valid, t) \in Seq(Nat)
  <2>1. valid \in Seq(Nat)
    BY <1>3, <1>4, RecentFacts
  <2> HIDE DEF valid
  <2> QED
    BY <2>1, <1>3
<1>6. \/ /\ requestTimes' = [requestTimes EXCEPT ![b] = valid]
         /\ admitted' = admitted /\ Return(h)
      \/ /\ requestTimes' = [requestTimes EXCEPT ![b] = Append(valid, t)]
         /\ admitted' = [admitted EXCEPT ![sid[h]] = Append(@, t)]
         /\ clock' = [clock EXCEPT ![h] = t] /\ Goto(h, "tokens") /\ UNCHANGED <<sid, ref>>
         /\ Len(valid) < rateLimitPerMin
  BY <1>2 DEF RateRejected, RateAdmitted
<1> HIDE DEF valid
<1>7. /\ Wired'
      /\ pc' \in [Handler -> {"idle", "rate", "tokens", "completing", "deduct"}]
      /\ sid' \in [Handler -> Session \cup {NULL}]
      /\ ref' \in [Handler -> Bucket \cup {NULL}]
      /\ clock' \in [Handler -> Nat]
  <2>1. CASE Return(h)
    <3>1. 0 \in Nat /\ 0 <= now
      BY <1>3
    <3> QED
      BY <2>1, <3>1, <1>3, WiredStep DEF Return, Goto
  <2>2. CASE clock' = [clock EXCEPT ![h] = t] /\ Goto(h, "tokens") /\ UNCHANGED <<sid, ref>>
    <3>1. sid' = [sid EXCEPT ![h] = sid[h]] /\ ref' = [ref EXCEPT ![h] = ref[h]]
      BY <2>2, <1>1 DEF TypeOK
    <3>2. sid[h] # NULL
      BY <1>4
    <3> QED
      BY <2>2, <3>1, <3>2, <1>1, <1>3, WiredStep DEF Goto
  <2> QED
    BY <2>1, <2>2, <1>6
<1>8. TypeOK'
  <2>1. requestTimes' \in [Bucket -> Seq(Nat)]
    BY <1>1, <1>4, <1>5, <1>6 DEF TypeOK
  <2>2. lastSeen' \in [Bucket -> Nat] /\ \A c \in Bucket : lastSeen'[c] <= now'
    BY <1>1, <1>2, <1>3, <1>4 DEF TypeOK
  <2> QED
    BY <2>1, <2>2, <1>1, <1>3, <1>7 DEF TypeOK
<1>9. Histories'
  <2>1. \A q \in Seq(Nat) : Append(q, t) \in Seq(Nat)
    BY <1>3
  <2>2. admitted \in [Session -> Seq(Nat)] /\ ledger' \in [Session -> Seq(Deduction)]
    BY <1>1, <1>3 DEF Histories
  <2>3. Append(admitted[sid[h]], t) \in Seq(Nat)
    BY <2>1, <2>2, <1>4
  <2>4. admitted' \in [Session -> Seq(Nat)]
    BY <2>2, <2>3, <1>4, <1>6
  <2> QED
    BY <2>2, <2>4 DEF Histories
<1>10. \A s \in Session : Busy(s)' \subseteq Busy(s)
  <2>1. \A g \in Handler : pc'[g] \in {"completing", "deduct"} => pc'[g] = pc[g] /\ sid'[g] = sid[g]
    BY <1>1, <1>6 DEF TypeOK, Return, Goto
  <2> QED
    BY <2>1 DEF Busy
<1>11. \A s \in Session \ forgot : Session1(s)'
  <2> SUFFICES ASSUME NEW s \in Session \ forgot PROVE Session1(s)'
    OBVIOUS
  <2>1. LET v == Recent(requestTimes[ref[h]], t, RateWindow)
        IN  \/ /\ requestTimes' = [requestTimes EXCEPT ![ref[h]] = v]
               /\ admitted' = admitted
            \/ /\ requestTimes' = [requestTimes EXCEPT ![ref[h]] = Append(v, t)]
               /\ admitted' = [admitted EXCEPT ![sid[h]] = Append(@, t)]
               /\ Len(v) < rateLimitPerMin
    BY <1>6 DEF valid
  <2>2. Busy(s)' \subseteq Busy(s)
    BY <1>10
  <2> QED
    BY <2>1, <2>2, <1>1, <1>3, RateWindows
<1> QED
  BY <1>3, <1>7, <1>8, <1>9, <1>11 DEF IInv, Windows, Session1

\* A session below its limit may have a completion under way in every handler.
LEMMA CoveredBelow ==
  ASSUME NEW s, Spent(s)' \in Nat, Spent(s)' < tokenLimitPerHour,
         IsFiniteSet(Busy(s)'), Busy(s)' \subseteq Handler
  PROVE  Covered(s)'
<1> DEFINE m == Cardinality(Busy(s)')
           H == Cardinality(Handler)
<1>1. m \in Nat /\ H \in Nat /\ m <= H /\ Most \in Nat /\ tokenLimitPerHour \in Nat
  BY MostFacts, LimiterAssumption, FS_Subset, FS_CardinalityType
<1> HIDE DEF m, H
<1>2. m * Most <= H * Most /\ m * Most \in Nat /\ H * Most \in Nat
  BY <1>1, TimesMonotone
<1>3. Spent(s)' + m * Most <= (tokenLimitPerHour - 1) + H * Most
  BY <1>1, <1>2
<1> QED
  BY <1>3 DEF Covered, m, H

LEMMA CheckTokensIInv ==
  ASSUME IInv, NEW h \in Handler, CheckTokens(h)
  PROVE  IInv'
<1>1. TypeOK /\ Wired /\ Histories /\ ref[h] # NULL /\ pc[h] = "tokens"
  BY DEF IInv, Wired, CheckTokens
<1> DEFINE b == ref[h]
           ds == tokenDeductions[b]
           valid == RecentSpends(ds, clock[h])
<1>2. /\ tokenDeductions' = [tokenDeductions EXCEPT ![b] = valid]
      /\ \/ Return(h)
         \/ Spend(valid) < tokenLimitPerHour /\ Dispatch(h)
      /\ UNCHANGED <<now, sessions, requestTimes, lastSeen, sweepAt, historyVars>>
  <2>1. LET v == RecentSpends(tokenDeductions[ref[h]], clock[h])
        IN  /\ tokenDeductions' = [tokenDeductions EXCEPT ![ref[h]] = v]
            /\ \/ Return(h)
               \/ Spend(v) < tokenLimitPerHour /\ Dispatch(h)
    BY DEF CheckTokens
  <2>2. UNCHANGED <<now, sessions, requestTimes, lastSeen, sweepAt, historyVars>>
    BY DEF CheckTokens
  <2> QED
    BY <2>1, <2>2
<1>3. /\ b \in Bucket /\ sid[h] \in Session /\ ds \in Seq(Deduction)
      /\ clock[h] \in Nat /\ now \in Nat /\ clock[h] <= now /\ NULL \notin Session
      /\ tokenDeductions \in [Bucket -> Seq(Deduction)] /\ sessions \in [Session -> Bucket \cup {NULL}]
      /\ \A r \in Session : r # sid[h] => sessions[r] # b
      /\ sid[h] \notin forgot => sessions[sid[h]] = b
  BY <1>1, Holder, LimiterAssumption DEF TypeOK, Wired
<1>4. /\ valid \in Seq(Deduction)
      /\ RecentSpends(valid, now) = RecentSpends(ds, now)
      /\ RecentSpends(valid, now) \in Seq(Deduction)
  <2>1. valid \in Seq(Deduction) /\ RecentSpends(valid, now) = RecentSpends(ds, now)
    BY <1>3, SpendsTwice
  <2>2. now <= now
    BY <1>3
  <2> QED
    BY <1>3, <2>1, <2>2, SpendsTwice
<1>5. Spend(valid) \in Nat /\ Spend(RecentSpends(valid, now)) <= Spend(valid)
      /\ Spend(RecentSpends(valid, now)) \in Nat
  BY <1>3, <1>4, SpendDecreases, SpendNat
<1> HIDE DEF valid
<1>6. /\ Wired'
      /\ pc' \in [Handler -> {"idle", "rate", "tokens", "completing", "deduct"}]
      /\ sid' \in [Handler -> Session \cup {NULL}]
      /\ ref' \in [Handler -> Bucket \cup {NULL}]
      /\ clock' \in [Handler -> Nat]
  <2>0. 0 \in Nat /\ 0 <= now
    BY <1>3
  <2>1. CASE Return(h)
    BY <2>0, <2>1, <1>2, WiredStep DEF Return, Goto, historyVars
  <2>2. CASE Dispatch(h)
    <3>1. sid' = [sid EXCEPT ![h] = sid[h]] /\ sid[h] # NULL
      BY <2>2, <1>1, <1>3 DEF TypeOK, Dispatch
    <3>2. /\ pc' = [pc EXCEPT ![h] = "completing"]
          /\ ref' = [ref EXCEPT ![h] = NULL] /\ clock' = [clock EXCEPT ![h] = 0]
          /\ UNCHANGED <<now, sessions, forgot>>
      BY <2>2, <1>2 DEF Dispatch, Goto, historyVars
    <3> QED
      BY <2>0, <3>1, <3>2, WiredStep
  <2> QED
    BY <2>1, <2>2, <1>2
<1>7. TypeOK'
  <2>1. tokenDeductions' \in [Bucket -> Seq(Deduction)]
    BY <1>2, <1>3, <1>4
  <2> QED
    BY <2>1, <1>1, <1>2, <1>6 DEF TypeOK, historyVars
<1>8. Histories'
  BY <1>1, <1>2 DEF Histories, historyVars
<1>9. ASSUME NEW s \in Session \ forgot PROVE Session1(s)'
  <2>1. CASE s # sid[h]
    <3>1. sessions[s] # b /\ Busy(s)' \subseteq Busy(s)
      <4>1. \A g \in Handler : sid'[g] = s => sid[g] = s /\ pc'[g] = pc[g]
        BY <2>1, <1>1, <1>2, <1>3 DEF TypeOK, Return, Dispatch, Goto
      <4> QED
        BY <4>1, <2>1, <1>3 DEF Busy
    <3>2. sessions[s] # NULL => tokenDeductions'[sessions[s]] = tokenDeductions[sessions[s]]
      BY <3>1, <1>2, <1>3
    <3> QED
      BY <3>1, <3>2, <1>2, SessionFrame DEF historyVars
  <2>2. CASE s = sid[h]
    <3>1. sessions[s] = b /\ b # NULL
      BY <2>2, <1>1, <1>3
    <3>2. /\ Recent(admitted[s], now, RateWindow) = Recent(requestTimes[b], now, RateWindow)
          /\ RecentSpends(ledger[s], now) = RecentSpends(ds, now)
          /\ Len(Recent(admitted[s], now, RateWindow)) <= rateLimitPerMin /\ Covered(s)
      BY <3>1 DEF IInv, Windows, Tracks
    <3>3. tokenDeductions'[b] = valid
      BY <1>2, <1>3
    <3>4. Tracks(s)'
      BY <3>1, <3>2, <3>3, <1>2, <1>4 DEF Tracks, historyVars
    <3>5. Spent(s)' = Spent(s) /\ Spent(s) \in Nat
      BY SpentNat, <1>2 DEF Spent, historyVars
    <3>6. CASE Return(h)
      <4>1. Busy(s)' \subseteq Busy(s)
        BY <3>6, <1>1, <1>3 DEF Busy, TypeOK, Return, Goto
      <4>2. Covered(s)'
        BY <4>1, <3>2, <3>5, CoveredFrame
      <4> QED
        BY <4>2, <3>2, <3>4, <1>2 DEF Session1, historyVars
    <3>7. CASE Spend(valid) < tokenLimitPerHour
      <4>1. Spent(s) = Spend(RecentSpends(valid, now))
        BY <3>2, <1>4 DEF Spent
      <4>2. Spent(s)' < tokenLimitPerHour
        BY <4>1, <3>5, <3>7, <1>5, LimiterAssumption
      <4>3. Busy(s)' \subseteq Handler /\ IsFiniteSet(Busy(s)')
        <5>1. Busy(s)' \in SUBSET Handler
          BY DEF Busy
        <5> QED
          BY <5>1, LimiterAssumption, FS_Subset
      <4>4. Covered(s)'
        BY <4>2, <4>3, <3>5, CoveredBelow
      <4> QED
        BY <4>4, <3>2, <3>4, <1>2 DEF Session1, historyVars
    <3> QED
      BY <3>6, <3>7, <1>2
  <2> QED
    BY <2>1, <2>2
<1> QED
  BY <1>2, <1>6, <1>7, <1>8, <1>9 DEF IInv, Windows, Session1, historyVars

\* What a completion cost is added on both sides, and it is under way no longer.
LEMMA DeductCovered ==
  ASSUME IInv, NEW h \in Handler, NEW s \in Session, h \in Busy(s), Covered(s),
         Busy(s)' = Busy(s) \ {h}, NEW k \in Tokens,
         Spent(s)' \in Nat, Spent(s)' <= Spent(s) + k
  PROVE  Covered(s)'
<1> DEFINE n == Cardinality(Busy(s))
           m == Cardinality(Busy(s)')
           H == Cardinality(Handler)
<1>1. /\ n \in Nat /\ H \in Nat /\ Most \in Nat /\ k \in Nat /\ k <= Most
      /\ tokenLimitPerHour \in Nat /\ Spent(s) \in Nat /\ IsFiniteSet(Busy(s))
  BY MostFacts, LimiterAssumption, SpentNat
<1>2. m = n - 1 /\ n > 0
  <2>1. m = n - 1
    BY <1>1, FS_RemoveElement
  <2>2. n # 0
    BY <1>1, FS_EmptySet
  <2> QED
    BY <1>1, <2>1, <2>2
<1>3. Spent(s) + n * Most <= (tokenLimitPerHour - 1) + H * Most
  BY DEF Covered
<1> HIDE DEF n, m, H
<1>4. n * Most = (n - 1) * Most + Most /\ H * Most \in Nat /\ n * Most \in Nat
  <2>1. n <= n /\ H <= H
    BY <1>1
  <2> QED
    BY <1>1, <1>2, <2>1, TimesMonotone
<1>5. m * Most = n * Most - Most
  <2>1. n - 1 \in Nat
    BY <1>1, <1>2
  <2>2. (n - 1) * Most \in Nat
    BY <1>1, <2>1
  <2>3. m * Most = (n - 1) * Most
    BY <1>2
  <2> HIDE DEF m
  <2> QED
    BY <1>1, <1>4, <2>2, <2>3
<1>6. Spent(s)' + m * Most <= (tokenLimitPerHour - 1) + H * Most
  BY <1>1, <1>3, <1>4, <1>5
<1> QED
  BY <1>6 DEF Covered, m, H

LEMMA DeductIInv ==
  ASSUME IInv, NEW h \in Handler, Deduct(h)
  PROVE  IInv'
<1>1. TypeOK /\ Wired /\ Histories /\ ref[h] # NULL /\ pc[h] = "deduct"
  BY DEF IInv, Wired, Deduct
<1>2. PICK k \in Tokens, t \in Clocks(h) :
        LET d == [at |-> t, tokens |-> k]
        IN  /\ tokenDeductions' = [tokenDeductions EXCEPT ![ref[h]] = Append(@, d)]
            /\ ledger' = [ledger EXCEPT ![sid[h]] = Append(@, d)]
  BY DEF Deduct
<1>3. /\ Return(h)
      /\ UNCHANGED <<now, sessions, requestTimes, lastSeen, sweepAt, admitted, forgot>>
  BY DEF Deduct
<1> DEFINE b == ref[h]
           d == [at |-> t, tokens |-> k]
<1>4. /\ b \in Bucket /\ sid[h] \in Session /\ NULL \notin Session /\ now \in Nat
      /\ tokenDeductions \in [Bucket -> Seq(Deduction)] /\ sessions \in [Session -> Bucket \cup {NULL}]
      /\ \A r \in Session : r # sid[h] => sessions[r] # b
      /\ sid[h] \notin forgot => sessions[sid[h]] = b
  BY <1>1, Holder, LimiterAssumption DEF TypeOK
<1>5. d \in Deduction /\ d.at = t /\ d.tokens = k /\ k \in Nat
  BY <1>1, LimiterAssumption DEF Deduction, Clocks, TypeOK
<1> HIDE DEF d
<1>6. /\ tokenDeductions' = [tokenDeductions EXCEPT ![b] = Append(tokenDeductions[b], d)]
      /\ ledger' = [ledger EXCEPT ![sid[h]] = Append(ledger[sid[h]], d)]
      /\ ledger \in [Session -> Seq(Deduction)]
      /\ ledger[sid[h]] \in Seq(Deduction) /\ tokenDeductions[b] \in Seq(Deduction)
  BY <1>1, <1>2, <1>4 DEF d, Histories
<1>7. \A q \in Seq(Deduction) : Append(q, d) \in Seq(Deduction)
  BY <1>5
<1>8. /\ Wired'
      /\ pc' \in [Handler -> {"idle", "rate", "tokens", "completing", "deduct"}]
      /\ sid' \in [Handler -> Session \cup {NULL}]
      /\ ref' \in [Handler -> Bucket \cup {NULL}]
      /\ clock' \in [Handler -> Nat]
  <2>1. 0 \in Nat /\ 0 <= now
    BY <1>4
  <2> QED
    BY <2>1, <1>3, WiredStep DEF Return, Goto
<1>9. TypeOK'
  <2>1. tokenDeductions' \in [Bucket -> Seq(Deduction)]
    BY <1>4, <1>6, <1>7
  <2> QED
    BY <2>1, <1>1, <1>3, <1>8 DEF TypeOK
<1>10. Histories'
  <2>1. ledger' \in [Session -> Seq(Deduction)]
    BY <1>4, <1>6, <1>7
  <2> QED
    BY <2>1, <1>1, <1>3 DEF Histories
<1>11. \A s \in Session : Busy(s)' = Busy(s) \ {h}
  <2>1. \A g \in Handler : g # h => pc'[g] = pc[g] /\ sid'[g] = sid[g]
    BY <1>1, <1>3 DEF TypeOK, Return, Goto
  <2>2. pc'[h] = "idle"
    BY <1>1, <1>3 DEF TypeOK, Return, Goto
  <2> QED
    BY <2>1, <2>2 DEF Busy
<1>12. ASSUME NEW s \in Session \ forgot PROVE Session1(s)'
  <2>1. CASE s # sid[h]
    <3>1. /\ sessions[s] # b /\ ledger'[s] = ledger[s]
          /\ sessions[s] # NULL => tokenDeductions'[sessions[s]] = tokenDeductions[sessions[s]]
      BY <2>1, <1>4, <1>6
    <3>2. Busy(s)' \subseteq Busy(s)
      BY <1>11
    <3> QED
      BY <3>1, <3>2, <1>3, SessionFrame
  <2>2. CASE s = sid[h]
    <3>1. sessions[s] = b /\ b # NULL
      BY <2>2, <1>1, <1>4
    <3>2. /\ Recent(admitted[s], now, RateWindow) = Recent(requestTimes[b], now, RateWindow)
          /\ RecentSpends(ledger[s], now) = RecentSpends(tokenDeductions[b], now)
          /\ Len(Recent(admitted[s], now, RateWindow)) <= rateLimitPerMin /\ Covered(s)
      BY <3>1 DEF IInv, Windows, Tracks
    <3>3. /\ tokenDeductions'[b] = Append(tokenDeductions[b], d)
          /\ ledger'[s] = Append(ledger[s], d)
      BY <2>2, <1>4, <1>6
    <3>4. \A u \in Seq(Deduction) :
             RecentSpends(Append(u, d), now)
                = IF After(d.at, now, TokenWindow) THEN Append(RecentSpends(u, now), d)
                  ELSE RecentSpends(u, now)
      <4>1. now <= now
        BY <1>4
      <4> QED
        BY <4>1, <1>4, <1>5, RecentSpendsFacts
    <3>5. RecentSpends(ledger'[s], now) = RecentSpends(tokenDeductions'[b], now)
      BY <2>2, <3>2, <3>3, <3>4, <1>6
    <3>6. Tracks(s)'
      BY <3>1, <3>2, <3>5, <1>3 DEF Tracks
    <3> DEFINE r == RecentSpends(ledger[s], now)
    <3>7. Spent(s) = Spend(r) /\ r \in Seq(Deduction) /\ Spent(s) \in Nat
      BY SpentNat DEF Spent
    <3>8. Spent(s)' = Spend(RecentSpends(ledger'[s], now))
      BY <1>3 DEF Spent
    <3>9. RecentSpends(ledger'[s], now) = Append(r, d) \/ RecentSpends(ledger'[s], now) = r
      BY <2>2, <3>3, <3>4, <1>6
    <3> HIDE DEF r
    <3>10. Spend(Append(r, d)) = Spend(r) + k
      BY <3>7, <1>5, SpendAppend
    <3>11. Spent(s)' \in Nat /\ Spent(s)' <= Spent(s) + k
      <4>1. Spent(s)' = Spent(s) + k \/ Spent(s)' = Spent(s)
        BY <3>7, <3>8, <3>9, <3>10
      <4> QED
        BY <4>1, <3>7, <1>5
    <3>12. h \in Busy(s) /\ Busy(s)' = Busy(s) \ {h}
      BY <2>2, <1>1, <1>11 DEF Busy
    <3>13. Covered(s)'
      BY <3>2, <3>11, <3>12, DeductCovered
    <3> QED
      BY <3>2, <3>6, <3>13, <1>3 DEF Session1
  <2> QED
    BY <2>1, <2>2
<1> QED
  BY <1>3, <1>8, <1>9, <1>10, <1>12 DEF IInv, Windows, Session1

LEMMA SweepBeginIInv == IInv /\ SweepBegin => IInv'
<1> SUFFICES ASSUME IInv, SweepBegin PROVE IInv'
  OBVIOUS
<1> USE DEF bucketVars, handlerVars, historyVars
<1>1. /\ UNCHANGED <<now, sessions, bucketVars, handlerVars, historyVars>>
      /\ sweepAt' = now /\ TypeOK /\ Wired /\ Histories
  BY DEF SweepBegin, IInv
<1>2. TypeOK' /\ Wired' /\ Histories'
  BY <1>1 DEF TypeOK, Wired, Histories
<1>3. \A s \in Session \ forgot : Session1(s)'
  <2>1. \A s : Busy(s)' \subseteq Busy(s)
    BY <1>1 DEF Busy
  <2> QED
    BY <1>1, <2>1, SessionFrame
<1> QED
  BY <1>1, <1>2, <1>3 DEF IInv, Windows, Session1

\* Eviction: a bucket that still matters makes its session a forgotten one.
LEMMA SweepEvictIInv == IInv /\ SweepEvict => IInv'
<1> SUFFICES ASSUME IInv, SweepEvict PROVE IInv'
  OBVIOUS
<1> USE DEF bucketVars, handlerVars
<1>1. /\ UNCHANGED <<now, bucketVars, handlerVars, admitted, ledger>> /\ sweepAt' = NULL
      /\ sessions' = [s \in Session |-> IF Idle(s) THEN NULL ELSE sessions[s]]
      /\ forgot' = forgot \cup {s \in Session : Idle(s) /\ Forgets(s)}
      /\ TypeOK /\ Wired /\ Histories
  BY DEF SweepEvict, IInv
<1>2. \A s \in Session : sessions'[s] = IF Idle(s) THEN NULL ELSE sessions[s]
  BY <1>1
<1>3. TypeOK'
  <2>1. sessions' \in [Session -> Bucket \cup {NULL}]
    BY <1>1 DEF TypeOK
  <2>2. forgot' \subseteq Session
    BY <1>1 DEF TypeOK
  <2> QED
    BY <1>1, <2>1, <2>2 DEF TypeOK
<1>4. Histories'
  BY <1>1 DEF Histories
<1>5. Wired'
  <2>1. \A h \in Handler : /\ pc'[h] = "idle" <=> sid'[h] = NULL
                           /\ pc'[h] \in {"rate", "tokens", "deduct"} <=> ref'[h] # NULL
                           /\ clock'[h] <= now'
    BY <1>1 DEF Wired
  <2>2. \A s, r \in Session : sessions'[s] # NULL /\ sessions'[s] = sessions'[r] => s = r
    BY <1>1, <1>2 DEF Wired
  <2>3. \A h \in Handler, s \in Session :
           ref'[h] # NULL /\ sessions'[s] = ref'[h] => sid'[h] = s
    BY <1>1, <1>2 DEF Wired
  <2>4. ASSUME NEW h \in Handler, ref'[h] # NULL, sid'[h] \notin forgot'
        PROVE  sessions'[sid'[h]] = ref'[h]
    <3>1. sid[h] \notin forgot /\ ref[h] # NULL /\ sid' = sid /\ ref' = ref
      BY <2>4, <1>1
    <3>2. sessions[sid[h]] = ref[h] /\ sid[h] \in Session
      BY <3>1, Holder
    <3>3. Forgets(sid[h])
      BY <3>2 DEF Forgets, Using
    <3>4. ~Idle(sid[h])
      BY <2>4, <3>1, <3>2, <3>3, <1>1
    <3> QED
      BY <3>1, <3>2, <3>4, <1>2
  <2> QED
    BY <2>1, <2>2, <2>3, <2>4 DEF Wired
<1>6. \A s : Busy(s)' \subseteq Busy(s)
  BY <1>1 DEF Busy
<1>7. ASSUME NEW s \in Session \ forgot' PROVE Session1(s)'
  <2>1. s \in Session \ forgot
    BY <1>1
  <2>2. CASE ~Idle(s)
    <3>1. sessions'[s] = sessions[s]
      BY <2>1, <2>2, <1>2
    <3> QED
      BY <3>1, <2>1, <1>1, <1>6, SessionFrame
  <2>3. CASE Idle(s)
    <3>1. sessions'[s] = NULL /\ ~Forgets(s) /\ sessions[s] # NULL
      BY <2>1, <2>3, <1>1, <1>2 DEF Idle
    <3>2. /\ RecentSpends(tokenDeductions[sessions[s]], now) = <<>>
          /\ Recent(requestTimes[sessions[s]], now, RateWindow) = <<>>
      BY <3>1 DEF Forgets
    <3>3. /\ Tracks(s) /\ Covered(s)
          /\ Len(Recent(admitted[s], now, RateWindow)) <= rateLimitPerMin
      BY <2>1 DEF IInv, Windows
    <3>4. Tracks(s)'
      BY <3>1, <3>2, <3>3, <1>1 DEF Tracks
    <3>5. Spent(s)' = Spent(s) /\ Spent(s) \in Nat
      BY <2>1, <1>1, SpentNat DEF Spent
    <3>6. Covered(s)'
      BY <3>3, <3>5, <1>6, CoveredFrame
    <3> QED
      BY <3>3, <3>4, <3>6, <1>1 DEF Session1
  <2> QED
    BY <2>2, <2>3
<1> QED
  BY <1>3, <1>4, <1>5, <1>7 DEF IInv, Windows, Session1

LEMMA RecentTwice ==
  ASSUME NEW times \in Seq(Nat), NEW t0 \in Nat, NEW t1 \in Nat, t0 <= t1
  PROVE  /\ Recent(times, t0, RateWindow) \in Seq(Nat)
         /\ Recent(Recent(times, t0, RateWindow), t1, RateWindow)
               = Recent(times, t1, RateWindow)
         /\ Len(Recent(times, t1, RateWindow)) <= Len(times)
<1>1. RateWindow \in Nat /\ t0 \in Nat
  BY LimiterAssumption
<1> QED
  BY <1>1, RecentFacts

\* Time passes: the windows lose the same entries everywhere.
LEMMA TickIInv == IInv /\ Tick => IInv'
<1> SUFFICES ASSUME IInv, Tick PROVE IInv'
  OBVIOUS
<1> USE DEF bucketVars, handlerVars
<1>1. /\ UNCHANGED <<sessions, bucketVars, handlerVars, sweepAt, forgot>>
      /\ TypeOK /\ Wired /\ Histories
      /\ now' = now + 1 /\ now \in Nat /\ now' \in Nat /\ now <= now'
      /\ now <= now /\ now' <= now'
  BY DEF Tick, IInv, TypeOK
<1>2. \A s \in Session : /\ admitted'[s] = Recent(admitted[s], now', RateWindow)
                         /\ ledger'[s] = RecentSpends(ledger[s], now')
                         /\ admitted[s] \in Seq(Nat) /\ ledger[s] \in Seq(Deduction)
  BY <1>1 DEF Tick, Histories
<1>3. TypeOK'
  BY <1>1 DEF TypeOK
<1>4. Histories'
  <2>1. \A s \in Session : admitted'[s] \in Seq(Nat) /\ ledger'[s] \in Seq(Deduction)
    BY <1>1, <1>2, RecentTwice, SpendsTwice
  <2>2. /\ admitted' = [s \in Session |-> admitted'[s]]
        /\ ledger' = [s \in Session |-> ledger'[s]]
    BY DEF Tick
  <2> QED
    BY <2>1, <2>2 DEF Histories
<1>5. Wired'
  BY <1>1 DEF Wired, TypeOK
<1>6. \A s : Busy(s)' \subseteq Busy(s)
  BY <1>1 DEF Busy
<1>7. ASSUME NEW s \in Session \ forgot PROVE Session1(s)'
  <2> DEFINE a == Recent(admitted[s], now, RateWindow)
             l == RecentSpends(ledger[s], now)
             b == sessions[s]
  <2>1. /\ a \in Seq(Nat) /\ Recent(a, now', RateWindow) = Recent(admitted[s], now', RateWindow)
        /\ l \in Seq(Deduction) /\ RecentSpends(l, now') = RecentSpends(ledger[s], now')
    BY <1>1, <1>2, RecentTwice, SpendsTwice
  <2>2. /\ Recent(admitted'[s], now', RateWindow) = Recent(admitted[s], now', RateWindow)
        /\ RecentSpends(ledger'[s], now') = RecentSpends(ledger[s], now')
    <3>1. /\ Recent(Recent(admitted[s], now', RateWindow), now', RateWindow)
                = Recent(admitted[s], now', RateWindow)
          /\ RecentSpends(RecentSpends(ledger[s], now'), now') = RecentSpends(ledger[s], now')
      BY <1>1, <1>2, RecentTwice, SpendsTwice
    <3> QED
      BY <3>1, <1>2
  <2>3. Tracks(s) /\ Len(a) <= rateLimitPerMin /\ Covered(s)
    BY DEF IInv, Windows
  <2>4. Len(Recent(a, now', RateWindow)) <= Len(a)
    BY <1>1, <2>1, RecentTwice
  <2>5. Recent(a, now', RateWindow) \in Seq(Nat)
    BY <1>1, <2>1, RecentTwice
  <2>6. Len(Recent(admitted'[s], now', RateWindow)) <= rateLimitPerMin
    <3> DEFINE r == Recent(a, now', RateWindow)
    <3>1. Len(r) <= Len(a) /\ r \in Seq(Nat)
      BY <2>4, <2>5
    <3>2. r = Recent(admitted'[s], now', RateWindow)
      BY <2>1, <2>2
    <3>3. rateLimitPerMin \in Nat
      BY LimiterAssumption
    <3> HIDE DEF r, a
    <3>4. Len(r) <= rateLimitPerMin
      BY <3>1, <3>3, <2>1, <2>3
    <3> QED
      BY <3>2, <3>4
  <2>7. ASSUME b = NULL PROVE Tracks(s)'
    <3>1. a = <<>> /\ l = <<>>
      BY <2>3, <2>7 DEF Tracks
    <3>2. Recent(<<>>, now', RateWindow) = <<>> /\ RecentSpends(<<>>, now') = <<>>
      BY NothingRecent
    <3> QED
      BY <3>1, <3>2, <2>1, <2>2, <2>7, <1>1 DEF Tracks
  <2>8. ASSUME b # NULL PROVE Tracks(s)'
    <3>1. b \in Bucket /\ requestTimes[b] \in Seq(Nat) /\ tokenDeductions[b] \in Seq(Deduction)
      BY <2>8, <1>1 DEF TypeOK
    <3>2. /\ a = Recent(requestTimes[b], now, RateWindow)
          /\ l = RecentSpends(tokenDeductions[b], now)
      BY <2>3, <2>8 DEF Tracks
    <3>3. /\ Recent(Recent(requestTimes[b], now, RateWindow), now', RateWindow)
                = Recent(requestTimes[b], now', RateWindow)
          /\ RecentSpends(RecentSpends(tokenDeductions[b], now), now')
                = RecentSpends(tokenDeductions[b], now')
      BY <3>1, <1>1, RecentTwice, SpendsTwice
    <3>4. /\ Recent(admitted'[s], now', RateWindow) = Recent(requestTimes[b], now', RateWindow)
          /\ RecentSpends(ledger'[s], now') = RecentSpends(tokenDeductions[b], now')
      BY <3>2, <3>3, <2>1, <2>2
    <3> QED
      BY <3>4, <2>8, <1>1 DEF Tracks
  <2>9. Spent(s) = Spend(l) /\ Spent(s)' = Spend(RecentSpends(l, now'))
    BY <2>1, <2>2 DEF Spent
  <2>10. RecentSpends(l, now') \in Seq(Deduction)
    BY <1>1, <2>1, SpendsTwice
  <2>11. Spent(s)' <= Spent(s) /\ Spent(s) \in Nat /\ Spent(s)' \in Nat
    <3> HIDE DEF l
    <3>1. Spend(l) \in Nat /\ Spend(RecentSpends(l, now')) \in Nat
      BY <2>1, <2>10, SpendNat
    <3>2. Spend(RecentSpends(l, now')) <= Spend(l)
      BY <1>1, <2>1, SpendDecreases
    <3> QED
      BY <3>1, <3>2, <2>9
  <2>12. Covered(s)'
    BY <2>3, <2>11, <1>6, CoveredFrame
  <2> QED
    BY <2>6, <2>7, <2>8, <2>12 DEF Session1
<1> QED
  BY <1>1, <1>3, <1>4, <1>5, <1>7 DEF IInv, Windows, Session1

LEMMA StutterIInv == IInv /\ UNCHANGED vars => IInv'
<1> SUFFICES ASSUME IInv, UNCHANGED vars PROVE IInv'
  OBVIOUS
<1> USE DEF vars, bucketVars, handlerVars, historyVars
<1>1. TypeOK' /\ Wired' /\ Histories'
  BY DEF IInv, TypeOK, Wired, Histories
<1>2. \A s : Busy(s)' \subseteq Busy(s)
  BY DEF Busy
<1>3. \A s \in Session \ forgot : Session1(s)'
  BY <1>2, SessionFrame
<1> QED
  BY <1>1, <1>3 DEF IInv, Windows, Session1

LEMMA StepIInv == IInv /\ [Next]_vars => IInv'
<1> SUFFICES ASSUME IInv, [Next]_vars PROVE IInv'
  OBVIOUS
<1>1. ASSUME NEW h \in Handler, HandlerStep(h) PROVE IInv'
  <2>1. CASE \E s \in Session : CheckSession(h, s)
    BY <2>1, CheckSessionIInv
  <2>2. CASE CheckRate(h)
    BY <2>2, CheckRateIInv
  <2>3. CASE CheckTokens(h)
    BY <2>3, CheckTokensIInv
  <2>4. CASE CompletionFails(h)
    BY <2>4, CompletionFailsIInv
  <2>5. CASE DeductSession(h)
    BY <2>5, DeductSessionIInv
  <2>6. CASE Deduct(h)
    BY <2>6, DeductIInv
  <2> QED
    BY <1>1, <2>1, <2>2, <2>3, <2>4, <2>5, <2>6 DEF HandlerStep
<1>2. CASE SweepBegin
  BY <1>2, SweepBeginIInv
<1>3. CASE SweepEvict
  BY <1>3, SweepEvictIInv
<1>4. CASE Tick
  BY <1>4, TickIInv
<1>5. CASE UNCHANGED vars
  BY <1>5, StutterIInv
<1> QED
  BY <1>1, <1>2, <1>3, <1>4, <1>5 DEF Next

LEMMA Invariant == Spec => []IInv
  BY InitIInv, StepIInv, PTL DEF Spec

-----------------------------------------------------------------------------
(* Theorems.                                                                *)

\* Every session maps to a bucket or to none, every handler holds at most one,
\* and no bucket was last used in the future (registry.go:31-56).
THEOREM TypeCorrect == Spec => []TypeOK
<1>1. IInv => TypeOK
  BY DEF IInv
<1> QED
  BY <1>1, Invariant, PTL

\* For every rate limit, number of handlers and interleaving of them with the
\* sweep, the requests of a session admitted within a minute stay within the
\* limit until an eviction forgets part of its windows (bucket.go:36-64).
THEOREM RateLimited == Spec => []RateLimitHolds
<1>1. IInv => RateLimitHolds
  BY DEF IInv, Windows, RateLimitHolds
<1> QED
  BY <1>1, Invariant, PTL

\* The bucket in the map comes to exactly what the session spent within the
\* hour: pruning, concurrent handlers and harmless evictions lose nothing
\* (bucket.go:68-102, registry.go:58-76).
THEOREM SpendKnown == Spec => []SpendIsKnown
<1>1. ASSUME IInv, NEW s \in Session \ forgot PROVE Spend(Known(s)) = Spent(s)
  BY <1>1 DEF IInv, Windows, Tracks, Known, Spent
<1>2. IInv => SpendIsKnown
  BY <1>1 DEF SpendIsKnown
<1> QED
  BY <1>2, Invariant, PTL

\* A session exceeds its hourly limit by no more than one completion of the
\* largest size for every handler, whatever the sizes and the number of
\* handlers (bucket.go:68-102: check and deduction are two steps).
THEOREM OvershootIsBounded == Spec => []OvershootBounded
<1>1. ASSUME IInv, NEW s \in Session \ forgot PROVE ~Overshoot(s)
  <2> DEFINE n == Cardinality(Busy(s))
             H == Cardinality(Handler)
  <2>1. Covered(s) /\ Spent(s) \in Nat
    BY <1>1, SpentNat DEF IInv, Windows
  <2>2. n \in Nat /\ H \in Nat /\ Most \in Nat /\ tokenLimitPerHour \in Nat
    BY MostFacts, LimiterAssumption
  <2>3. Spent(s) + n * Most <= (tokenLimitPerHour - 1) + H * Most
    BY <2>1 DEF Covered
  <2> HIDE DEF n, H
  <2>4. n * Most \in Nat /\ H * Most \in Nat
    BY <2>2
  <2>5. ~(Spent(s) > (tokenLimitPerHour - 1) + H * Most)
    BY <2>1, <2>2, <2>3, <2>4
  <2> QED
    BY <2>5 DEF Overshoot, H
<1>2. IInv => OvershootBounded
  BY <1>1 DEF OvershootBounded
<1> QED
  BY <1>2, Invariant, PTL

=============================================================================
