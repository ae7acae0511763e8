--------------------------- MODULE SessionLimiter ---------------------------
(***************************************************************************)
(* internal/policy/bucket.go and registry.go: the per-session sliding      *)
(* windows for requests and tokens, as concurrent handlers and the         *)
(* registry's sweep use them.                                              *)
(*                                                                         *)
(* The registry's map and each bucket have a lock of their own, so a       *)
(* handler that has looked its bucket up may use it after the sweep has    *)
(* removed it from the map.  Buckets are therefore heap cells, allocated   *)
(* by getOrCreateSession and reused once nothing refers to them.  A handler *)
(* reads the clock after its look-up and before it has the bucket's lock,  *)
(* so the time it works with may be past.                                  *)
(***************************************************************************)
EXTENDS Naturals, FiniteSets, Filters

CONSTANTS
    Session,           \* session identifiers
    Handler,           \* slots for handler goroutines
    Bucket,            \* heap cells
    rateLimitPerMin,
    tokenLimitPerHour,
    Tokens,            \* token counts a completion may report
    RateWindow,        \* a minute, in ticks of the clock
    TokenWindow,       \* an hour
    IdleTTL,           \* SessionIdleTTLMin
    MaxTime,           \* bound on the clock
    NULL

ASSUME LimiterAssumption ==
    /\ rateLimitPerMin \in Nat \ {0}
    /\ tokenLimitPerHour \in Nat \ {0}
    /\ Tokens \subseteq Nat /\ \E k \in Tokens : \A j \in Tokens : j <= k
    /\ IsFiniteSet(Handler)
    /\ {RateWindow, TokenWindow, IdleTTL} \subseteq Nat \ {0}
    /\ MaxTime \in Nat
    /\ NULL \notin Session \cup Handler \cup Bucket

VARIABLES
    now,               \* time.Now()
    sessions,          \* Registry.sessions
    requestTimes,      \* per bucket
    tokenDeductions,   \* per bucket, a sequence of [at, tokens]
    lastSeen,          \* per bucket
    pc,                \* where each handler is
    sid,               \* the session it works for
    ref,               \* the bucket getOrCreateSession returned to it
    clock,             \* when it looked the bucket up, then the time it read
    sweepAt,           \* the clock of the sweep that is under way, or NULL
    admitted,          \* history: times of the requests of a session admitted
    ledger,            \* history: what was deducted for a session
    forgot             \* history: sessions whose windows an eviction forgot

bucketVars == <<requestTimes, tokenDeductions, lastSeen>>
handlerVars == <<pc, sid, ref, clock>>
historyVars == <<admitted, ledger, forgot>>
vars == <<now, sessions, bucketVars, handlerVars, sweepAt, historyVars>>

\* t.After(t0.Add(-w)), without negative times.
After(t, t0, w) == t + w > t0

Deduction == [at : Nat, tokens : Tokens]

Recent(times, t0, w) == Among(times, {t \in Nat : After(t, t0, w)})

RecentSpends(ds, t0) ==
    Among(ds, {d \in Deduction : After(d.at, t0, TokenWindow)})

Spend(ds) ==
    LET sum[i \in 0..Len(ds)] == IF i = 0 THEN 0 ELSE sum[i-1] + ds[i].tokens
    IN  sum[Len(ds)]

Using(b) == {h \in Handler : ref[h] = b}

Free(b) == Using(b) = {} /\ \A s \in Session : sessions[s] # b

-----------------------------------------------------------------------------

Init ==
    /\ now = 0
    /\ sessions = [s \in Session |-> NULL]
    /\ requestTimes = [b \in Bucket |-> <<>>]
    /\ tokenDeductions = [b \in Bucket |-> <<>>]
    /\ lastSeen = [b \in Bucket |-> 0]
    /\ pc = [h \in Handler |-> "idle"]
    /\ sid = [h \in Handler |-> NULL]
    /\ ref = [h \in Handler |-> NULL]
    /\ clock = [h \in Handler |-> 0]
    /\ sweepAt = NULL
    /\ admitted = [s \in Session |-> <<>>]
    /\ ledger = [s \in Session |-> <<>>]
    /\ forgot = {}

-----------------------------------------------------------------------------
(* Handlers.                                                                *)

Goto(h, l) == pc' = [pc EXCEPT ![h] = l]

Return(h) ==
    /\ Goto(h, "idle")
    /\ sid' = [sid EXCEPT ![h] = NULL]
    /\ ref' = [ref EXCEPT ![h] = NULL]
    /\ clock' = [clock EXCEPT ![h] = 0]

\* The times that time.Now() may have returned since the look-up.
Clocks(h) == clock[h]..now

\* Under the registry's lock: the session's bucket, or a new one.
getOrCreateSession(h, s) ==
    /\ clock' = [clock EXCEPT ![h] = now]
    /\ \/ /\ sessions[s] # NULL
          /\ ref' = [ref EXCEPT ![h] = sessions[s]]
          /\ UNCHANGED <<sessions, bucketVars>>
       \/ /\ sessions[s] = NULL
          /\ \E b \in Bucket :
                /\ Free(b)
                /\ ref' = [ref EXCEPT ![h] = b]
                /\ sessions' = [sessions EXCEPT ![s] = b]
                /\ requestTimes' = [requestTimes EXCEPT ![b] = <<>>]
                /\ tokenDeductions' = [tokenDeductions EXCEPT ![b] = <<>>]
                /\ lastSeen' = [lastSeen EXCEPT ![b] = now]

CheckSession(h, s) ==
    /\ pc[h] = "idle"
    /\ getOrCreateSession(h, s)
    /\ sid' = [sid EXCEPT ![h] = s]
    /\ Goto(h, "rate")
    /\ UNCHANGED <<now, sweepAt, historyVars>>

RateRejected(h, valid) ==
    /\ requestTimes' = [requestTimes EXCEPT ![ref[h]] = valid]
    /\ Return(h)
    /\ UNCHANGED admitted

RateAdmitted(h, t, valid) ==
    /\ requestTimes' = [requestTimes EXCEPT ![ref[h]] = Append(valid, t)]
    /\ admitted' = [admitted EXCEPT ![sid[h]] = Append(@, t)]
    /\ clock' = [clock EXCEPT ![h] = t]
    /\ Goto(h, "tokens")
    /\ UNCHANGED <<sid, ref>>

\* Defect: the limit is compared before the new tick is counted.
CheckRateOffByOne(h) ==
    /\ pc[h] = "rate"
    /\ \E t \in Clocks(h) :
          LET valid == Recent(requestTimes[ref[h]], t, RateWindow)
          IN  /\ lastSeen' = [lastSeen EXCEPT ![ref[h]] = t]
              /\ \/ Len(valid) > rateLimitPerMin /\ RateRejected(h, valid)
                 \/ Len(valid) <= rateLimitPerMin /\ RateAdmitted(h, t, valid)
    /\ UNCHANGED <<now, sessions, tokenDeductions, sweepAt, ledger, forgot>>

\* Defect: the time the next request is allowed is kept as the last use.
CheckRateFuture(h) ==
    /\ pc[h] = "rate"
    /\ \E t \in Clocks(h) :
          LET valid == Recent(requestTimes[ref[h]], t, RateWindow)
          IN  /\ lastSeen' = [lastSeen EXCEPT ![ref[h]] = t + RateWindow]
              /\ Len(valid) < rateLimitPerMin /\ RateAdmitted(h, t, valid)
    /\ UNCHANGED <<now, sessions, tokenDeductions, sweepAt, ledger, forgot>>

\* The time of the check is the time of the request's tick.
CheckRate(h) ==
    /\ pc[h] = "rate"
    /\ \E t \in Clocks(h) :
          LET valid == Recent(requestTimes[ref[h]], t, RateWindow)
          IN  /\ lastSeen' = [lastSeen EXCEPT ![ref[h]] = t]
              /\ \/ Len(valid) >= rateLimitPerMin /\ RateRejected(h, valid)
                 \/ Len(valid) < rateLimitPerMin /\ RateAdmitted(h, t, valid)
    /\ UNCHANGED <<now, sessions, tokenDeductions, sweepAt, ledger, forgot>>

\* The checks are passed: the handler goes on without the bucket.
Dispatch(h) ==
    /\ Goto(h, "completing")
    /\ ref' = [ref EXCEPT ![h] = NULL]
    /\ clock' = [clock EXCEPT ![h] = 0]
    /\ UNCHANGED sid

\* Defect: the deductions are pruned with the cutoff of the rate window.
CheckTokensMinute(h) ==
    LET valid == Among(tokenDeductions[ref[h]],
                       {d \in Deduction : After(d.at, clock[h], RateWindow)})
    IN  /\ pc[h] = "tokens"
        /\ tokenDeductions' = [tokenDeductions EXCEPT ![ref[h]] = valid]
        /\ Spend(valid) < tokenLimitPerHour /\ Dispatch(h)
        /\ UNCHANGED <<now, sessions, requestTimes, lastSeen, sweepAt,
                       historyVars>>

\* Defect: a session is refused only beyond its limit.
CheckTokensOffByOne(h) ==
    LET valid == RecentSpends(tokenDeductions[ref[h]], clock[h])
    IN  /\ pc[h] = "tokens"
        /\ tokenDeductions' = [tokenDeductions EXCEPT ![ref[h]] = valid]
        /\ \/ Spend(valid) > tokenLimitPerHour /\ Return(h)
           \/ Spend(valid) <= tokenLimitPerHour /\ Dispatch(h)
        /\ UNCHANGED <<now, sessions, requestTimes, lastSeen, sweepAt,
                       historyVars>>

\* The rate tick stays consumed when the token check refuses.
CheckTokens(h) ==
    LET valid == RecentSpends(tokenDeductions[ref[h]], clock[h])
    IN  /\ pc[h] = "tokens"
        /\ tokenDeductions' = [tokenDeductions EXCEPT ![ref[h]] = valid]
        /\ \/ Spend(valid) >= tokenLimitPerHour /\ Return(h)
           \/ Spend(valid) < tokenLimitPerHour /\ Dispatch(h)
        /\ UNCHANGED <<now, sessions, requestTimes, lastSeen, sweepAt,
                       historyVars>>

\* The completion fails or is cancelled, or the call was only a rate_status.
CompletionFails(h) ==
    /\ pc[h] = "completing"
    /\ Return(h)
    /\ UNCHANGED <<now, sessions, bucketVars, sweepAt, historyVars>>

DeductSession(h) ==
    /\ pc[h] = "completing"
    /\ getOrCreateSession(h, sid[h])
    /\ Goto(h, "deduct")
    /\ UNCHANGED <<now, sid, sweepAt, historyVars>>

\* Deduct does not count as use: lastSeen stays.
Deduct(h) ==
    /\ pc[h] = "deduct"
    /\ \E k \in Tokens, t \in Clocks(h) :
          LET d == [at |-> t, tokens |-> k]
          IN  /\ tokenDeductions' =
                    [tokenDeductions EXCEPT ![ref[h]] = Append(@, d)]
              /\ ledger' = [ledger EXCEPT ![sid[h]] = Append(@, d)]
    /\ Return(h)
    /\ UNCHANGED <<now, sessions, requestTimes, lastSeen, sweepAt, admitted,
                   forgot>>

HandlerStep(h) ==
    \/ \E s \in Session : CheckSession(h, s)
    \/ CheckRate(h) \/ CheckTokens(h) \/ CompletionFails(h)
    \/ DeductSession(h) \/ Deduct(h)

-----------------------------------------------------------------------------
(* The sweep: the clock is read first, the idle sessions then go under the  *)
(* registry's lock.                                                         *)

SweepBegin ==
    /\ sweepAt = NULL
    /\ sweepAt' = now
    /\ UNCHANGED <<now, sessions, bucketVars, handlerVars, historyVars>>

Idle(s) == sessions[s] # NULL /\ lastSeen[sessions[s]] + IdleTTL < sweepAt

\* What eviction forgets: deductions or ticks still in a window, or those a
\* handler that already holds the bucket is about to add to it.
Forgets(s) ==
    \/ RecentSpends(tokenDeductions[sessions[s]], now) # <<>>
    \/ Recent(requestTimes[sessions[s]], now, RateWindow) # <<>>
    \/ Using(sessions[s]) # {}

SweepEvict ==
    /\ sweepAt # NULL
    /\ sessions' = [s \in Session |-> IF Idle(s) THEN NULL ELSE sessions[s]]
    /\ forgot' = forgot \cup {s \in Session : Idle(s) /\ Forgets(s)}
    /\ sweepAt' = NULL
    /\ UNCHANGED <<now, bucketVars, handlerVars, admitted, ledger>>

-----------------------------------------------------------------------------

\* The histories keep what is in a window.
Tick ==
    /\ now < MaxTime
    /\ now' = now + 1
    /\ admitted' = [s \in Session |-> Recent(admitted[s], now', RateWindow)]
    /\ ledger' = [s \in Session |-> RecentSpends(ledger[s], now')]
    /\ UNCHANGED <<sessions, bucketVars, handlerVars, sweepAt, forgot>>

Next ==
    \/ \E h \in Handler : HandlerStep(h)
    \/ SweepBegin \/ SweepEvict
    \/ Tick

Spec == Init /\ [][Next]_vars

-----------------------------------------------------------------------------
(* Properties.                                                              *)

TypeOK ==
    /\ now \in Nat
    /\ sessions \in [Session -> Bucket \cup {NULL}]
    /\ requestTimes \in [Bucket -> Seq(Nat)]
    /\ tokenDeductions \in [Bucket -> Seq(Deduction)]
    /\ lastSeen \in [Bucket -> Nat]
    /\ \A b \in Bucket : lastSeen[b] <= now
    /\ pc \in [Handler -> {"idle", "rate", "tokens", "completing", "deduct"}]
    /\ sid \in [Handler -> Session \cup {NULL}]
    /\ ref \in [Handler -> Bucket \cup {NULL}]
    /\ clock \in [Handler -> Nat]
    /\ sweepAt \in Nat \cup {NULL}
    /\ forgot \subseteq Session

\* As long as no eviction forgot part of a session's windows, at most
\* rateLimitPerMin of the requests of a session that read the clock in the last
\* minute are admitted, however the handlers of the session overtake each other
\* between reading the clock and being counted (bucket.go:41-64).
RateLimitHolds ==
    \A s \in Session \ forgot :
        Len(Recent(admitted[s], now, RateWindow)) <= rateLimitPerMin

Known(s) ==
    IF sessions[s] = NULL THEN <<>>
    ELSE RecentSpends(tokenDeductions[sessions[s]], now)

Spent(s) == Spend(RecentSpends(ledger[s], now))

\* As long as no eviction forgot part of a session's windows, the bucket in
\* the map knows every token the session spent in the last hour: no pruning
\* and no concurrent use loses a deduction, and none is counted twice.
SpendIsKnown == \A s \in Session \ forgot : Spend(Known(s)) = Spent(s)

\* Check and deduction are not one step, so a session may spend more than its
\* hourly limit, but by no more than what the completions that can be under
\* way at once may cost.
Most == CHOOSE k \in Tokens : \A j \in Tokens : j <= k

Overshoot(s) ==
    Spent(s) > (tokenLimitPerHour - 1) + Cardinality(Handler) * Most

OvershootBounded == \A s \in Session \ forgot : ~Overshoot(s)

-----------------------------------------------------------------------------
(* What the documents say and the code does not do.                         *)

\* "Per-session token budget (tokens/hour)" (README.md:75): the same bound for
\* every session, also one that was idle for longer than the idle TTL, which
\* by default is half of the hour the budget is meant for.
HourlyBudget == \A s \in Session : ~Overshoot(s)

=============================================================================
