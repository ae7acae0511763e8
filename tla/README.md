# Verification of go-mcp-gateway

TLA+ models of the gateway's concurrent and failure-prone parts, TLC runs on
small instances, and TLAPS proofs for every instance. All definitions are
translated from the Go source (paths below are relative to `src/`, most of them
under `src/internal/`); `PROJECT.json` maps each definition to its lines.

## 1. The system

The gateway is one process. It offers a completion (`route_complete` over MCP,
`POST /implement` over REST) that it sends to a local `llama-server` or to a
remote provider, budgets the tokens this costs, and bridges MCP tools to language
servers. `filewriter` turns a model's response into an atomic change of a worktree.

| component | state | operations | what makes it correct |
|---|---|---|---|
| `modelmanager` | the resident entry (under a lock), the swap queue (of one), the processes, one watcher per resident | `EnsureLoaded`, `Complete`, `swapProcessor`/`doSwap`, `watchProcess`, `Shutdown` | one model at a time; no caller is given a model that is stopping or loading; every waiting caller is answered; a dead model is noticed |
| `policy` tier budget | an atomic counter, a list behind a channel used as try-lock | `Check`, `Deduct`, `Prune`, `MarkUpstreamRateLimit` | no recorded charge is lost early; the budget offered is never too high; an upstream 429 does not zero a tier for ever |
| `policy` session limiter | map of buckets, two sliding windows per bucket | `CheckSession`, `DeductSession`, `sweep` | exact windows although clocks are read before the lock and buckets are evicted in use; a bounded overshoot |
| `filewriter` | the worktree, a batch's undos | `Parser.Parse`, `PathValidator.Resolve`, `Writer.Apply`, `Executor.Run` | all or nothing; deletes last; nothing but the worktree touched, whatever links it has; a report that tells the truth; a bounded retry ladder |
| `lsp` | pool by workspace, per session: pending channels, in-flight count, ready and crashed channels, the contents it told the server | `GetOrCreate`, `Request`, `EnsureFileOpen`, `readLoop`, `watchSession`, `sweep`, `Close`, `Shutdown` | answers go to the caller who asked, about the file as it is; no caller hangs; no channel, count or server leaks |
| `remote` | none between calls | `Do` of the adapters, `doWithRetryAndHeader`, the OpenRouter fallback | bounded calls; the fallback only after a terminal error, never because of a 429 |
| `router` | constant tables | `Route`, `RouteFallback`, `NextTierUp`, `Classify`, `Interpret` | tables |
| `mcp`, `rest` | none | `routeComplete`, `implement`, the LSP and status tools | what is answered is charged, once and at the tier that served it; every request ends |
| `config`, `telemetry`, `cmd/gateway` | read once; write-only; wiring | | |

Interactions: handlers are goroutines that share `policy`, `modelmanager`,
`lsp.Manager` and the stateless `router` and `remote.Resolver`. `modelmanager`
hands swaps to its processor over a channel and gets the end of a process from a
watcher goroutine. `policy.Registry` runs a sweep goroutine over the buckets and
tiers the handlers use. `lsp.Session` has a reader goroutine that routes answers
to per-request channels. `filewriter` is called by one task at a time per worktree.

What is hard: watchers and timers that fire after the thing they watch was
replaced; try-locks whose failure drops work; state read under one lock and used
under another; clocks read before a lock; partial failures of a batch and of its
rollback; answers that arrive after their requester left; retries, deadlines and
fallbacks that mix. `PROJECT.json` lists each of these under `hazards`, at the
line where it bites, with the properties that watch over it.

## 2. Modules

    ModelManager     <- MCModelManager     ModelManagerProofs
    TierBudget       <- MCTierBudget       TierBudgetProofs
    SessionLimiter   <- MCSessionLimiter   SessionLimiterProofs
    Parser <- PathSafe <- FileWriter <- Executor <- MCExecutor
              PathSafe <- PathSafeProofs
                                        Executor     ExecutorProofs
                                        Executor implements AtomicBatch
    LspPool          <- MCLspPool
    LspPool <- LspFiles                    LspPoolProofs
    Remote <- Gateway <- MCGateway
              Gateway    GatewayProofs
    Filters <- SessionLimiter, Parser, Induction

(`A <- B`: B extends A; a proof module extends the module in its row.) `Filters` is the
loop that keeps some members of a slice, written as a recursive function so that one can
prove about it. `Induction` has the facts the proofs of several components share: induction
on numbers and finite sets, sums, and what such a loop keeps. A `MC...` module only gives constants their values. An
operator whose comment begins with *Defect* is a plausible bug in the operator that
follows it. Nothing uses it; put in that operator's place, it shows which property
would notice.

**ModelManager.** `resident` is `Manager.resident`, `queue` the buffered `swapQueue`,
`ppc` the place of the swap processor in `doSwap` (one action between two blocking
calls or lock regions; `setResident` and the `go watchProcess` after it are two), `state`/`sig` the external processes, `armed` the watchers
that have not run yet. Callers run `EnsureLoaded` and then `Complete`, may give up at any
`select`, and come again. Time is abstracted: a wait with a timeout ends either way.
`killProcess` sends SIGTERM, waits, sends SIGKILL and does not wait again, so a
killed process may live on for a while. `late` is history: the processes that were
published after `Shutdown` had read the resident. With the one `doSwap` has started and
neither published nor killed (`Starting`), they are what `ShutdownStopsWhatItSaw` excepts.
`ResidentWatched` excepts the resident whose watcher is about to be started.

**TierBudget.** One tier. A request is a handler call: `Check`, the completion,
`Deduct` split into its atomic add, its try-lock and its append. `Prune` is
split at its try-lock, its computation, its store and its unlock, and run by the
sweep and by restorers of an upstream 429. The clock is an integer.

**SessionLimiter.** Buckets are heap cells, because a handler keeps a pointer to a
bucket the sweep has evicted. Each handler has the clock it read before it waited for
the bucket's lock. `admitted` and `ledger` are history: what the session really did.

**Parser, PathSafe, FileWriter, Executor.** A response is a sequence of fenced blocks.
`PathSafe` is `PathValidator`: a place is an absolute path without symlinks, a tree says what
each place holds, and `Resolve` leads from a name to a place or a refusal as `pathsafe.go`
does (the deepest component `Lstat` sees is canonicalized, the missing ones rejoined, the
result confined, then extension and `.gitignore`). `Found` is the system's own lookup, which
the properties compare it with. Places outside the worktree exist, so that leaving it is
something the model can do. A lexically cleaned name, what a link finally leads to, and what
a glob matches are constants; links are never made by the gateway and, while a task runs,
by nobody else. `FileWriter` has `plan`, staging, rename, delete and the undos, each system call
failing on its own, undos included. `Executor` is the retry ladder around it.
`AtomicBatch` is the abstract specification: a tree and an outcome, changed in one
step. `Executor` is shown to implement it (`Atomic`) with a refinement mapping
that shows the original tree until the task ends; places where the rollback
itself failed are excepted by name.

**LspPool.** One workspace key. Sessions, their initializer goroutines, callers,
the sweep and the shutdown are agents of one program: look up, be ready, send,
wait. A server answers late, never, after the timeout, asks requests
of its own with ids that may collide with pending ones, writes rubbish, and exits.
A start that fails leaves a stdin that is closed, or none (`HasStdin`): writing to the
first is an error, which costs an id, and to the second a panic. `StdoutPipe` is taken not to
fail where `StdinPipe` did not. A sweep may still come after `Shutdown`.

**LspFiles.** `EnsureFileOpen` of one file, above `LspPool`: a caller that holds a session
reads the file, takes note of the content under the session's lock (`openFiles`), and sends
`didOpen` or `didChange` after it; any step of `LspPool` may come between, and `Follow` says
what such a step does to the file's variables. A content is the number of edits. `doc` is
what the server has; it may drop a notification while the handshake is not over, because the
tools do not wait for it.

**Remote, Gateway.** `Remote` is the life of one `Do`: attempts answered with 429,
waits, the adapter's deadline, the fallback to OpenRouter. `Gateway` composes it with
the router's tables and with the two handlers. Components with a concurrency of their
own appear as their callers see them: `EnsureLoaded` succeeds, fails before or after
the old model was stopped, or is abandoned while its swap goes on; `Complete` is given
no tier and takes whatever is resident. `classifyTask` is the order in which kinds of
keyword are looked for in a REST task; an MCP caller names its complexity. A handler's steps are split wherever other
requests can run in between.

## 3. Runs

| run | instance | question |
|---|---|---|
| `ModelManager` | 2 callers, 2 processes, 3 tiers, one of them too large; symmetry | the safety properties of swapping and of `Shutdown` |
| `ModelManagerLive` | 1 caller that may give up and return, 2 processes, 2 tiers | is every waiting caller answered, every dead model cleared |
| `ModelManagerOneLoaded` | as `ModelManager` | counterexample to README.md:67 |
| `TierBudget` | 3 requests, 1 restorer, the sweep, window 1, clock to 2 | records, honesty of the counter, end of a 429 |
| `TierBudgetRecorded` | as `TierBudget` | counterexample to tierbudget.go:46 |
| `SessionLimiter` | 2 handlers, 1 session, 3 cells, limits of 2 | exact windows, bounded overshoot |
| `SessionLimiterHourly` | the same | counterexample to README.md:75 |
| `Executor` | 5 places and 4 symlinks in the worktree, a directory and a file outside, 11 names, 2 ignore rules, 2 tiers, some 60 responses, 5 initial trees | refinement, confinement, names found again, ladder, reports, termination |
| `LspPool` | 2 callers, 2 sessions, 2 calls, sweep and shutdown; symmetry | answers, channels, counts, servers |
| `LspPoolLive` | `LspFiles`: 2 callers, 1 session, 2 calls, 1 edit, shutdown and no sweep | no caller hangs, dead sessions leave, questions are about the current file |
| `Gateway` | 2 requests, every set of API keys, 3 retries as in the code, budgets that one request uses up | calls, charges, the model that answers, termination |
| `GatewayCascade` | the same | counterexample to README.md:106 |

Why the bounds suffice. The hard interleavings are between two actors of a kind and one
background goroutine. Two processes are needed, and enough, for "the old one and its
successor" (an identifier is used again once nothing refers to it, so histories are not
bounded); two callers for a swap that overtakes another; three requests in
`TierBudget` because one holds the try-lock, one loses it and one has recorded
before. The window of `TierBudget` is shorter than the run, so deductions do leave it;
in `SessionLimiter` the idle TTL is shorter than the token window, as in the default
configuration (30 and 60 minutes). `SessionLimiter` was also run with the clock going to 3.
In `Executor` the batches of two operations cover each pair of kinds and the ways their
places can be related (the same, aliased, one above the other), among them a file written
where the next write needs a directory; two batches have three operations. The links lead to a file, to a directory, out of the
worktree and to the directory above it, and the first two dangle in some of the trees. One
edit in `LspFiles` is enough for an older and a newer content to be read, noted and sent in
either order. `maxRetries` has the
code's own value, and so has `QueueCap` (the swap channel holds one request): two callers
fill it, because a caller that gave up comes again while its first request is in work.

`LspPoolLive` leaves the sweep out: to its one session `Shutdown` does all that the sweep
does, and with fewer conditions (`LspPool` has both, and the run passes with both, in more
time than a routine check should take). In `LspFiles` an edit before the file is first read
or after it is last read is left out, since nothing can tell it apart. `LspPool` has one
request of a server under way at a time, with the id of a waiting caller; an id that nobody
waits for is dropped. The `MaxCalls + 2` ids suffice, which is proved (`Rationed`).

Deadlock is checked in the `ModelManager` and `SessionLimiter` runs. The others
switch the check off because their systems do stop: requests have all been answered,
the task has ended, the clock has reached its bound, or the gateway is down.

### Fairness

* `ModelManager`: the processor, each watcher and each caller that has an answer
  waiting are goroutines the Go scheduler runs. `killProcess`
  and `pollHealth` have timeouts, so the processor's waits end. Nothing is assumed of
  `llama-server`: it may load for ever, refuse to die on SIGTERM, or never exit.
* `TierBudget`: the sweep's ticker fires, pruners and deductions in progress go on.
  The clock need not advance and nobody need send requests.
* `Executor`: the task's own goroutine goes on. Model calls return, since the
  clients have timeouts; a cancellation need not come.
* `LspFiles` (and `LspPool` below it): callers inside a call, whose `select` has a timeout,
  and `watchSession`. Nothing of the server, of its initializer, of `readLoop` or of the sweep.
* `Gateway`: handlers and remote calls go on; `http.Client` has a timeout and
  `EnsureLoaded` is answered (`WaitingResolved`) or abandoned.

### Where documents and code differ

1. *One model at a time* (README.md:67). `watchProcess` compares tiers, not
   processes. A watcher that runs after its tier was loaded again clears the new
   entry, and the next swap starts a second server. `OneModelUnlessMiscleared` shows that
   this is the only way.
2. *Deduct records the deduction* (tierbudget.go:46-47). It does not when the
   try-lock is taken; the next `Prune` then gives the tokens back. `RecordKept`
   and `BudgetHonest` say what does hold.
3. *Tokens per hour* (README.md:75). A session idle for longer than the TTL is evicted
   with what it spent in the hour.
4. *Cascade on exhaustion* (README.md:106). `routeComplete` does not check the tier
   it falls back to; `implement` checks none.
5. *No fallback after a timeout* (`openspec/changes/remote-clients-v03/specs/remote-api-clients.md:57-61`,
   R4: "returns a terminal error (non-429, non-timeout)"). `client.go:73-74` makes every error
   of the HTTP call a `TerminalError`, a timeout included, and `fallbackAdapter.Do` runs the
   fallback on each (`openrouter_fallback.go:89-95`). So a call that the adapter's deadline cuts
   off is repeated at OpenRouter, without a deadline, and so is one that begins, after the wait
   for a 429, when the deadline has passed. Only a deadline that ends that wait does not fall
   back (`DeadlineInWait`). The model follows the code (`Fail`), and the terminal errors
   of `RetriesAccounted` and `RetriesBounded` are the code's, timeouts of a call among them.

The first four are runs that TLC refutes; the fifth is read off `Expire` followed by `Fail`
and has no run.

Observed while reading, not stated as runs: `all_tiers_unavailable` cannot be returned,
since both budgeted tiers have a fallback. README.md:97-99 gives `local_ornith` where
`router.go:17-23` says `local_qwen`. `types.go:62-64` says the policy layer cascades on a
`RateLimitedError`; `implement` answers 502 and nobody calls `MarkUpstreamRateLimit`.
The Retry-After header is never passed on (`deepseek.go:49-53`). The remote branch of
`routeComplete` is a placeholder. A failing `MkdirAll` leaves directories although
`apply.go:33-34` speaks of any failure (they are `leaked` in `FileWriter`).
`readLoop` takes a request of the server whose id collides with a pending one for the
answer (`session.go:253`), modelled as `Foreign`.

## 4. Proofs

Every invariant that a passing run checks is a theorem, for every value of the constants
that satisfies the named assumptions, and so are the two action properties and the
refinement.

| module | theorem | property | rests on |
|---|---|---|---|
| `ModelManagerProofs` | `TypeCorrect` | `TypeOK` | `TypeInv`: the types and which local variables are set at each place |
| | `OneModel`, `HealthOwn`, `SwappingTransient`, `SignalledMarked`, `Watched`, `ShutdownStops` | `OneModelUnlessMiscleared`, `HealthIsItsOwn`, `SwappingIsTransient`, `SignalledIsMarked`, `ResidentWatched`, `ShutdownStopsWhatItSaw` | `IInv` |
| | `Conserved` | `RequestConserved` | `RequestInv` |
| `TierBudgetProofs` | `RecordsKept` | `RecordKept` | `IInv` |
| | `TypeCorrect`, `Honest` | `TypeOK`, `BudgetHonest` | `IInv`, `Ledger` |
| `SessionLimiterProofs` | `TypeCorrect`, `RateLimited`, `SpendKnown`, `OvershootIsBounded` | `TypeOK`, `RateLimitHolds`, `SpendIsKnown`, `OvershootBounded` | `IInv` |
| `ExecutorProofs` | `Accounted`, `AtMostThreeCalls` | `AttemptsAccounted` | `IInv` |
| | `TypeCorrect`, `StagingRemoved`, `StaysInside`, `ReportsTruly`, `FoundUnderItsName` | `TypeOK`, `StagingEnds`, `WorktreeOnly`, `ChangesAreTrue`, `ReadsBack` | `TaskInv` |
| | `DeletesComeLast` | `DeletesLast` (action) | `TaskInv` |
| | `ImplementsAtomicBatch` | `Atomic` (refinement) | `TaskInv` |
| `LspPoolProofs` | `TypeCorrect`, `ChannelsOwned`, `OwnAnswer`, `InFlightExact`, `NoServerLost` | `TypeOK`, `PendingAwaited`, `AnswersMatch`, `InFlightCounts`, `ServersAreReachable` | `IInv` |
| | `CurrentAnswers` | `AnswersAreCurrent` (action) | `FilesInv` |
| `GatewayProofs` | `TypeCorrect`, `RetriesBounded`, `ItsTier` | `TypeOK`, `RetriesAccounted`, `AnsweredByItsTier` | `IInv` |
| | `BooksBalance` | `ChargedAsAnswered` | `Books` |

`Induction` and `PathSafeProofs` hold lemmas only. TLC had checked the larger inductive
invariants (`WInv`, `IInv` of `SessionLimiterProofs`, `FilesInv`) on the instance of their
run before they were proved.

### Assumptions

All are `ASSUME`s of the modules, so TLC evaluates them on every run. Most say that a limit
or a window is a number and that markers such as `NULL` are none of the values they stand
beside. Those that say more:

* `LimiterAssumption`: limits are positive. The defaults are, and `config/load.go:81-86`
  ignores a zero in the environment, but a YAML file can set one: the theorems say nothing of
  it (with a rate limit of zero the code reads the first element of an empty slice; see the
  hazard at `bucket.go:58`); a completion costs at most the largest of `Tokens`; finitely
  many handlers run at once.
* `PathAssumption`: what holds a place lies in directories; a link leads to a place that is
  no link, or nowhere (`NULL`), which is what following a chain of links comes to; neither
  the root of the worktree nor a directory above it may change; a name is a non-empty relative path
  or one that the lexical check refuses.
* `ReachAssumption`: the places of the model include all that `Resolve` can name. It bounds
  the universe, not the code.
* `ParserAssumption`, `ExecutorAssumption`: the four reasons are none of `NoReason`; the
  tier above a tier is a tier.

### Arguments

*ModelManager.* `OneModelUnlessMiscleared` is not inductive: it does not say who knows
the process that runs. `Tracked` does: unless a watcher miscleared, every process
that runs and was not killed is the resident's or the one in `doSwap`'s local
variable. `Phase` ties the `Swapping` flag and the resident entry to the
place of the processor, `Signals` the signal sent to the mark, and `Seen` says that the
resident, once `Shutdown` has looked, is the process it stops or one published later. Each
action moves the one process that may run from one of these two places to the other.
`RequestInv` has the three places of a request (in the queue, in work, answered) exclude
each other, and the queue hold one; the cardinality follows.

*TierBudget.* A pruner overwrites the list with what it computed earlier, so
`RecordKept` needs that the list did not grow in between: `LockInv` (who is in a
critical section holds the lock), `KeptInv` (what a pruner has kept is still the list
as of its clock, which is not in the future) and `ListInv`. For `BudgetHonest`, `Ledger`
adds that all sums are over charged requests, finitely many, whose cost no longer
changes; each step moves one request between the sums, or, in `PruneStore`, replaces the
counter by what the kept sum leaves and `erased` by the charges it overwrites.

*SessionLimiter.* `Wired`: a handler keeps a bucket that no other session has, and the map
leads to it unless the session was forgotten; no handler's clock is in the future. `Tracks`:
the bucket's windows at the present are those of the history, and pruning with a stale clock
keeps it so (what the present window keeps, an earlier one kept). `Covered`: what was spent
and what the handlers past the check (`Busy`) may still spend is below the limit plus one
largest completion per handler.

*Executor.* `IInv` says how the counters stand at each place of the ladder. `WInv` is about the
writer alone: `Queue` (what is planned, done and left to do, writes before deletes),
`Effects` (each place is as it was, or as the plan made it so far), `Undoable` (the undos
lead back to the tree the batch began with, in their order), `Staged` (where the staging
file is), `Confined` (nothing outside, and no link, changes) and `Untouched` (what `plan`
refuses has changed nothing). `PathSafeProofs` proves that what
`Resolve` accepts lies below the root, and that the system finds it there again once the
directories above it exist, which `ReadsBack` and `WorktreeOnly` need. The refinement maps
the tree to the one the task began with until the task succeeds, except at places the
rollback failed to restore; every step but `Succeed` and the failing ends is a stutter of
`AtomicBatch`.

*LspPool.* `Held` says which session an agent may hold at each place: a caller that starts
one is alone in it, and a closer's session is out of everybody's reach. `Reachable` is
`ServersAreReachable` with the sessions about to be started, without which it is not
inductive. `Routed` ties an id to one request, through the channel, the server's unanswered
question and the message `readLoop` holds back; `InFlightCounts` is inductive with
`Held`. `Rationed` counts who may still take an id of a session (a send that fails takes one, too), and gives the bound in
`TypeOK`.

*LspFiles.* `AnswersAreCurrent` needs `Noted`: as long as no notification of a session was
overtaken or lost, its server has the content in `openFiles`, or the single notification
that brings it is on its way; and what `openFiles` has is not older than what any caller read.
Every step of `LspPool` is followed only as to who leaves with a notification unsent.

*Gateway.* `Attempts` relates the history of calls to the adapter's counter while
it runs; `Models` relates a request's model to its place in the handler. Both speak
of one request at a time; what other requests do to it is only `Publish`. `Books` says
that what was charged is the sum over the handlers past the charge; a step moves one
request into one of the sums.

*Induction over data.* The library's induction theorems take an operator, which none of the
provers can instantiate. `Induction` states induction for sets (`N \subseteq Nat` that has
0 and successors is `Nat`), derives recursion from it (a function with given steps exists on
`0..n`), and from that what a sum over a finite set (`Total`) and a filtering loop (`Among`)
compute: adding or removing a member, splitting, monotonicity; the members kept, their
order, appending, filtering twice.

### What the proofs found

Attempts that failed for a reason changed the models, each time towards the code:
`ChangesAreTrue` had left out that a write may need a directory where a delete was skipped
(`writer.go:104-105`: the desired end state already holds), and `ReadsBack` that a deleted name
may then be a directory; `AtomicBatch` deleted what was not there; `LspPool` had not said
that the mark of a foreign message is not `NULL`. The instance of `Executor` got the batch
that shows the first two.

### Left to TLC

Liveness: `WaitingResolved`, `DeadResidentCleared`, `MarkEnds`, `RunEnds`,
`RequestReturns`, `DeadLeavesPool`, `RequestEnds`. The prover has no rule for fairness and
`ENABLED`. The counterexamples of section 3 are TLC's, too.

## 5. What is not modelled

* `config`, `telemetry`, `cmd/gateway`: no state after start, or state nobody reads. The
  order of the shutdown sequence of `main` is only that of its calls; what `Shutdown` of the
  model manager and of the language servers may meet is in their modules.
* The HTTP exchanges, prompts, request bodies, `streaming.go` and `doWithRetry` (which
  no caller reaches); waiting times of retries.
* `Interpret`: the wording of test reports, on which no state depends; the keywords
  themselves in `classifyTask`.
* Text: lines of a response, the cleaning of a path, glob syntax, diff entries, file modes.
* Links that change while a task runs: `Resolve` looks once, and the design has one task per
  worktree.
* Writes to a full pipe of a language server, which block with the session's lock held
  (`session.go:234-239`): `RequestReturns` is about servers that read what they are sent.
  Other workspace keys.
* `internal/graft` is imported and not in the repository; it only adds context to a task.

## 6. Plan

Done: the modules above, in that order (swapping first, as the most concurrent part;
then the budgets, the file writer, the language servers, and the composition).

Done since: `PathSafe` in place of a constant verdict, `LspFiles` above `LspPool`, the property
of `Shutdown`, and the classification of REST tasks.

Open, models: two tiers of `TierBudget` composed with `Gateway`; a write to a pipe that
blocks; recovery of a session whose `initialize` timed out (nothing in the code brings it
about while the session is in use).

Open, proofs: the invariants and action properties of all runs are proved (section 4). What
is left is what the prover has no rule for. Worth stating and proving next: that `LspPool`
implements a map from requests to answers, and that the gateway's own view of a component
(`EnsureLoaded`, `Check`, `Deduct` in `Gateway`) is implemented by that component's module.
