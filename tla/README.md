# Verification of proxy-common

TLA+ models of the packages of `proxy-common`, the TLC runs that check them on
small instances, and proofs, checked by TLAPS, that the main properties hold for
every value of the constants. Paths are relative to `src/`.

## Inventory

| component | state | operations | what is hard | what makes it correct |
|---|---|---|---|---|
| multi-level cache (`cache/multi`) | none but its list of levels | Get, GetStale, Set, Delete, each a loop over levels without a lock; a hit below the first level is copied to those before it | other goroutines and processes between any two calls on levels; the copy uses an entry read earlier | no replaced value comes back, copies do not outlive their bound, calls return |
| BigCache level (`cache/l1`) | one in-process store; a scheduler for metrics | Get, GetStale, Set, Delete, Close | entries over the size limit are skipped; deletion on read is a second step | as above |
| KeyDB level (`cache/l2`) | a server shared by processes | the same, over a network | commands fail, time out, are executed late; data of other programs | as above |
| no-op level (`cache/noop`) | none | the same, doing nothing | is still a level to the loops | as above |
| cache entry (`models`) | createdAt, staleAt, expiresAt in Unix seconds | IsExpired, IsFresh, RemainingTTL | truncation to seconds; TTLs of copies derived from copies | windows are preserved by any chain of copies |
| scheduler (`scheduler`) | running, cancel, a mutex, a wait group, one goroutine per Start | Start, Stop, IsRunning | concurrent Start and Stop; Stop waits with the mutex held; select chooses at random | one run at a time, quiet after Stop, calls return |
| rate limiters (`ratelimit`) | limiter per type and key, configuration | GetLimiter, SetConfig | double-checked creation; SetConfig in between | one bucket per key, never an old limit |
| API keys (`apikeys`) | last failure per key | GetAvailableKeys, TryWithKeys, MarkKeyAsFailed | the lock is held for one key at a time; the lists change | keys rest for their backoff and no longer; failures are recorded |
| HTTP client (`httpclient`) | none shared | ExecuteRequest | retries, backoff, limiter, cancellation, bodies | no body leaks, retries for cause, attempts accounted for |
| batch (`batch`) | none shared | ChunkMapFetcher, ChunkArrayFetcher | two limits, an item over the limit, errors midway | all items once and in order or none |
| auth (`auth/handlers`, `puzzle`, `jwt`, `config`) | use count per token ID | PuzzleHandler, SolveHandler, VerifyHandler | nearly stateless: solutions and tokens come again, with fields the client chooses; verifications at once; restarts | one quota per token ID, tokens end, terms of the puzzle hold |
| auth server (`auth/server`, `auth/config`, `auth/cmd/server`) | configuration, handlers, routes | New with options, a main that reads environment and file | order of options; the configuration has three sources | handlers serve the validated configuration the server reports |
| metrics, mocks, tools, defaults of caches, script | | | counters, generated code, I/O | not modelled |

How they interact: a proxy looks a request up in the multi-level cache; on a miss
it calls `TryWithKeys` with the available keys, each try an `ExecuteRequest`
whose limiter comes from `GetLimiter`; large requests are cut up by `batch`;
BigCache runs its metrics on a `Scheduler`. The auth service stands apart, behind
nginx's auth_request, and runs in the server that `auth/server` makes. The
packages call each other through interfaces given by their user and share no
state, so each has a module of its own; two more modules compose them
(`KeyedRequest`, `AuthServer`), and three say what a component promises
(`Register`, `Switch`, `LimiterTable`).

The file `PROJECT.json` lists the hazards, each at its line of code with the
properties that watch it.

## Plan

1. Core (done): `CacheEntry` and `MultiCache`, `Scheduler`, `RateLimiterManager`,
   `APIKeys`, `HTTPClient`, `Chunker`, `AuthService`, each checked by TLC.
2. Abstract specifications (done): `Register`, `Switch` and `LimiterTable`, each a
   PROPERTY of the run of the module that implements it.
3. Composition (done): `KeyedRequest`, which is `TryWithKeys` over `HTTPClient`;
   `AuthServer`, which is `AuthService` in a process with options, environment and
   file.
4. Proofs (done): every invariant that a run checks, `DropsOnlyUseless`, the three
   refinements, and that the server is the service; see Proofs.
5. Next: a property for what a failing KeyDB leaves behind, the last hazard of the
   cache without one; the refinement of `Register` for one of several keys, which
   the proof now takes away by `OneKey`; the promises of the abstract
   specifications themselves as theorems about them.

## Modules

### CacheEntry, MultiCache, MCMultiCache

`CacheEntry` is `models/cache.go` in arithmetic: a duration is counted in
1/`SubSec` of a second, so that `int64(d.Seconds())` really drops something.

`MultiCache` has one variable per place where state lives: `store[s][k]` for the
levels, `op[c]` for the local variables of the call a goroutine `c` is in, `late`
for KeyDB commands whose caller has given up but which the server may still
execute, and the clock. `Chain[c]` is `mc.caches` as `c` sees it; two clients
with different BigCaches and a common KeyDB are two processes.

* `CallGet`, `CallSet`, `CallDelete` start a call, and every later step is one
  call on one level, because that is what can interleave.
* `BigCacheGet`, `KeyDBGet`, `NoOpGet` are one level's answer: `Miss` moves on,
  `Hit` starts a propagation if the level is not the first and propagation is
  enabled, and what does not decode or has expired leads to `Drop`, which is the
  separate delete command the code sends.
* `Promote` is `propagateToEarlierCaches` up to its loop, where it reads the
  clock; `Fill` is a round of the loop, in which the level reads the clock again.
* `WriteLevel`, `EraseLevel` are rounds of the loops of Set and Delete.
* `Fail` is a KeyDB command that returns an error: lost, or executed later.
* The environment evicts, corrupts (another program's data in KeyDB), restarts a
  process (its BigCache is empty, its calls are gone) and lets time pass.

GetStale is Get: in all three packages the two differ in logging and metrics
only. A value is the number of the Set that wrote it, which is what lets
properties say which Set a copy comes from. `writes`, `dead`, `op[c].base` and
`op[c].since` are history.

`RankAssumption` says that levels are in the same order in all chains; otherwise
copies could go round in circles.

### Register, CacheAsRegister

What the levels are together, to a client that is alone with a key: a register
that may forget but never goes back. `CacheAsRegister` maps the levels to it.
`Kept` is the one value that the client's Gets may yet answer, from a level or
from a promotion under way, expired copies left out; a Set under way has its
effect when its last level is written, which is when the register's `Set` happens.
A step that loses the last good copy is the register's `Forget`: an eviction, a
corruption, a tick of the clock, the first level erased. That two levels could
answer two values, or that a promotion revives what has expired, is what the
mapping would not survive. `Alone`, `OneSurvives` and `OneKey` say which chains and
environments this is true of; TLC evaluates them for the instances with one client
(`AloneAssumption`).

### Scheduler, MCScheduler, Switch

Threads are the callers and the goroutines of runs, because the task may call the
scheduler itself. A method is `Invoke`, `Lock`, and a body that runs with the
mutex held; Stop has two bodies, `Stop` up to `s.wg.Wait()` and `Waited` after
it. The goroutine of a run is in `select`, in the `task`, or done; `Fire` is the
ticker, whose channel holds one tick.

`Switch` is the scheduler without mutex, goroutines and contexts. A call takes
effect when it returns, so `Start` and `Stop` of the switch are the steps in which
`Start` and `Waited` of the scheduler leave the method; everything before them is
a stutter. Users of the switch are callers and the task.

A task that calls the scheduler may stop it for ever: Stop holds `s.mu` over
`s.wg.Wait()`, and the task it waits for waits for `s.mu`, or for itself. `Deadlocked`
describes just that, `CallsReturn` and `TickServed` say that nothing else keeps a
call or a tick waiting, and `DeadlockStays` is the proof that there is no way out of
it. In the run the task may call all three methods.

### RateLimiterManager, MCRateLimiter, LimiterTable

`LookUp` is GetLimiter under the read lock, `Create` the part under the write
lock, with the second look. A limiter is the limit and burst it was made with, and
its number is its identity. Limits are per minute, where the code divides by 60.
`TypeOK` has, besides the types, what `defaultBurstForLimit` is for: where no burst is
configured it is the rate of a second, rounded up.

`LimiterTable` is the manager as its callers see it: GetLimiter is one step. The
mapping reads the table off `keyToLimiter`; a lookup that misses is a stutter, and
the answer given under the write lock is the abstract step, whether it finds the
limiter another thread has made meanwhile or makes it.

### APIKeys, MCAPIKeys

A request is a scan and the tries that follow it. `ScanType` reads a list from the
provider, `ScanKey` looks one key up under the lock, `Executor` is any answer of
the user's function and `MarkKeyAsFailed` the callback of `CreateFailCallback`.
`failedThen`, `begun`, `leftOut`, `erred` and the mark `alone` are history.

### HTTPClient, KeyedRequest, MCKeyedRequest

One call, as calls share nothing. `BeginAttempt` is the head of the loop with
OnRetry and the wait, `RateLimiterWait` the limiter, `Do` the request,
`ProcessResponse` everything after the answer. `sent`, `reports`, `retries`,
`slept` and `tokens` are history. Overflow of the backoff is left out: with the
default base of a second it takes more than 33 retries.

`RetriedForCause` says which failures are sent again and that a call gives up early
for a reason. One reason is a 200 whose body breaks off (`BodyUnread`): that failure
may pass as well, and the README of `httpclient` says that network errors are
retried, which is `NetworkErrorsRetried` and is not so (`httpclient_unread`).

`KeyedRequest` is one `TryWithKeys` whose executor calls `ExecuteRequest` in the
context of the request, as the README of `apikeys` does with `http.Client`: the
library leaves the executor to its user, so this is the one place where the
composition itself is a usage and not code of the repository. `Executor` is any
step of `HTTPClient` for the key at `i`; `OnFailed` is the error branch of the loop
with the callback of `CreateFailCallback`. Cancellation is of the whole request and
may come at any step. `load`, `begunLate` and `late` are history.

### Chunker, MCChunker

One call. `TakeItem` is a round of the inner loop, `CloseChunk` its end with the
at-least-one rule, `Delay` the select, `Fetch` the user's function, `Merge` a round
of the loop over `chunkResults` or the return behind it. What is merged is
positions, so that the two fetchers differ in nothing but the container.

### AuthService, AuthServer, MCAuthServer

`puzzles` and `tokens` are what clients hold, not server state: the server
remembers `tokenUsage` only. A request (`SolveRequest`) has any challenge and salt,
and an expiry and a signature that some puzzle has. What is signed is one text, in
which challenge, salt, difficulty and expiry stand in a row with nothing between
them, so `Text` is a constant operator about which the proofs assume only
`OneDigitAssumption`: the difficulties in use have one digit, which is then the last
of the text before the expiry. In particular nothing says where a challenge ends: in
the run `Text` is concatenation, and a challenge that has taken a letter from its
salt goes with the signature of the puzzle. The challenge of the request becomes the
ID of the token, so a puzzle may have several IDs, each with a count of its own and
each wanting a solution of its own; what the code bounds, and `QuotaPerTokenID`
says, is the use of an ID.

`SolveHandler` and `Generate` are two steps because the clock is read again for
the token, after the hash has been computed. `Verify` and `Count` are VerifyHandler
before and under `tokenMutex`: any number of requests may be past the check of their
token when one is counted. `Start` is `handlers.New` in a new process, with any
configuration; `Stop` is the end of the process, which may come at any step and takes
`tokenUsage` with it. The expiry of a puzzle is compared twice, which is one
comparison; a nil configuration makes every handler panic before it changes anything,
so the service is then as good as down (`Up`).

`AuthServer` says how a configuration gets there: `Begin` and the options of
`server.New` one by one, in any order and number up to a bound, or `Main`, the
command that reads the environment and then the file; `AfterOptions` loads the
file if there is no configuration yet, validates, makes handlers if no option has
and serves. `handlers` is a sequence of at most one configuration, because handlers
made with a nil configuration are not the same as no handlers. While it serves, the
steps are those of `AuthService`.

## Runs

| run | question | instance | result |
|---|---|---|---|
| `multi_seq` | is a MultiCache used by one goroutine a correct cache? | BigCache, no-op, KeyDB; 2 Sets, 3 TTLs, undecodable data, evictions, restarts, 4 s | `Regular`, `LevelsAgree`, `DropsOnlyUseless`, `CallsReturn` hold; it implements `Register` (`IsRegister`) |
| `multi_conc` | what holds under every interleaving and fault? | two processes, chains of 3 and 2 over shared KeyDBs, failing and late commands, oversized entries, propagations up to 1 s, 4 s | `TypeOK`, `LifetimeBound`, `WindowsPreserved` hold |
| `multi_oversize` | does Set write all levels? | one goroutine | `Regular` is violated |
| `multi_stale_twice` | is a value stale for as long as asked? | one goroutine | `StaleAsAsked` is violated |
| `multi_delete_race` | does Delete delete? | two goroutines of one process | `Regular` is violated |
| `scheduler` | Start, Stop and IsRunning from two goroutines and from the task | 3 runs | six properties hold, two of them but for `Deadlocked`; it implements `Switch` (`IsSwitch`) |
| `ratelimit` | lookups against SetConfig | 2 threads, 2 keys, 2 types, 3 configurations, 1 change | four properties hold; it implements `LimiterTable` (`Atomic`) |
| `apikeys` | scans against marks, time and changing lists | 2 requests, a key and the empty key, in one list or in two, backoff 2, 2 s | four properties hold |
| `httpclient` | every course of a request over its keys | no, one, two or three keys, 3 attempts each, base 0, 2 and 5 ns, statuses 200, 404, 429, 503, one cancellation | five properties of a call and two of the request hold |
| `httpclient_unread` | are network errors retried? | as in `httpclient` | `NetworkErrorsRetried` is violated |
| `chunker` | every small input | up to 4 items of lengths 0..3, limits 0..3 and 0, 2, 4 | four properties hold |
| `auth` | quota, life and terms of tokens in a server that is configured, ends and starts again | 2 puzzles, 3 challenges, 5 configurations, 2 of them invalid, 2 starts, 3 options, 2 tokens, 2 verifications at once, 3 minutes | five properties hold |

Bounds. The cache needs two Sets for a replaced value, three levels for copies of
copies, and a clock that passes fresh + stale + stale of the shortest TTL in use;
two processes suffice for a race on a shared level, and the proofs remove the
bounds for the three invariants of `multi_conc`. Keys of the cache do not
interact, so there is one. The scheduler needs three runs for a Start after a
Stop that races another Start; the proofs remove this bound too. For the limiter,
two threads race and one SetConfig gives an old and a new limiter. For the API
keys, time 2 with backoff 2 lets a failure end in the middle of a request. Two
starts are enough to lose the use counts once, and the proofs remove the bound;
three options are WithConfig, WithCustomMetrics and another WithConfig, so that
handlers with an older configuration occur. Two tokens are two exchanges of one
solution, or one of a puzzle and one of the other challenge that its signature goes
with, and two verifications under way are what may overlap with a count; no solution
is accepted once there are two tokens, and the proofs know neither bound. Three keys leave two after the one
that is being tried when the request is cancelled.

Deadlock is checked except where a system really ends: a request of `KeyedRequest`
and a call of `Chunker`, the bounded time and starts of `AuthServer`, and `scheduler`,
where the deadlock of a task with Stop is part of the model.

What the violated runs show:

* `multi_oversize`: BigCache skips an entry over `maxEntrySize` and keeps the old
  one, which hides the new value in KeyDB from its own writer.
* `multi_stale_twice`: `RemainingTTL` gives back the whole stale window, so a
  promotion extends it. `LifetimeBound`, proved, says how far this can go: one
  stale window per level.
* `multi_delete_race`: a propagation in flight restores a deleted value in L1.
  The same happens with a Set in place of the Delete.
* `httpclient_unread`: a connection that fails while a 200 is read ends the call with
  attempts left, though "Also retries on network errors" (`httpclient/README.md`).

Worth knowing, without a run of its own: a task must not call its scheduler, as Stop
may be waiting for it with the mutex held, and then both wait for ever; the comment on
`SetConfig` says that it rebuilds limiters "for types with changed settings", while it
empties the whole map, so that keys of the other types begin with full buckets too; a
server made with WithCustomMetrics
before WithConfig, or with WithCustomMetrics and the file's configuration, passes
validation, and then every request panics on the nil configuration of its handlers
(`ServesItsConfig` says which orders are safe); a cancelled request puts every key
that was left in backoff (`MarkedInTurn`), and without a limiter goes through all
their waits (`CancelledSoon`); the body of a request is not restored for a retry;
the gauge of cached keys that BigCache reports is the sum of hits and misses; a
second `Close` of a BigCache closes a closed channel; a stale entry that is promoted gets
`staleAt = now` and is fresh again for the rest of that second; the README of
`apikeys` says that a failed key "will be unavailable until backoff expires",
while the only key of a type is always available, as the code says it should be;
tokens with one ID share one count, so a second token answers with
`request_limit` and may be refused at its first use.

## Fairness

* `MultiCache`: weak fairness of a client's step. Goroutines are scheduled,
  levels take no lock of ours, KeyDB commands have timeouts.
* `Scheduler`: strong fairness of `Lock` for each thread (Go's mutex hands itself to a
  waiter that has starved for a millisecond), weak fairness of whoever holds the mutex,
  strong fairness of `Quit` and `RunTask` (select picks among ready cases at random)
  and of `TaskReturns` (a task ends after some calls). Callers need not call, nor
  tickers fire.
* `Chunker`: weak fairness of the call's steps; the user's function is assumed to
  answer.

## Proofs

Each module of proofs has an inductive invariant for its specification, checked by
TLC on the instance of the run before it was proved, and derives its theorems from
it.

`MultiCacheProofs` proves `TypeCorrect`, `LifetimeBounded` and
`WindowsArePreserved` for every set of clients, levels, keys, TTLs, every chain
and every bound. Neither property is inductive: a copy is made from what a call
carries, so the strengthening `IInv` says of everything in flight what the
properties say of what is stored. `HistoryInv` relates each Set to the clock,
`LevelsInv` bounds every stored and late entry by the last second of its level,
`CallsInv` bounds the entry a Get has found by the level it was found at, and the
remaining TTL of a propagation by the clock reading it was computed from
(`since`). The steps that matter are `Promote` (remaining TTL plus now is the
entry's expiry, or now plus a stale window) and `Fill` (its level is one rank
higher, which pays for the window added). The assumptions are those of the
modules: positive `SubSec`, disjoint kinds of level, `RankAssumption`, types of
TTLs and bounds.

Four more theorems are about a client that is alone, for any chain of levels:

* `RegularWhenAlone` and `DropsOnlyUselessWhenAlone` assume `Alone`: one client, no
  failing KeyDB, no value over the size limit. Without the first and the last they
  are false (`multi_delete_race`, `multi_oversize`), and with late commands a Set
  may come after its successor. `AloneInv` adds what holds in the middle of a
  call: during a Set or a Delete the levels already passed hold nothing older
  (`Replacing`), and during a Get those already asked hold nothing (`Missed`), so
  that a promotion overwrites no newer value.
* `LevelsAgreeWhenAlone` also assumes `OneSurvives`: when a process ends, at most
  one of the levels of a chain keeps its data, as with one BigCache and one KeyDB.
  With two KeyDBs, a Set that is cut short after the first leaves two values, and a
  client that starts again has two levels that disagree, although `Regular` still
  holds. `AgreeInv` excepts only the key a Set is replacing, and says that a
  propagation is of the value the levels agree on.
* `CacheIsRegister` also assumes `OneKey`, since a register keeps one key. Each
  action of `MultiCache` is a step of `Register` or a stutter, one lemma for each
  kind of step (`RegisterGet`, `RegisterPromote`, `RegisterFill`, `RegisterLoss`...);
  `RegInv` says that during a Set the levels it has not reached agree on one older
  value (`OldAgree`), which is why `Answerable` never has two.

`SchedulerProofs` proves `SchedulerTypes`, `StopIsQuiet`, `RunningTrue` and
`TaskAlone` and the refinement `SchedulerIsSwitch` for any callers, any number of
runs and any calls made by the task, and that the deadlock of a task with Stop never
ends (`DeadlockStays`).
The invariant they need says where the mutex is (`mu = t` exactly while `t` is in
a body or waits), that only the last run can be live, and that Stop waits only
after cancelling it. For the refinement it adds that only a Stop waits
(`WaitsInStop`); then each action is an action of the switch or a stutter, one lemma
each.

`RateLimiterProofs` proves `LimiterTypes`, `OneBucketPerKey`, `KeysApart`,
`LimitersAreCurrent` and the refinement `GetLimiterAtomic`. What callers hold says nothing of the map by itself, so the
invariant adds `Returned` (what was returned in this epoch is still in the map,
hence `OneBucket` when a limiter is made because the map has none) and `Owned` (no
limiter in the map has a second name, nor another than it was returned under, hence
`BucketsApart`). The assumption is `KeyTypesAssumption`: no two key types in use
turn into the same rune; `MapKeyInjective` needs it, and so does the
refinement: a limiter made is one new entry of the table and not two.

`AuthProofs` proves the four invariants of the service for every start and
configuration, valid or not, then that the server implements the service
(`ServerIsService`), which carries them over to `ServerSpec`, and `ServesItsConfig`.
`QuotaPerTokenID` is not inductive, as a token used in one life of the service leaves
no trace in the next: `WithinQuota` says that what has passed with an ID, plus the
quota of the present configuration, is at most what all starts allowed plus what
the present one has counted. For `TokensEnd` and `SolvedOnTheseTerms` the client's
fields are worth nothing by themselves; what counts is the signature. A puzzle has
that of its own fields (`Made`), an accepted request agrees with the configuration it
was accepted under (`Accepted`), and so the puzzle its signature comes from has the
expiry, the secret and, by `OneDigitAssumption`, the difficulty of the request
(`SignedPuzzle`). `ServerInv`
relates the server's handlers and configuration to the service's. The
other assumptions are `AuthAssumption` and `ServerAssumption`: types of configurations
and bounds.

`KeyedProofs` proves the five invariants of a call and the two of a request for
every list of keys, every `MaxRetries` and every base. `KInv` says of each place in
the loop of `ExecuteRequest` how many requests, reports, retries and tokens there
have been (`Progress`), which attempts failed and why, and how much has been
waited; of the loop of `TryWithKeys`, which keys have had their turn and what the
request had done when it was cancelled. The proof showed the bound of
`CancelledSoon` to be negative for `MaxRetries = 0`, where a turn ends without an
attempt or a wait; the bound is now 0 there. That the waits double is an
induction over attempts.

`APIKeysProofs` proves the types and three properties of `APIKeys` for any number of
requests, keys, key types and lists, however the lists change. `AInv` says of a
request only what outlasts every later failure: its decisions were right for
failures it knew (`failedThen`), and failures are never forgotten or dated back
(`Later`). `APIKeysAssumption` asks of the lists
that they have an entry for every key type asked for, and that the key types are a
sequence.

`ChunkerProofs` proves the types, `ChunksFill` and `AllOrNothing` for all lists and
limits. `CInv` says where the chunks lie: each begins behind the one before it and
is filled (`Chunked`), the one being built has the sum of its items in
`currentLength` (`Building`), and what has been merged is the items up to the last
chunk merged (`Merging`).

`NaturalsLemmas` has what these need of induction. An induction theorem that
takes a predicate cannot be used here, so induction is stated for sets
(`SetInduction`) and recursion for functions (`Recursion`), and the recursive
functions `Shifted` and `TotalLength` are reasoned about through them.

Only model-checked: everything under fairness (`CallsReturn`, `TickServed`,
`CallReturns`), which the prover does not do. What runs show to be false (`Regular`
with two clients or large values, `StaleAsAsked`, `NetworkErrorsRetried`) has no
theorem, or one with the assumption that excludes it.

## Not modelled

Metrics and logging; generated mocks; the two command-line tools and the script;
encoding of entries, requests and tokens (undecodable data is `Garbage`, a refused
request changes nothing); connecting to KeyDB; `Close`; routing; the Argon2
parameters; the strength of hashes and signatures; what x/time/rate, net/http,
bigcache and go-redis do inside.

`BigCache.Close` stops the metrics scheduler and bigcache's clean-up, and the store
goes on answering: no step of `MultiCache` changes by it, as evictions are free
there. That the metrics task does not run after it is `QuietWhenStopped`. A KeyDB
client that is closed fails every command, which `Fail` covers.
