# FCAM gateway: TLA+ models, checks and proofs

FCAM is a gateway in front of the Firecrawl and Exa APIs. It hands a pool of
upstream API keys to many clients: it authenticates and limits clients, selects
a key for each request, forwards the request, switches keys on failures, tracks
each key's credits and state in a database, and makes task-creating requests
idempotent. This directory models its core: the idempotency protocol, the
forwarding of requests over the shared key pool, the governance of a client's
requests in one process and over Redis, the asynchronous tasks and the keys they
are bound to, the life of the keys under the administrator and the credit loop,
and the settings that are changed while the gateway runs.

## 1. Inventory

| Component | State | Operations | Interacts with |
|---|---|---|---|
| Idempotency (`core/idempotency.py`) | table `idempotency_records` | `start_or_replay`, `complete`, expiry cleanup | data-plane endpoints, retention cleanup, client purge |
| Forwarder (`core/forwarder.py`) | locals of each call, `_failures` windows | `forward` (pinned and pool loops), `test_key`, `_mark_cooling`, `_disable_key`, `_record_failure` | key pool, leases, limiter, credit fetcher, table `api_keys` |
| Key pool (`core/key_pool.py`) | table `api_keys`, 4xx weights, round-robin cursor | `select`, `record_failure` | cooldown store, limiter |
| Concurrency (`core/concurrency.py`) | counters in memory, or sorted sets in Redis | `try_acquire`, `release` | forwarder (keys), governance (clients) |
| Rate limiter (`core/rate_limit.py`) | token buckets in memory or Redis | `allow`, `peek` | key pool, forwarder, governance |
| Cooldown store (`core/cooldown.py`) | expiring Redis entries | `set_cooldown`, `remaining_seconds` | forwarder writes, key pool reads |
| Credit fetcher and refresh loop (`core/credit_fetcher.py`, `core/credit_refresh.py`) | credit columns of `api_keys`, snapshots, debounce table | probe, apply, 4xx refresh, next refresh time | writes the rows the forwarder holds |
| Governance (`api/deps.py`) | client leases, buckets, `daily_usage` | `require_client`, `enforce_client_governance` | wraps every data-plane request |
| Resource bindings (`core/resource_binding.py`) | table `upstream_resource_bindings` | bind, look up | pins later requests to a key |
| Control plane (`api/control_plane.py`) | all tables, audit log | create, update, disable, revive, purge, batch, rotate, runtime settings | races with everything above |
| Endpoints (`api/firecrawl_v2_compat.py`, `firecrawl_compat.py`, `data_plane.py`, `exa_compat.py`) | none of their own | one handler per route | idempotency, forwarder, bindings |
| Runtime settings (`core/runtime_settings.py`) | overrides in memory, `runtime_settings.json` | patch, save, load, effective values | control plane writes, refresh loop, pool and selection read |
| HTTP pool (`core/http_pool.py`) | a shared client per base_url, a switch | `acquire`, `set_enabled`, `close` | forwarder uses, control plane switches |
| Middleware (`middleware.py`) | table `request_logs` | log row, answer to an error | every request |
| Web UI, tools, security, observability | see `PROJECT.json` | | |

Hard behaviour is concentrated in six places.

* **Check, then act, over a slow call.** A request loads a row, calls the
  upstream for up to 30 s, and writes through the object it loaded. Sessions
  are created with `expire_on_commit=False` and `autoflush=False`
  (`db/session.py:70`): the object stays as it was loaded, and a commit
  updates only the columns that differ from the loaded values.
* **Records found by id.** `complete()` and the deletes of `start_or_replay`
  name a primary key that another transaction may have deleted, or that the
  database may have handed out again.
* **Two loops with several budgets.** `forward` has upstream attempts,
  selection tries and an exclusion set; six ways to give up a key; and a lease
  that every exit must return.
* **Several writers of one row.** Requests, the 4xx credit refresh, the
  periodic probe and the administrator all write status and credits of a key.
* **State shared by processes.** Leases and buckets in Redis are changed by
  scripts or WATCH transactions from processes with clocks of their own; calls
  fail before or after the server has executed them, and a lease may end while
  its request is at work.
* **Several commits in one handler.** Accounting, binding, completion of the
  idempotency record and the request log are transactions of their own, after
  the upstream has done the work; each may fail, and the process may die
  between any two.

What makes each part correct: a response is replayed only to an equal request,
an idempotency key is executed again only after a grace period, stored
responses stay, every request is answered; leases balance, no key is asked
twice, the reported retry count and key are the true ones, a disabled key stays
disabled until an administrator revives it, a cooling key rests, a probed
balance is not overwritten by an older one; a client's leases come back, its
limit holds, and its usage never exceeds its answers; an id that was told can be
polled under the key of its task, one idempotency record creates one task; a
key is called invalid only when the upstream refuses it, and every key is probed
again and again, at a distance; no HTTP client leaks or is handed out closed,
and settings survive a restart. The hazards, line by line, are in
`PROJECT.json`.

## 2. Modules

| Module | Models |
|---|---|
| `Idempotency` | `start_or_replay`, `complete`, `_cleanup_expired`, `cleanup_retention`, `purge_client`, crashes; one action per database transaction |
| `IdempotencyProofs` | the inductive invariant and the theorems about `Idempotency` |
| `KeyRows` | what each writer does to one row of `api_keys`, and what a commit writes (pure operators) |
| `Forwarder` | `Forwarder.forward` with `KeyPool.select`, key leases, failure windows, the cooldown store, credit probes and the administrator |
| `ForwarderProofs` | the inductive invariants and the theorems about `Forwarder` |
| `Governance` | `require_client`, `enforce_client_governance`, the client lease, the daily quota and `_consume_quota_on_success`, for one client |
| `GovernanceProofs` | the inductive invariants and the theorems about `Governance` |
| `Leases` | what a concurrency manager promises, as an abstract specification of the set of holders |
| `RedisLimits` | the Redis leases and token bucket of one client as `enforce_client_governance` calls them; implements `Leases` |
| `RedisLimitsProofs` | the refinement, and the theorems about `RedisLimits` |
| `RuntimePool` | `RuntimeSettings` with its file, `UpstreamHttpPool`, and the PUT that connects them |
| `RuntimePoolProofs` | the inductive invariants and the theorems about `RuntimePool` |
| `Resources` | composition: the endpoints with idempotency, forward, accounting, bindings, request log, purges and cleanup |
| `ResourcesProofs` | the inductive invariants and the theorems about `Resources` |
| `KeyStore` | the table of keys under the control plane, the refresh loop, and probes and tests on demand; uses `KeyRows` |
| `KeyStoreProofs` | the inductive invariant and the theorems about `KeyStore` |
| `MC...` | symmetry sets, payloads and outcome sets for the runs |

### Idempotency

`recs` is the table (id to row), `seq` the id sequence, `clients` the ids in
table `clients`. Each request has a program counter `pc` and the locals of the
code: `now`, `rid` (`ctx.record_id`) and `victim` (the id of `existing` it is
about to delete). `since` is auxiliary: when a request inserted its record.

| Action | Code |
|---|---|
| `Begin` | `require_client`, the early returns, and reading `now` (lines 86-100) |
| `Cleanup` | `_cleanup_expired`, whose failure is swallowed |
| `Insert` | `db.add`, `db.commit`; unique or foreign-key violation leads to `Lookup` |
| `Refresh` | `db.refresh`: the committed row is read back and may be gone |
| `Lookup` | the `except IntegrityError` branch up to its decision |
| `Delete` | `db.delete`, `db.commit` by primary key, and the recursive call |
| `Forward` | the upstream call: a response, or an exception that leaves the record |
| `Complete` | `complete()`: by id; a missing row, an oversized body or a failing commit change nothing |
| `Crash` | the process dies between two transactions |
| `CleanupRetention`, `PurgeClient` | the two other deleters of records |

The response is represented by the request that produced it, so "whose
response is this" can be asked of every answer. Each database call may fail
when its name is in `Faults`. `ReuseIds` chooses between a PostgreSQL sequence
and SQLite rowids (largest + 1, reused after a delete).

### Forwarder and KeyRows

A row has the columns selection reads: `is_active`, `status`,
`cooldown_until`, `cached_remaining_credits`. `loc[r]` holds the locals of one
`forward` call, among them `obj`, the copy of the row its session holds.
`KeyRows!Flush(row, old, new)` is the commit of an object loaded as `old` and
changed to `new` when the table holds `row` now. A rollback expires the object
(`obj = NULL`), and the next access loads it again.

| Action | Code |
|---|---|
| `Start` | lookup of the pinned key and the fall back to the pool (444-476) |
| `Select`, `SelectCommit` | `KeyPool.select`: read and filter, then commit the reactivations; any eligible key may be chosen, because the exploring branch and the weighted draw reach all of them |
| `Close`, `LoopExit` | the ways out when no key is left |
| `Gate` | token bucket and concurrency lease |
| `DecryptFailed` | the key is disabled, its lease returned |
| `Upstream` | the call: a classified response, a timeout or a transport error |
| `Refresh4xx` | `refresh_credits_after_4xx` on the held object |
| `Punish` | `_mark_cooling`, zero credits or `_disable_key`, then retry, switch or return |
| `RecordFailure` | `_record_failure` with its window and threshold |
| `Succeed` | estimation of the cost and the commit of the counters |
| `ProbeStart`, `ProbeApply` | the refresh loop: HTTP probe, then `_apply_results_serial` |
| `Admin...` | disable, enable, revive and reset of the control plane |

The query and
commit of one probe result, and of one administrator's request, are one step:
nothing slow happens between them.

### Governance

`row` is the client's row (`NULL` once purged), `current` the counter of the
in-memory `ConcurrencyManager`, `day` the calendar day of `quota.timezone`.
`loc[r]` holds the request's program counter, `obj` (the `Client` object its
session loaded), `reset` (the object after the lazy reset, while it is being
committed) and `lease`: `"counted"`, or `"free"` for a lease without a limit.
`total` is auxiliary: the 2xx answers of the upstream so far.

| Action | Code |
|---|---|
| `RequireClient` | the row is loaded, before the lease is taken; 401, 403, 503 |
| `TryAcquire` | `try_acquire` with the limit of the loaded object |
| `Allow` | the token bucket; a denial releases the lease |
| `CheckQuota` | lazy reset in memory, comparison, refusal |
| `CommitReset` | the commit of the reset, and both ways it can fail |
| `Serve` | the endpoint: a 2xx or another answer; a rollback on the way expires the object |
| `Reload`, `Consume` | `_consume_quota_on_success` |
| `Leave` | the `finally` clause |
| `UpdateClient`, `SetActive`, `PurgeClient` | the control plane |
| `Midnight` | the day changes |

A failed commit has two outcomes because SQLAlchemy has two: when the COMMIT
itself fails the object stays loaded; when the flush (the UPDATE) fails, the
session rolls back, expires every object and refuses to load any of them until
`rollback()` is called. `deps.py:182` reads `client.id` in that state, raises,
and never reaches the release: the request ends with the answer
`"session_error"` and its lease. `Leaked` is the set of these requests.

### RedisLimits and Leases

`zset` is the sorted set: the score (end of the lease) of each request's token.
`bucket` is the hash of tokens and `last`; `watched[r]` is the WATCH of the
request's connection, which a write to the key turns into `"dirty"`. `clock` is
real time; a request reads it with the skew of its process *before* it talks to
Redis, so requests reach the server out of order. Tokens are counted in units of
1/`Minute`, which makes the refill an integer.

| Action | Code |
|---|---|
| `Arrive` | `try_acquire` up to the call; a limit of 0 needs no lease |
| `AcquireLua` | `_ACQUIRE_LUA`, one atomic step of the server |
| `WatchLeases`, `Trim`, `Count`, `ExecLeases` | `_acquire_fallback`: WATCH; removal of old tokens; ZCARD and the denial; MULTI/EXEC, tried `Tries` times |
| `AcquireFails`, `AllowFails` | the call fails, before or after the server executed it: 503; nobody owns the token |
| `AskRate`, `AllowLua`, `WatchBucket`, `ExecBucket` | `allow`, by script and by transaction |
| `Finish`, `ReleaseLease` | the `finally` clause and `_release`, whose failure is only logged |
| `Crash`, `Tick` | a process dies; time passes, but no longer than forward may take |

`lease` is `"lost"` when nobody will release a token: after a failed call, an
exception of the limiter (`deps.py:126`), a failed release or a crash. `drift`
(by how much `last` was moved back), `admitted` and `rivals` (writes of others
while a transaction is tried) are auxiliary.

`Leases` has one variable, the set of those who hold a lease, and two actions:
`Grant`, only while fewer than the limit are kept in the same step, and
`Vanish`. `ImplementsLeases` maps `held` to the requests whose token is in the
sorted set.

### RuntimePool

`mem` and `disk` are the overrides in memory and in the file, `file` the
configuration file of the process. Three of nine fields stand for the three
kinds: mirrored and never cleared, mirrored and clearable, unset by default.
The file's numbers are any integers, because `config.py` puts no bounds on them;
`Mirror` is what `__init__` makes of them, `Effective` what the readers do.
`enabled` and `slot` are the switch and the pooled client; `client` is the life
of each `httpx.Client`.

| Action | Code |
|---|---|
| `Patch` | `patch_scheduling` with `_save_to_disk_unlocked`, under one lock |
| `ReadWant`, `SetEnabled`, `CloseClient` | the rest of `put_runtime_scheduling`: effective value, `set_enabled` under the pool's lock, `close()` after it |
| `Acquire`, `GetPooled` | the switch is read without the lock, then `_get_pooled` under it |
| `Send`, `Leave` | use of a closed client; end of the `with` block |
| `Restart` | shutdown or crash, `create_app` with the same or another file |

### Resources

Every handler of the four routers is an element of `Endpoints`: the type it binds
or looks up, the name under which it calls `start_or_replay`, and whether it
tries a second path. The Exa handlers only forward and are plain calls. A handler's transactions are actions: `Begin`
(`start_or_replay`), `Lookup`, `Send` (`_forward_with_fallback`; `forward` is one
step), `Account`, `Bind`, `Complete`, `Log`. `Crash` may come between any two.
`SetKey`, `PurgeKey`, `PurgeClient` and `CleanupRetention` interfere. `task` is
the upstream: which key created each task. `told`, `unbound` and `removed` are
auxiliary: ids the client has seen, bindings that failed, deleted records.

### KeyStore

A row adds `secret` and `next` (`next_refresh_at`: absent, due or later) to the
columns of `KeyRows`. `loop` is the refresh loop: the keys still to do, with the
secrets read at the beginning of the round, the batch being probed, and whether
the round has by now taken longer than the retry delay (`old`). `Sealed` are
ciphertexts the master key does not open. `manual` is a request of the administrator that waits for the upstream with rows loaded
before. `good` is the set of secrets the upstream accepts; a probe of any secret
may also end in an error or a 429.

| Action | Code |
|---|---|
| `CreateKey`, `ImportKeysText`, `UpdateKey`, `PurgeKey`, `BatchItem`, `ReviveKey` | the control plane |
| `StartRound`, `NextBatch`, `ProbeOneKey`, `ApplyResult`, `EndRound` | `_refresh_once`; the row is read again before a result is applied |
| `Overrun` | the retry delay passes while batches are probed and the loop pauses between them |
| `StartManual`, `FinishManual` | refresh of one or all keys, `test_key` |
| `Restart`, `Revoke`, `Tick` | the loop is cancelled and started again; the upstream; time |

## 3. Runs

| Run | Instance | Shows |
|---|---|---|
| `idempotency` | 3 requests, 1 client, 1 key, 2 hashes, all faults, clock to 3 | `TypeOK`, `ReplayMatches`, `TakeoverAfterGrace`, `ResponseStable` hold |
| `idempotency_live` | 3 requests, 1 hash, TTL 1, grace 0, clock to 2 | `EveryRequestAnswered` holds under fairness |
| `idempotency_rowid` | 2 keys, reused ids | violated: a late `complete()` answers for another key |
| `forwarder` | 2 requests, 2 keys, 429 / 401 / timeout, probes, disable and enable | `LeasesBalanced`, `AttemptsDistinct`, `DisabledStays` hold |
| `forwarder_pool` | 1 request, pinned or not, 3 keys, all outcomes, failing commits, probes, store, revive and reset | `TypeOK`, `RetryCountIsSwitches`, `LastErrorSurfaces` hold, `EveryForwardEnds` holds under fairness |
| `governance` | 2 requests, quota none / 0 / 1, limit 0 / 1, failing lookups, updates and commits, all administrator's operations, 3 days | `TypeOK`, `UsageBacked`, `LeasesReturned`, `GrantsBounded` hold, `LeasesDrain` holds under fairness |
| `governance_flush` | the same with a failing UPDATE of the reset | `CounterIsInFlight` is violated: a slot is lost |
| `redis_limits` | 3 requests, one on a fast clock, limits 0 and 2, script and transaction, 1 fault, clock to 2 | `TypeOK`, `LimitHolds`, `BucketAccounted`, `DenialJustified`, `GiveUpMeansContention`, `RetryAfterExact` hold; `Leases` is implemented |
| `runtime_pool` | 2 PUTs in progress, 2 requests, 4 clients, failing writes, restarts, two files with zero and out-of-range numbers | `TypeOK`, `NoLostClient`, `BrokenOnlyByDisable`, `PoolFollowsSettings`, `SettingsSurviveRestart` hold |
| `resources` | 3 requests, 2 keys, 2 tasks, bound and unbound creation, polls, 1 fault, 1 administrative action | `TypeOK`, `ToldIsBound`, `OneTaskPerRecord`, `StatusReachesOwner` hold |
| `refresh` | 2 ids, 2 secrets and one that cannot be decrypted, batches of 1, 1 administrative request, 2 faults | `TypeOK`, `VerdictJustified`, `BackoffRespected` hold, `KeysStayMonitored` holds under fairness |
| `refresh_exa` | one Firecrawl and one Exa key | violated: the loop disables a working Exa key |

The three violations are disagreements between what documentation or comments say
and what the code does, described with their lines under `findings` in
`PROJECT.json`.

**Observed while modelling.** The models contain these behaviours of the code as
well; no run checks a property that forbids them.

* Idempotency. A takeover decided on an in_progress row deletes it by id after
  its owner may have completed it, and the response is lost
  (`idempotency.py:177`). A slow owner and its successor execute the key at the
  same time once the grace period is over (`idempotency.py:175`).
* Forwarder. The commit that reactivates a rested key can clear a cooldown that
  a 429 of another request has just set (`key_pool.py:470`). The local estimate
  is computed from a row loaded before the call and can raise a balance that a
  probe stored meanwhile (`forwarder.py:932`). A probe that is itself answered
  429 replaces a running cooldown by one already past (`credit_fetcher.py:429`).
  A response is reported under the id of a key that was only found busy
  (`forwarder.py:746`).
* Governance. The quota is compared on a row loaded before the lease, so even
  serialized requests exceed it (`deps.py:149`); `docs/agent.md:406` recommends a
  conditional update, "to avoid handing out too much under concurrency". A
  request that began before midnight writes yesterday's count over today's reset
  (`forwarder.py:1291`). With `quota.count_mode = attempt` nothing is counted
  (`forwarder.py:947`).
* Redis. A lease can end while its request is at work, because its TTL counts
  the provider's retries and forward the client's (`main.py:83`); `LimitHolds`
  therefore speaks of leases that have not ended. A clock behind `last` refills
  nothing but sets `last` back, so that the time in between is refilled twice
  (`rate_limit.py:86`); `BucketAccounted` counts it. Without EVAL a token that is
  old for a fast clock can be written between the removal of old tokens and the
  count, and denies a request for which there was room (`concurrency.py:186`);
  `DenialJustified` counts one such token for each write of a rival.
* Runtime settings. Of two overlapping PUTs the older value may reach the pool
  last (`control_plane.py:2192`). An exploration rate of 0 in the configuration
  file is taken as absent (`epsilon_greedy or 0.1`, `runtime_settings.py:96`),
  while a cleared override falls back to the file's 0 (`key_pool.py:316`):
  clearing it makes the rate 0, and the next restart makes it 0.1, although the
  class says "None = follow file default" (`runtime_settings.py:47`). A
  half-life below 1 is used as it is until a PUT of any setting writes it to
  `runtime_settings.json`, from which the next process reads it clamped to 1.
  These are the two cases of `Drifts`, and `SettingsSurviveRestart` says that
  there is no third.
* Tasks. A purge of a key or a client with bindings always fails with 503: the
  bindings are not deleted first (`control_plane.py:722`, `1375`). The crawls and
  agents of `/v1` and `/api` are not bound, and their status is asked with any
  key; a crawl created there and replayed at `/v2` is not bound either.
* Keys. Rotating an invalid key with `is_active = true` leaves its status
  `invalid`. A probe in flight while a key is rotated, or purged and its rowid
  reused, judges the new secret by the answer about the old one
  (`credit_refresh.py:196`); `VerdictJustified` excludes just that. So does a
  manual refresh or test of a row loaded before (`credit_fetcher.py:511`). The
  retry delay of a failed probe is counted from the start of the round
  (`credit_refresh.py:223`, `245`): after a round longer than it, the key is due
  again as soon as the result is written, and the next round probes it, where
  `docs/handbook.md:181` says "retry 5 minutes after a failed refresh".
  `BackoffRespected` counts the delay as the code does.

**Bounds.** Three requests are the least that show a chain of two takeovers, or
a late owner, a successor and a reader. The clock passes the TTL (2) and the
grace period (1) within its bound 3; only differences of times matter. `seq`
grows with every insert and each request inserts at most once, so the table
needs no bound. Two requests and two keys show every race on one row together
with a switch to another; three keys in `forwarder_pool` give each way of
leaving a key (busy, undecryptable, answered) a key of its own; other requests
appear there as what they do to one that selects, denials and rows that change.
`MinTries = 2` there makes the limit of selection tries reachable. Elsewhere
the code's 20 and 50 are used. The failure counter saturates at its threshold,
beyond which the code does not distinguish values. Two
requests and limits of none and one let a lease be refused, granted and
returned around a change of the limit, and two midnights let a copy of the row
be two resets old; more requests and larger limits are covered by the theorems
of section 4.
In `redis_limits` a lease lives two ticks, a request may be served for two, and
the clock passes both; three requests and a limit of two let a third be denied,
granted after a leak, or meet two rivals; three attempts of a transaction
(`Tries`) instead of five let it be given up. In `resources` two tasks suffice
to break "one task per record", three requests for a creator, a replay or
takeover, and a poll; `Offered` has one endpoint of each shape that differs
(bound with fallback, its status, unbound under the same idempotency name,
plain); the others differ in the type only. In `refresh` two ids and two secrets
let a rotated secret meet a probe in flight, and a batch of one
puts the end of a batch inside a round; that a round outlasts the retry delay is
a flag, since only the order of the two times matters. One administrative request is enough for each
of them to meet a probe in flight; any number, also a purge followed by the reuse
of the id, is covered by the theorems. `KeysStayMonitored` therefore does not
speak of manual refreshes that postpone a key forever. In `runtime_pool` four clients let one
be closing, one pooled and each request own one.
Requests are interchangeable, and so are keys where no constant names one,
which justifies the symmetry sets; runs that check liveness use none.

**Fairness.** Weak fairness of the steps of each started request: handlers run
on threads that are scheduled until they return, every transaction ends, and
the upstream call has a timeout. The refresh loop is a task of the event loop
that catches every exception of a round (`credit_refresh.py:104`) and is started
again with the process, so its steps are weakly fair in `refresh`, and so is the
passing of time until `next_refresh_at`. No fairness is assumed of arrivals,
crashes, cleanups, the administrator, or, elsewhere, of probes and the clock.

## 4. Proofs

`IdempotencyProofs` proves, for every set of requests, clients, keys and
hashes, every configuration and every set of faults:

* `TypeCorrect`: `Spec => []TypeOK`
* `ReplaySound`: `Spec => []ReplayMatches`
* `TakeoverSound`: `Spec => []TakeoverAfterGrace`
* `StableSound`: `Spec => ResponseStable`

all under `~ReuseIds`, the assumption the run `idempotency_rowid` shows to be
necessary, and the constants' assumptions in `Idempotency`.

The invariant `IInv` is the conjunction of the three invariants and four facts
that make them inductive:

* `Progress`: `now` was read from the clock, a request that seeks a record has
  none, and a request that inserted one never seeks again;
* `IdsFresh`: every id in the table or in a local variable is below the
  sequence, and no two requests own one record. Without it a late `complete()`
  could reach somebody else's row;
* `RecordsFaithful`: a record found by its owner's id is the one the owner
  inserted, still in progress while the owner runs, and a stored response
  answers the request the record describes. This gives `ReplayMatches` at the
  replay, and `ResponseStable` at `complete()`;
* `SlotsGuarded`: a row that some request has decided to delete is overdue
  *now*, however long ago the decision was made, and for every request that
  inserted a record either the record is still there, or the grace period is
  over, or the client is gone. This gives `TakeoverAfterGrace` at the next
  insert.

Each conjunct has a lemma with one step per action. `WithRowFacts` and
`WithoutFacts` say what inserting into and deleting from the table does,
`RemovalGuarded` covers the four deleters at once.

`GovernanceProofs` proves, for every finite set of requests, all limits, quotas
and modes, and every set of faults and administrator's operations:

* `TypeCorrect`: `Spec => []TypeOK`
* `UsageSound`: `Spec => []UsageBacked`
* `GrantsSound`: `Spec => GrantsBounded`
* `LeasesSound`: `Spec => []LeasesReturned`, whatever fails: the slots that do
  not come back are those of `Leaked`

`UsageBacked` is stated so that it is almost inductive: the answers that are
settled (`total` minus those pending) never decrease, and bound the row and
every copy of it; a request that settles its own answer may add one to a copy
of any age. It needs `ResetsToZero` (what a lazy reset commits is a zero). The
leases need `LeasesCounted`, the counter is the number of leases not released,
which every step preserves even when leases leak, and `LeakKnown`, a request that
ended with a counted lease ended with `"session_error"`. The first alone gives
`GrantsBounded`: leaked leases make the gateway stricter, never laxer. Both rest
on `PendingCount` and `HoldingCount`, which say how one request's step changes
the cardinalities.

`RedisLimitsProofs` proves, for every finite set of requests, all skews, limits,
rates, timeouts and faults, script or transaction:

* `TypeCorrect`: `Spec => []TypeOK`, the bucket stays between empty and full
* `Refinement`: `Spec => ImplementsLeases`
* `LimitSound`: `Spec => []LimitHolds`
* `DenialSound`: `Spec => DenialJustified`
* `BucketAccount`: `Spec => []BucketAccounted`
* `GiveUpSound`: `Spec => GiveUpMeansContention`
* `RetryAfterSound`: `Spec => RetryAfterExact`

The invariant `IInv` has, beside the types: `AllSound`, which relates each token
to the locals of its request (a token in the set has the score its owner
remembers, a request with a lease that has not ended on any clock has its token
in the set, a request that is asking has none); `Room`, a request about to
execute its transaction whose WATCH is clean still counts fewer tokens than its
limit, which is what WATCH is for and what makes the transaction a `Grant`; the
abstract `WithinLimit`; and `Paid`, the account of the bucket. `Refinement`
shows for each action that it adds a token only in the way `Grant` does and
otherwise is a `Vanish`. For `DenialJustified` the invariant counts what the
removal of old tokens has left behind for the reader's clock (`Late`): at most
one token for each write of a rival since, so that the tokens the reader counts
are leases at work, recent leaks, or late writes of rivals.

`GiveUpSound` needs a second invariant, `Counting`: for a request that tries its
transaction, the aborts so far, plus one if its WATCH is already dirty, plus one
if the set holds a token that is old for its clock, are at most two for each
write of a rival and one. A rival may pay for two of them at once (it dirties
the WATCH and adds a token that is old for a faster clock); the removal of old
tokens only turns the third term into the second. `RetryAfterSound` rests on the
arithmetic of rounding up (`RoundedUp`, `WaitExact`).

`RuntimePoolProofs` proves, for every number of administrators, requests and
clients, all payloads and files:

* `TypeCorrect`: `Spec => []TypeOK`
* `NothingLost`: `Spec => []NoLostClient`
* `ClosedOnlyByDisable`: `Spec => []BrokenOnlyByDisable`
* `PoolFollows`: `Spec => []PoolFollowsSettings`
* `SettingsSurvive`: `Spec => SettingsSurviveRestart`, for files with any numbers

`PoolInv` says that every client has exactly one keeper: the pooled client is
open and nobody closes or owns it (`SlotKeeps`), a request's own client is open
and nobody else refers to it (`OwnKeeps`), and who shares a client shares the
pooled one or has been hit by a switch-off since (`SharedKeeps`). `Alone` is the
strengthening of `PoolFollowsSettings`: without overlap one PUT at most is in
progress and what it read is still wanted. `Recoverable` says that the process
which would start now has the effective settings of this one, but for `Drifts`.

`ForwarderProofs` proves, for every set of requests and keys, all budgets,
limits, windows and cooldowns, and every behaviour of the upstream, the probe and
the administrator:

* `TypeCorrect`: `Spec => []TypeOK`
* `LeasesBalancedHolds`: `Spec => []LeasesBalanced`
* `AttemptsDistinctHolds`: `Spec => []AttemptsDistinct`
* `RetryCountIsSwitchesHolds`: `Spec => []RetryCountIsSwitches`
* `LastErrorSurfacesHolds`: `Spec => []LastErrorSurfaces`
* `DisabledStaysHolds`: `Spec => DisabledStays`

`TypeInv` adds to the types which outcomes a call can have where it is, and that
it has a key where one is used. `LeaseInv` says that the counter of a key is the
number of calls between the grant and the `finally` clause, and that there are
finitely many of them: the set of requests need not be finite. `CountInv`
follows a call through its two loops: `Core` bounds the
attempts and the keys asked; `Placed` says, place by place, how the current key,
the keys given up, the keys asked, `attempts` and `retry_count` relate (the key
in hand is never one given up, and every other key asked has been given up);
`Final` is what the answer says. `DisabledStays` needs no invariant beside the
types, but a lemma for every writer: none but the administrator's sets
`is_active`, and a `Flush` of a stale copy writes the columns its writer changed.

`ResourcesProofs` proves, for every number of requests, clients, keys and tasks,
any set of the endpoints, and every set of faults:

* `TypeCorrect`: `Spec => []TypeOK`, which includes the foreign keys
* `ToldIsBoundHolds`: `Spec => []ToldIsBound`
* `OneTaskPerRecordHolds`: `Spec => []OneTaskPerRecord`
* `StatusReachesOwnerHolds`: `Spec => StatusReachesOwner`

`IInv` relates a request's locals to the tables and the upstream. The heart of
`ToldIsBound` is `Settled(t)`: the binding of task `t` is written with the
creating key, or its write has failed, or none is needed; a record that stores a
response, and a request past `Bind`, name settled tasks only, and nothing takes
that back (`Grows`): the foreign keys protect bound keys from a purge.
`OneTaskPerRecord` is a counting argument (`OneSender`): the tasks created under
a record and the requests that may still create one are together at most as many
as the records ever inserted, which are the removed ones and the present one. A
takeover pays for its right to create a task with the record it removes. `KInv` adds that a request whose client knew the
task (`Pinned`) looks it up with the creating key from the lookup to the last
path it tries. Proving `StatusReachesOwner` showed that its first form was wrong
for two administrative actions: it spoke of every step, also of a step of
somebody else while a request holds the key of its first path; it now speaks of
the steps of the request itself.

`KeyStoreProofs` proves, for every table size, set of secrets and providers, size
of batches, and every number of administrative requests, faults and restarts:

* `TypeCorrect`: `Spec => []TypeOK`, no secret is stored twice
* `BackoffRespectedHolds`: `Spec => BackoffRespected`
* `VerdictJustifiedHolds`: `Spec => VerdictJustified`

The invariant adds three facts. `Distinct`: rows differ in their secrets.
`RefusedStays`: a worker that met a 401 asked with a secret that is not accepted
now either, because the upstream revokes and does not reinstate; it bridges the
time between the probe and the commit. `ProbedWaits`: a key that was probed and
for which neither its interval nor the retry delay, counted from the start of the
round, has passed has `next_refresh_at` in the future, or has been purged, or is
still in the batch whose results are being applied; the failing commit, and the
back-off of a round that lasts too long, are where it could break. The ids are assumed to be
`1..n`, as a database assigns them.

The assumptions about constants are those named in the modules: types, `NULL` is
none of the values it is compared with, an upper bound on the clocks' skew. Each
is evaluated by TLC on every run.

Only model-checked: the liveness properties (`EveryRequestAnswered`,
`EveryForwardEnds`, `LeasesDrain`, `KeysStayMonitored`), which need reasoning
about fairness and `ENABLED` that is outside the prover's reach. Every safety
invariant, action property and refinement of a passing run is the statement of a
theorem.

## 5. Not modelled

Cryptography, configuration parsing, redaction, logging, metrics, the web UI,
the offline migration tool and the schema migrations have no state that other
parts race on. The classification of upstream bodies (text markers) is
abstracted to its six results, scores to a free choice among eligible keys,
costs to a constant set; in `Forwarder` and `Governance` the token bucket is a
denial that may happen, in `Resources` `forward` is one step. The length of the
refresh interval, credit snapshots, audit rows, and token rotation of clients
are left out. Bindings do not expire, because no caller gives them a TTL. The
in-memory token bucket is the Redis one with a single clock and one lock.

## 6. Plan

1. `NextRefresh` (smart and fixed interval) and `classify_upstream_outcome` as
   pure operators against reference definitions, with lemmas about them.
2. The in-memory token bucket as a specification of its own that the Redis one
   with a single clock implements.
3. The local estimate that is written from an old copy of the balance
   (`forwarder.py:932`): a bound on how far it can differ from the probed one.
