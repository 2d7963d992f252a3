----------------------------- MODULE RedisLimits -----------------------------
(***************************************************************************)
(* The distributed governance of one client: RedisConcurrencyManager       *)
(* (app/core/concurrency.py) and RedisTokenBucketRateLimiter               *)
(* (app/core/rate_limit.py) as enforce_client_governance calls them, one   *)
(* after the other, from several gateway processes.                        *)
(*                                                                         *)
(* The leases are a sorted set: a token per request, scored with the time  *)
(* it ends.  The bucket is a hash of tokens and the time of the last       *)
(* refill.  Both are changed by a Lua script, or, on a server without      *)
(* EVAL, by a transaction under WATCH that is tried Tries times.  Every    *)
(* process reads its own clock before it talks to Redis.                   *)
(*                                                                         *)
(* Tokens are counted in units of 1/Minute, so that the refill of one tick *)
(* is the integer RatePerMin.  The sorted set's own EXPIRE is left out: it *)
(* removes the set LeaseTtl after the last acquire, when every lease has   *)
(* ended.  The bucket's removes a bucket that has been full for a minute.  *)
(***************************************************************************)
EXTENDS Integers, FiniteSets

CONSTANTS
    Requests,    \* requests of the client, each with a lease token of its own
    Skew,        \* how far the clock of a request's process is ahead
    MaxSkew,     \* the largest of them
    Limits,      \* values of max_concurrent a request may have read, 0 for none
    Timeout,     \* firecrawl.timeout, in ticks
    MaxRetries,  \* firecrawl.max_retries
    Grace,       \* the margin added to the lease (10 s)
    ClientRetries, \* clients.max_retries, which forward obeys
    RatePerMin,  \* rate_limit_per_min, 0 for none
    Minute,      \* ticks in a minute
    Tries,       \* attempts of a WATCH transaction (five)
    Prompt,      \* Redis always answers within a tick
    Scripting,   \* whether the server knows EVAL: the possibilities
    Faults,      \* the Redis calls that may fail, and "crash" of a process
    MaxFaults,   \* bound on the number of failures
    MaxClock,    \* bound on time
    NULL

\* How a request may end.
Codes == {"CLIENT_CONCURRENCY_LIMITED", "TRIES_EXHAUSTED", "DB_UNAVAILABLE",
          "CLIENT_RATE_LIMITED", "SERVED", "CRASHED"}

ASSUME RedisAssumption ==
    /\ IsFiniteSet(Requests)
    /\ Skew \in [Requests -> Nat] /\ MaxSkew \in Nat
    /\ \A r \in Requests : Skew[r] <= MaxSkew
    /\ Limits \subseteq Nat /\ Limits # {}
    /\ Timeout \in Nat /\ MaxRetries \in Nat /\ Grace \in Nat /\ ClientRetries \in Nat
    /\ RatePerMin \in Nat /\ Minute \in Nat \ {0} /\ Tries \in Nat \ {0}
    /\ Prompt \in BOOLEAN
    /\ Scripting \in SUBSET BOOLEAN /\ Scripting # {}
    /\ Faults \subseteq {"acquire", "allow", "release", "crash"}
    /\ MaxClock \in Nat /\ MaxFaults \in Nat
    /\ NULL \notin Nat \cup Codes \cup [tokens : Int, last : Nat]

VARIABLES
    lua,      \* the server knows EVAL
    zset,     \* the score of each request's token, NULL if it is not in the set
    bucket,   \* the hash of the rate limiter, NULL before the first request
    watched,  \* the WATCH of each request's connection
    clock,    \* real time
    loc,      \* the locals of each request
    failures, \* failures so far
    admitted, \* auxiliary: tokens taken from the bucket
    drift     \* auxiliary: by how much `last` has been moved back, in all

vars == <<lua, zset, bucket, watched, clock, loc, failures, admitted, drift>>

Larger(a, b) == IF a > b THEN a ELSE b

\* The lifetime of a lease, computed once from the provider's configuration.
LeaseTtl == Larger(Timeout, 1) * (Larger(MaxRetries, 0) + 1) + Grace

\* How long forward can keep a request busy.
MaxService == Timeout * (ClientRetries + 1)

Capacity == RatePerMin * Minute

\* now: the clock that was read; until: the score of the token; lease: whether
\* there is one to return; rivals: (auxiliary) writes of others to the key while
\* the request tries its transaction.
Fresh == [pc |-> "idle", now |-> 0, max |-> 0, until |-> 0, since |-> 0,
          lease |-> "none", tries |-> Tries, rivals |-> 0, ans |-> NULL, wait |-> 0]

Init ==
    /\ lua \in Scripting
    /\ zset = [r \in Requests |-> NULL]
    /\ bucket = NULL
    /\ watched = [r \in Requests |-> "none"]
    /\ clock = 0
    /\ loc = [r \in Requests |-> Fresh]
    /\ failures = 0 /\ admitted = 0 /\ drift = 0

ProcessClock(r) == clock + Skew[r]

(***************************************************************************)
(* External: Redis.  A write to a key marks the transaction of everyone    *)
(* who watches it, the writer included, if it changed anything.            *)
(***************************************************************************)
Touched(key, w, r) ==
    [q \in Requests |-> IF w[q] = key THEN "dirty" ELSE w[q]]

Tokens(z) == {q \in Requests : z[q] # NULL}

ExpiredTooSoon(z, now) == {q \in Tokens(z) : z[q] <= now + 1}  \* mutant: a tick early
ExpiredNever(z, now) == {}  \* mutant: old tokens are not removed
Expired(z, now) == {q \in Tokens(z) : z[q] <= now}

ZRemOld(z, now) == [q \in Requests |-> IF q \in Expired(z, now) THEN NULL ELSE z[q]]
ZAdd(z, r, until) == [z EXCEPT ![r] = until]

Set(r, L) == loc' = [loc EXCEPT ![r] = L]

\* The locals of r, and the rivals of those who are at the key r writes to.
Contenders(key) ==
    {q \in Requests : loc[q].pc \in IF key = "leases" THEN {"acquire", "trim", "count", "exec"}
                                    ELSE {"allow", "spend"}}

SetAndDisturb(r, L, key) ==
    loc' = [q \in Requests |->
              IF q = r THEN L
              ELSE IF q \in Contenders(key) /\ ~lua THEN [loc[q] EXCEPT !.rivals = @ + 1]
              ELSE loc[q]]

\* A call to Redis fails, or a process.
Fails(call) ==
    /\ call \in Faults /\ failures < MaxFaults
    /\ failures' = failures + 1

\* Of a request that is over, only its answer and its token are of interest.
Ended(L, code) ==
    [Fresh EXCEPT !.pc = "done", !.ans = code, !.lease = L.lease,
                  !.until = IF L.lease = "none" THEN 0 ELSE L.until]

(***************************************************************************)
(* try_acquire reads the clock before it asks Redis; a limit of 0 needs no *)
(* lease.  The limit is the one on the Client object the request loaded;   *)
(* the administrator may have set any.                                     *)
(***************************************************************************)
Arrive(r) ==
    /\ loc[r].pc = "idle"
    /\ \E max \in Limits :
         Set(r, IF max <= 0
                THEN [loc[r] EXCEPT !.pc = "rate", !.lease = "free"]
                ELSE [loc[r] EXCEPT !.pc = "acquire", !.max = max,
                                    !.now = ProcessClock(r)])
    /\ UNCHANGED <<lua, zset, bucket, watched, clock, admitted, drift, failures>>

Granted(r) == [Fresh EXCEPT !.pc = "rate", !.until = loc[r].now + LeaseTtl,
                            !.lease = "token"]

\* _ACQUIRE_LUA: one atomic step of the server.
AcquireLua(r) ==
    LET z == ZRemOld(zset, loc[r].now) IN
    /\ loc[r].pc = "acquire" /\ lua
    /\ IF Cardinality(Tokens(z)) >= loc[r].max
       THEN /\ zset' = z
            /\ Set(r, Ended(loc[r], "CLIENT_CONCURRENCY_LIMITED"))
       ELSE /\ zset' = ZAdd(z, r, loc[r].now + LeaseTtl)
            /\ Set(r, Granted(r))
    /\ UNCHANGED <<lua, bucket, watched, clock, admitted, drift, failures>>

\* _acquire_fallback: WATCH, the removal of old tokens, ZCARD and the transaction
\* are four round trips.
WatchLeases(r) ==
    /\ loc[r].pc = "acquire" /\ ~lua
    /\ watched' = [watched EXCEPT ![r] = "leases"]
    /\ Set(r, [loc[r] EXCEPT !.pc = "trim"])
    /\ UNCHANGED <<lua, zset, bucket, clock, admitted, drift, failures>>

Trim(r) ==
    LET z == ZRemOld(zset, loc[r].now)
        L == [loc[r] EXCEPT !.pc = "count"] IN
    /\ loc[r].pc = "trim"
    /\ zset' = z
    /\ IF z = zset THEN watched' = watched /\ Set(r, L)
       ELSE watched' = Touched("leases", watched, r) /\ SetAndDisturb(r, L, "leases")
    /\ UNCHANGED <<lua, bucket, clock, admitted, drift, failures>>

\* A set that is full is not looked at again: no EXEC asks whether it changed.
Count(r) ==
    /\ loc[r].pc = "count"
    /\ IF Cardinality(Tokens(zset)) >= loc[r].max
       THEN /\ watched' = [watched EXCEPT ![r] = "none"]
            /\ Set(r, Ended(loc[r], "CLIENT_CONCURRENCY_LIMITED"))
       ELSE Set(r, [loc[r] EXCEPT !.pc = "exec"]) /\ UNCHANGED watched
    /\ UNCHANGED <<lua, zset, bucket, clock, admitted, drift, failures>>

RetriedNot(L, again) == Ended(L, "TRIES_EXHAUSTED")  \* mutant: no second attempt
\* The end of an attempt whose transaction was aborted.
Retried(L, again) ==
    IF L.tries > 1 THEN [L EXCEPT !.pc = again, !.tries = @ - 1]
    ELSE Ended(L, "TRIES_EXHAUSTED")

ExecLeases(r) ==
    /\ loc[r].pc = "exec"
    /\ IF watched[r] = "dirty"
       THEN /\ watched' = [watched EXCEPT ![r] = "none"]
            /\ Set(r, Retried(loc[r], "acquire"))
            /\ UNCHANGED zset
       ELSE /\ zset' = ZAdd(zset, r, loc[r].now + LeaseTtl)
            /\ watched' = Touched("leases", [watched EXCEPT ![r] = "none"], r)
            /\ SetAndDisturb(r, Granted(r), "leases")
    /\ UNCHANGED <<lua, bucket, clock, admitted, drift, failures>>

(***************************************************************************)
(* A call that fails, before or after the server executed it: the request  *)
(* is answered with 503 and the token, if it was added, has no owner.      *)
(***************************************************************************)
AcquireFailsFull(r) ==  \* mutant: the token is added before the set is counted
    LET z == ZRemOld(zset, loc[r].now)
        L == Ended(loc[r], "DB_UNAVAILABLE")
        Lost == [L EXCEPT !.lease = "lost", !.until = loc[r].now + LeaseTtl]
        w == [watched EXCEPT ![r] = "none"] IN
    /\ Fails("acquire")
    /\ loc[r].pc \in {"acquire", "trim", "count", "exec"}
    /\ \/ /\ watched' = w /\ Set(r, L)
          /\ UNCHANGED zset
       \/ /\ loc[r].pc = "acquire" /\ lua
          /\ zset' = ZAdd(z, r, loc[r].now + LeaseTtl)
          /\ Set(r, Lost)
          /\ UNCHANGED watched
       \/ /\ loc[r].pc = "exec" /\ watched[r] # "dirty"
          /\ zset' = ZAdd(zset, r, loc[r].now + LeaseTtl)
          /\ watched' = Touched("leases", w, r)
          /\ SetAndDisturb(r, Lost, "leases")
    /\ UNCHANGED <<lua, bucket, clock, admitted, drift>>
AcquireFails(r) ==
    LET z == ZRemOld(zset, loc[r].now)
        L == Ended(loc[r], "DB_UNAVAILABLE")
        Lost == [L EXCEPT !.lease = "lost", !.until = loc[r].now + LeaseTtl]
        w == [watched EXCEPT ![r] = "none"] IN
    /\ Fails("acquire")
    /\ loc[r].pc \in {"acquire", "trim", "count", "exec"}
    /\ \/ /\ watched' = w /\ Set(r, L)
          /\ UNCHANGED zset
       \/ /\ loc[r].pc = "acquire" /\ lua /\ Cardinality(Tokens(z)) < loc[r].max
          /\ zset' = ZAdd(z, r, loc[r].now + LeaseTtl)
          /\ Set(r, Lost)
          /\ UNCHANGED watched
       \/ /\ loc[r].pc = "exec" /\ watched[r] # "dirty"
          /\ zset' = ZAdd(zset, r, loc[r].now + LeaseTtl)
          /\ watched' = Touched("leases", w, r)
          /\ SetAndDisturb(r, Lost, "leases")
    /\ UNCHANGED <<lua, bucket, clock, admitted, drift>>

(***************************************************************************)
(* allow: the clock is read, then the bucket is refilled for the time      *)
(* since `last` and a token taken.  A clock behind `last` refills nothing, *)
(* but still becomes the new `last`.                                       *)
(***************************************************************************)
Serving(L) == [Fresh EXCEPT !.pc = "serving", !.since = clock,
                            !.lease = L.lease, !.until = L.until]

AskRate(r) ==
    /\ loc[r].pc = "rate"
    /\ Set(r, IF RatePerMin <= 0
              THEN Serving(loc[r])
              ELSE [loc[r] EXCEPT !.pc = "allow", !.now = ProcessClock(r)])
    /\ UNCHANGED <<lua, zset, bucket, watched, clock, admitted, drift, failures>>

Refilled(b, now) ==
    IF b = NULL THEN Capacity
    ELSE LET t == b.tokens + Larger(now - b.last, 0) * RatePerMin
         IN  IF t < Capacity THEN t ELSE Capacity

RetryAfterFloor(tokens) ==  \* mutant: rounded down
    Larger((Minute - tokens) \div RatePerMin, 1)
RetryAfter(tokens) ==
    Larger((Minute - tokens + RatePerMin - 1) \div RatePerMin, 1)

MovedBack(b, now) == IF b = NULL THEN 0 ELSE Larger(b.last - now, 0)

SpendUnchecked(now) ==  \* mutant: a token is taken whether there is one or not
    LET t == Refilled(bucket, now) IN
    /\ bucket' = [tokens |-> t - Minute, last |-> now]
    /\ admitted' = IF t >= Minute THEN admitted + 1 ELSE admitted
    /\ drift' = drift + MovedBack(bucket, now)
SpendLastKept(now) ==  \* mutant: the time of the refill is not stored
    LET t == Refilled(bucket, now) IN
    /\ bucket' = [tokens |-> IF t >= Minute THEN t - Minute ELSE t,
                  last |-> IF bucket = NULL THEN now ELSE bucket.last]
    /\ admitted' = IF t >= Minute THEN admitted + 1 ELSE admitted
    /\ drift' = drift
\* The bucket after the script or the transaction of a request at `now`.
Spend(now) ==
    LET t == Refilled(bucket, now) IN
    /\ bucket' = [tokens |-> IF t >= Minute THEN t - Minute ELSE t, last |-> now]
    /\ admitted' = IF t >= Minute THEN admitted + 1 ELSE admitted
    /\ drift' = drift + MovedBack(bucket, now)

\* What the request does with the answer of the bucket: the lease is released
\* before the 429 is raised.
AnsweredByBucket(L) ==
    LET t == Refilled(bucket, L.now) IN
    IF t >= Minute THEN Serving(L)
    ELSE [L EXCEPT !.pc = "release", !.ans = "CLIENT_RATE_LIMITED",
                   !.wait = RetryAfter(t)]

AllowLua(r) ==
    /\ loc[r].pc = "allow" /\ lua
    /\ Spend(loc[r].now)
    /\ Set(r, AnsweredByBucket(loc[r]))
    /\ UNCHANGED <<lua, zset, watched, clock, failures>>

\* _allow_fallback: a write of another request between WATCH and HMGET aborts
\* the transaction like one after HMGET, so the two are one step.
WatchBucket(r) ==
    /\ loc[r].pc = "allow" /\ ~lua
    /\ watched' = [watched EXCEPT ![r] = "bucket"]
    /\ Set(r, [loc[r] EXCEPT !.pc = "spend"])
    /\ UNCHANGED <<lua, zset, bucket, clock, admitted, drift, failures>>

\* An exception of the limiter leaves the dependency without a release.
Orphaned(L) == IF L.lease = "token" THEN [L EXCEPT !.lease = "lost"] ELSE L

ExecBucket(r) ==
    /\ loc[r].pc = "spend"
    /\ IF watched[r] = "dirty"
       THEN /\ watched' = [watched EXCEPT ![r] = "none"]
            /\ Set(r, LET L == Retried(loc[r], "allow")
                      IN  IF L.pc = "done" THEN Orphaned(L) ELSE L)
            /\ UNCHANGED <<bucket, admitted, drift>>
       ELSE /\ Spend(loc[r].now)
            /\ watched' = Touched("bucket", [watched EXCEPT ![r] = "none"], r)
            /\ SetAndDisturb(r, AnsweredByBucket(loc[r]), "bucket")
    /\ UNCHANGED <<lua, zset, clock, failures>>

AllowFails(r) ==
    LET L == Ended(Orphaned(loc[r]), "DB_UNAVAILABLE")
        w == [watched EXCEPT ![r] = "none"] IN
    /\ Fails("allow")
    /\ loc[r].pc \in {"allow", "spend"}
    /\ \/ /\ watched' = w /\ Set(r, L)
          /\ UNCHANGED <<bucket, admitted, drift>>
       \/ /\ IF lua THEN loc[r].pc = "allow" ELSE loc[r].pc = "spend" /\ watched[r] # "dirty"
          /\ Spend(loc[r].now)
          /\ watched' = Touched("bucket", w, r)
          /\ SetAndDisturb(r, L, "bucket")
    /\ UNCHANGED <<lua, zset, clock>>

\* The endpoint has answered; the dependency's finally block runs.
Finish(r) ==
    /\ loc[r].pc = "serving"
    /\ Set(r, [loc[r] EXCEPT !.pc = "release", !.ans = "SERVED"])
    /\ UNCHANGED <<lua, zset, bucket, watched, clock, admitted, drift, failures>>

\* Lease.release: ZREM of the own token; a failure is only logged, whether or
\* not the server removed the token.
ReleaseLease(r) ==
    LET Over(lease) == Ended([loc[r] EXCEPT !.lease = lease], loc[r].ans) IN
    /\ loc[r].pc = "release"
    /\ \/ /\ loc[r].lease = "free"
          /\ Set(r, Over("none"))
          /\ UNCHANGED <<zset, watched, failures>>
       \/ /\ loc[r].lease = "token"
          /\ zset' = [zset EXCEPT ![r] = NULL]
          /\ UNCHANGED failures
          /\ IF zset[r] = NULL
             THEN UNCHANGED watched /\ Set(r, Over("none"))
             ELSE /\ watched' = Touched("leases", watched, r)
                  /\ SetAndDisturb(r, Over("none"), "leases")
       \/ /\ Fails("release") /\ loc[r].lease = "token"
          /\ Set(r, Over("lost"))
          /\ UNCHANGED <<zset, watched>>
    /\ UNCHANGED <<lua, bucket, clock, admitted, drift>>

\* The process of a request dies; its connection takes its WATCH with it.
Crash(r) ==
    /\ Fails("crash")
    /\ loc[r].pc \notin {"idle", "done"}
    /\ Set(r, Ended(Orphaned(loc[r]), "CRASHED"))
    /\ watched' = [watched EXCEPT ![r] = "none"]
    /\ UNCHANGED <<lua, zset, bucket, clock, admitted, drift>>

\* Time passes, but forward ends within its attempts' timeouts.
Tick ==
    /\ clock < MaxClock
    /\ Prompt => \A r \in Requests : loc[r].pc \in {"idle", "serving", "done"}
    /\ \A r \in Requests : loc[r].pc = "serving" => clock < loc[r].since + MaxService
    /\ clock' = clock + 1
    /\ UNCHANGED <<lua, zset, bucket, watched, loc, admitted, drift, failures>>

\* Every request has its answer and the clock has reached its bound.
Finished ==
    /\ \A r \in Requests : loc[r].pc = "done"
    /\ clock = MaxClock
    /\ UNCHANGED vars

Step(r) ==
    \/ Arrive(r) \/ AcquireLua(r) \/ WatchLeases(r) \/ Trim(r) \/ Count(r)
    \/ ExecLeases(r) \/ AcquireFails(r) \/ AskRate(r) \/ AllowLua(r) \/ WatchBucket(r) \/ ExecBucket(r)
    \/ AllowFails(r) \/ Finish(r) \/ ReleaseLease(r) \/ Crash(r)

Next == (\E r \in Requests : Step(r)) \/ Tick \/ Finished

Spec == Init /\ [][Next]_vars

-----------------------------------------------------------------------------
Pcs == {"idle", "acquire", "trim", "count", "exec", "rate", "allow", "spend",
        "serving", "release", "done"}

Locals == [pc : Pcs, now : Nat, max : Nat, until : Nat, since : Nat,
           lease : {"none", "free", "token", "lost"}, tries : Nat, rivals : Nat,
           ans : Codes \cup {NULL}, wait : Nat]

\* Types; the bucket never holds more than its capacity nor less than nothing.
TypeOK ==
    /\ lua \in BOOLEAN
    /\ zset \in [Requests -> Nat \cup {NULL}]
    /\ bucket \in [tokens : 0..Capacity, last : Nat] \cup {NULL}
    /\ watched \in [Requests -> {"none", "leases", "bucket", "dirty"}]
    /\ clock \in Nat /\ failures \in Nat /\ admitted \in Nat /\ drift \in Nat
    /\ loc \in [Requests -> Locals]

\* The requests at work whose lease has not ended on any process's clock.
AtWork == {r \in Requests : /\ loc[r].lease = "token"
                            /\ loc[r].until > clock + MaxSkew}

\* Safety: as long as no request outlives its lease, never more of them are at
\* work than some limit allows, with either way of acquiring, with clocks that
\* differ, and whatever fails (RedisConcurrencyManager.try_acquire).
LimitHolds == AtWork = {} \/ \E max \in Limits : Cardinality(AtWork) <= max

\* Refinement: the sorted set behaves like the abstract leases: a token is
\* added only while fewer than max_concurrent others stay in the set.
Abstract == INSTANCE Leases WITH Holders <- Requests, held <- Tokens(zset)
ImplementsLeases == Abstract!Spec

\* Those whose token can still be in the set: requests at work, and leaks.
Blockers(now) == {q \in Requests : /\ loc[q].lease \in {"token", "lost"}
                                   /\ loc[q].until > now}

\* Action property: a request is denied only because max_concurrent others are
\* at work or have leaked their lease (a failed release, an exception of the
\* rate limiter, a crash) less than LeaseTtl ago: leaks heal.  Without EVAL the
\* removal of old tokens and the count are two calls, and each write of another
\* request in that time can stand for one token that has already ended for the
\* clock of the one that is denied.
DenialJustified ==
    [][\A r \in Requests :
         loc[r].pc # "done" /\ loc'[r].ans = "CLIENT_CONCURRENCY_LIMITED"
           => Cardinality(Blockers(loc[r].now)) + loc[r].rivals >= loc[r].max]_vars

\* Action property: a WATCH transaction is given up only under contention.  A
\* write of another request aborts at most the attempt it meets and, if it added
\* a token that has expired for the clock of the reader, the next one, which
\* removes it; one more abort is the request's own removal of old tokens
\* (_acquire_fallback, _allow_fallback).
GiveUpMeansContention ==
    [][\A r \in Requests :
         loc[r].pc # "done" /\ loc'[r].ans = "TRIES_EXHAUSTED"
           => 2 * loc[r].rivals + 1 >= Tries]_vars

\* Safety: the bucket pays out its capacity and the refill of the time that
\* passed, plus only the refill that late writers cause by setting `last` back
\* (RedisTokenBucketRateLimiter.allow).
BucketAccounted ==
    bucket # NULL =>
        bucket.tokens + Minute * admitted <= Capacity + RatePerMin * (bucket.last + drift)

\* Action property: the Retry-After of a denial is the first tick at which the
\* bucket, left alone, has a token.
RetryAfterExact ==
    [][\A r \in Requests :
         loc[r].ans = NULL /\ loc'[r].ans = "CLIENT_RATE_LIMITED"
           => LET t == loc[r].now + loc'[r].wait IN
              /\ Refilled(bucket', t) >= Minute
              /\ Refilled(bucket', t - 1) < Minute]_vars

=============================================================================
