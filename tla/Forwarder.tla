----------------------------- MODULE Forwarder -----------------------------
(***************************************************************************)
(* Forwarder.forward (app/core/forwarder.py) with the key selection it     *)
(* loops on (KeyPool.select), the per-key concurrency leases it takes, and *)
(* the other writers of the api_keys rows: the credit probe of the refresh *)
(* loop and the administrator.                                             *)
(*                                                                         *)
(* Each request runs in a thread with a database session of its own.  A    *)
(* read of the table, a commit, and the upstream call are separate steps;  *)
(* between them the request works on the row object it holds, which other  *)
(* requests, the probe and the administrator make stale (see KeyRows).     *)
(*                                                                         *)
(* Scores are abstracted: select may return any eligible key, since the    *)
(* epsilon-greedy branch and the weighted draw among near-best keys reach  *)
(* them all.  The token buckets are abstracted to the keys they may deny.  *)
(***************************************************************************)
EXTENDS Integers, FiniteSets, KeyRows

CONSTANTS
    Requests,        \* requests to forward, each once
    Keys,            \* ids of the rows of one provider in api_keys
    Pins,            \* pinned_api_key_id values: a subset of Keys \cup {NULL}
    Budget,          \* _client_retry_budget: client.max_retries + 1
    TriesPerAttempt, \* max_selection_tries is
    MinTries,        \*   max(Budget * TriesPerAttempt, MinTries): 20 and 50
    MaxConcurrent,   \* max_concurrent of every key, 0 for no limit
    RateLimited,     \* the keys a token bucket may deny
    Undecryptable,   \* the keys whose ciphertext the master key cannot open
    Outcomes,        \* what the upstream may answer
    FetchResults,    \* kinds of credit probe results
    FetchCredits,    \* remaining_credits of a successful probe
    Costs,           \* what estimate_credit_cost may return
    InitCredits,     \* cached_remaining_credits at the start
    Cooldown,        \* Retry-After, or rate_limit.cooldown_seconds
    FailureThreshold, FailureWindow, FailedCooldown, \* firecrawl.failure_*
    UseStore,        \* a RedisCooldownStore is configured
    CountOnSuccess,  \* quota.count_mode = "success"
    DbFaults,        \* commits may fail
    AdminOps,        \* the control-plane operations that may occur
    MaxClock         \* bound on the clock

Classified == {"ok", "credit", "rate_limit", "invalid_key", "upstream_5xx",
               "passthrough"}

ASSUME ForwarderAssumption ==
    /\ Pins \subseteq Keys \cup {NULL}
    /\ Budget \in Nat \ {0} /\ TriesPerAttempt \in Nat /\ MinTries \in Nat
    /\ MaxConcurrent \in Nat
    /\ RateLimited \subseteq Keys /\ Undecryptable \subseteq Keys
    /\ Outcomes \subseteq Classified \cup {"timeout", "http_error"}
    /\ FetchResults \subseteq FetchKinds \ {"decrypt_failed"}
    /\ FetchCredits \subseteq Nat /\ Costs \subseteq Nat
    /\ InitCredits \subseteq Nat \cup {NULL}
    /\ Cooldown \in Nat /\ FailedCooldown \in Nat
    /\ FailureThreshold \in Nat /\ FailureWindow \in Nat
    /\ UseStore \in BOOLEAN /\ CountOnSuccess \in BOOLEAN /\ DbFaults \in BOOLEAN
    /\ AdminOps \subseteq {"disable", "enable", "revive", "reset"}
    /\ MaxClock \in Nat
    /\ NULL \notin Nat \cup Keys

VARIABLES
    keys,     \* table api_keys
    store,    \* RedisCooldownStore: when each key's entry expires
    fails,    \* Forwarder._failures: count and start of the window per key
    current,  \* ConcurrencyManager._states[k].current
    probing,  \* when the credit probe in flight for each key began, or NULL
    clock,
    loc       \* the locals of each forward call

vars == <<keys, store, fails, current, probing, clock, loc>>

MaxTries == AtLeast(Budget * TriesPerAttempt, MinTries)

NoColumns == [k \in Keys |-> {}]

\* The locals of a forward call that has not started.
Fresh(pin) ==
    [pc |-> "idle", pin |-> pin, pinned |-> FALSE,
     key |-> NULL, last |-> NULL, obj |-> NULL, pinObj |-> NULL, dirty |-> NoColumns,
     tried |-> {}, used |-> {}, attempts |-> 0, tries |-> 0, retry |-> 0,
     lastErr |-> NULL, outcome |-> NULL, decryptFailed |-> FALSE, ans |-> NULL]

Init ==
    /\ keys \in [Keys -> {[active |-> TRUE, status |-> "active", until |-> NULL,
                           credits |-> c] : c \in InitCredits}]
    /\ store = [k \in Keys |-> 0]
    /\ fails = [k \in Keys |-> [n |-> 0, first |-> 0]]
    /\ current = [k \in Keys |-> 0]
    /\ probing = [k \in Keys |-> NULL]
    /\ clock = 0
    /\ loc \in [Requests -> {Fresh(pin) : pin \in Pins}]

Set(r, L) == loc' = [loc EXCEPT ![r] = L]

\* The end of forward: the ForwardResult or the FcamError.  The session ends
\* with the request, so the objects it held are dropped.
Ended(L, code, of, retry) ==
    [L EXCEPT !.pc = "done", !.obj = NULL, !.pinObj = NULL, !.dirty = NoColumns,
              !.ans = [code |-> code, key |-> L.last, of |-> of, retry |-> retry]]

Raised(L, code) == Ended(L, code, NULL, 0)
Returned(L, retry) == Ended(L, L.outcome, L.key, retry)

\* The object held for the current key; after a rollback it is expired and
\* the next access loads it again.
Held(L) == IF L.obj = NULL THEN keys[L.key] ELSE L.obj

\* The rows a query returns: objects the session still holds are not reloaded.
Seen(L, k) == CASE k = L.key -> Held(L)
                [] k # L.key /\ k = L.pin /\ L.pinObj # NULL -> L.pinObj
                [] OTHER -> keys[k]

Expire(L) == [L EXCEPT !.obj = NULL, !.pinObj = NULL, !.dirty = NoColumns]

(***************************************************************************)
(* Start: the pinned key is looked up by id; a key that is disabled (or    *)
(* gone) falls back to the pool.                                           *)
(***************************************************************************)
Start(r) ==
    LET L == loc[r] IN
    /\ L.pc = "idle"
    /\ \/ /\ L.pin = NULL
          /\ Set(r, [L EXCEPT !.pc = "select"])
       \/ /\ L.pin # NULL /\ IsDisabled(keys[L.pin])
          /\ Set(r, [L EXCEPT !.pc = "select", !.pinObj = keys[L.pin]])
       \/ /\ L.pin # NULL /\ ~IsDisabled(keys[L.pin])
          /\ Set(r, [L EXCEPT !.pc = "gate", !.pinned = TRUE, !.key = L.pin,
                              !.last = L.pin, !.obj = keys[L.pin]])
       \/ /\ DbFaults /\ L.pin # NULL
          /\ Set(r, Raised(L, "DB_UNAVAILABLE"))
    /\ UNCHANGED <<keys, store, fails, current, probing, clock>>

(***************************************************************************)
(* KeyPool.select: read and filter the rows ...                            *)
(***************************************************************************)
StoreRemaining(k) == IF UseStore THEN AtLeast(store[k] - clock, 0) ELSE 0

Remaining(L, k) == AtLeast(CooldownRemaining(Seen(L, k), clock), StoreRemaining(k))

DisabledSeen(L) == {k \in Keys \ L.tried : IsDisabled(Seen(L, k))}

CoolingSeen(L) ==
    {k \in (Keys \ L.tried) \ DisabledSeen(L) :
        Cools(Seen(L, k)) /\ Remaining(L, k) > 0}

\* Rows whose cooldown is over; select reactivates each of them.
Rested(L) ==
    {k \in (Keys \ L.tried) \ (DisabledSeen(L) \cup CoolingSeen(L)) :
        Cools(Seen(L, k))}

ZeroCreditSeen(L) ==
    {k \in (Keys \ L.tried) \ (DisabledSeen(L) \cup CoolingSeen(L)) :
        NoCredits(Seen(L, k))}

EligibleTriedToo(L) ==  \* mutant: exclude_ids is ignored
    {k \in Keys : /\ ~IsDisabled(Seen(L, k)) /\ ~NoCredits(Seen(L, k))
                  /\ ~(Cools(Seen(L, k)) /\ Remaining(L, k) > 0)}
Eligible(L) ==
    (Keys \ L.tried) \ (DisabledSeen(L) \cup CoolingSeen(L) \cup ZeroCreditSeen(L))

\* The columns of row k that select changed in memory.
Reactivation(L) ==
    [k \in Keys |-> IF k \notin Rested(L) THEN {}
                    ELSE {c \in {"status", "until"} :
                            \/ c = "until" /\ Seen(L, k).until # NULL
                            \/ c = "status" /\ Seen(L, k).status \in CoolingStatuses}]

\* The error select raises when no candidate is left (blocked: RPM filter).
SelectError(L, blocked) ==
    CASE \A k \in Keys : IsDisabled(Seen(L, k)) -> "ALL_KEYS_DISABLED"
      [] /\ DisabledSeen(L) # {} /\ ZeroCreditSeen(L) = {}
         /\ CoolingSeen(L) = {} /\ blocked = {} -> "ALL_KEYS_DISABLED"
      [] ZeroCreditSeen(L) # {} /\ CoolingSeen(L) = {} /\ blocked = {}
           -> "ALL_KEYS_NO_CREDITS"
      [] CoolingSeen(L) # {} -> "ALL_KEYS_COOLING"
      [] CoolingSeen(L) = {} /\ blocked # {} -> "ALL_KEYS_RATE_LIMITED"
      [] OTHER -> "NO_KEY_AVAILABLE"

\* What forward does with an error of select: a decryption failure of an
\* earlier key, or the error response of an earlier key, takes precedence.
AfterSelectErrorLost(L, code) == Raised(L, code)  \* mutant: always re-raised
AfterSelectError(L, code) ==
    IF /\ L.decryptFailed
       /\ code \in {"ALL_KEYS_DISABLED", "NO_KEY_AVAILABLE", "ALL_KEYS_NO_CREDITS"}
    THEN Raised(L, "KEY_DECRYPT_FAILED")
    ELSE IF L.lastErr # NULL
    THEN [L EXCEPT !.pc = "close"]
    ELSE Raised(L, code)

Select(r) ==
    LET L == [loc[r] EXCEPT !.tries = @ + 1] IN
    /\ loc[r].pc = "select"
    /\ loc[r].attempts < Budget /\ loc[r].tries < MaxTries
    /\ \E blocked \in SUBSET (RateLimited \cap Eligible(L)) :
         \/ /\ Eligible(L) = blocked
            /\ Set(r, AfterSelectError([L EXCEPT !.dirty = Reactivation(L)],
                                       SelectError(L, blocked)))
         \/ \E k \in Eligible(L) \ blocked :
              Set(r, [L EXCEPT !.pc = "commit", !.dirty = Reactivation(L),
                               !.key = k,
                               !.obj = IF k \in Rested(L) THEN Reactivated(Seen(L, k))
                                       ELSE Seen(L, k)])
    /\ UNCHANGED <<keys, store, fails, current, probing, clock>>

\* ... and commit the reactivations: UPDATEs of the changed columns only.
Reactivate(dirty) ==
    [k \in Keys |->
       [keys[k] EXCEPT !.until = IF "until" \in dirty[k] THEN NULL ELSE @,
                       !.status = IF "status" \in dirty[k] THEN "active" ELSE @]]

SelectCommit(r) ==
    LET L == loc[r] IN
    /\ L.pc = "commit"
    /\ \/ /\ keys' = Reactivate(L.dirty)
          /\ Set(r, [L EXCEPT !.pc = "gate", !.dirty = NoColumns,
                              !.last = L.key])
       \/ /\ DbFaults
          /\ keys' = keys
          /\ Set(r, AfterSelectError(Expire(L), "DB_UNAVAILABLE"))
    /\ UNCHANGED <<store, fails, current, probing, clock>>

\* select failed after an earlier key had answered: its response is returned.
\* The reactivations select did not commit are still pending in the session;
\* complete() commits them on the endpoints that store the response, the
\* others drop them.
Close(r) ==
    LET L == loc[r] IN
    /\ L.pc = "close"
    /\ keys' \in {keys, Reactivate(L.dirty)}
    /\ Set(r, Ended(L, L.outcome, L.lastErr, AtLeast(L.retry - 1, 0)))
    /\ UNCHANGED <<store, fails, current, probing, clock>>

\* The loop ends without a response: max_selection_tries is exhausted.
LoopExit(r) ==
    LET L == loc[r] IN
    /\ L.pc = "select"
    /\ ~(L.attempts < Budget /\ L.tries < MaxTries)
    /\ Set(r, IF L.attempts = 0 THEN Raised(L, "ALL_KEYS_BUSY")
              ELSE IF L.lastErr # NULL
              THEN Ended(L, L.outcome, L.lastErr, AtLeast(L.retry - 1, 0))
              ELSE Raised(L, "UPSTREAM_UNAVAILABLE"))
    /\ UNCHANGED <<keys, store, fails, current, probing, clock>>

(***************************************************************************)
(* The token bucket, then the concurrency lease of the key.  A key that    *)
(* cannot serve now is excluded for this request; a pinned one is final.   *)
(***************************************************************************)
Acquirable(k) == MaxConcurrent = 0 \/ current[k] < MaxConcurrent

\* A lease of a key without a limit is not counted.
Counted == IF MaxConcurrent = 0 THEN 0 ELSE 1

PassOverUncounted(L) ==  \* mutant: retry_count is not incremented
    IF L.pinned THEN Raised(L, "ALL_KEYS_BUSY")
    ELSE [L EXCEPT !.pc = "select", !.tried = @ \cup {L.key}]
PassOverSpins(L) ==  \* mutant: a busy key is neither excluded nor counted as a try
    IF L.pinned THEN Raised(L, "ALL_KEYS_BUSY")
    ELSE [L EXCEPT !.pc = "select", !.tries = @ - 1]
PassOver(L) ==
    IF L.pinned THEN Raised(L, "ALL_KEYS_BUSY")
    ELSE [L EXCEPT !.pc = "select", !.tried = @ \cup {L.key}, !.retry = @ + 1]

Gate(r) ==
    LET L == loc[r]
        k == L.key IN
    /\ L.pc = "gate"
    /\ \/ /\ k \in RateLimited \/ ~Acquirable(k)
          /\ Set(r, PassOver(L))
          /\ UNCHANGED current
       \/ /\ Acquirable(k)
          /\ current' = [current EXCEPT ![k] = @ + Counted]
          /\ Set(r, [L EXCEPT !.pc = IF k \in Undecryptable THEN "decrypt"
                                    ELSE "upstream"])
    /\ UNCHANGED <<keys, store, fails, probing, clock>>

\* Lease.release, run by the finally clause whatever happened.
ReleaseNothing(k) == current  \* mutant: the finally clause is lost
Release(k) == [current EXCEPT ![k] = AtLeast(@ - Counted, 0)]

\* A commit of the held object after the change `new`; a failure rolls back.
Committed(L, new) == keys' = [keys EXCEPT ![L.key] = Flush(@, Held(L), new)]

\* The ciphertext cannot be opened: the key is disabled and the next tried.
DecryptFailed(r) ==
    LET L == loc[r]
        new == DisableDecryptFailed(Held(L))
        Switch(obj) == IF L.pinned THEN Raised(L, "KEY_DECRYPT_FAILED")
                       ELSE [L EXCEPT !.pc = "select", !.tried = @ \cup {L.key},
                                      !.retry = @ + 1, !.decryptFailed = TRUE,
                                      !.obj = obj]
    IN
    /\ L.pc = "decrypt"
    /\ \/ Committed(L, new) /\ Set(r, Switch(new))
       \/ DbFaults /\ keys' = keys /\ Set(r, Expire(Switch(NULL)))
    /\ current' = Release(L.key)
    /\ UNCHANGED <<store, fails, probing, clock>>

(***************************************************************************)
(* The upstream call returns a response (and the lease is released), or    *)
(* raises with the lease still held.                                       *)
(***************************************************************************)
Handler(o) == CASE o \in {"rate_limit", "credit", "invalid_key"} -> "refresh"
                [] o = "upstream_5xx" -> "failure"
                [] OTHER -> "ok"

Upstream(r) ==
    LET L == loc[r] IN
    /\ L.pc = "upstream"
    /\ \E o \in Outcomes :
         \/ /\ o \in {"timeout", "http_error"}
            /\ Set(r, [L EXCEPT !.pc = "failure", !.outcome = o,
                                !.used = @ \cup {L.key}])
            /\ UNCHANGED current
         \/ /\ o \in Classified
            /\ Set(r, [L EXCEPT !.pc = Handler(o), !.outcome = o,
                                !.used = @ \cup {L.key},
                                !.attempts = @ + 1,
                                !.retry = IF L.pinned THEN L.attempts ELSE @])
            /\ current' = Release(L.key)
    /\ UNCHANGED <<keys, store, fails, probing, clock>>

\* _refresh_credits_on_4xx: the probe of the key's credits, unless debounced,
\* skipped or failed, is applied to the held object and committed.
Refresh4xx(r) ==
    LET L == loc[r] IN
    /\ L.pc = "refresh"
    /\ \/ /\ Set(r, [L EXCEPT !.pc = "punish"])
          /\ UNCHANGED keys
       \/ /\ Held(L).active \/ Held(L).status \notin {"disabled", "decrypt_failed"}
          /\ \E kind \in FetchResults, rem \in FetchCredits :
               LET new == ApplyFetch(Held(L), kind, rem, clock) IN
               /\ Committed(L, new)
               /\ Set(r, [L EXCEPT !.pc = "punish", !.obj = new])
       \/ /\ DbFaults
          /\ Set(r, [Expire(L) EXCEPT !.pc = "punish"])
          /\ UNCHANGED keys
    /\ UNCHANGED <<store, fails, current, probing, clock>>

\* What a key-attributable outcome does to the row.
Punished(row, o) == CASE o = "rate_limit" -> MarkCooling(row, clock + Cooldown)
                      [] o = "credit" -> ZeroCredits(row)
                      [] o = "invalid_key" -> DisableInvalid(row)

\* What follows: another attempt on a pinned key after a 429, a switch to the
\* next key, or the response.
AfterPunish(L, obj) ==
    LET M == [L EXCEPT !.obj = obj, !.tried = @ \cup {L.key},
                       !.retry = @ + 1, !.lastErr = L.key] IN
    IF L.pinned
    THEN IF L.outcome = "rate_limit" /\ L.attempts < Budget
         THEN [L EXCEPT !.pc = "gate", !.obj = obj]
         ELSE Returned(L, L.retry)
    ELSE IF L.attempts >= Budget THEN Returned(M, M.retry - 1)
    ELSE [M EXCEPT !.pc = "select"]

Punish(r) ==
    LET L == loc[r]
        k == L.key
        rests == L.outcome = "rate_limit" /\ ~Guarded(Held(L))
    IN
    /\ L.pc = "punish"
    /\ \/ LET new == Punished(Held(L), L.outcome) IN
          /\ Committed(L, new)
          /\ Set(r, AfterPunish(L, new))
          /\ store' = IF rests /\ UseStore THEN [store EXCEPT ![k] = clock + Cooldown]
                      ELSE store
       \/ /\ DbFaults
          /\ Set(r, AfterPunish(Expire(L), NULL))
          /\ UNCHANGED <<keys, store>>
    /\ UNCHANGED <<fails, current, probing, clock>>

(***************************************************************************)
(* _record_failure: timeouts, transport errors and 5xx are counted per key *)
(* in a window; at the threshold the key rests as "failed".                *)
(***************************************************************************)
WindowCount(f) == IF clock - f.first > FailureWindow \/ f.n = 0
                  THEN [n |-> 1, first |-> clock]
                  ELSE [f EXCEPT !.n = IF @ < FailureThreshold THEN @ + 1 ELSE @]

RecordFailure(r) ==
    LET L == loc[r]
        k == L.key
        counted == ~Guarded(Held(L))
        f == WindowCount(fails[k])
        new == MarkFailed(Held(L), clock + AtLeast(FailedCooldown, 1))
    IN
    /\ L.pc = "failure"
    /\ fails' = IF counted THEN [fails EXCEPT ![k] = f] ELSE fails
    /\ \/ counted /\ f.n >= FailureThreshold /\ Committed(L, new)
       \/ /\ ~counted \/ f.n < FailureThreshold \/ DbFaults
          /\ UNCHANGED keys
    /\ \/ /\ L.outcome \in {"timeout", "http_error"}
          /\ Set(r, Raised(L, IF L.outcome = "timeout" THEN "UPSTREAM_TIMEOUT"
                              ELSE "UPSTREAM_UNAVAILABLE"))
          /\ current' = Release(k)
       \/ /\ L.outcome = "upstream_5xx"
          /\ Set(r, Returned(L, L.retry))
          /\ UNCHANGED current
    /\ UNCHANGED <<store, probing, clock>>

(***************************************************************************)
(* A response that is not the key's fault is returned; a 2xx deducts the   *)
(* estimated cost from the held object's credits first.                    *)
(***************************************************************************)
Succeed(r) ==
    LET L == loc[r] IN
    /\ L.pc = "ok"
    /\ \/ /\ L.outcome = "ok"
          /\ \E cost \in Costs : Committed(L, EstimateCost(Held(L), cost))
          /\ Set(r, Returned(L, L.retry))
       \/ /\ L.outcome = "ok" /\ DbFaults
          /\ Set(r, IF CountOnSuccess THEN Raised(L, "DB_UNAVAILABLE")
                    ELSE Returned(L, L.retry))
          /\ UNCHANGED keys
       \/ /\ L.outcome = "passthrough"
          /\ Set(r, Returned(L, L.retry))
          /\ UNCHANGED keys
    /\ UNCHANGED <<store, fails, current, probing, clock>>

(***************************************************************************)
(* The credit refresh loop: a due key is probed over HTTP, later the       *)
(* result is applied to the row as it is then (_apply_results_serial).     *)
(***************************************************************************)
\* A probe whose key cannot be decrypted makes no HTTP call.  Without result
\* kinds credit monitoring is off.
ProbeKinds(k) == IF k \in Undecryptable THEN {"decrypt_failed"} ELSE FetchResults

ProbeStart(k) ==
    /\ probing[k] = NULL
    /\ ~IsDisabled(keys[k]) /\ ProbeKinds(k) # {}
    /\ probing' = [probing EXCEPT ![k] = clock]
    /\ UNCHANGED <<keys, store, fails, current, clock, loc>>

ProbeApply(k) ==
    /\ probing[k] # NULL
    /\ probing' = [probing EXCEPT ![k] = NULL]
    /\ \E kind \in ProbeKinds(k), rem \in FetchCredits :
         keys' = IF kind \notin {"invalid", "decrypt_failed"} /\ IsDisabled(keys[k])
                 THEN keys
                 ELSE [keys EXCEPT ![k] = ApplyFetch(@, kind, rem, probing[k])]
    /\ UNCHANGED <<store, fails, current, clock, loc>>

(***************************************************************************)
(* The administrator: PUT/DELETE /admin/keys/{id}, the revive endpoint and *)
(* reset_cooldown of the batch endpoint.                                   *)
(***************************************************************************)
AdminDisable(k) ==
    /\ "disable" \in AdminOps
    /\ keys' = [keys EXCEPT ![k] = AdminDisabled(@)]
    /\ UNCHANGED <<store, fails, current, probing, clock, loc>>

AdminEnable(k) ==
    /\ "enable" \in AdminOps
    /\ keys' = [keys EXCEPT ![k] = AdminEnabled(@)]
    /\ UNCHANGED <<store, fails, current, probing, clock, loc>>

AdminRevive(k) ==
    /\ "revive" \in AdminOps
    /\ keys' = [keys EXCEPT ![k] = Revived(@)]
    /\ UNCHANGED <<store, fails, current, probing, clock, loc>>

AdminResetCooldown(k) ==
    /\ "reset" \in AdminOps
    /\ keys' = [keys EXCEPT ![k] = CooldownReset(@)]
    /\ UNCHANGED <<store, fails, current, probing, clock, loc>>

Tick ==
    /\ clock < MaxClock
    /\ clock' = clock + 1
    /\ UNCHANGED <<keys, store, fails, current, probing, loc>>

Step(r) == \/ Select(r) \/ SelectCommit(r) \/ Close(r) \/ LoopExit(r)
           \/ Gate(r) \/ DecryptFailed(r) \/ Upstream(r) \/ Refresh4xx(r)
           \/ Punish(r) \/ RecordFailure(r) \/ Succeed(r)

Admin(k) == AdminDisable(k) \/ AdminEnable(k) \/ AdminRevive(k) \/ AdminResetCooldown(k)

Quiescent == (\A r \in Requests : loc[r].pc = "done") /\ UNCHANGED vars

Next ==
    \/ \E r \in Requests : Start(r) \/ Step(r)
    \/ \E k \in Keys : ProbeStart(k) \/ ProbeApply(k) \/ Admin(k)
    \/ Tick
    \/ Quiescent

\* A thread that is forwarding keeps running; the upstream call has a timeout.
Fairness == \A r \in Requests : WF_vars(Step(r))

Spec == Init /\ [][Next]_vars

FairSpec == Spec /\ Fairness

-----------------------------------------------------------------------------
Labels == {"idle", "select", "commit", "close", "gate", "decrypt", "upstream",
           "refresh", "punish", "failure", "ok", "done"}

ErrorCodes == {"DB_UNAVAILABLE", "ALL_KEYS_DISABLED", "ALL_KEYS_NO_CREDITS",
               "ALL_KEYS_COOLING", "ALL_KEYS_RATE_LIMITED", "NO_KEY_AVAILABLE",
               "ALL_KEYS_BUSY", "KEY_DECRYPT_FAILED", "UPSTREAM_TIMEOUT",
               "UPSTREAM_UNAVAILABLE"}

Answers == [code : Classified \cup ErrorCodes, key : Keys \cup {NULL},
            of : Keys \cup {NULL}, retry : Nat]

\* The changed columns of each row.
Columns == [Keys -> SUBSET {"status", "until"}]

Locals ==
    [pc : Labels, pin : Pins, pinned : BOOLEAN, key : Keys \cup {NULL},
     last : Keys \cup {NULL}, obj : Rows \cup {NULL}, pinObj : Rows \cup {NULL},
     dirty : Columns, tried : SUBSET Keys,
     used : SUBSET Keys, attempts : Nat, tries : Nat, retry : Nat,
     lastErr : Keys \cup {NULL}, outcome : Outcomes \cup {NULL},
     decryptFailed : BOOLEAN, ans : Answers \cup {NULL}]

\* Types of the shared tables and of the locals of every forward call.
TypeOK ==
    /\ keys \in [Keys -> Rows]
    /\ store \in [Keys -> Nat]
    /\ fails \in [Keys -> [n : Nat, first : Nat]]
    /\ current \in [Keys -> Nat]
    /\ probing \in [Keys -> Nat \cup {NULL}]
    /\ clock \in Nat
    /\ loc \in [Requests -> Locals]

\* The requests inside the try ... finally that owns a lease of key k.
Holders(k) ==
    {r \in Requests :
        /\ loc[r].key = k
        /\ \/ loc[r].pc \in {"decrypt", "upstream"}
           \/ loc[r].pc = "failure" /\ loc[r].outcome \in {"timeout", "http_error"}}

\* The counter of ConcurrencyManager is exactly the number of forward calls
\* that hold a lease of the key, on every path through forward (response,
\* timeout, transport error, undecryptable key, pinned or not), and it never
\* exceeds max_concurrent: no path leaks a lease or returns it twice.
LeasesBalanced ==
    \A k \in Keys :
        /\ current[k] = Counted * Cardinality(Holders(k))
        /\ MaxConcurrent > 0 => current[k] <= MaxConcurrent

\* The retry loop of forward never asks one key twice, however the keys' rows
\* change between the attempts, and makes at most max_retries + 1 upstream
\* calls; a pinned request asks no key but its own.
AttemptsDistinct ==
    \A r \in Requests : LET L == loc[r] IN
        /\ L.attempts <= Budget
        /\ IF L.pinned THEN L.used \subseteq {L.pin}
           ELSE /\ L.attempts <= Cardinality(L.used)
                /\ Cardinality(L.used) <= Budget

\* The retry_count a pool request reports is the number of keys it gave up
\* before the key it reports, whichever way the keys were given up (busy,
\* denied by the token bucket, undecryptable, 429, out of credits, invalid)
\* and whichever of the return statements of forward is taken.
RetryCountIsSwitches ==
    \A r \in Requests : LET L == loc[r] IN
        L.pc = "done" /\ ~L.pinned /\ L.ans.of # NULL =>
            L.ans.retry = Cardinality(L.tried \ {L.ans.key})

\* Once a key has answered with an error response, running out of keys never
\* replaces that response by an error of the gateway's own selection.
LastErrorSurfaces ==
    \A r \in Requests : LET L == loc[r] IN
        L.pc = "done" /\ L.lastErr # NULL /\ ~L.decryptFailed =>
            L.ans.code \notin {"ALL_KEYS_DISABLED", "ALL_KEYS_NO_CREDITS",
                               "ALL_KEYS_COOLING", "ALL_KEYS_RATE_LIMITED",
                               "NO_KEY_AVAILABLE", "ALL_KEYS_BUSY"}

\* A key that was disabled, by the administrator or because the upstream
\* rejected it, becomes active again only by an administrator's enable or
\* revive: no request that still holds an older copy of the row, and no late
\* credit probe, turns it on.
DisabledStays ==
    [][(\E k \in Keys : ~keys[k].active /\ keys'[k].active)
         => \E k \in Keys : AdminEnable(k) \/ AdminRevive(k)]_vars

\* A forward call that has started ends.
EveryForwardEnds ==
    \A r \in Requests : loc[r].pc # "idle" ~> loc[r].pc = "done"

=============================================================================
