----------------------------- MODULE Governance -----------------------------
(***************************************************************************)
(* The governance every data-plane request of one client passes through    *)
(* (app/api/deps.py): require_client, the concurrency lease, the token     *)
(* bucket, the daily quota with its lazy reset, and, after a 2xx answer,   *)
(* the usage counter that Forwarder._consume_quota_on_success commits.     *)
(*                                                                         *)
(* The dependencies and the endpoint share one session and one Client      *)
(* object, loaded before the lease is taken.  The object keeps the values  *)
(* it was loaded with until the request ends or a rollback expires it; a   *)
(* commit writes the columns that differ from the loaded ones.  It is      *)
(* dropped here (NULL) once nothing reads it any more.                     *)
(*                                                                         *)
(* Leases are those of the in-memory ConcurrencyManager.  The token bucket *)
(* is abstracted to a denial that may happen, the endpoint to its outcome. *)
(***************************************************************************)
EXTENDS Integers, FiniteSets

CONSTANTS
    Requests,     \* requests of the client, each served once
    Quotas,       \* values of daily_quota: naturals, or NULL for none
    Limits,       \* values of max_concurrent, 0 for no limit
    InitUsage,    \* daily_usage at the start
    QuotaCheck,   \* quota.enable_quota_check
    CountMode,    \* quota.count_mode
    RateLimited,  \* the token bucket may deny
    Faults,       \* the database calls that may fail
    AdminOps,     \* the control-plane operations that may occur
    MaxDay,       \* bound on the calendar
    NULL

\* is_active, daily_quota, max_concurrent, daily_usage, quota_reset_at
Rows == [active : BOOLEAN, quota : Nat \cup {NULL}, max : Nat,
         usage : Nat, resetAt : Nat]

ASSUME GovernanceAssumption ==
    /\ Quotas \subseteq Nat \cup {NULL}
    /\ Limits \subseteq Nat
    /\ InitUsage \subseteq Nat
    /\ QuotaCheck \in BOOLEAN /\ RateLimited \in BOOLEAN
    /\ CountMode \in {"success", "attempt"}
    /\ Faults \subseteq {"lookup", "flush", "commit", "consume"}
    /\ AdminOps \subseteq {"update", "disable", "enable", "purge"}
    /\ MaxDay \in Nat
    /\ NULL \notin Nat \cup Rows
    /\ IsFiniteSet(Requests)

VARIABLES
    row,      \* the client's row in table clients, NULL once purged
    current,  \* ConcurrencyManager._states[client].current
    day,      \* today_in_timezone(quota.timezone)
    loc,      \* the locals of each request
    total     \* auxiliary: 2xx answers of the upstream so far

vars == <<row, current, day, loc, total>>

\* obj is the Client object, as loaded; reset is the object after the lazy
\* reset that is being committed.
Fresh == [pc |-> "idle", obj |-> NULL, reset |-> NULL, lease |-> "none", ans |-> NULL]

Init ==
    /\ \E q \in Quotas, m \in Limits, u \in InitUsage :
         /\ row = [active |-> TRUE, quota |-> q, max |-> m, usage |-> u, resetAt |-> 0]
         /\ total = u
    /\ current = 0
    /\ day = 0
    /\ loc = [r \in Requests |-> Fresh]

Set(r, L) == loc' = [loc EXCEPT ![r] = L]

\* A commit of the object loaded as `old` and changed to `new`.
Flush(old, new) ==
    [c \in DOMAIN row |-> IF new[c] = old[c] THEN row[c] ELSE new[c]]

(***************************************************************************)
(* Lease.release: a second call does nothing, a lease without a limit has  *)
(* nothing to return.                                                      *)
(***************************************************************************)
ReleaseForgotten(L) == current  \* mutant: an exit without release
Release(L) == IF L.lease = "counted" THEN (IF current > 0 THEN current - 1 ELSE 0)
              ELSE current

\* The request ends: its session is closed, its objects are dropped.
Ended(L, code) ==
    [L EXCEPT !.pc = "done", !.obj = NULL, !.reset = NULL, !.ans = code]

\* The exits that release the lease first.
Answer(r, code) ==
    /\ Set(r, Ended([loc[r] EXCEPT !.lease = "none"], code))
    /\ current' = Release(loc[r])

(***************************************************************************)
(* require_client: the row is loaded, before the lease is taken.           *)
(***************************************************************************)
RequireClient(r) ==
    /\ loc[r].pc = "idle"
    /\ \/ /\ row # NULL /\ row.active
          /\ Set(r, [loc[r] EXCEPT !.pc = "lease", !.obj = row])
       \/ /\ row # NULL /\ ~row.active
          /\ Set(r, Ended(loc[r], "CLIENT_DISABLED"))
       \/ /\ row = NULL
          /\ Set(r, Ended(loc[r], "CLIENT_UNAUTHORIZED"))
       \/ /\ "lookup" \in Faults
          /\ Set(r, Ended(loc[r], "DB_UNAVAILABLE"))
    /\ UNCHANGED <<row, current, day, total>>

(***************************************************************************)
(* try_acquire with the limit of the held object.                          *)
(***************************************************************************)
AcquirableOffByOne(max) == current <= max  \* mutant: one lease too many
Acquirable(max) == current < max

TryAcquire(r) ==
    LET max == loc[r].obj.max IN
    /\ loc[r].pc = "lease"
    /\ \/ /\ max <= 0
          /\ Set(r, [loc[r] EXCEPT !.pc = "rate", !.lease = "free"])
          /\ UNCHANGED current
       \/ /\ max > 0 /\ Acquirable(max)
          /\ current' = current + 1
          /\ Set(r, [loc[r] EXCEPT !.pc = "rate", !.lease = "counted"])
       \/ /\ max > 0 /\ ~Acquirable(max)
          /\ Set(r, Ended(loc[r], "CLIENT_CONCURRENCY_LIMITED"))
          /\ UNCHANGED current
    /\ UNCHANGED <<row, day, total>>

Allow(r) ==
    /\ loc[r].pc = "rate"
    /\ \/ /\ Set(r, [loc[r] EXCEPT !.pc = "quota"])
          /\ UNCHANGED current
       \/ /\ RateLimited
          /\ Answer(r, "CLIENT_RATE_LIMITED")
    /\ UNCHANGED <<row, day, total>>

(***************************************************************************)
(* The quota check on the held object, reset in memory when it is of an    *)
(* earlier day ...                                                         *)
(***************************************************************************)
Governed(c) == QuotaCheck /\ c.quota # NULL

LazyResetNoDate(c) == [c EXCEPT !.usage = 0, !.resetAt = NULL]  \* mutant: date cleared
LazyReset(c) == [c EXCEPT !.usage = 0, !.resetAt = day]

Exceeded(c) == c.usage >= c.quota

CheckQuota(r) ==
    LET c == loc[r].obj IN
    /\ loc[r].pc = "quota"
    /\ \/ /\ ~Governed(c)
          /\ Set(r, [loc[r] EXCEPT !.pc = "serve"])
          /\ UNCHANGED current
       \/ /\ Governed(c) /\ c.resetAt # day
          /\ Set(r, [loc[r] EXCEPT !.pc = "reset", !.reset = LazyReset(c)])
          /\ UNCHANGED current
       \/ /\ Governed(c) /\ c.resetAt = day /\ ~Exceeded(c)
          /\ Set(r, [loc[r] EXCEPT !.pc = "serve"])
          /\ UNCHANGED current
       \/ /\ Governed(c) /\ c.resetAt = day /\ Exceeded(c)
          /\ Answer(r, "CLIENT_QUOTA_EXCEEDED")
    /\ UNCHANGED <<row, day, total>>

\* The UPDATE of the reset fails, also because the row is gone.
FlushFails == row = NULL \/ "flush" \in Faults

(***************************************************************************)
(* ... and the commit of the reset.  A refused request ignores a failure.  *)
(* For an admitted one the except branch logs client.id and then releases: *)
(* when the COMMIT failed the id is at hand; when the UPDATE failed, the   *)
(* session has expired the object and waits for a rollback, reading        *)
(* client.id raises in turn ("session_error"), release is not reached.     *)
(***************************************************************************)
CommitReset(r) ==
    LET L == loc[r] IN
    /\ L.pc = "reset"
    /\ \/ /\ row # NULL /\ ~Exceeded(L.reset)
          /\ row' = Flush(L.obj, L.reset)
          /\ Set(r, [L EXCEPT !.pc = "serve", !.obj = L.reset, !.reset = NULL])
          /\ UNCHANGED current
       \/ /\ row # NULL /\ Exceeded(L.reset)
          /\ row' = Flush(L.obj, L.reset)
          /\ Answer(r, "CLIENT_QUOTA_EXCEEDED")
       \/ /\ FlushFails \/ "commit" \in Faults
          /\ Exceeded(L.reset)
          /\ Answer(r, "CLIENT_QUOTA_EXCEEDED")
          /\ UNCHANGED row
       \/ /\ "commit" \in Faults /\ row # NULL /\ ~Exceeded(L.reset)
          /\ Answer(r, "DB_UNAVAILABLE")
          /\ UNCHANGED row
       \/ /\ FlushFails /\ ~Exceeded(L.reset)
          /\ Set(r, Ended(L, "session_error"))
          /\ UNCHANGED <<row, current>>
    /\ UNCHANGED <<day, total>>

(***************************************************************************)
(* The endpoint: idempotency and forward.  A rollback on the way (a lost   *)
(* insert, a failed commit) expires the Client object.                     *)
(***************************************************************************)
\* With any other count_mode a success is not accounted for.
AfterSuccess(L) == IF CountMode = "success" THEN [L EXCEPT !.pc = "consume"]
                   ELSE [L EXCEPT !.pc = "leave", !.obj = NULL]

AfterOtherCounted(L) == [L EXCEPT !.pc = "consume"]  \* mutant: every answer counts
AfterOtherRetried(L) == [L EXCEPT !.pc = "quota"]  \* mutant: retried without a bound
AfterOther(L) == [L EXCEPT !.pc = "leave", !.obj = NULL]

Serve(r) ==
    /\ loc[r].pc = "serve"
    /\ \/ /\ \E obj \in {loc[r].obj, NULL} :
               Set(r, AfterSuccess([loc[r] EXCEPT !.obj = obj]))
          /\ total' = total + 1
       \/ /\ Set(r, AfterOther(loc[r]))
          /\ UNCHANGED total
    /\ UNCHANGED <<row, current, day>>

\* The next access of an expired object loads it again.
Reload(r) ==
    /\ loc[r].pc = "consume" /\ loc[r].obj = NULL
    /\ \/ row # NULL /\ Set(r, [loc[r] EXCEPT !.obj = row])
       \/ row = NULL /\ Set(r, [loc[r] EXCEPT !.pc = "failed"])
    /\ UNCHANGED <<row, current, day, total>>

(***************************************************************************)
(* _consume_quota_on_success: one more than the object says.               *)
(***************************************************************************)
Used(c) == IF c.quota = NULL THEN c ELSE [c EXCEPT !.usage = @ + 1]

Consume(r) ==
    LET L == loc[r] IN
    /\ L.pc = "consume" /\ L.obj # NULL
    /\ \/ /\ row # NULL
          /\ row' = Flush(L.obj, Used(L.obj))
          /\ Set(r, [L EXCEPT !.pc = "leave", !.obj = NULL])
       \/ /\ row = NULL \/ "consume" \in Faults
          /\ Set(r, [L EXCEPT !.pc = "failed", !.obj = NULL])
          /\ UNCHANGED row
    /\ UNCHANGED <<current, day, total>>

\* The end of the request: the finally clause of the dependency.  "error" is
\* 503, or 500 when the handler of the failure fails in turn.
Leave(r) ==
    /\ loc[r].pc \in {"leave", "failed"}
    /\ Answer(r, IF loc[r].pc = "leave" THEN "response" ELSE "error")
    /\ UNCHANGED <<row, day, total>>

(***************************************************************************)
(* The administrator: update_client, delete_client and the batch endpoint, *)
(* purge_client.                                                           *)
(***************************************************************************)
UpdateClient ==
    /\ "update" \in AdminOps /\ row # NULL
    /\ \E q \in Quotas, m \in Limits :
         row' = [row EXCEPT !.quota = q, !.max = m]
    /\ UNCHANGED <<current, day, loc, total>>

SetActive ==
    /\ row # NULL
    /\ \/ "disable" \in AdminOps /\ row' = [row EXCEPT !.active = FALSE]
       \/ "enable" \in AdminOps /\ row' = [row EXCEPT !.active = TRUE]
    /\ UNCHANGED <<current, day, loc, total>>

PurgeClient ==
    /\ "purge" \in AdminOps /\ row # NULL
    /\ row' = NULL
    /\ UNCHANGED <<current, day, loc, total>>

Midnight ==
    /\ day < MaxDay
    /\ day' = day + 1
    /\ UNCHANGED <<row, current, loc, total>>

Step(r) == \/ TryAcquire(r) \/ Allow(r) \/ CheckQuota(r) \/ CommitReset(r)
           \/ Serve(r) \/ Reload(r) \/ Consume(r) \/ Leave(r)

Admin == UpdateClient \/ SetActive \/ PurgeClient

Quiescent == (\A r \in Requests : loc[r].pc = "done") /\ UNCHANGED vars

Next ==
    \/ \E r \in Requests : RequireClient(r) \/ Step(r)
    \/ Admin \/ Midnight
    \/ Quiescent

\* A request that was admitted keeps running on its thread.
Fairness == \A r \in Requests : WF_vars(Step(r))

Spec == Init /\ [][Next]_vars

FairSpec == Spec /\ Fairness

-----------------------------------------------------------------------------
Labels == {"idle", "lease", "rate", "quota", "reset", "serve", "consume",
           "leave", "failed", "done"}

Codes == {"CLIENT_UNAUTHORIZED", "CLIENT_DISABLED", "CLIENT_CONCURRENCY_LIMITED",
          "CLIENT_RATE_LIMITED", "CLIENT_QUOTA_EXCEEDED", "DB_UNAVAILABLE",
          "response", "error", "session_error"}

Locals == [pc : Labels, obj : Rows \cup {NULL}, reset : Rows \cup {NULL},
           lease : {"none", "free", "counted"}, ans : Codes \cup {NULL}]

\* Types of the row, the lease counter and the locals; the object is loaded
\* wherever the code reads it.
TypeOK ==
    /\ row \in Rows \cup {NULL}
    /\ current \in Nat /\ day \in Nat /\ total \in Nat
    /\ loc \in [Requests -> Locals]
    /\ \A r \in Requests :
         /\ loc[r].pc \in {"lease", "rate", "quota", "reset", "serve"} => loc[r].obj # NULL
         /\ loc[r].pc = "reset" => loc[r].reset # NULL /\ Governed(loc[r].reset)

\* The requests that hold a counted lease and are still being served.
Inside == {r \in Requests : loc[r].lease = "counted" /\ loc[r].pc # "done"}

\* The requests that ended without giving back their lease: the UPDATE of the
\* lazy reset failed and the except branch raised before lease.release().
Leaked == {r \in Requests : loc[r].lease = "counted" /\ loc[r].ans = "session_error"}

\* The counter of ConcurrencyManager is exactly the number of requests that are
\* being served under a limit, and of the slots lost for good: each exit of
\* enforce_client_governance (denied, refused, failed, served) has given back
\* its lease, once, also when the administrator switched the limit off or on
\* or purged the client in between, and the one exit that does not is the
\* failing UPDATE of an admitted request's lazy reset.
LeasesReturned == current = Cardinality(Inside \cup Leaked)

\* What the notes say of counting in the process (docs/agent.md:403): a failing
\* database leaves no count behind, so that the counter of a client that still
\* exists is the number of its requests in flight.
CounterIsInFlight == row # NULL => current = Cardinality(Inside)

\* A lease is granted only while fewer requests than the limit the request
\* read are being served under a limit.
GrantsBounded ==
    [][\A r \in Requests :
         loc[r].pc = "lease" /\ loc'[r].lease = "counted"
           => Cardinality(Inside) < loc[r].obj.max]_vars

\* The requests whose 2xx answer is not yet accounted for.
Pending == {r \in Requests : loc[r].pc = "consume"}

\* daily_usage counts 2xx answers only, each once: neither the row nor any
\* copy that a request still holds, however old, claims more answers than
\* have been accounted for.  A client is never refused on the count of
\* requests that failed or are not finished.
UsageBacked ==
    /\ row # NULL => row.usage + Cardinality(Pending) <= total
    /\ \A r \in Requests : loc[r].obj # NULL =>
         loc[r].obj.usage + Cardinality(Pending) <= total

\* All leases come back but the ones that leaked: a client at its limit is not
\* locked out by requests that ended in any other way.
LeasesDrain == current > Cardinality(Leaked) ~> current = Cardinality(Leaked)

=============================================================================
