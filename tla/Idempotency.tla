---------------------------- MODULE Idempotency ----------------------------
(***************************************************************************)
(* The idempotency protocol of app/core/idempotency.py as the crawl, agent *)
(* and batch endpoints run it (app/api/data_plane.py):                     *)
(*                                                                         *)
(*     start_or_replay ; forward to the upstream ; complete                *)
(*                                                                         *)
(* Requests run in worker threads or in several processes that share one   *)
(* database, so every database transaction is an action of its own and any *)
(* two requests interleave between two transactions.  A record is found by *)
(* its primary key when it is deleted or completed, which is why the way   *)
(* the database hands out primary keys is part of the model.               *)
(*                                                                         *)
(* The upstream's response is identified with the request whose execution  *)
(* produced it: answer[r] = r is r's own response, answer[r] = q a replay  *)
(* of q's response, and a string an error code.                            *)
(***************************************************************************)
EXTENDS Integers, FiniteSets, FiniteSetsExt

CONSTANTS
    Requests,   \* HTTP requests, each handled once
    Clients,    \* rows of the clients table
    IdemKeys,   \* values of the X-Idempotency-Key header
    Hashes,     \* values of _hash_request(method, endpoint, payload)
    RequireOn,  \* the hashes whose endpoint is in idempotency.require_on
    Enabled,    \* idempotency.enabled
    TtlSeconds, \* idempotency.ttl_seconds
    GraceMin,   \* lower bound of the takeover grace period (30 in the code)
    GraceMax,   \* its upper bound (120 in the code)
    ReuseIds,   \* TRUE: SQLite rowids, max + 1; FALSE: a PostgreSQL sequence
    Faults,     \* the database calls that may fail
    MaxClock,   \* bound on the clock
    NULL        \* None

Codes == {"CLIENT_UNAUTHORIZED", "IDEMPOTENCY_KEY_REQUIRED", 
          "IDEMPOTENCY_KEY_CONFLICT", "IDEMPOTENCY_IN_PROGRESS", "DB_UNAVAILABLE",
          "UNHANDLED", "FORWARD_FAILED"}

FaultPoints == {"cleanup", "insert", "refresh", "lookup", "delete", "complete"}

ASSUME BoundsAssumption ==
    /\ TtlSeconds \in Int
    /\ GraceMin \in Nat /\ GraceMax \in Nat
    /\ MaxClock \in Nat

ASSUME FlagsAssumption ==
    /\ Enabled \in BOOLEAN /\ ReuseIds \in BOOLEAN
    /\ Faults \subseteq FaultPoints
    /\ RequireOn \subseteq Hashes

ASSUME NullAssumption ==
    /\ NULL \notin Requests \cup IdemKeys \cup Int \cup Codes
    /\ Requests \cap Codes = {}

VARIABLES
    recs,     \* table idempotency_records: id -> row
    seq,      \* next value of the id sequence (used when ~ReuseIds)
    clients,  \* ids present in table clients
    clock,    \* datetime.now, in units of the configured durations
    pc,       \* where each request is
    req,      \* client, idempotency key and hash of each request
    now,      \* the local `now` of the running start_or_replay call
    rid,      \* ctx.record_id, NULL when ctx is None
    victim,   \* id of the `existing` row start_or_replay decided to delete
    since,    \* auxiliary: when the request's record was inserted
    answer    \* what the handler returned

vars == <<recs, seq, clients, clock, pc, req, now, rid, victim, since, answer>>

(***************************************************************************)
(* Derived configuration values.                                           *)
(***************************************************************************)
Larger(a, b) == IF a >= b THEN a ELSE b
Smaller(a, b) == IF a <= b THEN a ELSE b

Ttl == Larger(TtlSeconds, 1)
StaleAfter == Smaller(Larger(TtlSeconds \div 12, GraceMin), GraceMax)

(***************************************************************************)
(* The table.                                                              *)
(***************************************************************************)
Args == [client : Clients, key : IdemKeys \cup {NULL}, hash : Hashes]

Rows == [client : Clients, key : IdemKeys, hash : Hashes,
         status : {"in_progress", "completed"}, resp : Requests \cup {NULL},
         created : Nat, expires : Nat]

NewRow(r) == [client |-> req[r].client, key |-> req[r].key,
              hash |-> req[r].hash, status |-> "in_progress", resp |-> NULL,
              created |-> clock, expires |-> now[r] + Ttl]

NextId == IF ReuseIds THEN Max(DOMAIN recs \cup {0}) + 1 ELSE seq

WithRow(id, row) ==
    [i \in DOMAIN recs \cup {id} |-> IF i = id THEN row ELSE recs[i]]

Without(ids) == [i \in DOMAIN recs \ ids |-> recs[i]]

\* The row of the unique constraint (client_id, idempotency_key), if any.
SlotIds(r) == {i \in DOMAIN recs : /\ recs[i].client = req[r].client
                                   /\ recs[i].key = req[r].key}

Expired(t) == {i \in DOMAIN recs : recs[i].expires < t}

\* The row complete() works on: the one with id ctx.record_id, if it is left.
OwnIdsBySlot(r) == SlotIds(r)  \* mutant: found by the unique key instead
OwnIds(r) == {rid[r]} \cap DOMAIN recs

\* The row once its response is stored.
StoredNoStatus(row, r) == [row EXCEPT !.resp = r]  \* mutant: status forgotten
Stored(row, r) == [row EXCEPT !.status = "completed", !.resp = r]

\* The table after DELETE ... WHERE id = :id.
DeletedLost(id) == recs  \* mutant: the deletion is not committed
Deleted(id) == Without({id})

\* existing.request_hash == request_hash
SameHashUnchecked(row, r) == TRUE  \* mutant: the comparison is dropped
SameHash(row, r) == row.hash = req[r].hash

\* An in_progress row old enough to be taken over.
IsStaleOffByOne(row, t) ==  \* mutant: >= for >
    row.status = "in_progress" /\ t - row.created >= StaleAfter
IsStale(row, t) == row.status = "in_progress" /\ t - row.created > StaleAfter

-----------------------------------------------------------------------------
Init ==
    /\ recs = [i \in {} |-> NULL]
    /\ seq = 1
    /\ clients = Clients
    /\ clock = 0
    /\ pc = [r \in Requests |-> "idle"]
    /\ req \in [Requests -> Args]
    /\ now = [r \in Requests |-> 0]
    /\ rid = [r \in Requests |-> NULL]
    /\ victim = [r \in Requests |-> NULL]
    /\ since = [r \in Requests |-> NULL]
    /\ answer = [r \in Requests |-> NULL]

Goto(r, label) == pc' = [pc EXCEPT ![r] = label]

Answer(r, a) == /\ answer' = [answer EXCEPT ![r] = a]
                /\ Goto(r, "done")

\* require_client, then start_or_replay up to its early returns, else the call's own `now`.
Begin(r) ==
    /\ pc[r] = "idle"
    /\ \/ /\ req[r].client \notin clients
          /\ Answer(r, "CLIENT_UNAUTHORIZED")
          /\ now' = now
       \/ /\ req[r].client \in clients
          /\ Enabled /\ req[r].key = NULL /\ req[r].hash \in RequireOn
          /\ Answer(r, "IDEMPOTENCY_KEY_REQUIRED")
          /\ now' = now
       \/ /\ req[r].client \in clients
          /\ ~Enabled \/ (req[r].key = NULL /\ req[r].hash \notin RequireOn)
          /\ Goto(r, "forward")
          /\ UNCHANGED <<now, answer>>
       \/ /\ req[r].client \in clients
          /\ Enabled /\ req[r].key # NULL
          /\ now' = [now EXCEPT ![r] = clock]
          /\ Goto(r, "cleanup")
          /\ UNCHANGED answer
    /\ UNCHANGED <<recs, seq, clients, clock, req, rid, victim, since>>

\* _cleanup_expired; a failure is logged and swallowed.
Cleanup(r) ==
    /\ pc[r] = "cleanup"
    /\ \/ recs' = Without({i \in Expired(now[r]) :
                             recs[i].client = req[r].client})
       \/ "cleanup" \in Faults /\ recs' = recs
    /\ Goto(r, "insert")
    /\ UNCHANGED <<seq, clients, clock, req, now, rid, victim, since, answer>>

\* db.add, db.commit: the unique constraint (or the foreign key of a purged
\* client) sends the request to the lookup.
Insert(r) ==
    /\ pc[r] = "insert"
    /\ \/ /\ SlotIds(r) = {} /\ req[r].client \in clients
          /\ recs' = WithRow(NextId, NewRow(r))
          /\ seq' = seq + 1
          /\ rid' = [rid EXCEPT ![r] = NextId]
          /\ since' = [since EXCEPT ![r] = clock]
          /\ Goto(r, "refresh")
          /\ UNCHANGED answer
       \/ /\ SlotIds(r) # {} \/ req[r].client \notin clients
          /\ Goto(r, "lookup")
          /\ UNCHANGED <<recs, seq, rid, since, answer>>
       \/ /\ "insert" \in Faults
          /\ Answer(r, "DB_UNAVAILABLE")
          /\ UNCHANGED <<recs, seq, rid, since>>
    /\ UNCHANGED <<clients, clock, req, now, victim>>

\* db.refresh(record) reads the new row back; the row may be gone already.
Refresh(r) ==
    /\ pc[r] = "refresh"
    /\ \/ /\ rid[r] \in DOMAIN recs
          /\ Goto(r, "forward")
          /\ UNCHANGED <<rid, answer>>
       \/ /\ rid[r] \notin DOMAIN recs \/ "refresh" \in Faults
          /\ rid' = [rid EXCEPT ![r] = NULL]
          /\ Answer(r, "DB_UNAVAILABLE")
    /\ UNCHANGED <<recs, seq, clients, clock, req, now, victim, since>>

\* The `except IntegrityError` branch, up to the decision it takes.
Lookup(r) ==
    /\ pc[r] = "lookup"
    /\ \/ /\ SlotIds(r) = {}
          /\ Answer(r, "DB_UNAVAILABLE")
          /\ UNCHANGED victim
       \/ /\ "lookup" \in Faults
          /\ Answer(r, "UNHANDLED")
          /\ UNCHANGED victim
       \/ \E i \in SlotIds(r) :
            LET row == recs[i] IN
            \/ /\ \/ row.expires < now[r]
                  \/ SameHash(row, r) /\ IsStale(row, now[r])
               /\ victim' = [victim EXCEPT ![r] = i]
               /\ Goto(r, "delete")
               /\ UNCHANGED answer
            \/ /\ row.expires >= now[r]
               /\ UNCHANGED victim
               /\ \/ /\ ~SameHash(row, r)
                     /\ Answer(r, "IDEMPOTENCY_KEY_CONFLICT")
                  \/ /\ SameHash(row, r) /\ row.status = "completed"
                     /\ Answer(r, row.resp)
                  \/ /\ SameHash(row, r) /\ row.status = "in_progress"
                     /\ ~IsStale(row, now[r])
                     /\ Answer(r, "IDEMPOTENCY_IN_PROGRESS")
    /\ UNCHANGED <<recs, seq, clients, clock, req, now, rid, since>>

\* db.delete(existing), db.commit, and the recursive call.  The DELETE names
\* the primary key only; a row that is already gone is a warning.
Delete(r) ==
    /\ pc[r] = "delete"
    /\ \/ /\ recs' = Deleted(victim[r])
          /\ now' = [now EXCEPT ![r] = clock]
          /\ Goto(r, "cleanup")
          /\ UNCHANGED answer
       \/ /\ "delete" \in Faults
          /\ Answer(r, "DB_UNAVAILABLE")
          /\ UNCHANGED <<recs, now>>
    /\ victim' = [victim EXCEPT ![r] = NULL]
    /\ UNCHANGED <<seq, clients, clock, req, rid, since>>

\* Forwarder.forward returns a response, or raises and the record stays.
Forward(r) ==
    /\ pc[r] = "forward"
    /\ \/ Goto(r, "complete") /\ UNCHANGED answer
       \/ Answer(r, "FORWARD_FAILED")
    /\ UNCHANGED <<recs, seq, clients, clock, req, now, rid, victim, since>>

\* complete: the record is found by id; a missing record, an oversized body
\* and a database failure leave the table alone.
Complete(r) ==
    /\ pc[r] = "complete"
    /\ \/ \E i \in OwnIds(r) : recs' = WithRow(i, Stored(recs[i], r))
       \/ /\ OwnIds(r) = {} \/ "complete" \in Faults
          /\ recs' = recs
    /\ Answer(r, r)
    /\ UNCHANGED <<seq, clients, clock, req, now, rid, victim, since>>

\* The process that handles the request dies between two transactions.
Crash(r) ==
    /\ pc[r] \notin {"idle", "done", "crashed"}
    /\ Goto(r, "crashed")
    /\ UNCHANGED <<recs, seq, clients, clock, req, now, rid, victim, since, answer>>

\* cleanup_retention, the expiry part.
CleanupRetention ==
    /\ Expired(clock) # {}
    /\ recs' = Without(Expired(clock))
    /\ UNCHANGED <<seq, clients, clock, pc, req, now, rid, victim, since, answer>>

\* DELETE /admin/clients/{id}/purge.
PurgeClient(c) ==
    /\ c \in clients
    /\ recs' = Without({i \in DOMAIN recs : recs[i].client = c})
    /\ clients' = clients \ {c}
    /\ UNCHANGED <<seq, clock, pc, req, now, rid, victim, since, answer>>

Tick ==
    /\ clock < MaxClock
    /\ clock' = clock + 1
    /\ UNCHANGED <<recs, seq, clients, pc, req, now, rid, victim, since, answer>>

Step(r) == \/ Cleanup(r) \/ Insert(r) \/ Refresh(r) \/ Lookup(r)
           \/ Delete(r) \/ Forward(r) \/ Complete(r)

Settled(r) == pc[r] \in {"done", "crashed"}

\* Every request is settled: the instance has nothing left to do.
Quiescent == (\A r \in Requests : Settled(r)) /\ UNCHANGED vars

Next ==
    \/ \E r \in Requests : Begin(r) \/ Step(r) \/ Crash(r)
    \/ CleanupRetention
    \/ \E c \in Clients : PurgeClient(c)
    \/ Tick
    \/ Quiescent

\* A request that has begun keeps running until it returns: the threads of
\* the worker pool are scheduled, and the upstream call has a timeout.
Fairness == \A r \in Requests : WF_vars(Step(r))

Spec == Init /\ [][Next]_vars

FairSpec == Spec /\ Fairness

-----------------------------------------------------------------------------
Labels == {"idle", "cleanup", "insert", "refresh", "lookup", "delete",
           "forward", "complete", "done", "crashed"}

\* Types of the table and of every request's local variables; a response is
\* stored together with the status that announces it.
TypeOK ==
    /\ DOMAIN recs \subseteq Nat
    /\ \A i \in DOMAIN recs :
         /\ recs[i] \in Rows
         /\ recs[i].status = "completed" <=> recs[i].resp # NULL
    /\ seq \in Nat
    /\ clients \subseteq Clients
    /\ clock \in Nat
    /\ pc \in [Requests -> Labels]
    /\ req \in [Requests -> Args]
    /\ now \in [Requests -> Nat]
    /\ rid \in [Requests -> Nat \cup {NULL}]
    /\ victim \in [Requests -> Nat \cup {NULL}]
    /\ since \in [Requests -> Nat \cup {NULL}]
    /\ answer \in [Requests -> Requests \cup Codes \cup {NULL}]

SameSlot(p, q) == /\ req[p].client = req[q].client
                  /\ req[p].key = req[q].key

\* A response is only ever replayed to a request of the same client, with the
\* same idempotency key and the same request hash as the request it answered:
\* the reader of a record and the writer of its response agree on what it is
\* for, although complete() finds the record by id alone.
ReplayMatches ==
    \A r \in Requests : answer[r] \in Requests =>
        req[answer[r]] = req[r]

Grace == Smaller(Ttl, StaleAfter)

\* start_or_replay lets a second request execute the same client's idempotency
\* key only after a grace period: of any two requests that ever inserted a
\* record for one slot, the later one did so more than min(TTL, stale_after)
\* after the earlier one entered start_or_replay.  No interleaving of two
\* takeovers, of a takeover and a cleanup, or of a crash shortens it.
TakeoverAfterGrace ==
    \A p, q \in Requests :
        p # q /\ since[p] # NULL /\ since[q] # NULL /\ SameSlot(p, q) =>
            since[q] > now[p] + Grace \/ since[p] > now[q] + Grace

\* The response of a completed record is never replaced: two retries that are
\* both answered from one record get the same response.
ResponseStable ==
    [][\A i \in DOMAIN recs \cap DOMAIN recs' :
         recs[i].status = "completed" => recs'[i] = recs[i]]_vars

\* Every request that enters start_or_replay is answered unless its process
\* dies: the recursion after a takeover or an expiry terminates even when other
\* requests keep re-inserting the record.
EveryRequestAnswered ==
    \A r \in Requests : pc[r] = "cleanup" ~> Settled(r)

=============================================================================
