----------------------------- MODULE Resources -----------------------------
(***************************************************************************)
(* The asynchronous tasks of the upstream (crawls, batches, agents, browser*)
(* sessions, extractions) as the endpoints of app/api create and poll them.*)
(* A task can only be seen with the key that created it, so the gateway    *)
(* binds the task to that key and pins later requests to it.               *)
(*                                                                         *)
(* Composed here, each as far as a task depends on it: the handlers of the *)
(* four routers, the idempotency record (one key and payload per client;   *)
(* Idempotency has the details), Forwarder.forward in one step (Forwarder  *)
(* has the details), the table of bindings, the request log of the         *)
(* middleware, purging, and the retention job.  Every transaction is an    *)
(* action.                                                                 *)
(***************************************************************************)
EXTENDS Integers, FiniteSets

CONSTANTS
    Clients,    \* rows of clients
    Keys,       \* rows of api_keys
    Requests,   \* HTTP requests, each handled once
    RequireOn,  \* idempotency.require_on
    Offered,    \* the endpoints requests use, a subset of Endpoints
    Tasks,      \* bound on the tasks of the upstream: ids 1..Tasks
    Faults,     \* the database calls that may fail, and "crash"
    MaxFaults,  \* bound on the number of faults
    MaxAdmin,   \* bound on the number of administrative actions
    NULL

FaultPoints == {"account", "bind", "lookup", "complete", "log", "crash"}

(***************************************************************************)
(* The endpoints.  type: the resource_type they bind or look up, NULL if   *)
(* they do neither; idem: the endpoint name given to start_or_replay, NULL *)
(* if it is not called; fallback: another path is tried after a 404 or 405.*)
(***************************************************************************)
Create(type, idem, fallback) == [kind |-> "create", type |-> type, idem |-> idem, fallback |-> fallback]
Use(type, fallback) == [kind |-> "use", type |-> type, idem |-> NULL, fallback |-> fallback]

V2CrawlCreate == {Create("crawl", "crawl", TRUE)}    \* /v2/crawl, /v2/crawl/start
V2CrawlStatus == {Use("crawl", TRUE)}                \* /v2/crawl/{id}, .../status/{id}
V2CrawlManage == {Use("crawl", FALSE)}               \* DELETE, .../errors
V2Agent == {Create("agent", "agent", FALSE)}
V2AgentManage == {Use("agent", FALSE)}               \* GET, DELETE
V2BatchCreate == {Create("batch_scrape", NULL, TRUE)}
V2BatchStatus == {Use("batch_scrape", TRUE)}
V2BatchManage == {Use("batch_scrape", FALSE)}
V2Browser == {Create("browser", NULL, FALSE), Use("browser", FALSE)}
V2Extract == {Create("extract", NULL, FALSE), Use("extract", FALSE)}
V1Crawl == {Create(NULL, "crawl", FALSE)}            \* /v1/crawl, /api/crawl: not bound
V1CrawlStatus == {Use(NULL, FALSE)}
V1Agent == {Create(NULL, "agent", TRUE)}
\* Synchronous calls, lists, previews and the catch-all: no task.
Plain == {[kind |-> "plain", type |-> NULL, idem |-> NULL, fallback |-> FALSE]}
Exa == Plain                                         \* /exa/search, findSimilar, contents, answer

Endpoints ==
    V2CrawlCreate \cup V2CrawlStatus \cup V2CrawlManage \cup V2Agent \cup V2AgentManage
      \cup V2BatchCreate \cup V2BatchStatus \cup V2BatchManage \cup V2Browser
      \cup V2Extract \cup V1Crawl \cup V1CrawlStatus \cup V1Agent \cup Plain \cup Exa

\* The tasks of the upstream and the idempotency records.
Ids == 1..Tasks
Types == {"crawl", "agent", "batch_scrape", "browser", "extract", NULL}
TaskRows == [key : Keys, client : Clients, type : Types, ctx : BOOLEAN]
Records == [by : Requests, ep : {"crawl", "agent", NULL}, status : {"in_progress", "completed"},
            ok : BOOLEAN, id : Ids \cup {NULL}]

ASSUME ResourcesAssumption ==
    /\ Offered \subseteq Endpoints
    /\ Tasks \in Nat /\ MaxFaults \in Nat /\ MaxAdmin \in Nat
    /\ Faults \subseteq FaultPoints
    /\ NULL \notin Requests \cup Keys \cup Clients \cup Nat
    /\ NULL \notin TaskRows \cup Records

VARIABLES
    clients,   \* ids present in table clients
    keys,      \* "usable", "unusable" (inactive, disabled, ...) or "gone"
    bindings,  \* table upstream_resource_bindings
    record,    \* the idempotency record of each client, NULL if none
    logs,      \* table request_logs
    task,      \* the upstream: for each id the creating key and request, or NULL
    loc,       \* the locals of each request
    faults, admin,
    told,      \* auxiliary: <<client, task>>, the client got a 2xx with the id
    unbound,   \* auxiliary: tasks whose binding could not be written
    removed    \* auxiliary: how many idempotency records of a client were deleted

tables == <<clients, keys, bindings, record, logs>>
aux == <<told, unbound, removed>>
vars == <<tables, task, loc, faults, admin, aux>>

Idle == [pc |-> "idle", client |-> NULL, ep |-> NULL, keyed |-> FALSE, ctx |-> FALSE,
         id |-> NULL, pin |-> NULL, second |-> FALSE, key |-> NULL, ok |-> FALSE,
         knew |-> FALSE]

Init ==
    /\ clients = Clients
    /\ keys = [k \in Keys |-> "usable"]
    /\ bindings = {} /\ logs = {}
    /\ record = [c \in Clients |-> NULL]
    /\ task = [t \in 1..Tasks |-> NULL]
    /\ loc = [r \in Requests |-> Idle]
    /\ faults = 0 /\ admin = 0
    /\ told = {} /\ unbound = {} /\ removed = [c \in Clients |-> 0]

At(r, pc) == loc[r].pc = pc
Fail(point) == point \in Faults /\ faults < MaxFaults /\ faults' = faults + 1

\* The order of the calls in a handler after forward; the request log of the
\* middleware comes last.  Calls that return at once are left out.
MayBind(r) == loc[r].ep.kind = "create" /\ loc[r].ep.type # NULL
Finish(r) == IF loc[r].ctx THEN "complete" ELSE "log"

AfterSwapped(r, pc) ==  \* mutant: completed first, then bound
    CASE pc = "account" -> Finish(r)
      [] pc = "complete" -> IF MayBind(r) /\ loc[r].ok THEN "bind" ELSE "log"
      [] OTHER -> "log"
After(r, pc) ==
    CASE pc = "account" -> IF MayBind(r) THEN "bind" ELSE Finish(r)
      [] pc = "bind" -> Finish(r)
      [] OTHER -> "log"

Step(r, pc) == loc' = [loc EXCEPT ![r].pc = pc]
\* A FcamError: the middleware answers, request.state.api_key_id is not set.
Raise(r) == loc' = [loc EXCEPT ![r].pc = "log", ![r].ok = FALSE, ![r].key = NULL]

(***************************************************************************)
(* A request arrives.  A client polls any id it likes.                     *)
(***************************************************************************)
Arrive(r) ==
    /\ At(r, "idle")
    /\ \E c \in clients, e \in Offered, t \in 1..Tasks, keyed \in BOOLEAN :
         /\ e.idem = NULL => ~keyed
         /\ e.kind # "use" => t = 1
         /\ e.kind = "use" => task[t] # NULL
         /\ loc' = [loc EXCEPT ![r] =
              [Idle EXCEPT !.pc = IF e.kind = "use" THEN "lookup" ELSE "begin",
                           !.client = c, !.ep = e, !.keyed = keyed,
                           !.id = IF e.kind = "use" THEN t ELSE NULL,
                           !.knew = e.kind = "use" /\ <<c, t>> \in told]]
    /\ UNCHANGED <<tables, task, faults, admin, aux>>

(***************************************************************************)
(* start_or_replay.  The second disjunct of an in_progress record is the   *)
(* takeover of a stale one; how old it must be is Idempotency's subject.   *)
(***************************************************************************)
OwnRecord(r) == [by |-> r, ep |-> loc[r].ep.idem, status |-> "in_progress", ok |-> FALSE, id |-> NULL]

Begin(r) ==
    LET c == loc[r].client
        have == record[c] IN
    /\ At(r, "begin")
    /\ \/ /\ ~loc[r].keyed /\ loc[r].ep.idem \notin RequireOn
          /\ Step(r, "send")
          /\ UNCHANGED <<record, removed>>
       \/ /\ loc[r].keyed /\ have = NULL /\ c \in clients
          /\ record' = [record EXCEPT ![c] = OwnRecord(r)]
          /\ loc' = [loc EXCEPT ![r].pc = "send", ![r].ctx = TRUE]
          /\ UNCHANGED removed
       \/ /\ \/ ~loc[r].keyed /\ loc[r].ep.idem \in RequireOn       \* 400
             \/ loc[r].keyed /\ c \notin clients                    \* 503
             \/ /\ loc[r].keyed /\ have # NULL                     \* 409
                /\ have.ep # loc[r].ep.idem \/ have.status = "in_progress"
          /\ Raise(r)
          /\ UNCHANGED <<record, removed>>
       \/ /\ loc[r].keyed /\ have # NULL /\ have.ep = loc[r].ep.idem
          /\ have.status = "in_progress"
          /\ record' = [record EXCEPT ![c] = OwnRecord(r)]
          /\ removed' = [removed EXCEPT ![c] = @ + 1]
          /\ loc' = [loc EXCEPT ![r].pc = "send", ![r].ctx = TRUE]
       \/ /\ loc[r].keyed /\ have # NULL /\ have.ep = loc[r].ep.idem
          /\ have.status = "completed"
          /\ loc' = [loc EXCEPT ![r].pc = "log", ![r].ok = have.ok, ![r].id = have.id]
          /\ UNCHANGED <<record, removed>>
    /\ UNCHANGED <<clients, keys, bindings, logs, task, faults, admin, told, unbound>>

(***************************************************************************)
(* lookup_bound_key_id: a database error counts as unbound.                *)
(***************************************************************************)
BoundTo(c, type, t) == {b \in bindings : b.client = c /\ b.type = type /\ b.id = t}

Lookup(r) ==
    LET found == BoundTo(loc[r].client, loc[r].ep.type, loc[r].id) IN
    /\ At(r, "lookup")
    /\ \/ /\ loc' = [loc EXCEPT ![r].pc = "send",
                                ![r].pin = IF found = {} THEN NULL ELSE (CHOOSE b \in found : TRUE).key]
          /\ UNCHANGED faults
       \/ /\ loc[r].ep.type # NULL /\ Fail("lookup")
          /\ loc' = [loc EXCEPT ![r].pc = "send", ![r].knew = FALSE]
    /\ UNCHANGED <<tables, task, admin, aux>>

(***************************************************************************)
(* _forward_with_fallback.  A pin on an unusable key is dropped; without a *)
(* pin any usable key may be the one that is used last.                    *)
(***************************************************************************)
PinOnce(r) == IF loc[r].second THEN NULL ELSE loc[r].pin  \* mutant: not passed on
PinFor(r) == loc[r].pin

Candidates(r) ==
    LET usable == {k \in Keys : keys[k] = "usable"}
        pin == PinFor(r) IN
    IF pin \in usable THEN {pin} ELSE usable

Answered(r, k, ok, id) ==
    loc' = [loc EXCEPT ![r].pc = IF ok THEN "account" ELSE Finish(r),
                       ![r].key = k, ![r].ok = ok, ![r].id = id]

\* result.api_key_id, set after the second forward.
KeyOfResult(r, k) == k

LostAnswerRetried(r) == loc' = [loc EXCEPT ![r].second = TRUE]  \* mutant: sent again
LostAnswer(r) == Raise(r)

\* The upstream creates a task; its answer arrives, or the forward times out.
SendCreate(r, k) ==
    \E t \in 1..Tasks :
        /\ task[t] = NULL /\ \A u \in 1..(t - 1) : task[u] # NULL
        /\ task' = [task EXCEPT ![t] = [key |-> k, client |-> loc[r].client, type |-> loc[r].ep.type,
                                        ctx |-> loc[r].ctx]]
        /\ Answered(r, KeyOfResult(r, k), TRUE, t) \/ LostAnswer(r)

\* The upstream answers a request about a task it knows under that key.
SendUse(r, k) ==
    /\ task[loc[r].id].key = k
    /\ Answered(r, k, TRUE, loc[r].id)
    /\ UNCHANGED task

TryFallback(r) == loc[r].ep.fallback /\ ~loc[r].second

Send(r) ==
    /\ At(r, "send")
    /\ \/ \E k \in Candidates(r) :
            \/ loc[r].ep.kind = "create" /\ SendCreate(r, k)
            \/ loc[r].ep.kind = "use" /\ SendUse(r, k)
            \/ loc[r].ep.kind = "plain" /\ Answered(r, k, TRUE, NULL) /\ UNCHANGED task
            \/ /\ TryFallback(r)                                  \* 404, 405
               /\ loc' = [loc EXCEPT ![r].second = TRUE, ![r].key = k]
               /\ UNCHANGED task
            \/ /\ Answered(r, k, FALSE, loc[r].id)                \* another error
               /\ UNCHANGED task
       \/ /\ Raise(r)                                             \* no key, time-out
          /\ UNCHANGED task
    /\ UNCHANGED <<tables, faults, admin, aux>>

\* _consume_quota_on_success: the rows of the key and of the client are
\* updated; when one of them is gone the commit fails like any other.
Account(r) ==
    /\ At(r, "account")
    /\ \/ /\ keys[loc[r].key] # "gone" /\ loc[r].client \in clients
          /\ Step(r, After(r, "account"))
          /\ UNCHANGED faults
       \/ /\ keys[loc[r].key] = "gone" \/ loc[r].client \notin clients
          /\ Raise(r)
          /\ UNCHANGED faults
       \/ Fail("account") /\ Raise(r)
    /\ UNCHANGED <<tables, task, admin, aux>>

(***************************************************************************)
(* _maybe_bind_created_resource.  Neither a violated foreign key nor any   *)
(* other error reaches the client.                                         *)
(***************************************************************************)
Bind(r) ==
    LET row == [client |-> loc[r].client, type |-> loc[r].ep.type, id |-> loc[r].id, key |-> loc[r].key]
        valid == loc[r].client \in clients /\ keys[loc[r].key] # "gone" IN
    /\ At(r, "bind")
    /\ \/ valid /\ bindings' = bindings \cup {row} /\ UNCHANGED <<unbound, faults>>
       \/ /\ (~valid /\ UNCHANGED faults) \/ Fail("bind")
          /\ unbound' = unbound \cup {loc[r].id}
          /\ UNCHANGED bindings
    /\ Step(r, After(r, "bind"))
    /\ UNCHANGED <<clients, keys, record, logs, task, admin, told, removed>>

\* complete: only while the record is still the request's own.
Complete(r) ==
    LET c == loc[r].client
        own == record[c] # NULL /\ record[c].by = r IN
    /\ At(r, "complete")
    /\ \/ /\ own
          /\ record' = [record EXCEPT ![c].status = "completed", ![c].ok = loc[r].ok, ![c].id = loc[r].id]
          /\ UNCHANGED faults
       \/ ~own /\ UNCHANGED <<record, faults>>
       \/ own /\ Fail("complete") /\ UNCHANGED record
    /\ Step(r, After(r, "complete"))
    /\ UNCHANGED <<clients, keys, bindings, logs, task, admin, aux>>

(***************************************************************************)
(* _persist_request_log, in a session of its own, then the response leaves.*)
(***************************************************************************)
Log(r) ==
    LET row == [req |-> r, client |-> loc[r].client, key |-> loc[r].key]
        valid == row.client \in clients /\ (row.key # NULL => keys[row.key] # "gone") IN
    /\ At(r, "log")
    /\ \/ valid /\ logs' = logs \cup {row} /\ UNCHANGED faults
       \/ /\ (~valid /\ UNCHANGED faults) \/ Fail("log")
          /\ UNCHANGED logs
    /\ told' = IF loc[r].ok /\ loc[r].ep.kind = "create" THEN told \cup {<<loc[r].client, loc[r].id>>} ELSE told
    /\ loc' = [loc EXCEPT ![r] = [Idle EXCEPT !.pc = "done"]]
    /\ UNCHANGED <<clients, keys, bindings, record, task, admin, unbound, removed>>

\* The worker process dies in the middle of a handler.
Crash(r) ==
    /\ loc[r].pc \notin {"idle", "done"} /\ Fail("crash")
    /\ loc' = [loc EXCEPT ![r] = [Idle EXCEPT !.pc = "done"]]
    /\ UNCHANGED <<tables, task, admin, aux>>

(***************************************************************************)
(* The administrator and the retention job.                                *)
(***************************************************************************)
Administer == admin < MaxAdmin /\ admin' = admin + 1

SetKey(k) ==  \* update_key, delete_key
    /\ Administer
    /\ keys[k] # "gone"
    /\ keys' = [keys EXCEPT ![k] = IF @ = "usable" THEN "unusable" ELSE "usable"]
    /\ UNCHANGED <<clients, bindings, record, logs, task, loc, faults, aux>>

\* purge_key, and the purge of batch_keys: the request logs let go of the row, the bindings do not, so the
\* foreign key makes the transaction of a bound key fail (503) and roll back.
PurgeKey(k) ==
    /\ Administer
    /\ keys[k] # "gone"
    /\ \/ /\ \A b \in bindings : b.key # k
          /\ keys' = [keys EXCEPT ![k] = "gone"]
          /\ logs' = {[l EXCEPT !.key = IF @ = k THEN NULL ELSE @] : l \in logs}
       \/ /\ \E b \in bindings : b.key = k
          /\ UNCHANGED <<keys, logs>>
    /\ UNCHANGED <<clients, bindings, record, task, loc, faults, aux>>

PurgedRecordsKept(c) == record  \* mutant: the records of the client stay
PurgedRecords(c) == [record EXCEPT ![c] = NULL]

PurgeClient(c) ==
    /\ Administer
    /\ c \in clients
    /\ \/ /\ \A b \in bindings : b.client # c
          /\ clients' = clients \ {c}
          /\ logs' = {[l EXCEPT !.client = IF @ = c THEN NULL ELSE @] : l \in logs}
          /\ record' = PurgedRecords(c)
          /\ removed' = [removed EXCEPT ![c] = IF record[c] = NULL THEN @ ELSE @ + 1]
       \/ /\ \E b \in bindings : b.client = c
          /\ UNCHANGED <<clients, logs, record, removed>>
    /\ UNCHANGED <<keys, bindings, task, loc, faults, told, unbound>>

\* cleanup_retention: the logs up to some age and the expired records, in one
\* transaction.
CleanupRetention ==
    /\ Administer
    /\ \E old \in SUBSET logs, expired \in SUBSET {c \in Clients : record[c] # NULL} :
         /\ logs' = logs \ old
         /\ record' = [c \in Clients |-> IF c \in expired THEN NULL ELSE record[c]]
         /\ removed' = [c \in Clients |-> IF c \in expired THEN removed[c] + 1 ELSE removed[c]]
    /\ UNCHANGED <<clients, keys, bindings, task, loc, faults, told, unbound>>

Next ==
    \/ \E r \in Requests :
         \/ Arrive(r) \/ Begin(r) \/ Lookup(r) \/ Send(r) \/ Account(r)
         \/ Bind(r) \/ Complete(r) \/ Log(r) \/ Crash(r)
    \/ \E k \in Keys : SetKey(k) \/ PurgeKey(k)
    \/ \E c \in Clients : PurgeClient(c)
    \/ CleanupRetention

Spec == Init /\ [][Next]_vars

-----------------------------------------------------------------------------
\* Types; no row refers to a key or a client that was purged, and a task is
\* bound once per client and type.
TypeOK ==
    /\ clients \subseteq Clients
    /\ keys \in [Keys -> {"usable", "unusable", "gone"}]
    /\ \A b \in bindings :
         /\ b.client \in clients /\ keys[b.key] # "gone" /\ b.id \in Ids
         /\ BoundTo(b.client, b.type, b.id) = {b}
    /\ \A c \in Clients : record[c] # NULL => c \in clients
    /\ \A l \in logs :
         /\ l.client \in clients \cup {NULL}
         /\ l.key # NULL => keys[l.key] # "gone"
         /\ \A m \in logs : m.req = l.req => m = l
    /\ told \subseteq Clients \X Ids /\ unbound \subseteq Ids
    /\ faults \in 0..MaxFaults /\ admin \in 0..MaxAdmin

\* Safety: a client that got the id of a task it created through an endpoint
\* that binds, in the answer of the request or in the replay of another one,
\* can poll it: the binding names the key that created the task, unless the
\* write of the binding failed (crawl, agent, batch_scrape, browser_create,
\* extract: bound before the record is completed and before the response).
ToldIsBound ==
    \A c \in Clients, t \in Ids :
        <<c, t>> \in told /\ task[t].client = c /\ task[t].type # NULL /\ t \notin unbound
          => \E b \in BoundTo(c, task[t].type, t) : b.key = task[t].key

\* Safety: a client sends a request with one idempotency key twice to the
\* upstream only if its record was deleted in between, by a takeover, its
\* expiry or a purge; no failure of the accounting, of the binding, of the
\* completion, of the log, nor a crash, a fallback or a lost answer is enough
\* (start_or_replay, _forward_with_fallback, complete).
OneTaskPerRecord ==
    \A c \in Clients :
        Cardinality({t \in Ids : task[t] # NULL /\ task[t].client = c /\ task[t].ctx}) <= 1 + removed[c]

\* Action property: a client that polls a task it was told of, at an endpoint
\* of the task's type, reaches the key that created it, on both paths of the
\* endpoint, as long as that key is usable, the binding was written and the
\* lookup did not fail (lookup_bound_key_id, _forward_with_fallback).
StatusReachesOwner ==
    [][\A r \in Requests :
         LET t == loc[r].id
             k == loc'[r].key IN
         /\ At(r, "send") /\ loc'[r] # loc[r]
         /\ loc[r].knew /\ loc[r].ep.kind = "use" /\ k # NULL
         /\ loc[r].ep.type = task[t].type /\ task[t].type # NULL
         /\ task[t].client = loc[r].client
         /\ t \notin unbound /\ keys[task[t].key] = "usable"
         => k = task[t].key]_vars

=============================================================================
