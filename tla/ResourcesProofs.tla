-------------------------- MODULE ResourcesProofs --------------------------
(***************************************************************************)
(* Safety of tasks, bindings and idempotency records for any clients, keys *)
(* and requests, any endpoints offered, and any faults.                    *)
(***************************************************************************)
EXTENDS Resources, FiniteSetTheorems, TLAPS

Labels == {"idle", "begin", "lookup", "send", "account", "bind", "complete", "log", "done"}

Locals == [pc : Labels, client : Clients \cup {NULL}, ep : Endpoints \cup {NULL},
           keyed : BOOLEAN, ctx : BOOLEAN, id : Ids \cup {NULL}, pin : Keys \cup {NULL},
           second : BOOLEAN, key : Keys \cup {NULL}, ok : BOOLEAN, knew : BOOLEAN]
BindingRows == [client : Clients, type : Types, id : Ids, key : Keys]
LogRows == [req : Requests, client : Clients \cup {NULL}, key : Keys \cup {NULL}]

\* Types of what Resources!TypeOK leaves open.
Typed ==
    /\ clients \subseteq Clients
    /\ keys \in [Keys -> {"usable", "unusable", "gone"}]
    /\ bindings \subseteq BindingRows
    /\ record \in [Clients -> Records \cup {NULL}]
    /\ logs \subseteq LogRows
    /\ task \in [Ids -> TaskRows \cup {NULL}]
    /\ loc \in [Requests -> Locals]
    /\ told \subseteq Clients \X Ids /\ unbound \subseteq Ids
    /\ removed \in [Clients -> Nat]
    /\ faults \in 0..MaxFaults /\ admin \in 0..MaxAdmin

\* Where a request is says which of its locals are set.
Placed(L) ==
    /\ L.pc \notin {"idle", "done"} => L.client \in Clients /\ L.ep \in Offered
    /\ L.keyed => L.ep \in Offered /\ L.ep.idem # NULL
    /\ L.ctx => L.keyed
    /\ L.pc \in {"begin", "lookup"} => ~L.ctx
    /\ L.pc = "lookup" => L.ep.kind = "use"
    /\ L.pc = "begin" => L.ep.kind # "use"
    /\ L.pc \in {"lookup", "send"} /\ L.ep.kind = "use" => L.id \in Ids
    /\ L.pc = "bind" => L.ep.kind = "create" /\ L.ep.type # NULL
    /\ L.pc \in {"account", "bind"} => L.ok /\ L.key \in Keys
    /\ L.pc = "complete" => L.ctx

\* The binding of a task was written, or failed, or the endpoint has none.
Settled(t) ==
    \/ task[t].type = NULL
    \/ t \in unbound
    \/ \E b \in bindings : b.id = t

\* The task a request created.
Owns(L) ==
    /\ L.id \in Ids /\ task[L.id] # NULL
    /\ task[L.id].client = L.client

Creates(L) ==
    L.pc \in {"account", "bind", "complete", "log"} /\ L.ok /\ L.ep.kind = "create" =>
        /\ Owns(L)
        /\ L.pc \in {"account", "bind"} => task[L.id].key = L.key /\ task[L.id].type = L.ep.type
        /\ L.pc \in {"complete", "log"} => Settled(L.id)

\* A binding and its task.
BindingsMatch ==
    \A b \in bindings :
        /\ b.client \in clients /\ keys[b.key] # "gone"
        /\ task[b.id] # NULL /\ task[b.id].client = b.client
        /\ task[b.id].key = b.key /\ task[b.id].type = b.type

RecordsMatch ==
    \A c \in Clients : record[c] # NULL =>
        /\ c \in clients
        /\ record[c].status = "completed" /\ record[c].ok =>
             /\ record[c].id \in Ids /\ task[record[c].id] # NULL
             /\ task[record[c].id].client = c /\ Settled(record[c].id)

LogsMatch ==
    \A l \in logs :
        /\ l.client \in clients \cup {NULL}
        /\ l.key # NULL => keys[l.key] # "gone"
        /\ loc[l.req].pc = "done"
        /\ \A m \in logs : m.req = l.req => m = l

ToldMatch ==
    \A c \in Clients, t \in Ids : <<c, t>> \in told =>
        task[t] # NULL /\ task[t].client = c /\ Settled(t)

\* A client that knows a task looks it up with the key that created it.
Pinned(L) ==
    L.knew =>
        /\ L.ep.kind = "use"
        /\ <<L.client, L.id>> \in told
        /\ L.pc = "send" /\ L.ep.type = task[L.id].type /\ L.ep.type # NULL /\ L.id \notin unbound
             => L.pin = task[L.id].key

\* Requests with a record of their own that may still create a task.
Senders(c) == {r \in Requests : loc[r].client = c /\ loc[r].ctx /\ loc[r].pc = "send"}
CtxTasks(c) == {t \in Ids : task[t] # NULL /\ task[t].client = c /\ task[t].ctx}
Inserted(c) == removed[c] + (IF record[c] = NULL THEN 0 ELSE 1)

OneSender ==
    \A c \in Clients :
        /\ IsFiniteSet(Senders(c))
        /\ Cardinality(CtxTasks(c)) + Cardinality(Senders(c)) <= Inserted(c)

IInv ==
    /\ Typed
    /\ \A r \in Requests : Placed(loc[r]) /\ Creates(loc[r])
    /\ BindingsMatch /\ RecordsMatch /\ LogsMatch /\ ToldMatch

KInv == \A r \in Requests : Pinned(loc[r])

-----------------------------------------------------------------------------
(***************************************************************************)
(* Facts about single definitions.                                         *)
(***************************************************************************)
LEMMA EndpointFacts ==
    ASSUME NEW e \in Offered
    PROVE  /\ e \in Endpoints /\ e.kind \in {"create", "use", "plain"}
           /\ e.type \in Types /\ e.idem \in {"crawl", "agent", NULL}
           /\ e.idem # NULL => e.kind = "create"
  <1>1. e \in Endpoints
    BY ResourcesAssumption
  <1>2. CASE e \in V2CrawlCreate \cup V2Agent \cup V2BatchCreate \cup V1Crawl \cup V1Agent
    BY <1>1, <1>2 DEF V2CrawlCreate, V2Agent, V2BatchCreate, V1Crawl, V1Agent, Create, Types
  <1>3. CASE e \in V2CrawlStatus \cup V2CrawlManage \cup V2AgentManage \cup V2BatchStatus
                     \cup V2BatchManage \cup V1CrawlStatus \cup Plain \cup Exa
    BY <1>1, <1>3 DEF V2CrawlStatus, V2CrawlManage, V2AgentManage, V2BatchStatus,
                      V2BatchManage, V1CrawlStatus, Plain, Exa, Use, Types
  <1>4. CASE e \in V2Browser \cup V2Extract
    BY <1>1, <1>4 DEF V2Browser, V2Extract, Create, Use, Types
  <1> QED BY <1>1, <1>2, <1>3, <1>4 DEF Endpoints

LEMMA IdleFits ==
    ASSUME NEW pc \in {"idle", "done"}
    PROVE  /\ [Idle EXCEPT !.pc = pc] \in Locals
           /\ Placed([Idle EXCEPT !.pc = pc]) /\ Creates([Idle EXCEPT !.pc = pc])
           /\ Creates([Idle EXCEPT !.pc = pc])' /\ [Idle EXCEPT !.pc = pc].pc = pc
           /\ ~[Idle EXCEPT !.pc = pc].knew /\ ~[Idle EXCEPT !.pc = pc].ctx
  BY DEF Idle, Locals, Labels, Placed, Creates

\* What a request relies on is never taken back: a task keeps its owner, and
\* a binding, written or failed, stays that.
Grows ==
    /\ \A t \in Ids : task[t] # NULL => task'[t] = task[t]
    /\ bindings \subseteq bindings' /\ unbound \subseteq unbound'

LEMMA GrowsKeeps ==
    ASSUME Grows
    PROVE  /\ \A t \in Ids : task[t] # NULL /\ Settled(t) => Settled(t)'
           /\ \A L : Creates(L) => Creates(L)'
  <1>1. \A t \in Ids : task[t] # NULL /\ Settled(t) => Settled(t)'
    BY DEF Grows, Settled
  <1>2. ASSUME NEW L, Creates(L) PROVE Creates(L)'
    <2> SUFFICES ASSUME L.pc \in {"account", "bind", "complete", "log"}, L.ok, L.ep.kind = "create"
                 PROVE  Creates(L)'
      BY DEF Creates
    <2>1. /\ L.id \in Ids /\ task[L.id] # NULL /\ task[L.id].client = L.client
          /\ L.pc \in {"account", "bind"} => task[L.id].key = L.key /\ task[L.id].type = L.ep.type
          /\ L.pc \in {"complete", "log"} => Settled(L.id)
      BY <1>2 DEF Creates, Owns
    <2>2. task'[L.id] = task[L.id]
      BY <2>1 DEF Grows
    <2>3. L.pc \in {"complete", "log"} => Settled(L.id)'
      BY <1>1, <2>1
    <2> QED BY <2>1, <2>2, <2>3 DEF Creates, Owns
  <1> QED BY <1>1, <1>2

\* A step of a request, and what it keeps of the tables it leaves alone.
LEMMA CallStep ==
    ASSUME IInv, NEW r \in Requests, NEW M \in Locals, Placed(M), Creates(M)',
           loc' = [loc EXCEPT ![r] = M], loc[r].pc # "done", Grows
    PROVE  /\ loc' \in [Requests -> Locals] /\ loc'[r] = M
           /\ \A q \in Requests \ {r} : loc'[q] = loc[q]
           /\ \A q \in Requests : Placed(loc'[q]) /\ Creates(loc[q])'
           /\ UNCHANGED <<clients, keys, bindings>> => BindingsMatch'
           /\ UNCHANGED <<clients, record>> => RecordsMatch'
           /\ UNCHANGED <<clients, keys, logs>> => LogsMatch'
           /\ UNCHANGED told => ToldMatch'
  <1>1. loc \in [Requests -> Locals]
    BY DEF IInv, Typed
  <1>2. /\ loc' \in [Requests -> Locals] /\ loc'[r] = M
        /\ \A q \in Requests \ {r} : loc'[q] = loc[q]
    BY <1>1
  <1>3. ASSUME NEW q \in Requests PROVE Placed(loc'[q]) /\ Creates(loc[q])'
    <2>1. CASE q = r
      <3>1. Creates(loc[q])' = Creates(M)'
        BY <1>2, <2>1 DEF Creates, Owns, Settled
      <3> QED BY <1>2, <2>1, <3>1
    <2>2. CASE q # r
      <3> DEFINE L == loc[q]
      <3>1. Placed(L) /\ Creates(L)
        BY DEF IInv
      <3>2. loc'[q] = L
        BY <1>2, <2>2
      <3> HIDE DEF L
      <3>3. \A K : Creates(K) => Creates(K)'
        BY GrowsKeeps
      <3> QED BY <3>1, <3>2, <3>3 DEF Creates, Owns, Settled
    <2> QED BY <2>1, <2>2
  <1>4. UNCHANGED <<clients, keys, bindings>> => BindingsMatch'
    BY DEF IInv, Typed, BindingsMatch, BindingRows, Grows
  <1>5. UNCHANGED <<clients, record>> => RecordsMatch'
    BY GrowsKeeps DEF IInv, RecordsMatch, Grows
  <1>6. UNCHANGED <<clients, keys, logs>> => LogsMatch'
    BY <1>2 DEF IInv, Typed, LogRows, LogsMatch
  <1>7. UNCHANGED told => ToldMatch'
    BY GrowsKeeps DEF IInv, ToldMatch, Grows
  <1> QED BY <1>2, <1>3, <1>4, <1>5, <1>6, <1>7
-----------------------------------------------------------------------------
(***************************************************************************)
(* IInv is inductive.  First the steps of a request that write no table.   *)
(***************************************************************************)
LEMMA LocalStep ==
    ASSUME IInv, NEW r \in Requests, NEW M \in Locals, Placed(M), Creates(M),
           loc' = [loc EXCEPT ![r] = M], loc[r].pc # "done",
           UNCHANGED <<tables, task, aux>>,
           faults' \in 0..MaxFaults, admin' \in 0..MaxAdmin
    PROVE  IInv'
  <1>1. Grows
    BY DEF Grows, tables, aux
  <1>2. Creates(M)'
    BY <1>1, GrowsKeeps
  <1>3. /\ loc' \in [Requests -> Locals]
        /\ \A q \in Requests : Placed(loc'[q]) /\ Creates(loc[q])'
        /\ BindingsMatch' /\ RecordsMatch' /\ LogsMatch' /\ ToldMatch'
    BY <1>1, <1>2, CallStep DEF tables, aux
  <1>4. Typed'
    BY <1>3 DEF IInv, Typed, tables, aux
  <1> QED BY <1>3, <1>4 DEF IInv

LEMMA FailType ==
    ASSUME IInv, NEW point, Fail(point) \/ UNCHANGED faults
    PROVE  faults' \in 0..MaxFaults
  BY ResourcesAssumption DEF IInv, Typed, Fail

LEMMA LocType ==
    ASSUME IInv, NEW r \in Requests
    PROVE  /\ loc[r] \in Locals /\ Placed(loc[r]) /\ Creates(loc[r])
           /\ loc[r].pc \notin {"idle", "done"} =>
                /\ loc[r].ep.kind \in {"create", "use", "plain"} /\ loc[r].ep.type \in Types
                /\ loc[r].ep.idem \in {"crawl", "agent", NULL}
           /\ loc[r].ctx => loc[r].ep.kind = "create"
  <1>1. loc[r] \in Locals /\ Placed(loc[r]) /\ Creates(loc[r])
    BY DEF IInv, Typed
  <1> QED BY <1>1, EndpointFacts DEF Placed

\* A request that failed, and one that goes on.
LEMMA RaiseFits ==
    ASSUME IInv, NEW r \in Requests, loc[r].pc \notin {"idle", "done"}, Raise(r)
    PROVE  \E M \in Locals : Placed(M) /\ Creates(M) /\ ~M.ok /\ M.pc = "log" /\ M.key = NULL
                               /\ M.client = loc[r].client /\ M.ctx = loc[r].ctx
                               /\ M.ep = loc[r].ep /\ M.id = loc[r].id /\ M.knew = loc[r].knew
                               /\ loc' = [loc EXCEPT ![r] = M]
  <1> DEFINE M == [loc[r] EXCEPT !.pc = "log", !.ok = FALSE, !.key = NULL]
  <1>1. loc[r] \in Locals /\ Placed(loc[r]) /\ loc \in [Requests -> Locals]
    BY LocType DEF IInv, Typed
  <1>2. M \in Locals
    BY <1>1 DEF Locals, Labels
  <1>3. /\ M.pc = "log" /\ M.ok = FALSE /\ M.key = NULL /\ M.client = loc[r].client
        /\ M.ep = loc[r].ep /\ M.keyed = loc[r].keyed /\ M.ctx = loc[r].ctx /\ M.id = loc[r].id
        /\ M.knew = loc[r].knew
    BY <1>1 DEF Locals
  <1>4. loc' = [loc EXCEPT ![r] = M]
    BY <1>1 DEF Raise
  <1> HIDE DEF M
  <1>5. Placed(M)
    BY <1>1, <1>3 DEF Placed
  <1>6. Creates(M)
    BY <1>3 DEF Creates
  <1> QED BY <1>2, <1>3, <1>4, <1>5, <1>6

LEMMA ArriveKeeps ==
    ASSUME IInv, NEW r \in Requests, Arrive(r)
    PROVE  IInv'
  <1>1. PICK c \in clients, e \in Offered, t \in 1..Tasks, keyed \in BOOLEAN :
         /\ e.idem = NULL => ~keyed
         /\ e.kind # "use" => t = 1
         /\ e.kind = "use" => task[t] # NULL
         /\ loc' = [loc EXCEPT ![r] =
              [Idle EXCEPT !.pc = IF e.kind = "use" THEN "lookup" ELSE "begin",
                           !.client = c, !.ep = e, !.keyed = keyed,
                           !.id = IF e.kind = "use" THEN t ELSE NULL,
                           !.knew = e.kind = "use" /\ <<c, t>> \in told]]
    BY DEF Arrive
  <1> DEFINE M == [Idle EXCEPT !.pc = IF e.kind = "use" THEN "lookup" ELSE "begin",
                           !.client = c, !.ep = e, !.keyed = keyed,
                           !.id = IF e.kind = "use" THEN t ELSE NULL,
                           !.knew = e.kind = "use" /\ <<c, t>> \in told]
  <1>2. e \in Endpoints /\ c \in Clients /\ t \in Ids
    BY EndpointFacts DEF IInv, Typed, Ids
  <1>3. (e.kind = "use" /\ <<c, t>> \in told) \in BOOLEAN
    OBVIOUS
  <1>4. M \in Locals
    BY <1>2, <1>3 DEF Locals, Labels, Idle
  <1>5. /\ M.pc \in {"begin", "lookup"} /\ (M.pc = "lookup" => e.kind = "use" /\ M.id = t)
        /\ (M.pc = "begin" => e.kind # "use")
        /\ M.client = c /\ M.ep = e /\ M.keyed = keyed /\ ~M.ctx
    BY <1>3 DEF Idle
  <1> HIDE DEF M
  <1>6. Placed(M) /\ Creates(M)
    BY <1>1, <1>2, <1>5 DEF Placed, Creates
  <1>7. loc' = [loc EXCEPT ![r] = M] /\ loc[r].pc # "done"
    BY <1>1 DEF Arrive, At, M
  <1>8. UNCHANGED <<tables, task, aux>> /\ faults' \in 0..MaxFaults /\ admin' \in 0..MaxAdmin
    BY DEF Arrive, IInv, Typed
  <1> QED BY <1>4, <1>6, <1>7, <1>8, LocalStep

LEMMA LookupKeeps ==
    ASSUME IInv, NEW r \in Requests, Lookup(r)
    PROVE  IInv'
  <1> DEFINE L == loc[r]
             found == BoundTo(L.client, L.ep.type, L.id)
             pin == IF found = {} THEN NULL ELSE (CHOOSE b \in found : TRUE).key
             M == [L EXCEPT !.pc = "send", !.pin = pin]
             N == [L EXCEPT !.pc = "send", !.knew = FALSE]
  <1>1. L \in Locals /\ Placed(L) /\ L.pc = "lookup" /\ loc \in [Requests -> Locals]
    BY LocType DEF Lookup, At, IInv, Typed
  <1>2. pin \in Keys \cup {NULL}
    BY DEF BoundTo, IInv, Typed, BindingRows
  <1> HIDE DEF pin, found
  <1>3. M \in Locals /\ N \in Locals
    BY <1>1, <1>2 DEF Locals, Labels
  <1>4. ASSUME NEW K \in {M, N}
        PROVE  /\ K.pc = "send" /\ K.client = L.client /\ K.ep = L.ep /\ K.keyed = L.keyed
               /\ K.ctx = L.ctx /\ K.id = L.id
    BY <1>1 DEF Locals
  <1>5. loc' \in {[loc EXCEPT ![r] = M], [loc EXCEPT ![r] = N]}
    BY <1>1 DEF Lookup, found, pin
  <1> HIDE DEF M, N, L
  <1>6. ASSUME NEW K \in {M, N} PROVE Placed(K) /\ Creates(K)
    BY <1>1, <1>4 DEF Placed, Creates
  <1>7. loc[r].pc # "done"
    BY <1>1 DEF L
  <1>8. UNCHANGED <<tables, task, aux>> /\ faults' \in 0..MaxFaults /\ admin' \in 0..MaxAdmin
    BY FailType DEF Lookup, IInv, Typed
  <1> QED BY <1>3, <1>5, <1>6, <1>7, <1>8, LocalStep

LEMMA AccountKeeps ==
    ASSUME IInv, NEW r \in Requests, Account(r)
    PROVE  IInv'
  <1> DEFINE L == loc[r]
             M == [L EXCEPT !.pc = After(r, "account")]
  <1>1. /\ L \in Locals /\ Placed(L) /\ Creates(L) /\ L.pc = "account"
        /\ loc \in [Requests -> Locals]
    BY LocType DEF Account, At, IInv, Typed
  <1>2. UNCHANGED <<tables, task, aux>> /\ faults' \in 0..MaxFaults /\ admin' \in 0..MaxAdmin
    BY FailType DEF Account, IInv, Typed
  <1>3. CASE Raise(r)
    BY <1>1, <1>2, <1>3, RaiseFits, LocalStep
  <1>4. CASE Step(r, After(r, "account"))
    <2>1. After(r, "account") = IF L.ep.kind = "create" /\ L.ep.type # NULL THEN "bind"
                                ELSE IF L.ctx THEN "complete" ELSE "log"
      BY DEF After, MayBind, Finish
    <2>2. M \in Locals
      BY <1>1, <2>1 DEF Locals, Labels
    <2>3. /\ M.pc = After(r, "account") /\ M.client = L.client /\ M.ep = L.ep /\ M.keyed = L.keyed
          /\ M.ctx = L.ctx /\ M.id = L.id /\ M.ok = L.ok /\ M.key = L.key
      BY <1>1 DEF Locals
    <2>4. loc' = [loc EXCEPT ![r] = M] /\ loc[r].pc # "done"
      BY <1>1, <1>4 DEF Step
    <2> HIDE DEF M, L
    <2>5. Placed(M)
      BY <1>1, <2>1, <2>3 DEF Placed
    <2>6. Creates(M)
      BY <1>1, <2>1, <2>3 DEF Creates, Owns, Settled
    <2> QED BY <1>2, <2>2, <2>4, <2>5, <2>6, LocalStep
  <1> QED BY <1>3, <1>4 DEF Account

LEMMA CrashKeeps ==
    ASSUME IInv, NEW r \in Requests, Crash(r)
    PROVE  IInv'
  <1>1. UNCHANGED <<tables, task, aux>> /\ faults' \in 0..MaxFaults /\ admin' \in 0..MaxAdmin
    BY FailType DEF Crash, IInv, Typed
  <1>2. loc' = [loc EXCEPT ![r] = [Idle EXCEPT !.pc = "done"]] /\ loc[r].pc # "done"
    BY DEF Crash
  <1> QED BY <1>1, <1>2, IdleFits, LocalStep
-----------------------------------------------------------------------------
(***************************************************************************)
(* The steps of a request that write a table or create a task.             *)
(***************************************************************************)
\* The request becomes the owner of the record of its client.
LEMMA InsertKeeps ==
    ASSUME IInv, NEW r \in Requests, loc[r].pc = "begin", loc[r].keyed, loc[r].client \in clients,
           record' = [record EXCEPT ![loc[r].client] = OwnRecord(r)],
           loc' = [loc EXCEPT ![r].pc = "send", ![r].ctx = TRUE],
           removed' \in [Clients -> Nat],
           UNCHANGED <<clients, keys, bindings, logs, task, faults, admin, told, unbound>>
    PROVE  IInv'
  <1> DEFINE L == loc[r]
  <1> PICK M : M = [L EXCEPT !.pc = "send", !.ctx = TRUE]
    OBVIOUS
  <1>1. /\ L \in Locals /\ Placed(L) /\ L.pc = "begin" /\ loc \in [Requests -> Locals]
        /\ L.ep.idem \in {"crawl", "agent", NULL} /\ L.client \in Clients
    BY LocType DEF IInv, Typed
  <1>2. M \in Locals
    BY <1>1 DEF Locals, Labels
  <1>3. /\ M.pc = "send" /\ M.client = L.client /\ M.ep = L.ep /\ M.keyed = L.keyed
        /\ M.ctx /\ M.id = L.id
    BY <1>1 DEF Locals
  <1>4. loc' = [loc EXCEPT ![r] = M] /\ loc[r].pc # "done"
    BY <1>1
  <1>5. OwnRecord(r) \in Records /\ OwnRecord(r).status = "in_progress"
    BY <1>1 DEF OwnRecord, Records
  <1>6. Placed(M)
    <2>1. L.keyed /\ (L.ep.kind = "use" => L.ep.idem = NULL)
      BY <1>1, EndpointFacts DEF Placed
    <2> QED BY <1>1, <1>3, <2>1 DEF Placed
  <1>7. Creates(M)'
    BY <1>3 DEF Creates
  <1>8. Grows
    BY DEF Grows
  <1>9. /\ loc' \in [Requests -> Locals]
        /\ \A q \in Requests : Placed(loc'[q]) /\ Creates(loc[q])'
        /\ BindingsMatch' /\ LogsMatch' /\ ToldMatch'
    BY <1>2, <1>4, <1>6, <1>7, <1>8, CallStep
  <1> HIDE DEF L
  <1>10. record' \in [Clients -> Records \cup {NULL}]
    BY <1>5 DEF IInv, Typed
  <1>11. RecordsMatch'
    <2> SUFFICES ASSUME NEW c \in Clients, record'[c] # NULL
                 PROVE  /\ c \in clients'
                        /\ record'[c].status = "completed" /\ record'[c].ok =>
                             /\ record'[c].id \in Ids /\ task'[record'[c].id] # NULL
                             /\ task'[record'[c].id].client = c /\ Settled(record[c].id)'
      BY DEF RecordsMatch
    <2>1. CASE c = L.client
      BY <1>1, <1>5, <2>1 DEF L, IInv, Typed
    <2>2. CASE c # L.client
      <3>1. record'[c] = record[c]
        BY <2>2 DEF L, IInv, Typed
      <3> QED BY <3>1, <1>8, GrowsKeeps DEF IInv, RecordsMatch, Settled
    <2> QED BY <2>1, <2>2
  <1>12. Typed'
    BY <1>9, <1>10 DEF IInv, Typed
  <1> QED BY <1>9, <1>11, <1>12 DEF IInv

LEMMA BeginKeeps ==
    ASSUME IInv, NEW r \in Requests, Begin(r)
    PROVE  IInv'
  <1> DEFINE L == loc[r]
             c == L.client
             have == record[c]
             S == [L EXCEPT !.pc = "send"]
             R == [L EXCEPT !.pc = "log", !.ok = have.ok, !.id = have.id]
  <1>1. /\ L \in Locals /\ Placed(L) /\ L.pc = "begin" /\ loc \in [Requests -> Locals]
        /\ c \in Clients
    BY LocType DEF Begin, At, IInv, Typed, Placed
  <1>2. /\ UNCHANGED <<clients, keys, bindings, logs, task, faults, admin, told, unbound>>
        /\ faults' \in 0..MaxFaults /\ admin' \in 0..MaxAdmin
    BY DEF Begin, IInv, Typed
  <1>3. have # NULL => have \in Records /\ c \in clients
    BY <1>1 DEF IInv, Typed, RecordsMatch
  <1>4. CASE Step(r, "send") /\ UNCHANGED <<record, removed>> /\ ~L.keyed
    <2>1. S \in Locals
      BY <1>1 DEF Locals, Labels
    <2>2. /\ S.pc = "send" /\ S.client = L.client /\ S.ep = L.ep /\ S.keyed = L.keyed
          /\ S.ctx = L.ctx /\ S.id = L.id
      BY <1>1 DEF Locals
    <2>3. loc' = [loc EXCEPT ![r] = S] /\ loc[r].pc # "done"
      BY <1>1, <1>4 DEF Step
    <2> HIDE DEF S
    <2>4. Placed(S) /\ Creates(S)
      BY <1>1, <2>2 DEF Placed, Creates
    <2> QED BY <1>2, <1>4, <2>1, <2>3, <2>4, LocalStep DEF tables, aux
  <1>5. CASE Raise(r) /\ UNCHANGED <<record, removed>>
    BY <1>1, <1>2, <1>5, RaiseFits, LocalStep DEF tables, aux
  <1>6. CASE /\ L.keyed /\ have # NULL /\ have.status = "completed"
             /\ loc' = [loc EXCEPT ![r].pc = "log", ![r].ok = have.ok, ![r].id = have.id]
             /\ UNCHANGED <<record, removed>>
    <2>1. R \in Locals
      BY <1>1, <1>3, <1>6 DEF Locals, Labels, Records
    <2>2. /\ R.pc = "log" /\ R.client = L.client /\ R.ep = L.ep /\ R.keyed = L.keyed
          /\ R.ctx = L.ctx /\ R.id = have.id /\ R.ok = have.ok
      BY <1>1 DEF Locals
    <2>3. loc' = [loc EXCEPT ![r] = R] /\ loc[r].pc # "done"
      BY <1>1, <1>6
    <2>4. have.ok => /\ have.id \in Ids /\ task[have.id] # NULL
                     /\ task[have.id].client = c /\ Settled(have.id)
      BY <1>1, <1>6 DEF IInv, RecordsMatch
    <2> HIDE DEF R, L
    <2>5. Placed(R)
      BY <1>1, <2>2 DEF Placed
    <2>6. Creates(R)
      BY <2>2, <2>4 DEF Creates, Owns
    <2> QED BY <1>2, <1>6, <2>1, <2>3, <2>5, <2>6, LocalStep DEF tables, aux
  <1>7. CASE /\ L.keyed /\ c \in clients
             /\ record' = [record EXCEPT ![c] = OwnRecord(r)]
             /\ loc' = [loc EXCEPT ![r].pc = "send", ![r].ctx = TRUE]
             /\ removed' = removed \/ removed' = [removed EXCEPT ![c] = @ + 1]
    <2>1. removed' \in [Clients -> Nat]
      BY <1>1, <1>7 DEF IInv, Typed
    <2> QED BY <1>1, <1>2, <1>7, <2>1, InsertKeeps
  <1> QED BY <1>3, <1>4, <1>5, <1>6, <1>7 DEF Begin

LEMMA AnsweredFits ==
    ASSUME IInv, NEW r \in Requests, loc[r].pc = "send", NEW k \in Keys, NEW ok \in BOOLEAN,
           NEW id \in Ids \cup {NULL}, Answered(r, k, ok, id)
    PROVE  \E M \in Locals : /\ Placed(M) /\ loc' = [loc EXCEPT ![r] = M]
                             /\ M.pc \in {"account", "complete", "log"}
                             /\ M.ok = ok /\ (M.ok => M.pc = "account")
                             /\ M.key = k /\ M.id = id /\ M.client = loc[r].client
                             /\ M.ep = loc[r].ep /\ M.knew = loc[r].knew /\ M.ctx = loc[r].ctx
  <1> DEFINE L == loc[r]
             pc == IF ok THEN "account" ELSE Finish(r)
             M == [L EXCEPT !.pc = pc, !.key = k, !.ok = ok, !.id = id]
  <1>1. L \in Locals /\ Placed(L) /\ loc \in [Requests -> Locals]
    BY LocType DEF IInv, Typed
  <1>2. pc \in {"account", "complete", "log"} /\ (ok <=> pc = "account")
          /\ (pc = "complete" => L.ctx)
    BY DEF Finish
  <1>3. loc' = [loc EXCEPT ![r] = M]
    BY <1>1 DEF Answered
  <1> HIDE DEF pc
  <1>4. M \in Locals
    BY <1>1, <1>2 DEF Locals, Labels
  <1>5. /\ M.pc = pc /\ M.key = k /\ M.ok = ok /\ M.id = id /\ M.client = L.client /\ M.ep = L.ep
        /\ M.keyed = L.keyed /\ M.ctx = L.ctx /\ M.knew = L.knew
    BY <1>1 DEF Locals
  <1> HIDE DEF M
  <1>6. Placed(M)
    BY <1>1, <1>2, <1>5 DEF Placed
  <1> QED BY <1>2, <1>3, <1>4, <1>5, <1>6

\* The upstream creates a task, and the request that sent it knows or not.
LEMMA SendCreateKeeps ==
    ASSUME IInv, NEW r \in Requests, loc[r].pc = "send", NEW k \in Keys,
           loc[r].ep.kind = "create", SendCreate(r, k), UNCHANGED <<tables, faults, admin, aux>>
    PROVE  IInv'
  <1>1. PICK t \in 1..Tasks :
        /\ task[t] = NULL /\ \A u \in 1..(t - 1) : task[u] # NULL
        /\ task' = [task EXCEPT ![t] = [key |-> k, client |-> loc[r].client, type |-> loc[r].ep.type,
                                        ctx |-> loc[r].ctx]]
        /\ Answered(r, KeyOfResult(r, k), TRUE, t) \/ LostAnswer(r)
    BY DEF SendCreate
  <1> DEFINE row == [key |-> k, client |-> loc[r].client, type |-> loc[r].ep.type, ctx |-> loc[r].ctx]
  <1>2. row \in TaskRows /\ t \in Ids
    BY LocType DEF TaskRows, Placed, Locals, Ids
  <1>3. row.key = k /\ row.client = loc[r].client /\ row.type = loc[r].ep.type
    OBVIOUS
  <1>4. task' = [task EXCEPT ![t] = row]
    BY <1>1
  <1> HIDE DEF row
  <1>5. task' \in [Ids -> TaskRows \cup {NULL}] /\ task'[t] = row /\ task'[t] # NULL
    <2>1. row # NULL
      BY <1>2, ResourcesAssumption
    <2> QED BY <1>2, <1>4, <2>1 DEF IInv, Typed
  <1>6. Grows
    BY <1>1, <1>2, <1>4 DEF Grows, IInv, Typed, tables, aux
  <1>7. PICK M \in Locals : /\ Placed(M) /\ loc' = [loc EXCEPT ![r] = M]
                            /\ M.ok => /\ M.pc = "account" /\ M.key = k /\ M.id = t
                                       /\ M.client = loc[r].client /\ M.ep = loc[r].ep
    <2>1. CASE Answered(r, KeyOfResult(r, k), TRUE, t)
      <3>1. Answered(r, k, TRUE, t)
        BY <2>1 DEF KeyOfResult
      <3>2. t \in Ids \cup {NULL} /\ TRUE \in BOOLEAN
        BY <1>2
      <3>3. ASSUME NEW id \in Ids \cup {NULL}, NEW ok \in BOOLEAN, Answered(r, k, ok, id)
            PROVE  \E M \in Locals : /\ Placed(M) /\ loc' = [loc EXCEPT ![r] = M]
                                     /\ M.ok => /\ M.pc = "account" /\ M.key = k /\ M.id = id
                                                /\ M.client = loc[r].client /\ M.ep = loc[r].ep
        <4>1. PICK M \in Locals :
                 /\ Placed(M) /\ loc' = [loc EXCEPT ![r] = M]
                 /\ M.ok => M.pc = "account"
                 /\ M.key = k /\ M.id = id /\ M.client = loc[r].client /\ M.ep = loc[r].ep
          BY <3>3, AnsweredFits
        <4> QED BY <4>1
      <3> QED BY <3>1, <3>2, <3>3, Zenon
    <2>2. CASE LostAnswer(r)
      BY <2>2, RaiseFits DEF LostAnswer
    <2> QED BY <1>1, <2>1, <2>2
  <1>8. Creates(M)'
    BY <1>2, <1>3, <1>5, <1>7 DEF Creates, Owns
  <1>9. /\ loc' \in [Requests -> Locals]
        /\ \A q \in Requests : Placed(loc'[q]) /\ Creates(loc[q])'
        /\ BindingsMatch' /\ RecordsMatch' /\ LogsMatch' /\ ToldMatch'
    BY <1>6, <1>7, <1>8, CallStep DEF tables, aux
  <1>10. Typed'
    BY <1>5, <1>9 DEF IInv, Typed, tables, aux
  <1> QED BY <1>9, <1>10 DEF IInv

LEMMA CandidateIsKey ==
    ASSUME NEW r, NEW k \in Candidates(r)
    PROVE  k \in Keys
  BY DEF Candidates

LEMMA SendKeeps ==
    ASSUME IInv, NEW r \in Requests, Send(r)
    PROVE  IInv'
  <1> DEFINE L == loc[r]
  <1>1. /\ L \in Locals /\ Placed(L) /\ Creates(L) /\ L.pc = "send" /\ loc \in [Requests -> Locals]
        /\ UNCHANGED <<tables, faults, admin, aux>>
        /\ faults' \in 0..MaxFaults /\ admin' \in 0..MaxAdmin
    BY LocType DEF Send, At, IInv, Typed
  <1>2. CASE Raise(r) /\ UNCHANGED task
    BY <1>1, <1>2, RaiseFits, LocalStep
  <1>3. ASSUME NEW k \in Keys, NEW ok \in BOOLEAN, NEW id \in Ids \cup {NULL},
               Answered(r, k, ok, id), UNCHANGED task, ok => L.ep.kind # "create"
        PROVE  IInv'
    <2>1. PICK M \in Locals : /\ Placed(M) /\ loc' = [loc EXCEPT ![r] = M]
                              /\ M.ok = ok /\ M.ep = L.ep
      BY <1>1, <1>3, AnsweredFits
    <2>2. Creates(M)
      BY <1>3, <2>1 DEF Creates
    <2> QED BY <1>1, <1>3, <2>1, <2>2, LocalStep
  <1>4. ASSUME NEW k \in Keys, UNCHANGED task,
               loc' = [loc EXCEPT ![r].second = TRUE, ![r].key = k]
        PROVE  IInv'
    <2> DEFINE M == [L EXCEPT !.second = TRUE, !.key = k]
    <2>1. M \in Locals
      BY <1>1 DEF Locals
    <2>2. /\ M.pc = L.pc /\ M.client = L.client /\ M.ep = L.ep /\ M.keyed = L.keyed
          /\ M.ctx = L.ctx /\ M.id = L.id
      BY <1>1 DEF Locals
    <2>3. loc' = [loc EXCEPT ![r] = M]
      BY <1>1, <1>4
    <2> HIDE DEF M
    <2>4. Placed(M) /\ Creates(M)
      BY <1>1, <2>2 DEF Placed, Creates
    <2> QED BY <1>1, <1>4, <2>1, <2>3, <2>4, LocalStep
  <1>5. ASSUME NEW k \in Candidates(r),
               \/ loc[r].ep.kind = "create" /\ SendCreate(r, k)
               \/ loc[r].ep.kind = "use" /\ SendUse(r, k)
               \/ loc[r].ep.kind = "plain" /\ Answered(r, k, TRUE, NULL) /\ UNCHANGED task
               \/ /\ TryFallback(r)
                  /\ loc' = [loc EXCEPT ![r].second = TRUE, ![r].key = k]
                  /\ UNCHANGED task
               \/ Answered(r, k, FALSE, loc[r].id) /\ UNCHANGED task
        PROVE  IInv'
    <2>1. k \in Keys /\ L.id \in Ids \cup {NULL}
      BY <1>1, CandidateIsKey DEF Locals
    <2>2. CASE loc[r].ep.kind = "create" /\ SendCreate(r, k)
      BY <1>1, <2>1, <2>2, SendCreateKeeps
    <2>3. CASE loc[r].ep.kind = "use" /\ SendUse(r, k)
      BY <1>3, <2>1, <2>3 DEF SendUse
    <2>4. CASE loc[r].ep.kind = "plain" /\ Answered(r, k, TRUE, NULL) /\ UNCHANGED task
      BY <1>3, <2>1, <2>4
    <2>5. CASE loc' = [loc EXCEPT ![r].second = TRUE, ![r].key = k] /\ UNCHANGED task
      BY <1>4, <2>1, <2>5
    <2>6. CASE Answered(r, k, FALSE, loc[r].id) /\ UNCHANGED task
      BY <1>3, <2>1, <2>6
    <2> QED BY <1>5, <2>2, <2>3, <2>4, <2>5, <2>6
  <1> QED BY <1>2, <1>5 DEF Send

LEMMA BindKeeps ==
    ASSUME IInv, NEW r \in Requests, Bind(r)
    PROVE  IInv'
  <1> DEFINE L == loc[r]
             row == [client |-> L.client, type |-> L.ep.type, id |-> L.id, key |-> L.key]
             valid == L.client \in clients /\ keys[L.key] # "gone"
  <1> PICK M : M = [L EXCEPT !.pc = After(r, "bind")]
    OBVIOUS
  <1>1. /\ L \in Locals /\ Placed(L) /\ Creates(L) /\ L.pc = "bind" /\ L.ep.type \in Types
        /\ loc \in [Requests -> Locals] /\ task \in [Ids -> TaskRows \cup {NULL}]
    BY LocType DEF Bind, At, IInv, Typed
  <1>2. /\ L.id \in Ids /\ task[L.id] # NULL /\ task[L.id].client = L.client /\ L.key \in Keys
        /\ task[L.id].key = L.key /\ task[L.id].type = L.ep.type /\ L.client \in Clients
    BY <1>1 DEF Placed, Creates, Owns
  <1>3. /\ row \in BindingRows /\ row.client = L.client /\ row.type = L.ep.type
        /\ row.id = L.id /\ row.key = L.key
    BY <1>1, <1>2 DEF BindingRows
  <1>4. /\ UNCHANGED <<clients, keys, record, logs, task, admin, told, removed>>
        /\ faults' \in 0..MaxFaults
    BY FailType DEF Bind
  <1>5. \/ valid /\ bindings' = bindings \cup {row} /\ UNCHANGED unbound
        \/ unbound' = unbound \cup {L.id} /\ UNCHANGED bindings
    BY DEF Bind
  <1>6. M \in Locals /\ loc' = [loc EXCEPT ![r] = M]
    BY <1>1 DEF Bind, Step, After, Finish, Locals, Labels
  <1>7. /\ M.pc = After(r, "bind") /\ M.client = L.client /\ M.ep = L.ep /\ M.keyed = L.keyed
        /\ M.ctx = L.ctx /\ M.id = L.id /\ M.ok = L.ok /\ M.key = L.key
    BY <1>1 DEF Locals
  <1>8. After(r, "bind") = IF L.ctx THEN "complete" ELSE "log"
    BY DEF After, Finish
  <1> HIDE DEF row
  <1>9. Grows /\ Typed'
    <2>1. Grows /\ bindings' \subseteq BindingRows /\ unbound' \subseteq Ids
      BY <1>2, <1>3, <1>4, <1>5 DEF Grows, IInv, Typed
    <2>2. loc' \in [Requests -> Locals]
      BY <1>1, <1>6
    <2> QED BY <1>4, <2>1, <2>2 DEF IInv, Typed
  <1>10. L.id \in unbound' \/ \E b \in bindings' : b.id = L.id
    BY <1>3, <1>5
  <1>11. BindingsMatch'
    <2>1. ASSUME NEW b \in bindings
          PROVE  /\ b.client \in clients' /\ keys'[b.key] # "gone"
                 /\ task'[b.id] # NULL /\ task'[b.id].client = b.client
                 /\ task'[b.id].key = b.key /\ task'[b.id].type = b.type
      BY <1>4 DEF IInv, BindingsMatch
    <2>2. valid => /\ row.client \in clients' /\ keys'[row.key] # "gone"
                   /\ task'[row.id] # NULL /\ task'[row.id].client = row.client
                   /\ task'[row.id].key = row.key /\ task'[row.id].type = row.type
      BY <1>2, <1>3, <1>4
    <2> QED BY <1>5, <2>1, <2>2 DEF BindingsMatch
  <1> HIDE DEF L
  <1>12. Placed(M)
    BY <1>1, <1>7, <1>8 DEF Placed
  <1>13. Creates(M)'
    BY <1>2, <1>4, <1>7, <1>8, <1>10 DEF Creates, Owns, Settled
  <1>14. /\ \A q \in Requests : Placed(loc'[q]) /\ Creates(loc[q])'
         /\ RecordsMatch' /\ LogsMatch' /\ ToldMatch'
    <2>1. loc[r].pc # "done"
      BY <1>1 DEF L
    <2> QED BY <1>4, <1>6, <1>9, <1>12, <1>13, <2>1, CallStep
  <1> QED BY <1>9, <1>11, <1>14 DEF IInv

LEMMA CompleteKeeps ==
    ASSUME IInv, NEW r \in Requests, Complete(r)
    PROVE  IInv'
  <1> DEFINE L == loc[r]
             c == L.client
             R == [record[c] EXCEPT !.status = "completed", !.ok = L.ok, !.id = L.id]
  <1> PICK M : M = [L EXCEPT !.pc = "log"]
    OBVIOUS
  <1>1. /\ L \in Locals /\ Placed(L) /\ Creates(L) /\ L.pc = "complete" /\ c \in Clients
        /\ loc \in [Requests -> Locals] /\ record \in [Clients -> Records \cup {NULL}]
        /\ L.ep.kind = "create"
    BY LocType DEF Complete, At, IInv, Typed, Placed
  <1>2. /\ UNCHANGED <<clients, keys, bindings, logs, task, admin, told, unbound, removed>>
        /\ faults' \in 0..MaxFaults
    BY FailType DEF Complete, aux
  <1>3. record' = record \/ (record[c] # NULL /\ record' = [record EXCEPT ![c] = R])
    BY <1>1 DEF Complete
  <1>4. record[c] # NULL => R \in Records /\ R.ok = L.ok /\ R.id = L.id
    BY <1>1 DEF Records, Locals
  <1>5. M \in Locals /\ loc' = [loc EXCEPT ![r] = M]
    BY <1>1 DEF Complete, Step, After, Locals, Labels
  <1>6. /\ M.pc = "log" /\ M.client = L.client /\ M.ep = L.ep /\ M.keyed = L.keyed
        /\ M.ctx = L.ctx /\ M.id = L.id /\ M.ok = L.ok
    BY <1>1 DEF Locals
  <1>7. L.ok => /\ L.id \in Ids /\ task[L.id] # NULL /\ task[L.id].client = c /\ Settled(L.id)
    BY <1>1 DEF Creates, Owns
  <1>8. Grows
    BY <1>2 DEF Grows
  <1> HIDE DEF R, L
  <1>9. record' \in [Clients -> Records \cup {NULL}]
    BY <1>1, <1>3, <1>4
  <1>10. RecordsMatch'
    <2>1. \A t \in Ids : task[t] # NULL /\ Settled(t) => Settled(t)'
      BY <1>8, GrowsKeeps
    <2> SUFFICES ASSUME NEW d \in Clients, record'[d] # NULL
                 PROVE  /\ d \in clients'
                        /\ record'[d].status = "completed" /\ record'[d].ok =>
                             /\ record'[d].id \in Ids /\ task'[record'[d].id] # NULL
                             /\ task'[record'[d].id].client = d /\ Settled(record[d].id)'
      BY DEF RecordsMatch
    <2>2. CASE record'[d] = record[d]
      <3>1. record[d].status = "completed" /\ record[d].ok => Settled(record[d].id)'
        BY <2>1, <2>2 DEF IInv, RecordsMatch
      <3>2. Settled(record[d].id)' = (\/ task'[record'[d].id].type = NULL
                                      \/ record'[d].id \in unbound'
                                      \/ \E b \in bindings' : b.id = record'[d].id)
        BY DEF Settled
      <3> QED BY <1>2, <2>2, <3>1, <3>2 DEF IInv, RecordsMatch
    <2>3. CASE d = c /\ record'[d] = R /\ record[c] # NULL
      <3>1. L.ok => Settled(L.id)
        BY <1>7
      <3> QED BY <1>2, <1>4, <1>7, <2>3, <3>1 DEF IInv, RecordsMatch, Settled
    <2> QED BY <1>1, <1>3, <2>2, <2>3
  <1>11. Placed(M)
    BY <1>1, <1>6 DEF Placed
  <1>12. Creates(M)'
    <2>1. \A K : Creates(K) => Creates(K)'
      BY <1>8, GrowsKeeps
    <2>2. Creates(M)
      BY <1>6, <1>7 DEF Creates, Owns
    <2> QED BY <2>1, <2>2
  <1>13. /\ loc' \in [Requests -> Locals]
         /\ \A q \in Requests : Placed(loc'[q]) /\ Creates(loc[q])'
         /\ BindingsMatch' /\ LogsMatch' /\ ToldMatch'
    <2>1. loc[r].pc # "done"
      BY <1>1 DEF L
    <2> QED BY <1>2, <1>5, <1>8, <1>11, <1>12, <2>1, CallStep
  <1>14. Typed'
    BY <1>2, <1>9, <1>13 DEF IInv, Typed
  <1> QED BY <1>10, <1>13, <1>14 DEF IInv

LEMMA LogKeeps ==
    ASSUME IInv, NEW r \in Requests, Log(r)
    PROVE  IInv'
  <1> DEFINE L == loc[r]
             row == [req |-> r, client |-> L.client, key |-> L.key]
             pair == <<L.client, L.id>>
             ok == L.ok /\ L.ep.kind = "create"
  <1> PICK M : M = [Idle EXCEPT !.pc = "done"]
    OBVIOUS
  <1>1. /\ L \in Locals /\ Placed(L) /\ Creates(L) /\ L.pc = "log" /\ L.client \in Clients
        /\ loc \in [Requests -> Locals] /\ logs \subseteq LogRows
    BY LocType DEF Log, At, IInv, Typed, Placed
  <1>2. /\ UNCHANGED <<clients, keys, bindings, record, task, admin, unbound, removed>>
        /\ faults' \in 0..MaxFaults
    BY FailType DEF Log
  <1>3. \/ UNCHANGED logs
        \/ /\ L.client \in clients /\ (L.key # NULL => keys[L.key] # "gone")
           /\ logs' = logs \cup {row}
    BY DEF Log
  <1>4. row \in LogRows /\ row.req = r /\ row.client = L.client /\ row.key = L.key
    BY <1>1 DEF LogRows, Locals
  <1>5. told' = IF ok THEN told \cup {pair} ELSE told
    BY DEF Log
  <1>6. ok => /\ L.id \in Ids /\ task[L.id] # NULL /\ task[L.id].client = L.client /\ Settled(L.id)
    BY <1>1 DEF Creates, Owns
  <1>7. /\ M \in Locals /\ M.pc = "done" /\ Placed(M) /\ Creates(M)'
        /\ loc' = [loc EXCEPT ![r] = M]
    <2>1. M \in Locals /\ M.pc = "done" /\ Placed(M)
      BY IdleFits
    <2> QED BY <2>1 DEF Log, Creates
  <1> HIDE DEF row, ok
  <1>8. Grows
    BY <1>2 DEF Grows
  <1>9. /\ loc' \in [Requests -> Locals] /\ loc'[r] = M
        /\ \A q \in Requests \ {r} : loc'[q] = loc[q]
        /\ \A q \in Requests : Placed(loc'[q]) /\ Creates(loc[q])'
        /\ BindingsMatch' /\ RecordsMatch'
    BY <1>1, <1>2, <1>7, <1>8, CallStep
  <1>10. told' \subseteq Clients \X Ids
    BY <1>1, <1>5, <1>6 DEF IInv, Typed
  <1>11. logs' \subseteq LogRows
    BY <1>1, <1>3, <1>4
  <1>12. Typed'
    BY <1>2, <1>9, <1>10, <1>11 DEF IInv, Typed
  <1>13. LogsMatch'
    <2>1. ASSUME NEW l \in logs
          PROVE  /\ l.client \in clients' \cup {NULL} /\ (l.key # NULL => keys'[l.key] # "gone")
                 /\ loc[l.req].pc = "done" /\ l.req \in Requests /\ l.req # r /\ loc'[l.req].pc = "done"
                 /\ \A m \in logs : m.req = l.req => m = l
      BY <1>1, <1>2, <1>9 DEF IInv, LogsMatch, LogRows
    <2>2. CASE UNCHANGED logs
      BY <2>1, <2>2 DEF LogsMatch
    <2>3. CASE /\ L.client \in clients /\ (L.key # NULL => keys[L.key] # "gone")
               /\ logs' = logs \cup {row}
      BY <1>2, <1>4, <1>7, <1>9, <2>1, <2>3 DEF LogsMatch
    <2> QED BY <1>3, <2>2, <2>3
  <1>14. ToldMatch'
    <2> SUFFICES ASSUME NEW c \in Clients, NEW t \in Ids, <<c, t>> \in told'
                 PROVE  task'[t] # NULL /\ task'[t].client = c /\ Settled(t)'
      BY DEF ToldMatch
    <2>1. \A u \in Ids : task[u] # NULL /\ Settled(u) => Settled(u)'
      BY <1>8, GrowsKeeps
    <2>2. CASE <<c, t>> \in told
      BY <1>2, <2>1, <2>2 DEF IInv, ToldMatch
    <2>3. CASE ok /\ <<c, t>> = pair
      BY <1>2, <1>6, <2>1, <2>3
    <2> QED BY <1>5, <2>2, <2>3
  <1> QED BY <1>9, <1>12, <1>13, <1>14 DEF IInv

-----------------------------------------------------------------------------
(***************************************************************************)
(* The administrator and the retention job.                                *)
(***************************************************************************)
LEMMA AdministerType ==
    ASSUME IInv, Administer
    PROVE  admin' \in 0..MaxAdmin
  BY ResourcesAssumption DEF IInv, Typed, Administer

LEMMA SettledSame ==
    ASSUME UNCHANGED <<bindings, task, loc, unbound>>
    PROVE  /\ \A t : Settled(t) => Settled(t)'
           /\ \A r \in Requests : /\ Placed(loc[r]) => Placed(loc[r])'
                                  /\ Creates(loc[r]) => Creates(loc[r])'
  BY DEF Settled, Placed, Creates, Owns

LEMMA SetKeyKeeps ==
    ASSUME IInv, NEW k \in Keys, SetKey(k)
    PROVE  IInv'
  <1>1. /\ UNCHANGED <<clients, bindings, record, logs, task, loc, faults, told, unbound, removed>>
        /\ admin' \in 0..MaxAdmin
    BY AdministerType DEF SetKey, aux
  <1>2. keys' \in [Keys -> {"usable", "unusable", "gone"}]
        /\ \A j \in Keys : keys[j] # "gone" => keys'[j] # "gone"
    BY DEF SetKey, IInv, Typed
  <1>3. Typed'
    BY <1>1, <1>2 DEF IInv, Typed
  <1>4. \A r \in Requests : Placed(loc[r])' /\ Creates(loc[r])'
    BY <1>1, SettledSame DEF IInv
  <1>5. BindingsMatch'
    BY <1>1, <1>2 DEF IInv, Typed, BindingsMatch, BindingRows
  <1>6. RecordsMatch'
    BY <1>1 DEF IInv, RecordsMatch, Settled
  <1>7. LogsMatch'
    BY <1>1, <1>2 DEF IInv, Typed, LogsMatch, LogRows
  <1>8. ToldMatch'
    BY <1>1 DEF IInv, ToldMatch, Settled
  <1> QED BY <1>3, <1>4, <1>5, <1>6, <1>7, <1>8 DEF IInv

LEMMA PurgeKeyKeeps ==
    ASSUME IInv, NEW k \in Keys, PurgeKey(k)
    PROVE  IInv'
  <1>1. /\ UNCHANGED <<clients, bindings, record, task, loc, faults, told, unbound, removed>>
        /\ admin' \in 0..MaxAdmin
    BY AdministerType DEF PurgeKey, aux
  <1>2. /\ keys' \in [Keys -> {"usable", "unusable", "gone"}]
        /\ \A b \in bindings : keys'[b.key] # "gone"
    BY DEF PurgeKey, IInv, Typed, BindingsMatch, BindingRows
  <1>3. ASSUME NEW l \in logs'
        PROVE  \E m \in logs : /\ l \in LogRows /\ l.req = m.req /\ l.client = m.client
                               /\ l.key # NULL => keys'[l.key] # "gone"
                               /\ l = [m EXCEPT !.key = l.key]
                               /\ \/ UNCHANGED logs /\ l = m
                                  \/ l.key = IF m.key = k THEN NULL ELSE m.key
    <2>1. CASE UNCHANGED <<keys, logs>>
      BY <2>1 DEF IInv, Typed, LogsMatch, LogRows
    <2>2. CASE /\ keys' = [keys EXCEPT ![k] = "gone"]
               /\ logs' = {[m EXCEPT !.key = IF @ = k THEN NULL ELSE @] : m \in logs}
      <3>1. PICK m \in logs : l = [m EXCEPT !.key = IF @ = k THEN NULL ELSE @]
        BY <2>2
      <3>2. m \in LogRows /\ (m.key # NULL => m.key \in Keys /\ keys[m.key] # "gone")
        BY DEF IInv, Typed, LogsMatch, LogRows
      <3>3. /\ l \in LogRows /\ l.req = m.req /\ l.client = m.client
            /\ l.key = IF m.key = k THEN NULL ELSE m.key
            /\ l = [m EXCEPT !.key = l.key]
        BY <3>1, <3>2 DEF LogRows
      <3>4. l.key # NULL => keys'[l.key] # "gone"
        BY <2>2, <3>2, <3>3 DEF IInv, Typed
      <3> QED BY <3>3, <3>4
    <2> QED BY <2>1, <2>2 DEF PurgeKey
  <1>4. Typed'
    BY <1>1, <1>2, <1>3 DEF IInv, Typed
  <1>5. \A r \in Requests : Placed(loc[r])' /\ Creates(loc[r])'
    BY <1>1, SettledSame DEF IInv
  <1>6. BindingsMatch'
    BY <1>1, <1>2 DEF IInv, BindingsMatch
  <1>7. RecordsMatch'
    BY <1>1 DEF IInv, RecordsMatch, Settled
  <1>8. LogsMatch'
    <2>1. ASSUME NEW l \in logs', NEW m \in logs', m.req = l.req PROVE m = l
      BY <1>3, <2>1 DEF IInv, LogsMatch
    <2>2. ASSUME NEW l \in logs'
          PROVE  /\ l.client \in clients' \cup {NULL} /\ (l.key # NULL => keys'[l.key] # "gone")
                 /\ loc'[l.req].pc = "done"
      BY <1>1, <1>3 DEF IInv, LogsMatch
    <2> QED BY <2>1, <2>2 DEF LogsMatch
  <1>9. ToldMatch'
    BY <1>1 DEF IInv, ToldMatch, Settled
  <1> QED BY <1>4, <1>5, <1>6, <1>7, <1>8, <1>9 DEF IInv

LEMMA PurgeClientKeeps ==
    ASSUME IInv, NEW c \in Clients, PurgeClient(c)
    PROVE  IInv'
  <1>1. /\ UNCHANGED <<keys, bindings, task, loc, faults, told, unbound>>
        /\ admin' \in 0..MaxAdmin
    BY AdministerType DEF PurgeClient
  <1>2. /\ clients' \subseteq Clients /\ record' \in [Clients -> Records \cup {NULL}]
        /\ removed' \in [Clients -> Nat] /\ \A b \in bindings : b.client \in clients'
        /\ \A d \in Clients : record'[d] # NULL => record'[d] = record[d] /\ d \in clients'
    BY DEF PurgeClient, PurgedRecords, IInv, Typed, BindingsMatch, RecordsMatch
  <1>3. ASSUME NEW l \in logs'
        PROVE  \E m \in logs : /\ l \in LogRows /\ l.req = m.req /\ l.key = m.key
                               /\ l.client \in clients' \cup {NULL}
                               /\ l = [m EXCEPT !.client = l.client]
                               /\ \/ UNCHANGED logs /\ l = m
                                  \/ l.client = IF m.client = c THEN NULL ELSE m.client
    <2>1. CASE UNCHANGED <<clients, logs>>
      BY <2>1 DEF IInv, Typed, LogsMatch, LogRows
    <2>2. CASE /\ clients' = clients \ {c}
               /\ logs' = {[m EXCEPT !.client = IF @ = c THEN NULL ELSE @] : m \in logs}
      <3>1. PICK m \in logs : l = [m EXCEPT !.client = IF @ = c THEN NULL ELSE @]
        BY <2>2
      <3>2. m \in LogRows /\ m.client \in clients \cup {NULL}
        BY DEF IInv, Typed, LogsMatch
      <3>3. /\ l \in LogRows /\ l.req = m.req /\ l.key = m.key
            /\ l.client = IF m.client = c THEN NULL ELSE m.client
            /\ l = [m EXCEPT !.client = l.client]
        BY <3>1, <3>2 DEF LogRows
      <3>4. l.client \in clients' \cup {NULL}
        BY <2>2, <3>2, <3>3
      <3> QED BY <3>3, <3>4
    <2> QED BY <2>1, <2>2 DEF PurgeClient
  <1>4. Typed'
    BY <1>1, <1>2, <1>3 DEF IInv, Typed
  <1>5. \A r \in Requests : Placed(loc[r])' /\ Creates(loc[r])'
    BY <1>1, SettledSame DEF IInv
  <1>6. BindingsMatch'
    BY <1>1, <1>2 DEF IInv, BindingsMatch
  <1>7. RecordsMatch'
    BY <1>1, <1>2 DEF IInv, RecordsMatch, Settled
  <1>8. LogsMatch'
    <2>1. ASSUME NEW l \in logs', NEW m \in logs', m.req = l.req PROVE m = l
      BY <1>3, <2>1 DEF IInv, LogsMatch
    <2>2. ASSUME NEW l \in logs'
          PROVE  /\ l.client \in clients' \cup {NULL} /\ (l.key # NULL => keys'[l.key] # "gone")
                 /\ loc'[l.req].pc = "done"
      BY <1>1, <1>3 DEF IInv, LogsMatch
    <2> QED BY <2>1, <2>2 DEF LogsMatch
  <1>9. ToldMatch'
    BY <1>1 DEF IInv, ToldMatch, Settled
  <1> QED BY <1>4, <1>5, <1>6, <1>7, <1>8, <1>9 DEF IInv

LEMMA CleanupKeeps ==
    ASSUME IInv, CleanupRetention
    PROVE  IInv'
  <1>1. /\ UNCHANGED <<clients, keys, bindings, task, loc, faults, told, unbound>>
        /\ admin' \in 0..MaxAdmin
    BY AdministerType DEF CleanupRetention
  <1>2. PICK old \in SUBSET logs, expired \in SUBSET {c \in Clients : record[c] # NULL} :
         /\ logs' = logs \ old
         /\ record' = [c \in Clients |-> IF c \in expired THEN NULL ELSE record[c]]
         /\ removed' = [c \in Clients |-> IF c \in expired THEN removed[c] + 1 ELSE removed[c]]
    BY DEF CleanupRetention
  <1>3. /\ logs' \subseteq logs /\ record' \in [Clients -> Records \cup {NULL}]
        /\ removed' \in [Clients -> Nat]
        /\ \A d \in Clients : record'[d] # NULL => record'[d] = record[d]
    BY <1>2 DEF IInv, Typed
  <1>4. Typed'
    BY <1>1, <1>3 DEF IInv, Typed
  <1>5. \A r \in Requests : Placed(loc[r])' /\ Creates(loc[r])'
    BY <1>1, SettledSame DEF IInv
  <1>6. BindingsMatch'
    BY <1>1 DEF IInv, BindingsMatch
  <1>7. RecordsMatch'
    BY <1>1, <1>3 DEF IInv, RecordsMatch, Settled
  <1>8. LogsMatch'
    BY <1>1, <1>3 DEF IInv, LogsMatch
  <1>9. ToldMatch'
    BY <1>1 DEF IInv, ToldMatch, Settled
  <1> QED BY <1>4, <1>5, <1>6, <1>7, <1>8, <1>9 DEF IInv

-----------------------------------------------------------------------------
(***************************************************************************)
(* The types, and that what a client was told of is bound.                 *)
(***************************************************************************)
LEMMA IInvInit ==
    Init => IInv
  <1> SUFFICES ASSUME Init PROVE IInv
    OBVIOUS
  <1>1. Idle \in Locals /\ Placed(Idle) /\ Creates(Idle)
    BY DEF Idle, Locals, Labels, Placed, Creates
  <1>2. Typed
    BY <1>1, ResourcesAssumption DEF Init, Typed, Ids
  <1>3. \A r \in Requests : Placed(loc[r]) /\ Creates(loc[r])
    BY <1>1 DEF Init
  <1>4. BindingsMatch /\ RecordsMatch /\ LogsMatch /\ ToldMatch
    BY DEF Init, BindingsMatch, RecordsMatch, LogsMatch, ToldMatch
  <1> QED BY <1>2, <1>3, <1>4 DEF IInv

LEMMA IInvStep ==
    IInv /\ [Next]_vars => IInv'
  <1> SUFFICES ASSUME IInv, [Next]_vars PROVE IInv'
    OBVIOUS
  <1>1. CASE UNCHANGED vars
    <2>1. Grows
      BY <1>1 DEF Grows, vars, tables, aux
    <2> QED BY <1>1, SettledSame DEF vars, tables, aux, IInv, Typed, BindingsMatch, RecordsMatch,
                                     LogsMatch, ToldMatch, Settled, Placed, Creates, Owns
  <1>2. ASSUME NEW r \in Requests,
               \/ Arrive(r) \/ Begin(r) \/ Lookup(r) \/ Send(r) \/ Account(r)
               \/ Bind(r) \/ Complete(r) \/ Log(r) \/ Crash(r)
        PROVE  IInv'
    BY <1>2, ArriveKeeps, BeginKeeps, LookupKeeps, SendKeeps, AccountKeeps, BindKeeps,
       CompleteKeeps, LogKeeps, CrashKeeps
  <1> QED BY <1>1, <1>2, SetKeyKeeps, PurgeKeyKeeps, PurgeClientKeeps, CleanupKeeps DEF Next

LEMMA IInvInvariant ==
    Spec => []IInv
  BY IInvInit, IInvStep, PTL DEF Spec

\* The type invariant and the foreign keys: no row of a binding, of a record
\* or of a log refers to a purged key or client, and a task is bound once.
THEOREM TypeCorrect ==
    Spec => []TypeOK
  <1>1. IInv => TypeOK
    <2> SUFFICES ASSUME IInv PROVE TypeOK
      OBVIOUS
    <2>1. ASSUME NEW b \in bindings
          PROVE  /\ b.client \in clients /\ keys[b.key] # "gone" /\ b.id \in Ids
                 /\ BoundTo(b.client, b.type, b.id) = {b}
      <3>1. b \in BindingRows /\ b.client \in clients /\ keys[b.key] # "gone"
              /\ b.key = task[b.id].key
        BY DEF IInv, Typed, BindingsMatch
      <3>2. ASSUME NEW d \in bindings, d.client = b.client, d.type = b.type, d.id = b.id
            PROVE  d = b
        <4>1. d \in BindingRows /\ d.key = task[d.id].key
          BY DEF IInv, Typed, BindingsMatch
        <4> QED BY <3>1, <3>2, <4>1 DEF BindingRows
      <3> QED BY <3>1, <3>2 DEF BoundTo, BindingRows
    <2>2. \A c \in Clients : record[c] # NULL => c \in clients
      BY DEF IInv, RecordsMatch
    <2>3. \A l \in logs : /\ l.client \in clients \cup {NULL}
                          /\ l.key # NULL => keys[l.key] # "gone"
                          /\ \A m \in logs : m.req = l.req => m = l
      BY DEF IInv, LogsMatch
    <2> QED BY <2>1, <2>2, <2>3 DEF TypeOK, IInv, Typed
  <1> QED BY <1>1, IInvInvariant, PTL

\* A client that was told of a task it created finds its binding, with the key
\* that created it, unless the write failed (bind_resource before the answer and
\* before complete(), on the paths of creation, replay and takeover).
THEOREM ToldIsBoundHolds ==
    Spec => []ToldIsBound
  <1>1. IInv => ToldIsBound
    <2> SUFFICES ASSUME IInv, NEW c \in Clients, NEW t \in Ids, <<c, t>> \in told,
                        task[t].client = c, task[t].type # NULL, t \notin unbound
                 PROVE  \E b \in BoundTo(c, task[t].type, t) : b.key = task[t].key
      BY DEF ToldIsBound
    <2>1. PICK b \in bindings : b.id = t
      BY DEF IInv, ToldMatch, Settled
    <2> QED BY <2>1 DEF IInv, BindingsMatch, BoundTo
  <1> QED BY <1>1, IInvInvariant, PTL

-----------------------------------------------------------------------------
(***************************************************************************)
(* One task per idempotency record: a client's requests that may still     *)
(* create a task, and the tasks they created, never outnumber the records  *)
(* that were ever inserted.                                                *)
(***************************************************************************)
LEMMA CtxTasksFinite ==
    ASSUME NEW c
    PROVE  IsFiniteSet(CtxTasks(c)) /\ Cardinality(CtxTasks(c)) \in Nat
  <1>1. IsFiniteSet(1..Tasks)
    BY FS_Interval, ResourcesAssumption
  <1>2. CtxTasks(c) \subseteq 1..Tasks
    BY DEF CtxTasks, Ids
  <1> QED BY <1>1, <1>2, FS_Subset, FS_CardinalityType

LEMMA InsertedType ==
    ASSUME IInv, NEW c \in Clients
    PROVE  Inserted(c) \in Nat /\ Inserted(c) <= removed[c] + 1
  BY DEF IInv, Typed, Inserted

\* A step that makes no request a sender and creates no task.
LEMMA QuietStep ==
    ASSUME IInv, IInv', OneSender, UNCHANGED task,
           \A c \in Clients : Inserted(c)' >= Inserted(c),
           \A q \in Requests : loc'[q].ctx /\ loc'[q].pc = "send" =>
               loc[q].ctx /\ loc[q].pc = "send" /\ loc[q].client = loc'[q].client
    PROVE  OneSender'
  <1> SUFFICES ASSUME NEW c \in Clients
               PROVE  /\ IsFiniteSet(Senders(c)')
                      /\ Cardinality(CtxTasks(c)') + Cardinality(Senders(c)') <= Inserted(c)'
    BY DEF OneSender
  <1>1. Senders(c)' \subseteq Senders(c) /\ CtxTasks(c)' = CtxTasks(c)
    BY DEF Senders, CtxTasks
  <1>2. IsFiniteSet(Senders(c)') /\ Cardinality(Senders(c)') <= Cardinality(Senders(c))
        /\ Cardinality(Senders(c)') \in Nat /\ Cardinality(Senders(c)) \in Nat
    BY <1>1, FS_Subset, FS_CardinalityType DEF OneSender
  <1>3. Cardinality(CtxTasks(c)) \in Nat /\ Inserted(c) \in Nat /\ Inserted(c)' \in Nat
    BY CtxTasksFinite, InsertedType DEF IInv, Typed, Inserted
  <1>4. /\ Cardinality(CtxTasks(c)) + Cardinality(Senders(c)) <= Inserted(c)
        /\ Inserted(c)' >= Inserted(c)
    BY DEF OneSender
  <1> QED BY <1>1, <1>2, <1>3, <1>4

\* What a step does to a client's part.
Part(c) ==
    /\ IsFiniteSet(Senders(c))
    /\ Cardinality(CtxTasks(c)) + Cardinality(Senders(c)) <= Inserted(c)

LEMMA BeginCounts ==
    ASSUME IInv, IInv', OneSender, NEW r \in Requests, Begin(r)
    PROVE  OneSender'
  <1> DEFINE L == loc[r]
  <1> PICK c : c = L.client
    OBVIOUS
  <1>1. /\ L \in Locals /\ Placed(L) /\ L.pc = "begin" /\ loc \in [Requests -> Locals]
        /\ c \in Clients /\ ~L.ctx /\ UNCHANGED task
        /\ record \in [Clients -> Records \cup {NULL}] /\ removed \in [Clients -> Nat]
    BY LocType DEF Begin, At, IInv, Typed, Placed
  <1>2. CASE UNCHANGED <<record, removed>> /\ ~loc'[r].ctx /\ \A q \in Requests \ {r} : loc'[q] = loc[q]
    <2>1. \A d \in Clients : Inserted(d)' = Inserted(d) /\ Inserted(d) \in Nat
      BY <1>2, InsertedType DEF Inserted
    <2>2. \A q \in Requests : loc'[q].ctx /\ loc'[q].pc = "send" =>
               loc[q].ctx /\ loc[q].pc = "send" /\ loc[q].client = loc'[q].client
      BY <1>2
    <2> QED BY <1>1, <2>1, <2>2, QuietStep
  <1>3. CASE /\ record' = [record EXCEPT ![c] = OwnRecord(r)]
             /\ loc' = [loc EXCEPT ![r].pc = "send", ![r].ctx = TRUE]
             /\ \/ record[c] = NULL /\ UNCHANGED removed
                \/ record[c] # NULL /\ removed' = [removed EXCEPT ![c] = @ + 1]
    <2>1. OwnRecord(r) # NULL
      <3>1. L.ep.idem \in {"crawl", "agent", NULL}
        BY <1>1, LocType
      <3>2. OwnRecord(r) \in Records
        BY <3>1 DEF OwnRecord, Records
      <3> QED BY <3>2, ResourcesAssumption
    <2>2. Inserted(c)' = Inserted(c) + 1
      BY <1>1, <1>3, <2>1 DEF Inserted
    <2>3. \A d \in Clients \ {c} : Inserted(d)' = Inserted(d)
      BY <1>1, <1>3 DEF Inserted
    <2>4. \A d \in Clients : CtxTasks(d)' = CtxTasks(d)
      BY <1>1 DEF CtxTasks
    <2>5. /\ \A q \in Requests \ {r} : loc'[q] = loc[q]
          /\ loc'[r].pc = "send" /\ loc'[r].ctx /\ loc'[r].client = c
      BY <1>1, <1>3 DEF Locals
    <2>6. Senders(c)' = Senders(c) \cup {r} /\ r \notin Senders(c)
      BY <1>1, <2>5 DEF Senders
    <2>7. \A d \in Clients \ {c} : Senders(d)' = Senders(d)
      BY <1>1, <2>5 DEF Senders
    <2>8. ASSUME NEW d \in Clients PROVE Part(d)'
      <3>1. /\ Part(d) /\ Cardinality(CtxTasks(d)) \in Nat /\ Inserted(d) \in Nat
            /\ Cardinality(Senders(d)) \in Nat
        BY CtxTasksFinite, InsertedType, FS_CardinalityType DEF OneSender, Part
      <3>2. CASE d # c
        BY <2>3, <2>4, <2>7, <3>1, <3>2 DEF Part
      <3>3. CASE d = c
        <4>1. /\ IsFiniteSet(Senders(c) \cup {r})
              /\ Cardinality(Senders(c) \cup {r}) = Cardinality(Senders(c)) + 1
          BY <2>6, <3>1, <3>3, FS_AddElement DEF Part
        <4>2. /\ IsFiniteSet(Senders(d)') /\ Cardinality(Senders(d)') = Cardinality(Senders(d)) + 1
              /\ Cardinality(CtxTasks(d)') = Cardinality(CtxTasks(d)) /\ Inserted(d)' = Inserted(d) + 1
          BY <2>2, <2>4, <2>6, <3>3, <4>1
        <4>3. Cardinality(CtxTasks(d)) + Cardinality(Senders(d)) <= Inserted(d)
          BY <3>1 DEF Part
        <4>4. Cardinality(CtxTasks(d)') + Cardinality(Senders(d)') <= Inserted(d)'
          BY <3>1, <4>2, <4>3
        <4> QED BY <4>2, <4>4 DEF Part
      <3> QED BY <3>2, <3>3
    <2> QED BY <2>8 DEF OneSender, Part
  <1>4. /\ loc' \in {[loc EXCEPT ![r].pc = "send"],
                     [loc EXCEPT ![r].pc = "log", ![r].ok = FALSE, ![r].key = NULL],
                     [loc EXCEPT ![r].pc = "log", ![r].ok = record[c].ok, ![r].id = record[c].id]}
         => ~loc'[r].ctx /\ \A q \in Requests \ {r} : loc'[q] = loc[q]
    BY <1>1 DEF Locals
  <1> QED BY <1>2, <1>3, <1>4 DEF Begin, Step, Raise

LEMMA SendCreateCounts ==
    ASSUME IInv, IInv', OneSender, NEW r \in Requests, loc[r].pc = "send", NEW k \in Keys,
           SendCreate(r, k), UNCHANGED <<record, removed>>
    PROVE  OneSender'
  <1> DEFINE L == loc[r]
             c == L.client
             row == [key |-> k, client |-> c, type |-> L.ep.type, ctx |-> L.ctx]
  <1>1. /\ L \in Locals /\ Placed(L) /\ loc \in [Requests -> Locals] /\ c \in Clients
        /\ task \in [Ids -> TaskRows \cup {NULL}]
    BY LocType DEF IInv, Typed, Placed
  <1>2. PICK t \in Ids : /\ task[t] = NULL /\ task' = [task EXCEPT ![t] = row]
                         /\ Answered(r, KeyOfResult(r, k), TRUE, t) \/ LostAnswer(r)
    BY DEF SendCreate, Ids
  <1>3. row \in TaskRows /\ row.client = c /\ row.ctx = L.ctx
    BY <1>1, LocType DEF TaskRows, Locals
  <1>4. row # NULL
    BY <1>3, ResourcesAssumption
  <1>5. loc'[r].pc # "send" /\ \A q \in Requests \ {r} : loc'[q] = loc[q]
    <2>1. loc'[r].pc \in {"account", "log"} /\ \A q \in Requests \ {r} : loc'[q] = loc[q]
      BY <1>1, <1>2 DEF Answered, LostAnswer, Raise, Locals
    <2> QED BY <2>1
  <1> HIDE DEF row
  <1>6. ASSUME NEW d \in Clients
        PROVE  /\ Senders(d)' = Senders(d) \ {r}
               /\ d = c /\ L.ctx => r \in Senders(d) /\ CtxTasks(d)' = CtxTasks(d) \cup {t}
               /\ ~(d = c /\ L.ctx) => CtxTasks(d)' = CtxTasks(d)
               /\ t \notin CtxTasks(d)
    <2>1. Senders(d)' = Senders(d) \ {r} /\ t \notin CtxTasks(d)
      BY <1>2, <1>5 DEF Senders, CtxTasks
    <2>2. task'[t] = row /\ \A u \in Ids \ {t} : task'[u] = task[u]
      BY <1>1, <1>2
    <2>3. d = c /\ L.ctx => r \in Senders(d) /\ CtxTasks(d)' = CtxTasks(d) \cup {t}
      BY <1>3, <1>4, <2>2 DEF Senders, CtxTasks
    <2>4. ~(d = c /\ L.ctx) => CtxTasks(d)' = CtxTasks(d)
      BY <1>2, <1>3, <2>2 DEF CtxTasks
    <2> QED BY <2>1, <2>3, <2>4
  <1>7. ASSUME NEW d \in Clients PROVE Part(d)'
    <2>1. /\ Part(d) /\ Cardinality(CtxTasks(d)) \in Nat /\ Inserted(d) \in Nat
          /\ IsFiniteSet(CtxTasks(d)) /\ IsFiniteSet(Senders(d)) /\ Cardinality(Senders(d)) \in Nat
      BY CtxTasksFinite, InsertedType, FS_CardinalityType DEF OneSender, Part
    <2>2. Inserted(d)' = Inserted(d)
      BY DEF Inserted
    <2>3. /\ IsFiniteSet(Senders(d) \ {r})
          /\ Cardinality(Senders(d) \ {r}) =
               IF r \in Senders(d) THEN Cardinality(Senders(d)) - 1 ELSE Cardinality(Senders(d))
      BY <2>1, FS_RemoveElement
    <2>0. Cardinality(CtxTasks(d)) + Cardinality(Senders(d)) <= Inserted(d)
      BY <2>1 DEF Part
    <2>4. CASE d = c /\ L.ctx
      <3>1. Cardinality(CtxTasks(d) \cup {t}) = Cardinality(CtxTasks(d)) + 1
        BY <1>6, <2>1, FS_AddElement
      <3>2. /\ IsFiniteSet(Senders(d)') /\ Cardinality(Senders(d)') = Cardinality(Senders(d)) - 1
            /\ Cardinality(CtxTasks(d)') = Cardinality(CtxTasks(d)) + 1
        BY <1>6, <2>3, <2>4, <3>1
      <3>3. Cardinality(CtxTasks(d)') + Cardinality(Senders(d)') <= Inserted(d)'
        BY <2>1, <2>2, <2>0, <3>2
      <3> QED BY <3>2, <3>3 DEF Part
    <2>5. CASE ~(d = c /\ L.ctx)
      <3>1. /\ IsFiniteSet(Senders(d)') /\ Cardinality(Senders(d)') <= Cardinality(Senders(d))
            /\ Cardinality(Senders(d)') \in Int /\ Cardinality(CtxTasks(d)') = Cardinality(CtxTasks(d))
        <4>1. Senders(d)' = Senders(d) \ {r} /\ CtxTasks(d)' = CtxTasks(d)
          BY <1>6, <2>5
        <4>2. /\ Cardinality(Senders(d) \ {r}) <= Cardinality(Senders(d))
              /\ Cardinality(Senders(d) \ {r}) \in Int
          BY <2>1, <2>3
        <4> QED BY <2>3, <4>1, <4>2
      <3>2. Cardinality(CtxTasks(d)') + Cardinality(Senders(d)') <= Inserted(d)'
        BY <2>1, <2>2, <2>0, <3>1
      <3> QED BY <3>1, <3>2 DEF Part
    <2> QED BY <2>4, <2>5
  <1> QED BY <1>7 DEF OneSender, Part

LEMMA SendCounts ==
    ASSUME IInv, IInv', OneSender, NEW r \in Requests, Send(r)
    PROVE  OneSender'
  <1> DEFINE L == loc[r]
  <1>1. /\ L \in Locals /\ Placed(L) /\ L.pc = "send" /\ loc \in [Requests -> Locals]
        /\ UNCHANGED <<record, removed>>
    BY LocType DEF Send, At, tables, aux, IInv, Typed
  <1>2. \A d \in Clients : Inserted(d)' >= Inserted(d)
    BY <1>1, InsertedType DEF Inserted
  <1>3. CASE /\ UNCHANGED task /\ \A q \in Requests \ {r} : loc'[q] = loc[q]
             /\ loc'[r].client = L.client /\ loc'[r].ctx = L.ctx
    BY <1>1, <1>2, <1>3, QuietStep
  <1>4. ASSUME NEW k, NEW ok, NEW id,
               \/ Answered(r, k, ok, id) \/ Raise(r)
               \/ loc' = [loc EXCEPT ![r].second = TRUE, ![r].key = k]
        PROVE  /\ \A q \in Requests \ {r} : loc'[q] = loc[q]
               /\ loc'[r].client = L.client /\ loc'[r].ctx = L.ctx
    BY <1>1, <1>4 DEF Answered, Raise, Locals
  <1>5. CASE Raise(r) /\ UNCHANGED task
    BY <1>3, <1>4, <1>5
  <1>6. ASSUME NEW k \in Candidates(r),
               \/ loc[r].ep.kind = "create" /\ SendCreate(r, k)
               \/ loc[r].ep.kind = "use" /\ SendUse(r, k)
               \/ loc[r].ep.kind = "plain" /\ Answered(r, k, TRUE, NULL) /\ UNCHANGED task
               \/ /\ TryFallback(r)
                  /\ loc' = [loc EXCEPT ![r].second = TRUE, ![r].key = k]
                  /\ UNCHANGED task
               \/ Answered(r, k, FALSE, loc[r].id) /\ UNCHANGED task
        PROVE  OneSender'
    <2>1. CASE SendCreate(r, k)
      BY <1>1, <2>1, CandidateIsKey, SendCreateCounts
    <2>2. CASE UNCHANGED task /\ Answered(r, k, TRUE, loc[r].id)
      BY <1>3, <1>4, <2>2
    <2>3. CASE UNCHANGED task /\ Answered(r, k, TRUE, NULL)
      BY <1>3, <1>4, <2>3
    <2>4. CASE UNCHANGED task /\ loc' = [loc EXCEPT ![r].second = TRUE, ![r].key = k]
      BY <1>3, <1>4, <2>4
    <2>5. CASE UNCHANGED task /\ Answered(r, k, FALSE, loc[r].id)
      BY <1>3, <1>4, <2>5
    <2> QED BY <1>6, <2>1, <2>2, <2>3, <2>4, <2>5 DEF SendUse
  <1> QED BY <1>5, <1>6 DEF Send

\* The other steps of a request leave "send" or never reach it with a record.
LEMMA OtherCallsCount ==
    ASSUME IInv, IInv', OneSender, NEW r \in Requests,
           Arrive(r) \/ Lookup(r) \/ Account(r) \/ Bind(r) \/ Complete(r) \/ Log(r) \/ Crash(r)
    PROVE  OneSender'
  <1> DEFINE L == loc[r]
  <1>1. L \in Locals /\ Placed(L) /\ loc \in [Requests -> Locals]
        /\ record \in [Clients -> Records \cup {NULL}] /\ removed \in [Clients -> Nat]
    BY LocType DEF IInv, Typed
  <1>2. UNCHANGED <<task, removed>>
    BY DEF Arrive, Lookup, Account, Bind, Complete, Log, Crash, tables, aux
  <1>3. \A d \in Clients : Inserted(d)' >= Inserted(d)
    <2>1. \A d \in Clients : record'[d] = NULL => record[d] = NULL
      <3>1. CASE Complete(r)
        <4>1. L.client \in Clients
          BY <1>1, <3>1 DEF Complete, At, Placed
        <4> DEFINE R == [record[L.client] EXCEPT !.status = "completed", !.ok = L.ok, !.id = L.id]
        <4>2. record' = record \/ (record[L.client] # NULL /\ record' = [record EXCEPT ![L.client] = R])
          BY <1>1, <3>1, <4>1 DEF Complete
        <4>3. record[L.client] # NULL => R \in Records
          BY <1>1, <4>1 DEF Records, Locals
        <4>4. record[L.client] # NULL => R # NULL
          BY <4>3, ResourcesAssumption
        <4> QED BY <1>1, <4>1, <4>2, <4>4
      <3>2. CASE UNCHANGED record
        BY <3>2
      <3> QED BY <3>1, <3>2 DEF Arrive, Lookup, Account, Bind, Log, Crash, tables, aux
    <2> QED BY <1>1, <1>2, <2>1 DEF Inserted
  <1>4. /\ \A q \in Requests \ {r} : loc'[q] = loc[q]
        /\ loc'[r].pc # "send" \/ ~loc'[r].ctx
    <2>1. CASE Arrive(r)
      <3>1. PICK c \in clients, e \in Offered, t \in 1..Tasks, keyed \in BOOLEAN :
           /\ e.idem = NULL => ~keyed
           /\ e.kind # "use" => t = 1
           /\ e.kind = "use" => task[t] # NULL
           /\ loc' = [loc EXCEPT ![r] =
                [Idle EXCEPT !.pc = IF e.kind = "use" THEN "lookup" ELSE "begin",
                             !.client = c, !.ep = e, !.keyed = keyed,
                             !.id = IF e.kind = "use" THEN t ELSE NULL,
                             !.knew = e.kind = "use" /\ <<c, t>> \in told]]
        BY <2>1 DEF Arrive
      <3> QED BY <1>1, <3>1 DEF Idle
    <2>2. CASE Lookup(r)
      BY <1>1, <2>2 DEF Lookup, At, Placed, Locals
    <2>3. CASE Account(r)
      BY <1>1, <2>3 DEF Account, Step, Raise, After, Finish, Locals
    <2>4. CASE Bind(r)
      BY <1>1, <2>4 DEF Bind, Step, After, Finish, Locals
    <2>5. CASE Complete(r)
      BY <1>1, <2>5 DEF Complete, Step, After, Locals
    <2>6. CASE Log(r) \/ Crash(r)
      BY <1>1, <2>6 DEF Log, Crash, Idle
    <2> QED BY <2>1, <2>2, <2>3, <2>4, <2>5, <2>6
  <1> QED BY <1>2, <1>3, <1>4, QuietStep

LEMMA AdminCounts ==
    ASSUME IInv, IInv', OneSender,
           \/ \E k \in Keys : SetKey(k) \/ PurgeKey(k)
           \/ \E c \in Clients : PurgeClient(c)
           \/ CleanupRetention
    PROVE  OneSender'
  <1>1. UNCHANGED <<task, loc>>
    BY DEF SetKey, PurgeKey, PurgeClient, CleanupRetention
  <1>2. record \in [Clients -> Records \cup {NULL}] /\ removed \in [Clients -> Nat]
    BY DEF IInv, Typed
  <1>3. \A d \in Clients : Inserted(d)' >= Inserted(d)
    <2>1. CASE UNCHANGED <<record, removed>>
      BY <1>2, <2>1 DEF Inserted
    <2>2. ASSUME NEW c \in Clients, PurgeClient(c)
          PROVE  \A d \in Clients : Inserted(d)' >= Inserted(d)
      BY <1>2, <2>2 DEF PurgeClient, PurgedRecords, Inserted
    <2>3. CASE CleanupRetention
      BY <1>2, <2>3 DEF CleanupRetention, Inserted
    <2> QED BY <2>1, <2>2, <2>3 DEF SetKey, PurgeKey, aux
  <1> QED BY <1>1, <1>3, QuietStep

LEMMA OneSenderInit ==
    Init => OneSender
  <1> SUFFICES ASSUME Init, NEW c \in Clients
               PROVE  /\ IsFiniteSet(Senders(c))
                      /\ Cardinality(CtxTasks(c)) + Cardinality(Senders(c)) <= Inserted(c)
    BY DEF OneSender
  <1>1. Senders(c) = {} /\ CtxTasks(c) = {} /\ Inserted(c) = 0
    BY DEF Init, Idle, Senders, CtxTasks, Inserted, Ids
  <1> QED BY <1>1, FS_EmptySet

LEMMA OneSenderStep ==
    IInv /\ IInv' /\ OneSender /\ [Next]_vars => OneSender'
  <1> SUFFICES ASSUME IInv, IInv', OneSender, [Next]_vars PROVE OneSender'
    OBVIOUS
  <1>1. CASE UNCHANGED vars
    BY <1>1 DEF vars, tables, aux, OneSender, Senders, CtxTasks, Inserted
  <1> QED BY <1>1, BeginCounts, SendCounts, OtherCallsCount, AdminCounts DEF Next

\* A client's requests under one idempotency key create at most one task for
\* each time its record was deleted, and one more (start_or_replay before
\* _forward_with_fallback, through every takeover, crash and cleanup).
THEOREM OneTaskPerRecordHolds ==
    Spec => []OneTaskPerRecord
  <1>1. IInv /\ OneSender => OneTaskPerRecord
    <2> SUFFICES ASSUME IInv, OneSender, NEW c \in Clients
                 PROVE  Cardinality(CtxTasks(c)) <= 1 + removed[c]
      BY DEF OneTaskPerRecord, CtxTasks
    <2>1. /\ Cardinality(CtxTasks(c)) \in Nat /\ Inserted(c) \in Nat
          /\ Inserted(c) <= removed[c] + 1 /\ removed[c] \in Nat
      BY CtxTasksFinite, InsertedType DEF IInv, Typed
    <2>2. Cardinality(Senders(c)) \in Nat
      BY FS_CardinalityType DEF OneSender
    <2>3. Cardinality(CtxTasks(c)) + Cardinality(Senders(c)) <= Inserted(c)
      BY DEF OneSender
    <2> QED BY <2>1, <2>2, <2>3
  <1> QED BY <1>1, IInvInvariant, OneSenderInit, OneSenderStep, PTL DEF Spec

-----------------------------------------------------------------------------
(***************************************************************************)
(* A poll reaches the key that created the task.                           *)
(***************************************************************************)
\* What a pinned request relies on stays.
LEMMA PinnedStays ==
    ASSUME IInv, NEW L \in Locals, L.knew => L.client \in Clients /\ L.id \in Ids,
           Pinned(L), Grows, told \subseteq told'
    PROVE  Pinned(L)'
  <1> SUFFICES ASSUME L.knew PROVE Pinned(L)'
    BY DEF Pinned
  <1>1. L.client \in Clients /\ L.id \in Ids /\ <<L.client, L.id>> \in told
    BY DEF Pinned
  <1>2. task[L.id] # NULL
    BY <1>1 DEF IInv, ToldMatch
  <1>3. task'[L.id] = task[L.id]
    BY <1>1, <1>2 DEF Grows
  <1> QED BY <1>1, <1>3 DEF Pinned, Grows

LEMMA StepGrows ==
    ASSUME IInv, [Next]_vars
    PROVE  Grows /\ told \subseteq told'
  <1> USE DEF Grows
  <1>1. CASE UNCHANGED <<task, bindings, unbound, told>>
    BY <1>1
  <1>2. ASSUME NEW r \in Requests, Send(r) PROVE Grows /\ told \subseteq told'
    <2>1. UNCHANGED <<bindings, unbound, told>>
      BY <1>2 DEF Send, tables, aux
    <2>2. ASSUME NEW k, SendCreate(r, k)
          PROVE  \A t \in Ids : task[t] # NULL => task'[t] = task[t]
      BY <2>2 DEF SendCreate, IInv, Typed, Ids
    <2> QED BY <1>2, <2>1, <2>2 DEF Send, SendUse
  <1>3. ASSUME NEW r \in Requests, Bind(r) PROVE Grows /\ told \subseteq told'
    BY <1>3 DEF Bind
  <1>4. ASSUME NEW r \in Requests, Log(r) PROVE Grows /\ told \subseteq told'
    BY <1>4 DEF Log
  <1>5. ASSUME NEW r \in Requests,
               Arrive(r) \/ Begin(r) \/ Lookup(r) \/ Account(r) \/ Complete(r) \/ Crash(r)
        PROVE  UNCHANGED <<task, bindings, unbound, told>>
    BY <1>5 DEF Arrive, Begin, Lookup, Account, Complete, Crash, tables, aux
  <1>6. ASSUME \/ \E k \in Keys : SetKey(k) \/ PurgeKey(k)
               \/ \E c \in Clients : PurgeClient(c)
               \/ CleanupRetention
               \/ UNCHANGED vars
        PROVE  UNCHANGED <<task, bindings, unbound, told>>
    BY <1>6 DEF SetKey, PurgeKey, PurgeClient, CleanupRetention, vars, tables, aux
  <1> QED BY <1>1, <1>2, <1>3, <1>4, <1>5, <1>6 DEF Next

LEMMA PinnedCall ==
    ASSUME IInv, IInv', KInv, NEW r \in Requests, Grows, told \subseteq told', NEW M,
           loc'[r] = M, Pinned(M), \A q \in Requests \ {r} : loc'[q] = loc[q]
    PROVE  KInv'
  <1>1. ASSUME NEW q \in Requests PROVE Pinned(loc[q])'
    <2> PICK L : L = loc'[q]
      OBVIOUS
    <2>1. L \in Locals
      BY DEF IInv, Typed
    <2>2. Pinned(L)
      <3>1. CASE q = r
        BY <3>1
      <3>2. CASE q # r
        BY <3>2 DEF KInv
      <3> QED BY <3>1, <3>2
    <2>3. L.knew => L.client \in Clients /\ L.id \in Ids
      BY <2>2 DEF Pinned, IInv, Typed
    <2>4. Pinned(L)'
      BY <2>1, <2>2, <2>3, PinnedStays
    <2> QED BY <2>4 DEF Pinned
  <1> QED BY <1>1 DEF KInv

\* A step that changes nothing a pinned request relies on.
LEMMA PinnedMove ==
    ASSUME NEW L, Pinned(L), NEW M,
           M.knew => /\ L.knew /\ M.client = L.client /\ M.id = L.id /\ M.ep = L.ep
                     /\ M.pc = "send" => L.pc = "send" /\ M.pin = L.pin
    PROVE  Pinned(M)
  BY DEF Pinned

LEMMA LookupPins ==
    ASSUME IInv, KInv, NEW r \in Requests, Lookup(r)
    PROVE  \E M : loc'[r] = M /\ Pinned(M)
  <1> DEFINE L == loc[r]
             found == BoundTo(L.client, L.ep.type, L.id)
             pin == IF found = {} THEN NULL ELSE (CHOOSE b \in found : TRUE).key
             M == [L EXCEPT !.pc = "send", !.pin = pin]
             N == [L EXCEPT !.pc = "send", !.knew = FALSE]
  <1>1. L \in Locals /\ Pinned(L) /\ loc \in [Requests -> Locals]
    BY LocType DEF KInv, IInv, Typed
  <1>2. CASE loc' = [loc EXCEPT ![r].pc = "send", ![r].pin = pin]
    <2>1. loc'[r] = M
      BY <1>1, <1>2
    <2>2. ASSUME L.knew, L.ep.type = task[L.id].type, L.ep.type # NULL, L.id \notin unbound
          PROVE  pin = task[L.id].key
      <3>1. L.client \in Clients /\ L.id \in Ids /\ <<L.client, L.id>> \in told
        BY <1>1, <2>2 DEF Pinned, IInv, Typed
      <3>2. task[L.id].client = L.client /\ Settled(L.id)
        BY <3>1 DEF IInv, ToldMatch
      <3>3. PICK b \in bindings : b.id = L.id
        BY <2>2, <3>2 DEF Settled
      <3>4. b \in found
        BY <2>2, <3>2, <3>3 DEF IInv, BindingsMatch, BoundTo
      <3>5. \A d \in found : d.key = task[L.id].key
        BY DEF IInv, BindingsMatch, BoundTo
      <3> QED BY <3>4, <3>5
    <2>3. /\ M.knew = L.knew /\ M.client = L.client /\ M.id = L.id /\ M.ep = L.ep
          /\ M.pc = "send" /\ M.pin = pin
      BY <1>1 DEF Locals
    <2> HIDE DEF M, pin
    <2>4. Pinned(M)
      BY <1>1, <2>2, <2>3 DEF Pinned
    <2> QED BY <2>1, <2>4
  <1>3. CASE loc' = [loc EXCEPT ![r].pc = "send", ![r].knew = FALSE]
    <2>1. loc'[r] = N /\ N.knew = FALSE
      BY <1>1, <1>3 DEF Locals
    <2> HIDE DEF N
    <2> QED BY <2>1 DEF Pinned
  <1> QED BY <1>2, <1>3 DEF Lookup

LEMMA KInvCall ==
    ASSUME IInv, IInv', KInv, Grows, told \subseteq told', NEW r \in Requests,
           \/ Arrive(r) \/ Begin(r) \/ Lookup(r) \/ Send(r) \/ Account(r)
           \/ Bind(r) \/ Complete(r) \/ Log(r) \/ Crash(r)
    PROVE  KInv'
  <1> DEFINE L == loc[r]
  <1> PICK M : M = loc'[r]
    OBVIOUS
  <1>1. L \in Locals /\ Placed(L) /\ Pinned(L) /\ loc \in [Requests -> Locals]
    BY LocType DEF KInv, IInv, Typed
  <1>2. CASE Arrive(r)
    <2>1. PICK c \in clients, e \in Offered, t \in 1..Tasks, keyed \in BOOLEAN :
         /\ e.idem = NULL => ~keyed
         /\ e.kind # "use" => t = 1
         /\ e.kind = "use" => task[t] # NULL
         /\ loc' = [loc EXCEPT ![r] =
              [Idle EXCEPT !.pc = IF e.kind = "use" THEN "lookup" ELSE "begin",
                           !.client = c, !.ep = e, !.keyed = keyed,
                           !.id = IF e.kind = "use" THEN t ELSE NULL,
                           !.knew = e.kind = "use" /\ <<c, t>> \in told]]
      BY <1>2 DEF Arrive
    <2>2. M = [Idle EXCEPT !.pc = IF e.kind = "use" THEN "lookup" ELSE "begin",
                           !.client = c, !.ep = e, !.keyed = keyed,
                           !.id = IF e.kind = "use" THEN t ELSE NULL,
                           !.knew = e.kind = "use" /\ <<c, t>> \in told]
          /\ \A q \in Requests \ {r} : loc'[q] = loc[q]
      BY <1>1, <2>1
    <2>3. /\ M.knew = (e.kind = "use" /\ <<c, t>> \in told) /\ M.ep = e /\ M.client = c
          /\ M.id = (IF e.kind = "use" THEN t ELSE NULL) /\ M.pc # "send"
      BY <2>2 DEF Idle
    <2>4. Pinned(M)
      BY <2>3 DEF Pinned
    <2> QED BY <2>2, <2>4, PinnedCall
  <1>3. CASE Lookup(r)
    <2>1. \A q \in Requests \ {r} : loc'[q] = loc[q]
      BY <1>1, <1>3 DEF Lookup
    <2> QED BY <1>3, <2>1, LookupPins, PinnedCall
  <1>4. CASE Log(r) \/ Crash(r)
    <2>1. loc' = [loc EXCEPT ![r] = [Idle EXCEPT !.pc = "done"]]
      BY <1>4 DEF Log, Crash
    <2>2. M = [Idle EXCEPT !.pc = "done"] /\ \A q \in Requests \ {r} : loc'[q] = loc[q]
      BY <1>1, <2>1
    <2>3. Pinned(M)
      BY <2>2 DEF Idle, Pinned
    <2> QED BY <2>2, <2>3, PinnedCall
  <1>5. ASSUME /\ \A q \in Requests \ {r} : loc'[q] = loc[q]
               /\ M.knew => /\ L.knew /\ M.client = L.client /\ M.id = L.id /\ M.ep = L.ep
                            /\ M.pc = "send" => L.pc = "send" /\ M.pin = L.pin
        PROVE  KInv'
    BY <1>1, <1>5, PinnedMove, PinnedCall
  <1>6. CASE Begin(r)
    <2>1. L.pc = "begin" /\ ~L.knew
      BY <1>1, <1>6 DEF Begin, At, Placed, Pinned
    <2>2. M.knew = L.knew /\ \A q \in Requests \ {r} : loc'[q] = loc[q]
      BY <1>1, <1>6 DEF Begin, Step, Raise, Locals
    <2> QED BY <1>5, <2>1, <2>2
  <1>7. CASE Account(r) \/ Bind(r) \/ Complete(r)
    <2>1. /\ M.knew = L.knew /\ M.client = L.client /\ M.id = L.id /\ M.ep = L.ep
          /\ \A q \in Requests \ {r} : loc'[q] = loc[q]
      BY <1>1, <1>7 DEF Account, Bind, Complete, Step, Raise, Locals
    <2>2. M.pc # "send"
      BY <1>1, <1>7 DEF Account, Bind, Complete, Step, Raise, After, Finish, Locals
    <2> QED BY <1>5, <2>1, <2>2
  <1>8. CASE Send(r)
    <2>1. L.pc = "send" /\ (L.knew => L.ep.kind = "use")
      BY <1>1, <1>8 DEF Send, At, Pinned
    <2>2. ASSUME NEW k, NEW ok, NEW id, Answered(r, k, ok, id) \/ Raise(r), L.knew => id = L.id
          PROVE  KInv'
      <3>1. /\ M.knew = L.knew /\ M.client = L.client /\ M.ep = L.ep /\ M.id \in {id, L.id}
            /\ M.pc # "send" /\ \A q \in Requests \ {r} : loc'[q] = loc[q]
        BY <1>1, <2>2 DEF Answered, Finish, Raise, Locals
      <3> QED BY <1>5, <2>2, <3>1
    <2>3. ASSUME NEW k, loc' = [loc EXCEPT ![r].second = TRUE, ![r].key = k] PROVE KInv'
      <3>1. /\ M.knew = L.knew /\ M.client = L.client /\ M.id = L.id /\ M.ep = L.ep
            /\ M.pin = L.pin /\ \A q \in Requests \ {r} : loc'[q] = loc[q]
        BY <1>1, <2>3 DEF Locals
      <3> QED BY <1>5, <2>1, <3>1
    <2>4. CASE Raise(r)
      BY <2>2, <2>4
    <2>5. ASSUME NEW k \in Candidates(r),
                 \/ loc[r].ep.kind = "create" /\ SendCreate(r, k)
                 \/ loc[r].ep.kind = "use" /\ SendUse(r, k)
                 \/ loc[r].ep.kind = "plain" /\ Answered(r, k, TRUE, NULL) /\ UNCHANGED task
                 \/ /\ TryFallback(r)
                    /\ loc' = [loc EXCEPT ![r].second = TRUE, ![r].key = k]
                    /\ UNCHANGED task
                 \/ Answered(r, k, FALSE, loc[r].id) /\ UNCHANGED task
          PROVE  KInv'
      <3>1. CASE loc[r].ep.kind = "create" /\ SendCreate(r, k)
        <4>1. PICK t \in 1..Tasks : Answered(r, KeyOfResult(r, k), TRUE, t) \/ LostAnswer(r)
          BY <3>1 DEF SendCreate
        <4> QED BY <2>1, <2>2, <2>4, <3>1, <4>1 DEF LostAnswer
      <3>2. CASE SendUse(r, k)
        BY <2>2, <3>2 DEF SendUse
      <3>3. CASE loc[r].ep.kind = "plain" /\ Answered(r, k, TRUE, NULL)
        BY <2>1, <2>2, <3>3
      <3>4. CASE loc' = [loc EXCEPT ![r].second = TRUE, ![r].key = k]
        BY <2>3, <3>4
      <3>5. CASE Answered(r, k, FALSE, loc[r].id)
        BY <2>2, <3>5
      <3> QED BY <2>5, <3>1, <3>2, <3>3, <3>4, <3>5
    <2> QED BY <1>8, <2>4, <2>5 DEF Send
  <1> QED BY <1>2, <1>3, <1>4, <1>6, <1>7, <1>8

LEMMA KInvStep ==
    IInv /\ IInv' /\ KInv /\ [Next]_vars => KInv'
  <1> SUFFICES ASSUME IInv, IInv', KInv, [Next]_vars PROVE KInv'
    OBVIOUS
  <1>1. Grows /\ told \subseteq told'
    BY StepGrows
  <1>2. ASSUME NEW r \in Requests,
               \/ Arrive(r) \/ Begin(r) \/ Lookup(r) \/ Send(r) \/ Account(r)
               \/ Bind(r) \/ Complete(r) \/ Log(r) \/ Crash(r)
        PROVE  KInv'
    BY <1>1, <1>2, KInvCall
  <1>3. CASE UNCHANGED <<loc, task, told, unbound>>
    BY <1>3 DEF KInv, Pinned
  <1>4. ASSUME \/ \E k \in Keys : SetKey(k) \/ PurgeKey(k)
               \/ \E c \in Clients : PurgeClient(c)
               \/ CleanupRetention
               \/ UNCHANGED vars
        PROVE  UNCHANGED <<loc, task, told, unbound>>
    BY <1>4 DEF SetKey, PurgeKey, PurgeClient, CleanupRetention, vars, tables, aux
  <1> QED BY <1>2, <1>3, <1>4 DEF Next

\* A client that polls a task it was told of reaches the key that created it,
\* on both paths of the endpoint (lookup_bound_key_id, _forward_with_fallback).
THEOREM StatusReachesOwnerHolds ==
    Spec => StatusReachesOwner
  <1>1. ASSUME IInv, KInv, [Next]_vars, NEW r \in Requests, loc[r].pc = "send", loc'[r] # loc[r],
               loc[r].knew, loc'[r].key # NULL, loc[r].ep.type = task[loc[r].id].type,
               task[loc[r].id].type # NULL, loc[r].id \notin unbound,
               keys[task[loc[r].id].key] = "usable"
        PROVE  loc'[r].key = task[loc[r].id].key
    <2> DEFINE L == loc[r]
    <2>1. /\ L \in Locals /\ Pinned(L) /\ loc \in [Requests -> Locals]
          /\ task \in [Ids -> TaskRows \cup {NULL}]
      BY <1>1, LocType DEF KInv, IInv, Typed
    <2>2. L.client \in Clients /\ L.id \in Ids /\ L.ep.kind = "use"
      BY <1>1, <2>1 DEF Pinned, IInv, Typed
    <2>3. L.pin = task[L.id].key /\ task[L.id] \in TaskRows
      BY <1>1, <2>1, <2>2 DEF Pinned, IInv, ToldMatch
    <2>4. Candidates(r) = {L.pin}
      BY <1>1, <2>3 DEF Candidates, PinFor, TaskRows
    <2>5. CASE Send(r)
      <3>1. ASSUME NEW k, NEW ok, NEW id, Answered(r, k, ok, id) PROVE loc'[r].key = k
        BY <2>1, <3>1 DEF Answered, Locals
      <3>2. ASSUME NEW k, loc' = [loc EXCEPT ![r].second = TRUE, ![r].key = k]
            PROVE  loc'[r].key = k
        BY <2>1, <3>2 DEF Locals
      <3>3. ~Raise(r)
        BY <1>1, <2>1 DEF Raise, Locals
      <3>4. PICK k \in Candidates(r) :
                 \/ loc[r].ep.kind = "create" /\ SendCreate(r, k)
                 \/ loc[r].ep.kind = "use" /\ SendUse(r, k)
                 \/ loc[r].ep.kind = "plain" /\ Answered(r, k, TRUE, NULL) /\ UNCHANGED task
                 \/ /\ TryFallback(r)
                    /\ loc' = [loc EXCEPT ![r].second = TRUE, ![r].key = k]
                    /\ UNCHANGED task
                 \/ Answered(r, k, FALSE, loc[r].id) /\ UNCHANGED task
        BY <2>5, <3>3 DEF Send
      <3>5. loc'[r].key = k
        BY <2>2, <3>1, <3>2, <3>4 DEF SendUse
      <3> QED BY <2>3, <2>4, <3>4, <3>5
    <2>6. CASE Crash(r)
      <3>1. loc'[r] = [Idle EXCEPT !.pc = "done"]
        BY <2>1, <2>6 DEF Crash
      <3> QED BY <1>1, <3>1 DEF Idle
    <2>7. ~(Arrive(r) \/ Begin(r) \/ Lookup(r) \/ Account(r) \/ Bind(r) \/ Complete(r) \/ Log(r))
      BY <1>1 DEF Arrive, Begin, Lookup, Account, Bind, Complete, Log, At
    <2>8. ASSUME NEW q \in Requests, q # r,
                 \/ Arrive(q) \/ Begin(q) \/ Lookup(q) \/ Send(q) \/ Account(q)
                 \/ Bind(q) \/ Complete(q) \/ Log(q) \/ Crash(q)
          PROVE  FALSE
      <3>1. CASE Arrive(q) \/ Begin(q) \/ Lookup(q)
        BY <1>1, <2>1, <2>8, <3>1 DEF Arrive, Begin, Lookup, Step, Raise
      <3>2. CASE Send(q)
        BY <1>1, <2>1, <2>8, <3>2 DEF Send, SendCreate, SendUse, Answered, LostAnswer, Raise
      <3>3. CASE Account(q) \/ Bind(q) \/ Complete(q)
        BY <1>1, <2>1, <2>8, <3>3 DEF Account, Bind, Complete, Step, Raise
      <3>4. CASE Log(q) \/ Crash(q)
        BY <1>1, <2>1, <2>8, <3>4 DEF Log, Crash
      <3> QED BY <2>8, <3>1, <3>2, <3>3, <3>4
    <2>9. loc' # loc
      BY <1>1
    <2> QED BY <1>1, <2>5, <2>6, <2>7, <2>8, <2>9
            DEF Next, SetKey, PurgeKey, PurgeClient, CleanupRetention, vars
  <1>2. IInv /\ KInv /\ [Next]_vars =>
          [\A r \in Requests :
             LET t == loc[r].id
                 k == loc'[r].key IN
             /\ At(r, "send") /\ loc'[r] # loc[r]
             /\ loc[r].knew /\ loc[r].ep.kind = "use" /\ k # NULL
             /\ loc[r].ep.type = task[t].type /\ task[t].type # NULL
             /\ task[t].client = loc[r].client
             /\ t \notin unbound /\ keys[task[t].key] = "usable"
             => k = task[t].key]_vars
    BY <1>1 DEF At
  <1>3. Init => KInv
    BY DEF Init, Idle, KInv, Pinned
  <1> QED BY <1>2, <1>3, IInvInvariant, IInvStep, IInvInit, KInvStep, PTL DEF Spec, StatusReachesOwner
=============================================================================
