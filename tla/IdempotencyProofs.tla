------------------------- MODULE IdempotencyProofs -------------------------
(***************************************************************************)
(* Safety of the idempotency protocol for any number of requests, clients, *)
(* keys and any configuration, when the database never hands out a primary *)
(* key twice (~ReuseIds).  With SQLite rowids the same properties fail.    *)
(***************************************************************************)
EXTENDS Idempotency, TLAPS

\* The labels at which a request carries an idempotency key but no record.
Seeking == {"cleanup", "insert", "lookup", "delete"}

\* now[r] was read from the clock; a request inside start_or_replay has a
\* key, and once it has inserted its record it never seeks one again.
Progress ==
    \A r \in Requests :
        /\ now[r] <= clock
        /\ pc[r] \in Seeking \cup {"refresh"} => req[r].key # NULL
        /\ pc[r] = "delete" => victim[r] # NULL
        /\ pc[r] \in Seeking \cup {"idle"} => rid[r] = NULL
        /\ since[r] # NULL => pc[r] \notin Seeking \cup {"idle"} /\ now[r] <= since[r]

\* Primary keys are never handed out twice: all known ids are below seq, and
\* no two requests own one record.
IdsFresh ==
    /\ \A i \in DOMAIN recs : i < seq
    /\ \A r \in Requests : rid[r] # NULL => rid[r] < seq
    /\ \A r \in Requests : victim[r] # NULL => victim[r] < seq
    /\ \A p, q \in Requests : p # q /\ rid[p] # NULL => rid[p] # rid[q]

For(row, a) == row.client = a.client /\ row.key = a.key /\ row.hash = a.hash

\* A record is the one its owner inserted, still open while the owner runs, and
\* a stored response answers the request the record describes.
RecordsFaithful ==
    /\ \A r \in Requests : rid[r] \in DOMAIN recs =>
         /\ For(recs[rid[r]], req[r])
         /\ pc[r] \in {"refresh", "forward", "complete"} =>
              recs[rid[r]].status = "in_progress"
    /\ \A i \in DOMAIN recs : recs[i].resp # NULL => For(recs[i], req[recs[i].resp])

\* A row that may be deleted: expired, or in its slot for longer than allowed.
Overdue(row) == row.expires < clock \/ row.created + StaleAfter < clock

\* The row that request p inserted.
IsRowOf(row, p) == /\ row.client = req[p].client /\ row.key = req[p].key
                   /\ row.created = since[p] /\ row.expires = now[p] + Ttl

\* A request's record leaves its slot only when it is overdue or its client is
\* purged, even if the request that deletes it decided to do so long ago.
SlotsGuarded ==
    /\ \A r \in Requests : victim[r] \in DOMAIN recs => Overdue(recs[victim[r]])
    /\ \A p \in Requests : since[p] # NULL =>
         \/ \E i \in DOMAIN recs : IsRowOf(recs[i], p)
         \/ clock > now[p] + Grace
         \/ req[p].client \notin clients

IInv == /\ TypeOK /\ Progress /\ IdsFresh /\ RecordsFaithful /\ SlotsGuarded
        /\ ReplayMatches /\ TakeoverAfterGrace

-----------------------------------------------------------------------------
\* The durations derived from the configuration are natural numbers, and the
\* grace period is bounded by both of them.
LEMMA DurationsNat ==
    Ttl \in Nat /\ StaleAfter \in Nat /\ Grace <= Ttl /\ Grace <= StaleAfter /\ Grace \in Nat
  BY BoundsAssumption DEF Ttl, StaleAfter, Grace, Larger, Smaller

\* What WithRow, the table after an INSERT or UPDATE of one row, returns.
LEMMA WithRowFacts ==
    ASSUME NEW id, NEW row
    PROVE  /\ \A j : j \in DOMAIN WithRow(id, row) <=> j = id \/ j \in DOMAIN recs
           /\ WithRow(id, row)[id] = row
           /\ \A j \in DOMAIN recs : j # id => WithRow(id, row)[j] = recs[j]
  BY DEF WithRow

\* What Without, the table after a DELETE, returns.
LEMMA WithoutFacts ==
    ASSUME NEW ids
    PROVE  /\ \A j : j \in DOMAIN Without(ids) <=> j \in DOMAIN recs /\ j \notin ids
           /\ \A j \in DOMAIN Without(ids) : Without(ids)[j] = recs[j]
  BY DEF Without

\* A lookup ends the request or sends it to delete the row it found.
LEMMA LookupControl ==
    ASSUME NEW r, Lookup(r)
    PROVE  pc' = [pc EXCEPT ![r] = "done"] \/ pc' = [pc EXCEPT ![r] = "delete"]
  BY DEF Lookup, Answer, Goto

\* Every step preserves the types.
LEMMA TypeStep ==
    ASSUME ~ReuseIds, TypeOK, Progress, [Next]_vars
    PROVE  TypeOK'
  <1> USE BoundsAssumption, FlagsAssumption, NullAssumption, DurationsNat DEF TypeOK, Rows, Args, Labels, Codes
  <1>1. ASSUME NEW r \in Requests, Begin(r) PROVE TypeOK'
    <2>1. now' \in [Requests -> Nat]
      BY <1>1 DEF Begin
    <2>3. pc' \in [Requests -> Labels]
      BY <1>1 DEF Begin, Answer, Goto
    <2>2. answer' \in [Requests -> Requests \cup Codes \cup {NULL}]
      BY <1>1 DEF Begin, Answer
    <2> QED BY <1>1, <2>1, <2>2, <2>3 DEF Begin
  <1>2. ASSUME NEW r \in Requests, Cleanup(r) PROVE TypeOK'
    BY <1>2 DEF Cleanup, Goto, Without, Expired
  <1>3. ASSUME NEW r \in Requests, Insert(r) PROVE TypeOK'
    <2>1. CASE /\ recs' = WithRow(seq, NewRow(r)) /\ seq' = seq + 1
               /\ rid' = [rid EXCEPT ![r] = seq]
               /\ since' = [since EXCEPT ![r] = clock]
               /\ Goto(r, "refresh") /\ answer' = answer
      <3>1. NewRow(r) \in Rows /\ NewRow(r).status = "in_progress" /\ NewRow(r).resp = NULL
        BY <1>3 DEF NewRow, Insert, Progress, Seeking
      <3>2. /\ DOMAIN recs' \subseteq Nat
            /\ \A i \in DOMAIN recs' : recs'[i] = IF i = seq THEN NewRow(r) ELSE recs[i]
            /\ \A i \in DOMAIN recs' : i = seq \/ i \in DOMAIN recs
        BY <2>1 DEF WithRow
      <3>3. \A i \in DOMAIN recs' : /\ recs'[i] \in Rows
                                    /\ recs'[i].status = "completed" <=> recs'[i].resp # NULL
        BY <3>1, <3>2
      <3> QED BY <1>3, <2>1, <3>2, <3>3 DEF Insert, Goto
    <2>2. CASE UNCHANGED <<recs, seq, rid, since>>
      <3>1. answer' \in [Requests -> Requests \cup Codes \cup {NULL}] /\ pc' \in [Requests -> Labels]
        BY <1>3, <2>2 DEF Insert, Answer, Goto
      <3> QED BY <1>3, <2>2, <3>1 DEF Insert
    <2> QED BY <1>3, <2>1, <2>2 DEF Insert, NextId
  <1>4. ASSUME NEW r \in Requests, Refresh(r) PROVE TypeOK'
    BY <1>4 DEF Refresh, Answer, Goto
  <1>5. ASSUME NEW r \in Requests, Lookup(r) PROVE TypeOK'
    <2>1. \A i \in SlotIds(r) : i \in Nat /\ i \in DOMAIN recs
      BY DEF SlotIds
    <2>2. \A i \in SlotIds(r) : recs[i].status = "completed" => recs[i].resp \in Requests
      BY <2>1
    <2>3. victim' \in [Requests -> Nat \cup {NULL}]
      BY <1>5, <2>1 DEF Lookup
    <2>4. pc' \in [Requests -> Labels]
      BY <1>5, LookupControl
    <2>5. answer' \in [Requests -> Requests \cup Codes \cup {NULL}]
      BY <1>5, <2>1, <2>2 DEF Lookup, Answer
    <2> QED BY <1>5, <2>3, <2>4, <2>5 DEF Lookup
  <1>6. ASSUME NEW r \in Requests, Delete(r) PROVE TypeOK'
    <2>1. /\ DOMAIN recs' \subseteq Nat
          /\ \A i \in DOMAIN recs' : recs'[i] = recs[i] /\ i \in DOMAIN recs
      BY <1>6, WithoutFacts DEF Delete, Deleted
    <2>2. now' \in [Requests -> Nat] /\ victim' \in [Requests -> Nat \cup {NULL}]
      BY <1>6 DEF Delete
    <2>3. pc' \in [Requests -> Labels]
      BY <1>6 DEF Delete, Answer, Goto
    <2>4. answer' \in [Requests -> Requests \cup Codes \cup {NULL}]
      BY <1>6 DEF Delete, Answer
    <2> QED BY <1>6, <2>1, <2>2, <2>3, <2>4 DEF Delete
  <1>7. ASSUME NEW r \in Requests, Forward(r) PROVE TypeOK'
    BY <1>7 DEF Forward, Answer, Goto
  <1>8. ASSUME NEW r \in Requests, Complete(r) PROVE TypeOK'
    <2>1. answer' \in [Requests -> Requests \cup Codes \cup {NULL}] /\ pc' \in [Requests -> Labels]
      BY <1>8 DEF Complete, Answer, Goto
    <2>2. ASSUME NEW i \in OwnIds(r), recs' = WithRow(i, Stored(recs[i], r))
          PROVE  /\ \A j : j \in DOMAIN recs' <=> j \in DOMAIN recs
                 /\ \A j \in DOMAIN recs : recs'[j] = IF j = i THEN Stored(recs[i], r) ELSE recs[j]
      BY <2>2, WithRowFacts DEF OwnIds
    <2>3. \A i \in DOMAIN recs : /\ Stored(recs[i], r) \in Rows
                                 /\ Stored(recs[i], r).status = "completed"
                                 /\ Stored(recs[i], r).resp = r
      BY DEF Stored
    <2>4. /\ DOMAIN recs' \subseteq Nat
          /\ \A i \in DOMAIN recs' : /\ recs'[i] \in Rows
                                     /\ recs'[i].status = "completed" <=> recs'[i].resp # NULL
      BY <1>8, <2>2, <2>3 DEF Complete, OwnIds
    <2> QED BY <1>8, <2>1, <2>4 DEF Complete
  <1>9. ASSUME NEW r \in Requests, Crash(r) PROVE TypeOK'
    BY <1>9 DEF Crash, Goto
  <1>10. CASE CleanupRetention
    BY <1>10 DEF CleanupRetention, Without, Expired
  <1>11. ASSUME NEW c \in Clients, PurgeClient(c) PROVE TypeOK'
    BY <1>11 DEF PurgeClient, Without
  <1>12. CASE Tick
    BY <1>12 DEF Tick
  <1>13. CASE UNCHANGED vars
    BY <1>13 DEF vars
  <1> QED BY <1>1, <1>2, <1>3, <1>4, <1>5, <1>6, <1>7, <1>8, <1>9, <1>10, <1>11, <1>12, <1>13 DEF Next, Step, Quiescent

\* Every step preserves the control facts.
LEMMA ProgressStep ==
    ASSUME ~ReuseIds, TypeOK, Progress, [Next]_vars
    PROVE  Progress'
  <1> USE BoundsAssumption, FlagsAssumption, NullAssumption, DurationsNat DEF TypeOK, Progress, Seeking, Labels
  <1>1. ASSUME NEW r \in Requests, Begin(r) PROVE Progress'
    BY <1>1 DEF Begin, Answer, Goto
  <1>2. ASSUME NEW r \in Requests, Cleanup(r) PROVE Progress'
    BY <1>2 DEF Cleanup, Goto, Without, Expired
  <1>3. ASSUME NEW r \in Requests, Insert(r) PROVE Progress'
    BY <1>3 DEF Insert, Answer, Goto, WithRow, NewRow, NextId
  <1>4. ASSUME NEW r \in Requests, Refresh(r) PROVE Progress'
    BY <1>4 DEF Refresh, Answer, Goto
  <1>5. ASSUME NEW r \in Requests, Lookup(r) PROVE Progress'
    BY <1>5 DEF Lookup, Answer, Goto, SlotIds, SameHash, IsStale
  <1>6. ASSUME NEW r \in Requests, Delete(r) PROVE Progress'
    BY <1>6 DEF Delete, Answer, Goto, Deleted, Without
  <1>7. ASSUME NEW r \in Requests, Forward(r) PROVE Progress'
    BY <1>7 DEF Forward, Answer, Goto
  <1>8. ASSUME NEW r \in Requests, Complete(r) PROVE Progress'
    BY <1>8 DEF Complete, Answer, Goto, OwnIds, WithRow, Stored
  <1>9. ASSUME NEW r \in Requests, Crash(r) PROVE Progress'
    BY <1>9 DEF Crash, Goto
  <1>10. CASE CleanupRetention
    BY <1>10 DEF CleanupRetention, Without, Expired
  <1>11. ASSUME NEW c \in Clients, PurgeClient(c) PROVE Progress'
    BY <1>11 DEF PurgeClient, Without
  <1>12. CASE Tick
    BY <1>12 DEF Tick
  <1>13. CASE UNCHANGED vars
    BY <1>13 DEF vars
  <1> QED BY <1>1, <1>2, <1>3, <1>4, <1>5, <1>6, <1>7, <1>8, <1>9, <1>10, <1>11, <1>12, <1>13 DEF Next, Step, Quiescent

\* Every step keeps the ids fresh.
LEMMA IdsStep ==
    ASSUME ~ReuseIds, TypeOK, Progress, IdsFresh, [Next]_vars
    PROVE  IdsFresh'
  <1> USE BoundsAssumption, FlagsAssumption, NullAssumption, DurationsNat DEF TypeOK, Progress, IdsFresh
  <1>1. ASSUME NEW r \in Requests, Begin(r) PROVE IdsFresh'
    BY <1>1 DEF Begin, Answer, Goto
  <1>2. ASSUME NEW r \in Requests, Cleanup(r) PROVE IdsFresh'
    BY <1>2 DEF Cleanup, Goto, Without, Expired
  <1>3. ASSUME NEW r \in Requests, Insert(r) PROVE IdsFresh'
    BY <1>3 DEF Insert, Answer, Goto, WithRow, NewRow, NextId
  <1>4. ASSUME NEW r \in Requests, Refresh(r) PROVE IdsFresh'
    BY <1>4 DEF Refresh, Answer, Goto
  <1>5. ASSUME NEW r \in Requests, Lookup(r) PROVE IdsFresh'
    BY <1>5 DEF Lookup, Answer, Goto, SlotIds, SameHash, IsStale
  <1>6. ASSUME NEW r \in Requests, Delete(r) PROVE IdsFresh'
    BY <1>6 DEF Delete, Answer, Goto, Deleted, Without
  <1>7. ASSUME NEW r \in Requests, Forward(r) PROVE IdsFresh'
    BY <1>7 DEF Forward, Answer, Goto
  <1>8. ASSUME NEW r \in Requests, Complete(r) PROVE IdsFresh'
    BY <1>8 DEF Complete, Answer, Goto, OwnIds, WithRow, Stored
  <1>9. ASSUME NEW r \in Requests, Crash(r) PROVE IdsFresh'
    BY <1>9 DEF Crash, Goto
  <1>10. CASE CleanupRetention
    BY <1>10 DEF CleanupRetention, Without, Expired
  <1>11. ASSUME NEW c \in Clients, PurgeClient(c) PROVE IdsFresh'
    BY <1>11 DEF PurgeClient, Without
  <1>12. CASE Tick
    BY <1>12 DEF Tick
  <1>13. CASE UNCHANGED vars
    BY <1>13 DEF vars
  <1> QED BY <1>1, <1>2, <1>3, <1>4, <1>5, <1>6, <1>7, <1>8, <1>9, <1>10, <1>11, <1>12, <1>13 DEF Next, Step, Quiescent

\* Every step keeps the records faithful to their owners.
LEMMA RecordsStep ==
    ASSUME ~ReuseIds, TypeOK, Progress, IdsFresh, RecordsFaithful, [Next]_vars
    PROVE  RecordsFaithful'
  <1> USE NullAssumption DEF TypeOK, Rows, Args, RecordsFaithful, For, IdsFresh
  <1>1. ASSUME NEW r \in Requests, Begin(r) PROVE RecordsFaithful'
    <2>1. rid' = rid /\ recs' = recs /\ req' = req
      BY <1>1 DEF Begin
    <2>2. \A q \in Requests : pc'[q] = pc[q] \/ (q = r /\ pc'[r] \in {"done", "cleanup", "forward"})
      BY <1>1 DEF Begin, Answer, Goto
    <2>3. rid[r] = NULL
      BY <1>1 DEF Begin, Progress, Seeking
    <2>4. rid[r] \notin DOMAIN recs
      BY <2>3
    <2> QED BY <2>1, <2>2, <2>4
  <1>2. ASSUME NEW r \in Requests, Cleanup(r) PROVE RecordsFaithful'
    BY <1>2, WithoutFacts DEF Cleanup, Goto, Expired
  <1>3. ASSUME NEW r \in Requests, Insert(r) PROVE RecordsFaithful'
    <2>1. CASE UNCHANGED <<recs, rid>>
      <3>1. rid[r] \notin DOMAIN recs
        BY <1>3 DEF Insert, Progress, Seeking
      <3>2. \A q \in Requests : q # r => pc'[q] = pc[q]
        BY <1>3 DEF Insert, Answer, Goto
      <3> QED BY <1>3, <2>1, <3>1, <3>2 DEF Insert
    <2>2. CASE /\ recs' = WithRow(seq, NewRow(r))
               /\ rid' = [rid EXCEPT ![r] = seq]
               /\ Goto(r, "refresh")
      <3>1. seq \notin DOMAIN recs /\ req' = req
        BY <1>3 DEF Insert
      <3>2. For(NewRow(r), req[r]) /\ NewRow(r).status = "in_progress" /\ NewRow(r).resp = NULL
        BY DEF NewRow
      <3>3. /\ \A j \in DOMAIN recs' : j = seq \/ j \in DOMAIN recs
            /\ recs'[seq] = NewRow(r)
            /\ \A j \in DOMAIN recs : recs'[j] = recs[j]
        BY <2>2, <3>1, WithRowFacts
      <3>4. \A q \in Requests : q # r => rid'[q] = rid[q] /\ rid'[q] # seq /\ pc'[q] = pc[q]
        BY <2>2 DEF Goto
      <3>5. rid'[r] = seq
        BY <2>2
      <3>6. ASSUME NEW q \in Requests, rid'[q] \in DOMAIN recs'
            PROVE  /\ For(recs'[rid'[q]], req[q])
                   /\ pc'[q] \in {"refresh", "forward", "complete"} =>
                        recs'[rid'[q]].status = "in_progress"
        BY <3>2, <3>3, <3>4, <3>5, <3>6
      <3>7. ASSUME NEW j \in DOMAIN recs', recs'[j].resp # NULL
            PROVE  For(recs'[j], req[recs'[j].resp])
        BY <3>2, <3>3, <3>7
      <3> QED BY <3>1, <3>6, <3>7
    <2> QED BY <1>3, <2>1, <2>2 DEF Insert, NextId
  <1>4. ASSUME NEW r \in Requests, Refresh(r) PROVE RecordsFaithful'
    BY <1>4 DEF Refresh, Answer, Goto
  <1>5. ASSUME NEW r \in Requests, Lookup(r) PROVE RecordsFaithful'
    BY <1>5 DEF Lookup, Answer, Goto
  <1>6. ASSUME NEW r \in Requests, Delete(r) PROVE RecordsFaithful'
    BY <1>6, WithoutFacts DEF Delete, Answer, Goto, Deleted
  <1>7. ASSUME NEW r \in Requests, Forward(r) PROVE RecordsFaithful'
    BY <1>7 DEF Forward, Answer, Goto
  <1>8. ASSUME NEW r \in Requests, Complete(r) PROVE RecordsFaithful'
    <2>0. /\ rid' = rid /\ req' = req /\ pc'[r] = "done"
          /\ \A q \in Requests : q # r => pc'[q] = pc[q]
      BY <1>8 DEF Complete, Answer, Goto
    <2>1. CASE recs' = recs
      BY <2>0, <2>1
    <2>2. ASSUME NEW i \in OwnIds(r), recs' = WithRow(i, Stored(recs[i], r))
          PROVE  RecordsFaithful'
      <3>1. i = rid[r] /\ i \in DOMAIN recs
        BY DEF OwnIds
      <3>2. For(Stored(recs[i], r), req[r]) /\ Stored(recs[i], r).resp = r
        BY <3>1 DEF Stored
      <3>3. /\ \A j : j \in DOMAIN recs' <=> j \in DOMAIN recs
            /\ recs'[i] = Stored(recs[i], r)
            /\ \A j \in DOMAIN recs : j # i => recs'[j] = recs[j]
        BY <2>2, <3>1, WithRowFacts
      <3>4. \A q \in Requests : q # r /\ rid[q] \in DOMAIN recs => rid[q] # i
        BY <3>1
      <3>5. ASSUME NEW q \in Requests, rid'[q] \in DOMAIN recs'
            PROVE  /\ For(recs'[rid'[q]], req[q])
                   /\ pc'[q] \in {"refresh", "forward", "complete"} =>
                        recs'[rid'[q]].status = "in_progress"
        BY <2>0, <3>1, <3>2, <3>3, <3>4, <3>5
      <3>6. ASSUME NEW j \in DOMAIN recs', recs'[j].resp # NULL
            PROVE  For(recs'[j], req[recs'[j].resp])
        BY <3>2, <3>3, <3>6
      <3> QED BY <2>0, <3>5, <3>6
    <2> QED BY <1>8, <2>1, <2>2 DEF Complete
  <1>9. ASSUME NEW r \in Requests, Crash(r) PROVE RecordsFaithful'
    BY <1>9 DEF Crash, Goto
  <1>10. CASE CleanupRetention
    BY <1>10, WithoutFacts DEF CleanupRetention
  <1>11. ASSUME NEW c \in Clients, PurgeClient(c) PROVE RecordsFaithful'
    BY <1>11, WithoutFacts DEF PurgeClient
  <1>12. CASE Tick \/ UNCHANGED vars
    BY <1>12 DEF Tick, vars
  <1> QED BY <1>1, <1>2, <1>3, <1>4, <1>5, <1>6, <1>7, <1>8, <1>9, <1>10,
             <1>11, <1>12 DEF Next, Step, Quiescent


\* Removing rows keeps the slots guarded if each of them is overdue or belongs
\* to a purged client.
LEMMA RemovalGuarded ==
    ASSUME TypeOK, Progress, SlotsGuarded, NEW ids,
           recs' = Without(ids), since' = since, req' = req, clock' = clock,
           clients' \subseteq clients,
           \A p \in Requests : since[p] # NULL => now'[p] = now[p],
           \A r \in Requests : victim'[r] \in {victim[r], NULL},
           \A i \in DOMAIN recs : i \in ids =>
               Overdue(recs[i]) \/ recs[i].client \notin clients'
    PROVE  SlotsGuarded'
  <1> USE NullAssumption, DurationsNat DEF TypeOK, Rows, Args
  <1>1. /\ \A j : j \in DOMAIN recs' <=> j \in DOMAIN recs /\ j \notin ids
        /\ \A j \in DOMAIN recs' : recs'[j] = recs[j]
    BY WithoutFacts
  <1>2. ASSUME NEW r \in Requests, victim'[r] \in DOMAIN recs'
        PROVE  Overdue(recs[victim[r]])'
    <2>1. victim'[r] = victim[r] /\ victim[r] \in DOMAIN recs /\ recs'[victim[r]] = recs[victim[r]]
      BY <1>1, <1>2
    <2> QED BY <2>1 DEF SlotsGuarded, Overdue
  <1>3. ASSUME NEW p \in Requests, since[p] # NULL
        PROVE  \/ \E i \in DOMAIN recs' : IsRowOf(recs[i], p)'
               \/ clock > now'[p] + Grace
               \/ req[p].client \notin clients'
    <2>1. now'[p] = now[p] /\ now[p] <= since[p]
      BY <1>3 DEF Progress
    <2>2. CASE \E i \in DOMAIN recs : IsRowOf(recs[i], p)
      <3>1. PICK i \in DOMAIN recs : IsRowOf(recs[i], p)
        BY <2>2
      <3>2. CASE i \in ids
        BY <2>1, <3>1, <3>2 DEF IsRowOf, Overdue
      <3>3. CASE i \notin ids
        <4>1. i \in DOMAIN recs' /\ recs'[i] = recs[i]
          BY <1>1, <3>3
        <4> QED BY <2>1, <3>1, <4>1 DEF IsRowOf
      <3> QED BY <3>2, <3>3
    <2>3. CASE clock > now[p] + Grace \/ req[p].client \notin clients
      BY <2>1, <2>3
    <2> QED BY <1>3, <2>2, <2>3 DEF SlotsGuarded
  <1> QED BY <1>2, <1>3 DEF SlotsGuarded

\* Every step keeps the slots guarded.
LEMMA SlotsStep ==
    ASSUME ~ReuseIds, TypeOK, Progress, IdsFresh, SlotsGuarded, [Next]_vars
    PROVE  SlotsGuarded'
  <1> USE NullAssumption, DurationsNat DEF TypeOK, Rows, Args
  <1>1. ASSUME NEW r \in Requests, Begin(r) PROVE SlotsGuarded'
    BY <1>1 DEF Begin, SlotsGuarded, Overdue, IsRowOf, Progress, Seeking
  <1>2. ASSUME NEW r \in Requests, Cleanup(r) PROVE SlotsGuarded'
    <2>1. CASE recs' = recs
      BY <1>2, <2>1 DEF Cleanup, SlotsGuarded, Overdue, IsRowOf
    <2>2. CASE recs' = Without({i \in Expired(now[r]) : recs[i].client = req[r].client})
      <3>1. \A i \in DOMAIN recs : i \in Expired(now[r]) => Overdue(recs[i])
        BY DEF Expired, Overdue, Progress
      <3> QED BY <1>2, <2>2, <3>1, RemovalGuarded DEF Cleanup
    <2> QED BY <1>2, <2>1, <2>2 DEF Cleanup
  <1>3. ASSUME NEW r \in Requests, Insert(r) PROVE SlotsGuarded'
    <2>1. CASE UNCHANGED <<recs, since>>
      BY <1>3, <2>1 DEF Insert, SlotsGuarded, Overdue, IsRowOf
    <2>2. CASE recs' = WithRow(seq, NewRow(r)) /\ since' = [since EXCEPT ![r] = clock]
      <3>1. /\ \A j \in DOMAIN recs : j \in DOMAIN recs' /\ recs'[j] = recs[j]
            /\ seq \in DOMAIN recs' /\ recs'[seq] = NewRow(r)
            /\ \A j \in DOMAIN recs' : j = seq \/ j \in DOMAIN recs
        BY <2>2, WithRowFacts DEF IdsFresh
      <3>2. /\ victim' = victim /\ clock' = clock /\ now' = now /\ req' = req
            /\ clients' = clients
        BY <1>3 DEF Insert
      <3>3. \A q \in Requests : victim[q] # seq
        BY DEF IdsFresh
      <3>4. \A q \in Requests : victim'[q] \in DOMAIN recs' => Overdue(recs[victim[q]])'
        BY <3>1, <3>2, <3>3 DEF SlotsGuarded, Overdue
      <3>5. \E i \in DOMAIN recs' : IsRowOf(recs[i], r)'
        <4>1. /\ recs'[seq].client = req'[r].client /\ recs'[seq].key = req'[r].key
              /\ recs'[seq].created = since'[r] /\ recs'[seq].expires = now'[r] + Ttl
          BY <2>2, <3>1, <3>2 DEF NewRow
        <4>2. ASSUME NEW i, i = seq PROVE IsRowOf(recs[i], r)'
          BY <4>1, <4>2 DEF IsRowOf
        <4> QED BY <3>1, <4>2
      <3>6. ASSUME NEW p \in Requests, p # r, since'[p] # NULL
            PROVE  \/ \E i \in DOMAIN recs' : IsRowOf(recs[i], p)'
                   \/ clock > now[p] + Grace
                   \/ req[p].client \notin clients
        <4>1. since'[p] = since[p]
          BY <2>2, <3>6
        <4>2. \A i \in DOMAIN recs : IsRowOf(recs[i], p) => IsRowOf(recs[i], p)'
          BY <3>1, <3>2, <4>1 DEF IsRowOf
        <4> QED BY <3>1, <3>6, <4>1, <4>2 DEF SlotsGuarded
      <3> QED BY <3>1, <3>2, <3>4, <3>5, <3>6 DEF SlotsGuarded
    <2> QED BY <1>3, <2>1, <2>2 DEF Insert, NextId
  <1>4. ASSUME NEW r \in Requests, Refresh(r) PROVE SlotsGuarded'
    BY <1>4 DEF Refresh, SlotsGuarded, Overdue, IsRowOf
  <1>5. ASSUME NEW r \in Requests, Lookup(r) PROVE SlotsGuarded'
    <2>1. \A q \in Requests : \/ victim'[q] = victim[q]
                              \/ victim'[q] \in DOMAIN recs /\ Overdue(recs[victim'[q]])
      BY <1>5 DEF Lookup, SlotIds, SameHash, IsStale, Overdue, Progress
    <2> QED BY <1>5, <2>1 DEF Lookup, SlotsGuarded, Overdue, IsRowOf
  <1>6. ASSUME NEW r \in Requests, Delete(r) PROVE SlotsGuarded'
    <2>1. since[r] = NULL
      BY <1>6 DEF Delete, Progress, Seeking
    <2>2. \A q \in Requests : victim'[q] \in {victim[q], NULL}
      BY <1>6 DEF Delete
    <2>3. CASE recs' = recs /\ now' = now
      BY <1>6, <2>2, <2>3 DEF Delete, SlotsGuarded, Overdue, IsRowOf
    <2>4. CASE recs' = Without({victim[r]}) /\ now' = [now EXCEPT ![r] = clock]
      <3>1. \A i \in DOMAIN recs : i \in {victim[r]} => Overdue(recs[i])
        BY DEF SlotsGuarded
      <3>2. \A p \in Requests : since[p] # NULL => now'[p] = now[p]
        BY <2>1, <2>4
      <3> QED BY <1>6, <2>2, <2>4, <3>1, <3>2, RemovalGuarded DEF Delete
    <2> QED BY <1>6, <2>3, <2>4 DEF Delete, Deleted
  <1>7. ASSUME NEW r \in Requests, Forward(r) PROVE SlotsGuarded'
    BY <1>7 DEF Forward, SlotsGuarded, Overdue, IsRowOf
  <1>8. ASSUME NEW r \in Requests, Complete(r) PROVE SlotsGuarded'
    <2>1. /\ victim' = victim /\ clock' = clock /\ now' = now /\ req' = req
          /\ clients' = clients /\ since' = since
      BY <1>8 DEF Complete
    <2>2. CASE recs' = recs
      BY <2>1, <2>2 DEF SlotsGuarded, Overdue, IsRowOf
    <2>3. ASSUME NEW i \in OwnIds(r), recs' = WithRow(i, Stored(recs[i], r))
          PROVE  SlotsGuarded'
      <3>1. \A j \in DOMAIN recs :
              /\ Stored(recs[j], r).client = recs[j].client
              /\ Stored(recs[j], r).key = recs[j].key
              /\ Stored(recs[j], r).created = recs[j].created
              /\ Stored(recs[j], r).expires = recs[j].expires
        BY DEF Stored
      <3>2. /\ \A j : j \in DOMAIN recs' <=> j \in DOMAIN recs
            /\ \A j \in DOMAIN recs : recs'[j] \in {recs[j], Stored(recs[j], r)}
        BY <2>3, WithRowFacts DEF OwnIds
      <3>3. \A j \in DOMAIN recs : Overdue(recs[j]) => Overdue(recs[j])'
        BY <2>1, <3>1, <3>2 DEF Overdue
      <3>4. \A j \in DOMAIN recs, p \in Requests : IsRowOf(recs[j], p) => IsRowOf(recs[j], p)'
        BY <2>1, <3>1, <3>2 DEF IsRowOf
      <3> QED BY <2>1, <3>2, <3>3, <3>4 DEF SlotsGuarded
    <2> QED BY <1>8, <2>2, <2>3 DEF Complete
  <1>9. ASSUME NEW r \in Requests, Crash(r) PROVE SlotsGuarded'
    BY <1>9 DEF Crash, SlotsGuarded, Overdue, IsRowOf
  <1>10. CASE CleanupRetention
    <2>1. \A i \in DOMAIN recs : i \in Expired(clock) => Overdue(recs[i])
      BY DEF Expired, Overdue
    <2> QED BY <1>10, <2>1, RemovalGuarded DEF CleanupRetention
  <1>11. ASSUME NEW c \in Clients, PurgeClient(c) PROVE SlotsGuarded'
    BY <1>11, RemovalGuarded DEF PurgeClient
  <1>12. CASE Tick
    BY <1>12 DEF Tick, SlotsGuarded, Overdue, IsRowOf
  <1>13. CASE UNCHANGED vars
    BY <1>13 DEF vars, SlotsGuarded, Overdue, IsRowOf
  <1> QED BY <1>1, <1>2, <1>3, <1>4, <1>5, <1>6, <1>7, <1>8, <1>9, <1>10,
             <1>11, <1>12, <1>13 DEF Next, Step, Quiescent


\* Two requests with equal client, key and hash have equal arguments.
LEMMA ArgsEqual ==
    ASSUME NEW a \in Args, NEW b \in Args,
           a.client = b.client, a.key = b.key, a.hash = b.hash
    PROVE  a = b
  BY DEF Args

\* Every step keeps replayed responses matched to their requests.
LEMMA ReplayStep ==
    ASSUME TypeOK, RecordsFaithful, ReplayMatches, [Next]_vars
    PROVE  ReplayMatches'
  <1> USE NullAssumption
  <1>1. ASSUME req' = req, answer' = answer PROVE ReplayMatches'
    BY <1>1 DEF ReplayMatches
  <1>2. ASSUME NEW r \in Requests, NEW a, req' = req, Answer(r, a),
               a \in Requests => req[a] = req[r]
        PROVE  ReplayMatches'
    <2>1. ASSUME NEW q \in Requests, answer'[q] \in Requests
          PROVE  req'[answer'[q]] = req'[q]
      <3>1. CASE q = r
        BY <1>2, <2>1, <3>1 DEF Answer, TypeOK
      <3>2. CASE q # r
        BY <1>2, <2>1, <3>2 DEF Answer, TypeOK, ReplayMatches
      <3> QED BY <3>1, <3>2
    <2> QED BY <2>1 DEF ReplayMatches
  <1>3. ASSUME NEW r \in Requests, NEW a \in Codes, req' = req, Answer(r, a)
        PROVE  ReplayMatches'
    BY <1>2, <1>3
  <1>4. ASSUME NEW r \in Requests, Begin(r) PROVE ReplayMatches'
    BY <1>1, <1>3, <1>4 DEF Begin, Codes
  <1>5. ASSUME NEW r \in Requests, Insert(r) PROVE ReplayMatches'
    BY <1>1, <1>3, <1>5 DEF Insert, Codes
  <1>6. ASSUME NEW r \in Requests, Refresh(r) PROVE ReplayMatches'
    BY <1>1, <1>3, <1>6 DEF Refresh, Codes
  <1>7. ASSUME NEW r \in Requests, Lookup(r) PROVE ReplayMatches'
    <2>1. req' = req
      BY <1>7 DEF Lookup
    <2>2. CASE answer' = answer
      BY <1>1, <2>1, <2>2
    <2>3. CASE \E a \in Codes : Answer(r, a)
      BY <1>3, <2>1, <2>3
    <2>4. ASSUME NEW i \in SlotIds(r), SameHash(recs[i], r),
                 recs[i].status = "completed", Answer(r, recs[i].resp)
          PROVE  ReplayMatches'
      <3>1. i \in DOMAIN recs /\ recs[i].resp \in Requests /\ For(recs[i], req[recs[i].resp])
        BY <2>4 DEF SlotIds, TypeOK, Rows, RecordsFaithful
      <3>2. For(recs[i], req[r])
        BY <2>4 DEF SlotIds, SameHash, For
      <3>3. req[recs[i].resp] = req[r]
        <4>1. req[recs[i].resp] \in Args /\ req[r] \in Args
          BY <3>1 DEF TypeOK
        <4> QED BY <3>1, <3>2, <4>1, ArgsEqual DEF For
      <3> QED BY <1>2, <2>1, <2>4, <3>3
    <2> QED BY <1>7, <2>2, <2>3, <2>4 DEF Lookup, Codes
  <1>8. ASSUME NEW r \in Requests, Delete(r) PROVE ReplayMatches'
    BY <1>1, <1>3, <1>8 DEF Delete, Codes
  <1>9. ASSUME NEW r \in Requests, Forward(r) PROVE ReplayMatches'
    BY <1>1, <1>3, <1>9 DEF Forward, Codes
  <1>10. ASSUME NEW r \in Requests, Complete(r) PROVE ReplayMatches'
    BY <1>2, <1>10 DEF Complete
  <1>11. ASSUME NEW r \in Requests, Cleanup(r) \/ Crash(r) PROVE ReplayMatches'
    BY <1>1, <1>11 DEF Cleanup, Crash
  <1>12. CASE CleanupRetention \/ Tick \/ UNCHANGED vars
    BY <1>1, <1>12 DEF CleanupRetention, Tick, vars
  <1>13. ASSUME NEW c \in Clients, PurgeClient(c) PROVE ReplayMatches'
    BY <1>1, <1>13 DEF PurgeClient
  <1> QED BY <1>4, <1>5, <1>6, <1>7, <1>8, <1>9, <1>10, <1>11, <1>12, <1>13
          DEF Next, Step, Quiescent

\* Every step keeps the grace period between two owners of one slot.
LEMMA TakeoverStep ==
    ASSUME ~ReuseIds, TypeOK, Progress, SlotsGuarded, TakeoverAfterGrace, [Next]_vars
    PROVE  TakeoverAfterGrace'
  <1> USE NullAssumption, DurationsNat DEF TypeOK
  <1>1. ASSUME since' = since, req' = req,
               \A p \in Requests : since[p] # NULL => now'[p] = now[p]
        PROVE  TakeoverAfterGrace'
    BY <1>1 DEF TakeoverAfterGrace, SameSlot
  <1>2. ASSUME NEW r \in Requests, Begin(r) \/ Delete(r) PROVE TakeoverAfterGrace'
    <2>1. since[r] = NULL /\ since' = since /\ req' = req
      BY <1>2 DEF Begin, Delete, Progress, Seeking
    <2>2. \A p \in Requests : p # r => now'[p] = now[p]
      BY <1>2 DEF Begin, Delete
    <2> QED BY <1>1, <2>1, <2>2
  <1>3. ASSUME NEW r \in Requests, Insert(r) PROVE TakeoverAfterGrace'
    <2>1. now' = now /\ req' = req
      BY <1>3 DEF Insert
    <2>2. CASE since' = since
      BY <1>1, <2>1, <2>2
    <2>3. CASE /\ SlotIds(r) = {} /\ req[r].client \in clients
               /\ since' = [since EXCEPT ![r] = clock]
      <3>1. ASSUME NEW p \in Requests, p # r, since[p] # NULL, SameSlot(p, r)
            PROVE  clock > now[p] + Grace
        BY <2>3, <3>1 DEF SlotsGuarded, SlotIds, SameSlot, IsRowOf
      <3>2. /\ since'[r] = clock
            /\ \A p \in Requests : p # r => since'[p] = since[p]
        BY <2>3
      <3>3. ASSUME NEW p \in Requests, NEW q \in Requests, p # q,
                   since'[p] # NULL, since'[q] # NULL, SameSlot(p, q)
            PROVE  since'[q] > now[p] + Grace \/ since'[p] > now[q] + Grace
        <4>1. CASE q = r
          BY <3>1, <3>2, <3>3, <4>1
        <4>2. CASE p = r
          <5>1. SameSlot(q, r)
            BY <3>3, <4>2 DEF SameSlot
          <5> QED BY <3>1, <3>2, <3>3, <4>2, <5>1
        <4>3. CASE p # r /\ q # r
          BY <3>2, <3>3, <4>3 DEF TakeoverAfterGrace
        <4> QED BY <4>1, <4>2, <4>3
      <3> QED BY <2>1, <3>3 DEF TakeoverAfterGrace, SameSlot
    <2> QED BY <1>3, <2>2, <2>3 DEF Insert
  <1>4. ASSUME NEW r \in Requests, Cleanup(r) \/ Refresh(r) \/ Lookup(r)
        PROVE  TakeoverAfterGrace'
    BY <1>1, <1>4 DEF Cleanup, Refresh, Lookup
  <1>5. ASSUME NEW r \in Requests, Forward(r) \/ Complete(r) \/ Crash(r)
        PROVE  TakeoverAfterGrace'
    BY <1>1, <1>5 DEF Forward, Complete, Crash
  <1>6. CASE CleanupRetention \/ Tick \/ UNCHANGED vars
    BY <1>1, <1>6 DEF CleanupRetention, Tick, vars
  <1>7. ASSUME NEW c \in Clients, PurgeClient(c) PROVE TakeoverAfterGrace'
    BY <1>1, <1>7 DEF PurgeClient
  <1> QED BY <1>2, <1>3, <1>4, <1>5, <1>6, <1>7 DEF Next, Step, Quiescent

\* The inductive invariant holds initially.
LEMMA InitIInv == Init => IInv
  <1> SUFFICES ASSUME Init PROVE IInv
    OBVIOUS
  <1> USE BoundsAssumption, NullAssumption DEF Init
  <1>1. TypeOK
    BY DEF TypeOK, Labels
  <1>2. Progress
    BY DEF Progress, Seeking
  <1>3. IdsFresh
    BY DEF IdsFresh
  <1>4. RecordsFaithful
    BY DEF RecordsFaithful
  <1>5. SlotsGuarded
    BY DEF SlotsGuarded
  <1>6. ReplayMatches /\ TakeoverAfterGrace
    BY DEF ReplayMatches, TakeoverAfterGrace
  <1> QED BY <1>1, <1>2, <1>3, <1>4, <1>5, <1>6 DEF IInv

\* The invariant is inductive, and therefore holds in every reachable state.
LEMMA Inductive == ASSUME ~ReuseIds PROVE Spec => []IInv
  <1>1. Init => IInv
    BY InitIInv
  <1>2. ASSUME IInv, [Next]_vars PROVE IInv'
    BY <1>2, TypeStep, ProgressStep, IdsStep, RecordsStep, SlotsStep, ReplayStep,
       TakeoverStep DEF IInv
  <1> QED BY <1>1, <1>2, PTL DEF Spec

\* Only complete() changes a row in place, and only its caller's own row, which
\* is still in progress.
LEMMA StableStep ==
    ASSUME ~ReuseIds, TypeOK, IdsFresh, RecordsFaithful, [Next]_vars
    PROVE  \A i \in DOMAIN recs \cap DOMAIN recs' :
             recs[i].status = "completed" => recs'[i] = recs[i]
  <1> DEFINE Stable == \A i \in DOMAIN recs \cap DOMAIN recs' :
                         recs[i].status = "completed" => recs'[i] = recs[i]
  <1>1. ASSUME NEW ids, recs' = Without(ids) PROVE Stable
    BY <1>1, WithoutFacts
  <1>2. ASSUME NEW r \in Requests, Insert(r) PROVE Stable
    <2>1. CASE recs' = recs
      BY <2>1
    <2>2. CASE recs' = WithRow(seq, NewRow(r))
      BY <2>2, WithRowFacts DEF IdsFresh, TypeOK
    <2> QED BY <1>2, <2>1, <2>2 DEF Insert, NextId
  <1>3. ASSUME NEW r \in Requests, Complete(r) PROVE Stable
    <2>1. CASE recs' = recs
      BY <2>1
    <2>2. ASSUME NEW i \in OwnIds(r), recs' = WithRow(i, Stored(recs[i], r)) PROVE Stable
      <3>1. i \in DOMAIN recs /\ recs[i].status = "in_progress"
        BY <1>3 DEF OwnIds, Complete, RecordsFaithful
      <3> QED BY <2>2, <3>1, WithRowFacts
    <2> QED BY <1>3, <2>1, <2>2 DEF Complete
  <1>4. CASE recs' = recs
    BY <1>4
  <1>5. ASSUME NEW r \in Requests, Begin(r) \/ Refresh(r) \/ Lookup(r) \/ Forward(r) \/ Crash(r)
        PROVE  recs' = recs
    BY <1>5 DEF Begin, Refresh, Lookup, Forward, Crash
  <1>6. ASSUME NEW r \in Requests, Cleanup(r) \/ Delete(r) PROVE Stable
    BY <1>1, <1>4, <1>6 DEF Cleanup, Delete, Deleted
  <1>7. CASE CleanupRetention
    BY <1>1, <1>7 DEF CleanupRetention
  <1>8. ASSUME NEW c \in Clients, PurgeClient(c) PROVE Stable
    BY <1>1, <1>8 DEF PurgeClient
  <1>9. CASE Tick \/ UNCHANGED vars
    BY <1>4, <1>9 DEF Tick, vars
  <1> QED BY <1>2, <1>3, <1>4, <1>5, <1>6, <1>7, <1>8, <1>9 DEF Next, Step, Quiescent

\* Type correctness of the protocol: in particular a row is completed exactly
\* when it holds a response, so a replay always has something to return.
THEOREM TypeCorrect == ASSUME ~ReuseIds PROVE Spec => []TypeOK
  <1>1. IInv => TypeOK
    BY DEF IInv
  <1> QED BY <1>1, Inductive, PTL

\* Whatever the interleaving of start_or_replay, complete, the cleanups and the
\* purge, a response is replayed only to a request equal to the one it answered.
THEOREM ReplaySound == ASSUME ~ReuseIds PROVE Spec => []ReplayMatches
  <1>1. IInv => ReplayMatches
    BY DEF IInv
  <1> QED BY <1>1, Inductive, PTL

\* No chain of takeovers, expiries and cleanups lets a second request execute a
\* key before the grace period of the first one is over.
THEOREM TakeoverSound == ASSUME ~ReuseIds PROVE Spec => []TakeoverAfterGrace
  <1>1. IInv => TakeoverAfterGrace
    BY DEF IInv
  <1> QED BY <1>1, Inductive, PTL

\* complete() never overwrites a response that is already stored.
THEOREM StableSound == ASSUME ~ReuseIds PROVE Spec => ResponseStable
  <1>1. ASSUME IInv, [Next]_vars
        PROVE  [\A i \in DOMAIN recs \cap DOMAIN recs' :
                  recs[i].status = "completed" => recs'[i] = recs[i]]_vars
    BY <1>1, StableStep DEF IInv
  <1> QED BY <1>1, Inductive, PTL DEF Spec, ResponseStable

=============================================================================
