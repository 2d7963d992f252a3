-------------------------- MODULE GovernanceProofs --------------------------
(***************************************************************************)
(* Safety of client governance for any number of requests, any limits and  *)
(* quotas, and any behaviour of the administrator.                         *)
(***************************************************************************)
EXTENDS Governance, FiniteSetTheorems, TLAPS

\* The requests whose lease has not been released, served or not.
Holding == {r \in Requests : loc[r].lease = "counted"}

\* The counter is the number of leases that were not released, and a request
\* that has not come to the lease has none.
LeasesCounted ==
    /\ current = Cardinality(Holding)
    /\ \A r \in Requests : loc[r].pc \in {"idle", "lease"} => loc[r].lease = "none"

\* A request that ended with its lease ended in the failing UPDATE of the reset.
LeakKnown ==
    \A r \in Requests :
      loc[r].pc = "done" /\ loc[r].lease = "counted" => loc[r].ans = "session_error"

\* The object of a lazy reset starts the day at zero.
ResetsToZero == \A r \in Requests : loc[r].reset # NULL => loc[r].reset.usage = 0

-----------------------------------------------------------------------------
\* A commit writes a row.
LEMMA FlushType ==
    ASSUME row \in Rows, NEW old \in Rows, NEW new \in Rows
    PROVE  /\ Flush(old, new) \in Rows
           /\ Flush(old, new).usage = IF new.usage = old.usage THEN row.usage ELSE new.usage
  <1>1. DOMAIN row = {"active", "quota", "max", "usage", "resetAt"}
    BY DEF Rows
  <1> QED BY <1>1 DEF Flush, Rows

\* The objects computed in memory are rows.
LEMMA ObjectTypes ==
    ASSUME day \in Nat, NEW c \in Rows
    PROVE  /\ LazyReset(c) \in Rows /\ LazyReset(c).usage = 0
           /\ LazyReset(c).quota = c.quota
           /\ Used(c) \in Rows /\ Used(c).usage \in {c.usage, c.usage + 1}
  <1>1. LazyReset(c) \in Rows /\ LazyReset(c).usage = 0 /\ LazyReset(c).quota = c.quota
    BY DEF LazyReset, Rows
  <1>2. CASE c.quota = NULL
    BY <1>1, <1>2 DEF Used
  <1>3. CASE c.quota # NULL
    <2>1. Used(c) = [c EXCEPT !.usage = c.usage + 1]
      BY <1>3 DEF Used
    <2>2. Used(c) \in Rows /\ Used(c).usage = c.usage + 1
      BY <2>1 DEF Rows
    <2> QED BY <1>1, <2>2
  <1> QED BY <1>2, <1>3

\* Replacing the locals of one request by well-typed ones.
LEMMA SetType ==
    ASSUME TypeOK, NEW r \in Requests, NEW L \in Locals, Set(r, L),
           L.pc \in {"lease", "rate", "quota", "reset", "serve"} => L.obj # NULL,
           L.pc = "reset" => L.reset # NULL /\ Governed(L.reset)
    PROVE  /\ loc' \in [Requests -> Locals]
           /\ \A q \in Requests :
                /\ loc'[q].pc \in {"lease", "rate", "quota", "reset", "serve"}
                     => loc'[q].obj # NULL
                /\ loc'[q].pc = "reset" => loc'[q].reset # NULL /\ Governed(loc'[q].reset)
  BY DEF TypeOK, Set

\* Releasing a lease leaves a natural number.
LEMMA ReleaseType ==
    ASSUME current \in Nat, NEW L
    PROVE  Release(L) \in Nat
  BY DEF Release

\* The exits that release the lease keep the types.
LEMMA AnswerType ==
    ASSUME TypeOK, NEW r \in Requests, NEW code \in Codes, Answer(r, code)
    PROVE  /\ loc' \in [Requests -> Locals] /\ current' \in Nat
           /\ \A q \in Requests :
                /\ loc'[q].pc \in {"lease", "rate", "quota", "reset", "serve"}
                     => loc'[q].obj # NULL
                /\ loc'[q].pc = "reset" => loc'[q].reset # NULL /\ Governed(loc'[q].reset)
  <1> DEFINE L == Ended([loc[r] EXCEPT !.lease = "none"], code)
  <1>1. L \in Locals /\ L.pc = "done"
    BY DEF TypeOK, Locals, Labels, Ended
  <1>2. Set(r, L) /\ current' = Release(loc[r])
    BY DEF Answer
  <1>3. current' \in Nat
    BY <1>2, ReleaseType DEF TypeOK
  <1> HIDE DEF L
  <1> QED BY <1>1, <1>2, <1>3, SetType

\* Every step preserves the types.
LEMMA TypeStep ==
    ASSUME TypeOK, [Next]_vars
    PROVE  TypeOK'
  <1> USE GovernanceAssumption
  <1>1. ASSUME NEW r \in Requests, RequireClient(r) PROVE TypeOK'
    <2>1. CASE row # NULL /\ Set(r, [loc[r] EXCEPT !.pc = "lease", !.obj = row])
      <3>1. [loc[r] EXCEPT !.pc = "lease", !.obj = row] \in Locals
        BY <2>1 DEF TypeOK, Locals, Labels
      <3> QED BY <1>1, <2>1, <3>1, SetType DEF RequireClient, TypeOK, Locals
    <2>2. ASSUME NEW code \in Codes, Set(r, Ended(loc[r], code)) PROVE TypeOK'
      <3>1. Ended(loc[r], code) \in Locals /\ Ended(loc[r], code).pc = "done"
        BY DEF TypeOK, Locals, Labels, Ended
      <3> QED BY <1>1, <2>2, <3>1, SetType DEF RequireClient, TypeOK
    <2> QED BY <1>1, <2>1, <2>2 DEF RequireClient, Codes
  <1>2. ASSUME NEW r \in Requests, TryAcquire(r) PROVE TypeOK'
    <2>1. ASSUME NEW l \in {"free", "counted"},
                 Set(r, [loc[r] EXCEPT !.pc = "rate", !.lease = l]), current' \in Nat
          PROVE  TypeOK'
      <3>1. [loc[r] EXCEPT !.pc = "rate", !.lease = l] \in Locals
        BY DEF TypeOK, Locals, Labels
      <3>2. loc[r].obj # NULL
        BY <1>2 DEF TryAcquire, TypeOK
      <3> QED BY <1>2, <2>1, <3>1, <3>2, SetType DEF TryAcquire, TypeOK, Locals
    <2>2. CASE Set(r, Ended(loc[r], "CLIENT_CONCURRENCY_LIMITED")) /\ current' = current
      <3>1. /\ Ended(loc[r], "CLIENT_CONCURRENCY_LIMITED") \in Locals
            /\ Ended(loc[r], "CLIENT_CONCURRENCY_LIMITED").pc = "done"
        BY DEF TypeOK, Locals, Labels, Ended, Codes
      <3> QED BY <1>2, <2>2, <3>1, SetType DEF TryAcquire, TypeOK
    <2>3. current + 1 \in Nat
      BY DEF TypeOK
    <2> QED BY <1>2, <2>1, <2>2, <2>3 DEF TryAcquire, TypeOK
  <1>3. ASSUME NEW r \in Requests, Allow(r) PROVE TypeOK'
    <2>1. CASE Set(r, [loc[r] EXCEPT !.pc = "quota"]) /\ UNCHANGED current
      <3>1. [loc[r] EXCEPT !.pc = "quota"] \in Locals /\ loc[r].obj # NULL
        BY <1>3 DEF Allow, TypeOK, Locals, Labels
      <3> QED BY <1>3, <2>1, <3>1, SetType DEF Allow, TypeOK, Locals
    <2>2. CASE Answer(r, "CLIENT_RATE_LIMITED")
      BY <1>3, <2>2, AnswerType DEF Allow, TypeOK, Codes
    <2> QED BY <1>3, <2>1, <2>2 DEF Allow
  <1>4. ASSUME NEW r \in Requests, CheckQuota(r) PROVE TypeOK'
    <2>1. loc[r].obj \in Rows
      BY <1>4 DEF CheckQuota, TypeOK, Locals
    <2>2. CASE Set(r, [loc[r] EXCEPT !.pc = "serve"]) /\ UNCHANGED current
      <3>1. [loc[r] EXCEPT !.pc = "serve"] \in Locals
        BY DEF TypeOK, Locals, Labels
      <3> QED BY <1>4, <2>1, <2>2, <3>1, SetType DEF CheckQuota, TypeOK, Locals
    <2>3. CASE /\ Governed(loc[r].obj) /\ UNCHANGED current
               /\ Set(r, [loc[r] EXCEPT !.pc = "reset", !.reset = LazyReset(loc[r].obj)])
      <3>1. /\ LazyReset(loc[r].obj) \in Rows
            /\ LazyReset(loc[r].obj).quota = loc[r].obj.quota
        BY <2>1, ObjectTypes DEF TypeOK
      <3>2. Governed(LazyReset(loc[r].obj)) /\ LazyReset(loc[r].obj) # NULL
        BY <2>3, <3>1 DEF Governed
      <3>3. [loc[r] EXCEPT !.pc = "reset", !.reset = LazyReset(loc[r].obj)] \in Locals
        BY <3>1 DEF TypeOK, Locals, Labels
      <3>4. [loc[r] EXCEPT !.pc = "reset", !.reset = LazyReset(loc[r].obj)].reset
              = LazyReset(loc[r].obj)
            /\ [loc[r] EXCEPT !.pc = "reset", !.reset = LazyReset(loc[r].obj)].obj # NULL
        BY <2>1 DEF TypeOK, Locals
      <3> QED BY <1>4, <2>3, <3>2, <3>3, <3>4, SetType DEF CheckQuota, TypeOK
    <2>4. CASE Answer(r, "CLIENT_QUOTA_EXCEEDED")
      BY <1>4, <2>4, AnswerType DEF CheckQuota, TypeOK, Codes
    <2> QED BY <1>4, <2>2, <2>3, <2>4 DEF CheckQuota
  <1>5. ASSUME NEW r \in Requests, CommitReset(r) PROVE TypeOK'
    <2>1. loc[r].obj \in Rows /\ loc[r].reset \in Rows
      BY <1>5 DEF CommitReset, TypeOK, Locals
    <2>2. row' \in Rows \cup {NULL}
      BY <1>5, <2>1, FlushType DEF CommitReset, TypeOK
    <2>3. ASSUME NEW code \in Codes, Answer(r, code) PROVE TypeOK'
      BY <1>5, <2>2, <2>3, AnswerType DEF CommitReset, TypeOK
    <2>4. CASE /\ Set(r, [loc[r] EXCEPT !.pc = "serve", !.obj = loc[r].reset, !.reset = NULL])
               /\ UNCHANGED current
      <3>1. [loc[r] EXCEPT !.pc = "serve", !.obj = loc[r].reset, !.reset = NULL] \in Locals
        BY <2>1 DEF TypeOK, Locals, Labels
      <3> QED BY <1>5, <2>1, <2>2, <2>4, <3>1, SetType DEF CommitReset, TypeOK, Locals
    <2>5. CASE Set(r, Ended(loc[r], "session_error")) /\ UNCHANGED current
      <3>1. /\ Ended(loc[r], "session_error") \in Locals
            /\ Ended(loc[r], "session_error").pc = "done"
        BY DEF TypeOK, Locals, Labels, Ended, Codes
      <3> QED BY <1>5, <2>2, <2>5, <3>1, SetType DEF CommitReset, TypeOK
    <2> QED BY <1>5, <2>3, <2>4, <2>5 DEF CommitReset, Codes
  <1>6. ASSUME NEW r \in Requests, Serve(r) PROVE TypeOK'
    <2>1. loc[r].obj \in Rows
      BY <1>6 DEF Serve, TypeOK, Locals
    <2>2. ASSUME NEW obj \in Rows \cup {NULL}, NEW p \in {"consume", "leave"},
                 Set(r, [loc[r] EXCEPT !.pc = p, !.obj = obj]), total' \in Nat
          PROVE  TypeOK'
      <3>1. [loc[r] EXCEPT !.pc = p, !.obj = obj] \in Locals
        BY <2>2 DEF TypeOK, Locals, Labels
      <3> QED BY <1>6, <2>2, <3>1, SetType DEF Serve, TypeOK, Locals
    <2>3. total + 1 \in Nat /\ total \in Nat
      BY DEF TypeOK
    <2>4. CASE Set(r, AfterOther(loc[r])) /\ UNCHANGED total
      BY <2>2, <2>3, <2>4 DEF AfterOther
    <2>5. ASSUME NEW obj \in {loc[r].obj, NULL},
                 Set(r, AfterSuccess([loc[r] EXCEPT !.obj = obj])), total' = total + 1
          PROVE  TypeOK'
      <3>1. AfterSuccess([loc[r] EXCEPT !.obj = obj])
              \in {[loc[r] EXCEPT !.pc = "consume", !.obj = obj],
                   [loc[r] EXCEPT !.pc = "leave", !.obj = NULL]}
        BY DEF AfterSuccess, TypeOK, Locals
      <3>2. obj \in Rows \cup {NULL} /\ total' \in Nat
        BY <2>1, <2>3, <2>5
      <3>3. CASE AfterSuccess([loc[r] EXCEPT !.obj = obj])
                   = [loc[r] EXCEPT !.pc = "consume", !.obj = obj]
        BY <2>2, <2>5, <3>2, <3>3
      <3>4. CASE AfterSuccess([loc[r] EXCEPT !.obj = obj])
                   = [loc[r] EXCEPT !.pc = "leave", !.obj = NULL]
        BY <2>2, <2>5, <3>2, <3>4
      <3> QED BY <3>1, <3>3, <3>4
    <2> QED BY <1>6, <2>4, <2>5 DEF Serve
  <1>7. ASSUME NEW r \in Requests, Reload(r) PROVE TypeOK'
    <2>1. ASSUME NEW p \in {"consume", "failed"}, NEW obj \in Rows \cup {NULL},
                 Set(r, [loc[r] EXCEPT !.pc = p, !.obj = obj])
          PROVE  TypeOK'
      <3>1. [loc[r] EXCEPT !.pc = p, !.obj = obj] \in Locals
        BY <2>1 DEF TypeOK, Locals, Labels
      <3> QED BY <1>7, <2>1, <3>1, SetType DEF Reload, TypeOK, Locals
    <2>2. CASE Set(r, [loc[r] EXCEPT !.obj = row])
      <3>1. [loc[r] EXCEPT !.obj = row] = [loc[r] EXCEPT !.pc = "consume", !.obj = row]
        BY <1>7 DEF Reload, TypeOK, Locals
      <3> QED BY <2>1, <2>2, <3>1 DEF TypeOK
    <2>3. CASE Set(r, [loc[r] EXCEPT !.pc = "failed"])
      <3>1. [loc[r] EXCEPT !.pc = "failed"] = [loc[r] EXCEPT !.pc = "failed", !.obj = NULL]
        BY <1>7 DEF Reload, TypeOK, Locals
      <3> QED BY <2>1, <2>3, <3>1
    <2> QED BY <1>7, <2>2, <2>3 DEF Reload
  <1>8. ASSUME NEW r \in Requests, Consume(r) PROVE TypeOK'
    <2>1. loc[r].obj \in Rows
      BY <1>8 DEF Consume, TypeOK, Locals
    <2>2. row' \in Rows \cup {NULL}
      BY <1>8, <2>1, FlushType, ObjectTypes DEF Consume, TypeOK
    <2>3. ASSUME NEW p \in {"leave", "failed"},
                 Set(r, [loc[r] EXCEPT !.pc = p, !.obj = NULL])
          PROVE  TypeOK'
      <3>1. [loc[r] EXCEPT !.pc = p, !.obj = NULL] \in Locals
        BY <2>3 DEF TypeOK, Locals, Labels
      <3> QED BY <1>8, <2>2, <2>3, <3>1, SetType DEF Consume, TypeOK, Locals
    <2> QED BY <1>8, <2>3 DEF Consume
  <1>9. ASSUME NEW r \in Requests, Leave(r) PROVE TypeOK'
    BY <1>9, AnswerType DEF Leave, TypeOK, Codes
  <1>10. CASE UpdateClient
    <2>1. row' \in Rows \cup {NULL}
      BY <1>10 DEF UpdateClient, TypeOK, Rows
    <2> QED BY <1>10, <2>1 DEF UpdateClient, TypeOK
  <1>11. CASE SetActive
    <2>1. row' \in Rows \cup {NULL}
      BY <1>11 DEF SetActive, TypeOK, Rows
    <2> QED BY <1>11, <2>1 DEF SetActive, TypeOK
  <1>12. CASE PurgeClient
    BY <1>12 DEF PurgeClient, TypeOK
  <1>13. CASE Midnight
    BY <1>13 DEF Midnight, TypeOK
  <1>14. CASE UNCHANGED vars
    BY <1>14 DEF vars, TypeOK
  <1> QED BY <1>1, <1>2, <1>3, <1>4, <1>5, <1>6, <1>7, <1>8, <1>9, <1>10, <1>11,
             <1>12, <1>13, <1>14 DEF Next, Step, Admin, Quiescent

\* The locals of every request, the row and the counters have the types the
\* code relies on: the Client object is loaded wherever deps.py reads it.
THEOREM TypeCorrect == Spec => []TypeOK
  <1>1. Init => TypeOK
    BY GovernanceAssumption DEF Init, TypeOK, Fresh, Rows, Locals, Labels
  <1>2. TypeOK /\ [Next]_vars => TypeOK'
    BY TypeStep
  <1> QED BY <1>1, <1>2, PTL DEF Spec

-----------------------------------------------------------------------------
\* How one request's step changes the number of pending answers.
LEMMA PendingCount ==
    ASSUME TypeOK, NEW r \in Requests, NEW L, Set(r, L)
    PROVE  /\ Cardinality(Pending) \in Nat /\ Cardinality(Pending)' \in Nat
           /\ Cardinality(Pending)' = Cardinality(Pending)
                + (IF L.pc = "consume" THEN 1 ELSE 0)
                - (IF loc[r].pc = "consume" THEN 1 ELSE 0)
  <1>1. IsFiniteSet(Pending) /\ Cardinality(Pending) \in Nat
    BY GovernanceAssumption, FS_Subset, FS_CardinalityType DEF Pending
  <1>2. r \in Pending <=> loc[r].pc = "consume"
    BY DEF Pending
  <1>3. CASE L.pc = "consume"
    <2>1. Pending' = Pending \cup {r}
      BY <1>3 DEF Pending, Set, TypeOK
    <2>2. Cardinality(Pending)' = Cardinality(Pending \cup {r})
      BY <2>1
    <2>3. Cardinality(Pending \cup {r}) = IF r \in Pending THEN Cardinality(Pending)
                                          ELSE Cardinality(Pending) + 1
      BY <1>1, FS_AddElement
    <2> QED BY <1>1, <1>2, <1>3, <2>2, <2>3
  <1>4. CASE L.pc # "consume"
    <2>1. Pending' = Pending \ {r}
      BY <1>4 DEF Pending, Set, TypeOK
    <2>2. Cardinality(Pending)' = Cardinality(Pending \ {r})
      BY <2>1
    <2>3. /\ IsFiniteSet(Pending \ {r})
          /\ Cardinality(Pending \ {r}) = IF r \in Pending THEN Cardinality(Pending) - 1
                                           ELSE Cardinality(Pending)
      BY <1>1, FS_RemoveElement
    <2>4. Cardinality(Pending \ {r}) \in Nat
      BY <2>3, FS_CardinalityType
    <2> QED BY <1>1, <1>2, <1>4, <2>2, <2>3, <2>4
  <1> QED BY <1>3, <1>4

\* A step of one request keeps UsageBacked if it accounts for at most what it
\* settles.
LEMMA UsageSet ==
    ASSUME TypeOK, UsageBacked, NEW r \in Requests, NEW L, Set(r, L),
           total' \in Nat,
           total + Cardinality(Pending)' <= total' + Cardinality(Pending),
           row' # NULL => row'.usage + Cardinality(Pending)' <= total',
           L.obj # NULL => L.obj.usage + Cardinality(Pending)' <= total'
    PROVE  UsageBacked'
  <1>1. Cardinality(Pending) \in Nat /\ Cardinality(Pending)' \in Nat
    BY PendingCount
  <1>2. ASSUME NEW q \in Requests, loc'[q].obj # NULL
        PROVE  loc'[q].obj.usage + Cardinality(Pending)' <= total'
    <2>1. CASE q = r
      BY <1>2, <2>1 DEF Set, TypeOK
    <2>2. CASE q # r
      <3>1. loc'[q] = loc[q]
        BY <2>2 DEF Set, TypeOK
      <3>2. loc[q].obj.usage + Cardinality(Pending) <= total /\ loc[q].obj.usage \in Nat
        BY <1>2, <3>1 DEF UsageBacked, TypeOK, Locals, Rows
      <3> QED BY <1>1, <3>1, <3>2 DEF TypeOK
    <2> QED BY <2>1, <2>2
  <1> QED BY <1>2 DEF UsageBacked

\* The exits change neither the row nor the counts.
LEMMA UsageEnded ==
    ASSUME TypeOK, UsageBacked, NEW r \in Requests, NEW l, NEW code,
           loc[r].pc # "consume", Set(r, Ended([loc[r] EXCEPT !.lease = l], code)),
           UNCHANGED total, row' # NULL => row # NULL /\ row'.usage \in {row.usage, 0}
    PROVE  UsageBacked'
  <1> DEFINE L == Ended([loc[r] EXCEPT !.lease = l], code)
  <1>1. L.pc = "done" /\ L.obj = NULL
    BY DEF Ended, TypeOK, Locals
  <1>2. Set(r, L)
    OBVIOUS
  <1> HIDE DEF L
  <1>3. Cardinality(Pending)' = Cardinality(Pending) /\ Cardinality(Pending) \in Nat
    BY <1>1, <1>2, PendingCount
  <1>4. Cardinality(Pending) <= total \/ row = NULL
    BY <1>3 DEF UsageBacked, TypeOK, Rows
  <1> QED BY <1>1, <1>2, <1>3, <1>4, UsageSet DEF UsageBacked, TypeOK, Rows

\* A lazy reset is computed by LazyReset and by nothing else.
LEMMA ResetStep ==
    ASSUME TypeOK, ResetsToZero, [Next]_vars
    PROVE  ResetsToZero'
  <1>1. ASSUME NEW r \in Requests, NEW L, Set(r, L),
               L.reset \in {loc[r].reset, LazyReset(loc[r].obj), NULL},
               L.reset = LazyReset(loc[r].obj) => loc[r].obj \in Rows
        PROVE  ResetsToZero'
    <2>1. L.reset # NULL => L.reset.usage = 0
      BY <1>1, ObjectTypes DEF TypeOK, ResetsToZero
    <2> QED BY <1>1, <2>1 DEF ResetsToZero, Set, TypeOK
  <1>2. ASSUME NEW r \in Requests, NEW code, NEW l, Set(r, Ended([loc[r] EXCEPT !.lease = l], code))
        PROVE  ResetsToZero'
    <2>1. Ended([loc[r] EXCEPT !.lease = l], code).reset = NULL
      BY DEF Ended, TypeOK, Locals
    <2> QED BY <1>2, <2>1 DEF ResetsToZero, Set, TypeOK
  <1>3. ASSUME NEW r \in Requests, NEW code, Set(r, Ended(loc[r], code)) \/ Answer(r, code)
        PROVE  ResetsToZero'
    <2>1. loc[r] = [loc[r] EXCEPT !.lease = loc[r].lease]
      BY DEF TypeOK, Locals
    <2> QED BY <1>2, <1>3, <2>1 DEF Answer
  <1>4. ASSUME NEW r \in Requests, NEW L, Set(r, L), L.reset \in {loc[r].reset, NULL}
        PROVE  ResetsToZero'
    BY <1>4 DEF ResetsToZero, Set, TypeOK
  <1>5. ASSUME NEW r \in Requests, RequireClient(r) PROVE ResetsToZero'
    <2>1. [loc[r] EXCEPT !.pc = "lease", !.obj = row].reset = loc[r].reset
      BY DEF TypeOK, Locals
    <2> QED BY <1>3, <1>4, <1>5, <2>1 DEF RequireClient
  <1>6. ASSUME NEW r \in Requests, TryAcquire(r) PROVE ResetsToZero'
    <2>1. \A l : [loc[r] EXCEPT !.pc = "rate", !.lease = l].reset = loc[r].reset
      BY DEF TypeOK, Locals
    <2> QED BY <1>3, <1>4, <1>6, <2>1 DEF TryAcquire
  <1>7. ASSUME NEW r \in Requests, Allow(r) PROVE ResetsToZero'
    <2>1. [loc[r] EXCEPT !.pc = "quota"].reset = loc[r].reset
      BY DEF TypeOK, Locals
    <2> QED BY <1>3, <1>4, <1>7, <2>1 DEF Allow
  <1>8. ASSUME NEW r \in Requests, CheckQuota(r) PROVE ResetsToZero'
    <2>1. [loc[r] EXCEPT !.pc = "serve"].reset = loc[r].reset
      BY DEF TypeOK, Locals
    <2>2. [loc[r] EXCEPT !.pc = "reset", !.reset = LazyReset(loc[r].obj)].reset
            = LazyReset(loc[r].obj)
      BY DEF TypeOK, Locals
    <2>3. loc[r].obj \in Rows
      BY <1>8 DEF CheckQuota, TypeOK, Locals
    <2>4. CASE Set(r, [loc[r] EXCEPT !.pc = "reset", !.reset = LazyReset(loc[r].obj)])
      BY <1>1, <2>2, <2>3, <2>4
    <2> QED BY <1>3, <1>4, <1>8, <2>1, <2>4 DEF CheckQuota
  <1>9. ASSUME NEW r \in Requests, CommitReset(r) PROVE ResetsToZero'
    <2>1. [loc[r] EXCEPT !.pc = "serve", !.obj = loc[r].reset, !.reset = NULL].reset = NULL
      BY DEF TypeOK, Locals
    <2> QED BY <1>3, <1>4, <1>9, <2>1 DEF CommitReset
  <1>10. ASSUME NEW r \in Requests, Serve(r) PROVE ResetsToZero'
    <2>1. AfterOther(loc[r]).reset = loc[r].reset
      BY DEF AfterOther, TypeOK, Locals
    <2>2. \A obj : AfterSuccess([loc[r] EXCEPT !.obj = obj]).reset = loc[r].reset
      BY DEF AfterSuccess, TypeOK, Locals
    <2> QED BY <1>4, <1>10, <2>1, <2>2 DEF Serve
  <1>11. ASSUME NEW r \in Requests, Reload(r) PROVE ResetsToZero'
    <2>1. [loc[r] EXCEPT !.obj = row].reset = loc[r].reset
      BY DEF TypeOK, Locals
    <2>2. [loc[r] EXCEPT !.pc = "failed"].reset = loc[r].reset
      BY DEF TypeOK, Locals
    <2> QED BY <1>4, <1>11, <2>1, <2>2 DEF Reload
  <1>12. ASSUME NEW r \in Requests, Consume(r) PROVE ResetsToZero'
    <2>1. \A p : [loc[r] EXCEPT !.pc = p, !.obj = NULL].reset = loc[r].reset
      BY DEF TypeOK, Locals
    <2> QED BY <1>4, <1>12, <2>1 DEF Consume
  <1>13. ASSUME NEW r \in Requests, Leave(r) PROVE ResetsToZero'
    BY <1>3, <1>13 DEF Leave
  <1>14. CASE UNCHANGED loc
    BY <1>14 DEF ResetsToZero
  <1> QED BY <1>5, <1>6, <1>7, <1>8, <1>9, <1>10, <1>11, <1>12, <1>13, <1>14
          DEF Next, Step, Admin, Quiescent, UpdateClient, SetActive, PurgeClient, Midnight, vars

\* Every step keeps the usage on record, and in every copy of it, within the
\* number of answers accounted for.
LEMMA UsageStep ==
    ASSUME TypeOK, UsageBacked, ResetsToZero, [Next]_vars
    PROVE  UsageBacked'
  <1> USE GovernanceAssumption
  <1> DEFINE n == Cardinality(Pending)
  <1>0. ASSUME NEW r \in Requests, NEW code, Answer(r, code), loc[r].pc # "consume",
               UNCHANGED total,
               row' # NULL => row # NULL /\ row'.usage \in {row.usage, 0}
        PROVE  UsageBacked'
    BY <1>0, UsageEnded DEF Answer
  <1>00. ASSUME NEW r \in Requests, NEW code, Set(r, Ended(loc[r], code)),
                loc[r].pc # "consume", UNCHANGED <<row, total>>
         PROVE  UsageBacked'
    <2>1. loc[r] = [loc[r] EXCEPT !.lease = loc[r].lease]
      BY DEF TypeOK, Locals
    <2> QED BY <1>00, <2>1, UsageEnded
  <1>1. ASSUME NEW r \in Requests, RequireClient(r) PROVE UsageBacked'
    <2>1. CASE row # NULL /\ Set(r, [loc[r] EXCEPT !.pc = "lease", !.obj = row])
      <3> DEFINE L == [loc[r] EXCEPT !.pc = "lease", !.obj = row]
      <3>1. L.pc = "lease" /\ L.obj = row /\ Set(r, L)
        BY <2>1 DEF TypeOK, Locals
      <3> HIDE DEF L
      <3>2. n' = n /\ n \in Nat
        BY <1>1, <3>1, PendingCount DEF RequireClient
      <3> QED BY <1>1, <2>1, <3>1, <3>2, UsageSet DEF RequireClient, UsageBacked, TypeOK
    <2> QED BY <1>1, <2>1, <1>00 DEF RequireClient
  <1>2. ASSUME NEW r \in Requests, NEW L, Set(r, L), L.obj \in {loc[r].obj, NULL},
               L.pc # "consume", loc[r].pc # "consume", UNCHANGED <<row, total>>
        PROVE  UsageBacked'
    <2>1. n' = n /\ n \in Nat
      BY <1>2, PendingCount
    <2> QED BY <1>2, <2>1, UsageSet DEF UsageBacked, TypeOK
  <1>3. ASSUME NEW r \in Requests, TryAcquire(r) PROVE UsageBacked'
    <2>1. ASSUME NEW l, Set(r, [loc[r] EXCEPT !.pc = "rate", !.lease = l])
          PROVE  UsageBacked'
      <3>1. /\ [loc[r] EXCEPT !.pc = "rate", !.lease = l].obj = loc[r].obj
            /\ [loc[r] EXCEPT !.pc = "rate", !.lease = l].pc = "rate"
        BY DEF TypeOK, Locals
      <3> QED BY <1>2, <1>3, <2>1, <3>1 DEF TryAcquire
    <2> QED BY <1>3, <1>00, <2>1 DEF TryAcquire
  <1>4. ASSUME NEW r \in Requests, Allow(r) PROVE UsageBacked'
    <2>1. /\ [loc[r] EXCEPT !.pc = "quota"].obj = loc[r].obj
          /\ [loc[r] EXCEPT !.pc = "quota"].pc = "quota"
      BY DEF TypeOK, Locals
    <2> QED BY <1>0, <1>2, <1>4, <2>1 DEF Allow
  <1>5. ASSUME NEW r \in Requests, CheckQuota(r) PROVE UsageBacked'
    <2>1. /\ [loc[r] EXCEPT !.pc = "serve"].obj = loc[r].obj
          /\ [loc[r] EXCEPT !.pc = "serve"].pc = "serve"
      BY DEF TypeOK, Locals
    <2>2. ASSUME NEW new
          PROVE  /\ [loc[r] EXCEPT !.pc = "reset", !.reset = new].obj = loc[r].obj
                 /\ [loc[r] EXCEPT !.pc = "reset", !.reset = new].pc = "reset"
      BY DEF TypeOK, Locals
    <2>3. CASE Set(r, [loc[r] EXCEPT !.pc = "serve"])
      BY <1>2, <1>5, <2>1, <2>3 DEF CheckQuota
    <2>4. CASE Set(r, [loc[r] EXCEPT !.pc = "reset", !.reset = LazyReset(loc[r].obj)])
      BY <1>2, <1>5, <2>2, <2>4 DEF CheckQuota
    <2>5. CASE Answer(r, "CLIENT_QUOTA_EXCEEDED")
      BY <1>0, <1>5, <2>5 DEF CheckQuota
    <2> QED BY <1>5, <2>3, <2>4, <2>5 DEF CheckQuota
  <1>6. ASSUME NEW r \in Requests, CommitReset(r) PROVE UsageBacked'
    <2>1. /\ loc[r].obj \in Rows /\ loc[r].reset \in Rows /\ loc[r].reset.usage = 0
          /\ loc[r].obj # NULL
      BY <1>6 DEF CommitReset, TypeOK, Locals, ResetsToZero
    <2>2. row' # NULL => row # NULL /\ row'.usage \in {row.usage, 0}
      <3>1. CASE row' = row
        BY <3>1
      <3>2. CASE row # NULL /\ row' = Flush(loc[r].obj, loc[r].reset)
        BY <2>1, <3>2, FlushType DEF TypeOK
      <3> QED BY <1>6, <3>1, <3>2 DEF CommitReset
    <2>3. ASSUME NEW code, Answer(r, code) PROVE UsageBacked'
      BY <1>0, <1>6, <2>2, <2>3 DEF CommitReset
    <2>4. CASE /\ row # NULL
               /\ Set(r, [loc[r] EXCEPT !.pc = "serve", !.obj = loc[r].reset, !.reset = NULL])
      <3> DEFINE L == [loc[r] EXCEPT !.pc = "serve", !.obj = loc[r].reset, !.reset = NULL]
      <3>1. L.pc = "serve" /\ L.obj = loc[r].reset /\ Set(r, L)
        BY <2>4 DEF TypeOK, Locals
      <3> HIDE DEF L
      <3>2. n' = n /\ n \in Nat
        BY <1>6, <3>1, PendingCount DEF CommitReset
      <3>3. loc[r].obj.usage + n <= total /\ row.usage + n <= total
        BY <2>1, <2>4 DEF UsageBacked
      <3>4. loc[r].obj.usage \in Nat /\ row.usage \in Nat /\ total \in Nat
        BY <2>1, <2>4 DEF TypeOK, Rows
      <3> QED BY <1>6, <2>1, <2>2, <3>1, <3>2, <3>3, <3>4, UsageSet DEF CommitReset
    <2>5. CASE Set(r, Ended(loc[r], "session_error")) /\ UNCHANGED row
      BY <1>00, <1>6, <2>5 DEF CommitReset
    <2> QED BY <1>6, <2>3, <2>4, <2>5 DEF CommitReset
  <1>7. ASSUME NEW r \in Requests, Serve(r) PROVE UsageBacked'
    <2>1. CASE Set(r, AfterOther(loc[r])) /\ UNCHANGED total
      <3>1. AfterOther(loc[r]).obj = NULL /\ AfterOther(loc[r]).pc = "leave"
        BY DEF AfterOther, TypeOK, Locals
      <3> QED BY <1>2, <1>7, <2>1, <3>1 DEF Serve
    <2>2. ASSUME NEW obj \in {loc[r].obj, NULL},
                 Set(r, AfterSuccess([loc[r] EXCEPT !.obj = obj])), total' = total + 1
          PROVE  UsageBacked'
      <3> DEFINE L == AfterSuccess([loc[r] EXCEPT !.obj = obj])
      <3>1. L.obj \in {loc[r].obj, NULL} /\ Set(r, L)
        BY <2>2 DEF AfterSuccess, TypeOK, Locals
      <3> HIDE DEF L
      <3>2. n \in Nat /\ n' \in Nat /\ n' <= n + 1
        BY <1>7, <3>1, PendingCount DEF Serve
      <3>3. total \in Nat /\ UNCHANGED row
        BY <1>7 DEF Serve, TypeOK
      <3>4. row # NULL => row.usage \in Nat /\ row.usage + n <= total
        BY DEF UsageBacked, TypeOK, Rows
      <3>5. loc[r].obj # NULL => loc[r].obj.usage \in Nat /\ loc[r].obj.usage + n <= total
        BY DEF UsageBacked, TypeOK, Locals, Rows
      <3> QED BY <2>2, <3>1, <3>2, <3>3, <3>4, <3>5, UsageSet
    <2> QED BY <1>7, <2>1, <2>2 DEF Serve
  <1>8. ASSUME NEW r \in Requests, Reload(r) PROVE UsageBacked'
    <2>1. CASE row # NULL /\ Set(r, [loc[r] EXCEPT !.obj = row])
      <3> DEFINE L == [loc[r] EXCEPT !.obj = row]
      <3>1. L.obj = row /\ L.pc = "consume" /\ Set(r, L)
        BY <1>8, <2>1 DEF Reload, TypeOK, Locals
      <3> HIDE DEF L
      <3>2. n' = n /\ n \in Nat
        BY <1>8, <3>1, PendingCount DEF Reload
      <3> QED BY <1>8, <2>1, <3>1, <3>2, UsageSet DEF Reload, UsageBacked, TypeOK
    <2>2. CASE row = NULL /\ Set(r, [loc[r] EXCEPT !.pc = "failed"])
      <3> DEFINE L == [loc[r] EXCEPT !.pc = "failed"]
      <3>1. L.obj = NULL /\ L.pc = "failed" /\ Set(r, L)
        BY <1>8, <2>2 DEF Reload, TypeOK, Locals
      <3> HIDE DEF L
      <3>2. n' = n - 1 /\ n \in Nat /\ n' \in Nat
        BY <1>8, <3>1, PendingCount DEF Reload
      <3> QED BY <1>8, <2>2, <3>1, <3>2, UsageSet DEF Reload, TypeOK
    <2> QED BY <1>8, <2>1, <2>2 DEF Reload
  <1>9. ASSUME NEW r \in Requests, Consume(r) PROVE UsageBacked'
    <2> DEFINE obj == loc[r].obj
    <2>1. obj \in Rows /\ obj # NULL /\ obj.usage \in Nat /\ obj.usage + n <= total
      BY <1>9 DEF Consume, TypeOK, Locals, UsageBacked, Rows
    <2>2. ASSUME NEW p \in {"leave", "failed"},
                 Set(r, [loc[r] EXCEPT !.pc = p, !.obj = NULL]),
                 row' # NULL => row # NULL /\ row'.usage \in {row.usage, obj.usage, obj.usage + 1}
          PROVE  UsageBacked'
      <3> DEFINE L == [loc[r] EXCEPT !.pc = p, !.obj = NULL]
      <3>1. L.obj = NULL /\ L.pc = p /\ Set(r, L)
        BY <2>2 DEF TypeOK, Locals
      <3> HIDE DEF L
      <3>2. n' = n - 1 /\ n \in Nat /\ n' \in Nat
        BY <1>9, <3>1, PendingCount DEF Consume
      <3>3. total \in Nat /\ UNCHANGED total
        BY <1>9 DEF Consume, TypeOK
      <3>4. row # NULL => row.usage \in Nat /\ row.usage + n <= total
        BY DEF UsageBacked, TypeOK, Rows
      <3>5. row' # NULL => row'.usage + n' <= total'
        BY <2>1, <2>2, <3>2, <3>3, <3>4
      <3> QED BY <3>1, <3>2, <3>3, <3>5, UsageSet
    <2>3. CASE row # NULL /\ row' = Flush(obj, Used(obj))
      <3>1. row'.usage \in {row.usage, obj.usage, obj.usage + 1}
        BY <2>1, <2>3, FlushType, ObjectTypes DEF TypeOK
      <3> QED BY <1>9, <2>2, <2>3, <3>1 DEF Consume
    <2>4. CASE UNCHANGED row
      BY <1>9, <2>2, <2>4 DEF Consume
    <2> QED BY <1>9, <2>3, <2>4 DEF Consume
  <1>10. ASSUME NEW r \in Requests, Leave(r) PROVE UsageBacked'
    BY <1>0, <1>10 DEF Leave
  <1>11. CASE UNCHANGED <<loc, total>> /\ (row' # NULL => row # NULL /\ row'.usage = row.usage)
    BY <1>11 DEF UsageBacked, Pending
  <1>12. CASE UpdateClient \/ SetActive
    <2>1. row # NULL /\ row'.usage = row.usage
      BY <1>12 DEF UpdateClient, SetActive, TypeOK, Rows
    <2> QED BY <1>11, <1>12, <2>1 DEF UpdateClient, SetActive
  <1>13. CASE PurgeClient \/ Midnight \/ UNCHANGED vars
    BY <1>11, <1>13 DEF PurgeClient, Midnight, vars
  <1> QED BY <1>1, <1>3, <1>4, <1>5, <1>6, <1>7, <1>8, <1>9, <1>10, <1>12, <1>13
          DEF Next, Step, Admin, Quiescent

\* daily_usage never claims more 2xx answers than have been accounted for, for
\* any number of concurrent requests working on old copies of the row.
THEOREM UsageSound == Spec => []UsageBacked
  <1>1. Init => UsageBacked /\ ResetsToZero
    <2> SUFFICES ASSUME Init PROVE UsageBacked /\ ResetsToZero
      OBVIOUS
    <2>1. Pending = {} /\ \A r \in Requests : loc[r].obj = NULL /\ loc[r].reset = NULL
      BY DEF Init, Fresh, Pending
    <2>2. Cardinality(Pending) = 0
      BY <2>1, FS_EmptySet
    <2>3. row.usage = total /\ total \in Nat
      BY GovernanceAssumption DEF Init
    <2> QED BY <2>1, <2>2, <2>3 DEF UsageBacked, ResetsToZero
  <1>2. TypeOK /\ UsageBacked /\ ResetsToZero /\ [Next]_vars => UsageBacked' /\ ResetsToZero'
    BY UsageStep, ResetStep
  <1> QED BY <1>1, <1>2, TypeCorrect, PTL DEF Spec

-----------------------------------------------------------------------------
\* How one request's step changes the number of leases not released.
LEMMA HoldingCount ==
    ASSUME TypeOK, NEW r \in Requests, NEW L, Set(r, L)
    PROVE  /\ Cardinality(Holding) \in Nat /\ Cardinality(Holding)' \in Nat
           /\ Cardinality(Holding)' = Cardinality(Holding)
                + (IF L.lease = "counted" THEN 1 ELSE 0)
                - (IF loc[r].lease = "counted" THEN 1 ELSE 0)
  <1>1. IsFiniteSet(Holding) /\ Cardinality(Holding) \in Nat
    BY GovernanceAssumption, FS_Subset, FS_CardinalityType DEF Holding
  <1>2. r \in Holding <=> loc[r].lease = "counted"
    BY DEF Holding
  <1>3. CASE L.lease = "counted"
    <2>1. Holding' = Holding \cup {r}
      BY <1>3 DEF Holding, Set, TypeOK
    <2>2. Cardinality(Holding)' = Cardinality(Holding \cup {r})
      BY <2>1
    <2>3. Cardinality(Holding \cup {r}) = IF r \in Holding THEN Cardinality(Holding)
                                          ELSE Cardinality(Holding) + 1
      BY <1>1, FS_AddElement
    <2> QED BY <1>1, <1>2, <1>3, <2>2, <2>3
  <1>4. CASE L.lease # "counted"
    <2>1. Holding' = Holding \ {r}
      BY <1>4 DEF Holding, Set, TypeOK
    <2>2. Cardinality(Holding)' = Cardinality(Holding \ {r})
      BY <2>1
    <2>3. /\ IsFiniteSet(Holding \ {r})
          /\ Cardinality(Holding \ {r}) = IF r \in Holding THEN Cardinality(Holding) - 1
                                           ELSE Cardinality(Holding)
      BY <1>1, FS_RemoveElement
    <2>4. Cardinality(Holding \ {r}) \in Nat
      BY <2>3, FS_CardinalityType
    <2> QED BY <1>1, <1>2, <1>4, <2>2, <2>3, <2>4
  <1> QED BY <1>3, <1>4

\* A step that keeps the request's lease keeps the count.
LEMMA LeaseKept ==
    ASSUME TypeOK, LeasesCounted, NEW r \in Requests, NEW L, Set(r, L),
           L.lease = loc[r].lease, UNCHANGED current,
           L.pc \in {"idle", "lease"} => L.lease = "none"
    PROVE  LeasesCounted'
  <1>1. current' = Cardinality(Holding)'
    BY HoldingCount DEF LeasesCounted
  <1>2. \A q \in Requests : loc'[q].pc \in {"idle", "lease"} => loc'[q].lease = "none"
    BY DEF LeasesCounted, Set, TypeOK
  <1> QED BY <1>1, <1>2 DEF LeasesCounted

\* An exit that releases the lease takes exactly its own share back.
LEMMA LeaseAnswered ==
    ASSUME TypeOK, LeasesCounted, NEW r \in Requests, NEW code, Answer(r, code)
    PROVE  LeasesCounted' /\ loc'[r].lease = "none"
  <1> DEFINE L == Ended([loc[r] EXCEPT !.lease = "none"], code)
  <1>1. L.pc = "done" /\ L.lease = "none"
    BY DEF Ended, TypeOK, Locals
  <1>2. Set(r, L) /\ current' = Release(loc[r])
    BY DEF Answer
  <1> HIDE DEF L
  <1>3. current' = Cardinality(Holding)'
    BY <1>1, <1>2, HoldingCount DEF LeasesCounted, Release
  <1>4. \A q \in Requests : loc'[q].pc \in {"idle", "lease"} => loc'[q].lease = "none"
    BY <1>1, <1>2 DEF LeasesCounted, Set, TypeOK
  <1>5. loc'[r] = L
    BY <1>2 DEF Set, TypeOK
  <1> QED BY <1>1, <1>3, <1>4, <1>5 DEF LeasesCounted

\* The steps between the token bucket and the finally clause.
Inner(r) == CheckQuota(r) \/ CommitReset(r) \/ Serve(r) \/ Reload(r) \/ Consume(r)

\* An inner step ends the request with its lease released, or keeps the lease;
\* if it ends the request with the lease, it is the UPDATE that failed.
LEMMA InnerEffect ==
    ASSUME TypeOK, NEW r \in Requests, Inner(r)
    PROVE  \/ \E code : Answer(r, code)
           \/ \E L : /\ Set(r, L) /\ L.lease = loc[r].lease /\ UNCHANGED current
                     /\ L.pc \notin {"idle", "lease"}
                     /\ L.pc = "done" => L.ans = "session_error"
  <1>1. CASE CheckQuota(r)
    <2>1. /\ [loc[r] EXCEPT !.pc = "serve"].lease = loc[r].lease
          /\ [loc[r] EXCEPT !.pc = "serve"].pc = "serve"
      BY DEF TypeOK, Locals
    <2>2. \A new : /\ [loc[r] EXCEPT !.pc = "reset", !.reset = new].lease = loc[r].lease
                   /\ [loc[r] EXCEPT !.pc = "reset", !.reset = new].pc = "reset"
      BY DEF TypeOK, Locals
    <2> QED BY <1>1, <2>1, <2>2 DEF CheckQuota
  <1>2. CASE CommitReset(r)
    <2>1. \A obj : LET L == [loc[r] EXCEPT !.pc = "serve", !.obj = obj, !.reset = NULL]
                   IN  L.lease = loc[r].lease /\ L.pc = "serve"
      BY DEF TypeOK, Locals
    <2>2. LET L == Ended(loc[r], "session_error")
          IN  L.lease = loc[r].lease /\ L.pc = "done" /\ L.ans = "session_error"
      BY DEF Ended, TypeOK, Locals
    <2> QED BY <1>2, <2>1, <2>2 DEF CommitReset
  <1>3. CASE Serve(r)
    <2>1. AfterOther(loc[r]).lease = loc[r].lease /\ AfterOther(loc[r]).pc = "leave"
      BY DEF AfterOther, TypeOK, Locals
    <2>2. \A obj : LET L == AfterSuccess([loc[r] EXCEPT !.obj = obj])
                   IN  L.lease = loc[r].lease /\ L.pc \in {"consume", "leave"}
      BY DEF AfterSuccess, TypeOK, Locals
    <2> QED BY <1>3, <2>1, <2>2 DEF Serve
  <1>4. CASE Reload(r)
    <2>1. /\ [loc[r] EXCEPT !.obj = row].lease = loc[r].lease
          /\ [loc[r] EXCEPT !.obj = row].pc = loc[r].pc
      BY DEF TypeOK, Locals
    <2>2. /\ [loc[r] EXCEPT !.pc = "failed"].lease = loc[r].lease
          /\ [loc[r] EXCEPT !.pc = "failed"].pc = "failed"
      BY DEF TypeOK, Locals
    <2> QED BY <1>4, <2>1, <2>2 DEF Reload
  <1>5. CASE Consume(r)
    <2>1. /\ [loc[r] EXCEPT !.pc = "leave", !.obj = NULL].lease = loc[r].lease
          /\ [loc[r] EXCEPT !.pc = "leave", !.obj = NULL].pc = "leave"
      BY DEF TypeOK, Locals
    <2>2. /\ [loc[r] EXCEPT !.pc = "failed", !.obj = NULL].lease = loc[r].lease
          /\ [loc[r] EXCEPT !.pc = "failed", !.obj = NULL].pc = "failed"
      BY DEF TypeOK, Locals
    <2>3. \E p \in {"leave", "failed"} :
            Set(r, [loc[r] EXCEPT !.pc = p, !.obj = NULL]) /\ UNCHANGED current
      BY <1>5 DEF Consume
    <2> QED BY <2>1, <2>2, <2>3
  <1> QED BY <1>1, <1>2, <1>3, <1>4, <1>5 DEF Inner

\* No step loses or invents a lease.
LEMMA LeaseStep ==
    ASSUME TypeOK, LeasesCounted, [Next]_vars
    PROVE  LeasesCounted'
  <1>1. ASSUME NEW r \in Requests, RequireClient(r) PROVE LeasesCounted'
    <2>1. /\ [loc[r] EXCEPT !.pc = "lease", !.obj = row].lease = loc[r].lease
          /\ \A code : Ended(loc[r], code).lease = loc[r].lease
      BY DEF Ended, TypeOK, Locals
    <2>2. loc[r].lease = "none"
      BY <1>1 DEF RequireClient, LeasesCounted
    <2> QED BY <1>1, <2>1, <2>2, LeaseKept DEF RequireClient
  <1>2. ASSUME NEW r \in Requests, TryAcquire(r) PROVE LeasesCounted'
    <2>1. loc[r].lease = "none"
      BY <1>2 DEF TryAcquire, LeasesCounted
    <2>2. ASSUME NEW l \in {"free", "counted"},
                 Set(r, [loc[r] EXCEPT !.pc = "rate", !.lease = l]),
                 current' = IF l = "counted" THEN current + 1 ELSE current
          PROVE  LeasesCounted'
      <3> DEFINE L == [loc[r] EXCEPT !.pc = "rate", !.lease = l]
      <3>1. L.lease = l /\ L.pc = "rate" /\ Set(r, L)
        BY <2>2 DEF TypeOK, Locals
      <3> HIDE DEF L
      <3>2. current' = Cardinality(Holding)'
        BY <2>1, <2>2, <3>1, HoldingCount DEF LeasesCounted
      <3>3. \A q \in Requests : loc'[q].pc \in {"idle", "lease"} => loc'[q].lease = "none"
        BY <3>1 DEF LeasesCounted, Set, TypeOK
      <3> QED BY <3>2, <3>3 DEF LeasesCounted
    <2>3. CASE Set(r, Ended(loc[r], "CLIENT_CONCURRENCY_LIMITED")) /\ UNCHANGED current
      <3>1. Ended(loc[r], "CLIENT_CONCURRENCY_LIMITED").lease = loc[r].lease
        BY DEF Ended, TypeOK, Locals
      <3> QED BY <2>1, <2>3, <3>1, LeaseKept
    <2> QED BY <1>2, <2>2, <2>3 DEF TryAcquire
  <1>3. ASSUME NEW r \in Requests, Allow(r) PROVE LeasesCounted'
    <2>1. /\ [loc[r] EXCEPT !.pc = "quota"].lease = loc[r].lease
          /\ [loc[r] EXCEPT !.pc = "quota"].pc = "quota"
      BY DEF TypeOK, Locals
    <2> QED BY <1>3, <2>1, LeaseKept, LeaseAnswered DEF Allow
  <1>4. ASSUME NEW r \in Requests, Inner(r) PROVE LeasesCounted'
    BY <1>4, InnerEffect, LeaseKept, LeaseAnswered
  <1>5. ASSUME NEW r \in Requests, Leave(r) PROVE LeasesCounted'
    BY <1>5, LeaseAnswered DEF Leave
  <1>6. CASE UNCHANGED <<loc, current>>
    BY <1>6 DEF LeasesCounted, Holding
  <1> QED BY <1>1, <1>2, <1>3, <1>4, <1>5, <1>6
          DEF Next, Step, Inner, Admin, Quiescent, UpdateClient, SetActive, PurgeClient,
              Midnight, vars

\* No other exit keeps its lease.
LEMMA LeakStep ==
    ASSUME TypeOK, LeasesCounted, LeakKnown, [Next]_vars
    PROVE  LeakKnown'
  <1> SUFFICES ASSUME NEW q \in Requests, loc'[q].pc = "done", loc'[q].lease = "counted"
               PROVE  loc'[q].ans = "session_error"
    BY DEF LeakKnown
  <1>2. CASE loc'[q] = loc[q]
    BY <1>2 DEF LeakKnown
  <1>3. ASSUME NEW r \in Requests, NEW L, Set(r, L),
               L.pc = "done" => L.lease # "counted" \/ L.ans = "session_error"
        PROVE  loc'[q].ans = "session_error"
    BY <1>2, <1>3 DEF Set, TypeOK
  <1>4. ASSUME NEW r \in Requests, NEW code, Answer(r, code)
        PROVE  loc'[q].ans = "session_error"
    <2>1. CASE q = r
      BY <1>4, <2>1, LeaseAnswered
    <2>2. CASE q # r
      BY <1>2, <1>4, <2>2 DEF Answer, Set, TypeOK
    <2> QED BY <2>1, <2>2
  <1>5. ASSUME NEW r \in Requests, RequireClient(r) PROVE loc'[q].ans = "session_error"
    <2>1. /\ [loc[r] EXCEPT !.pc = "lease", !.obj = row].lease = loc[r].lease
          /\ \A code : Ended(loc[r], code).lease = loc[r].lease
      BY DEF Ended, TypeOK, Locals
    <2>2. loc[r].lease = "none"
      BY <1>5 DEF RequireClient, LeasesCounted
    <2> QED BY <1>3, <1>5, <2>1, <2>2 DEF RequireClient
  <1>6. ASSUME NEW r \in Requests, TryAcquire(r) PROVE loc'[q].ans = "session_error"
    <2>1. /\ \A l : [loc[r] EXCEPT !.pc = "rate", !.lease = l].pc = "rate"
          /\ \A code : Ended(loc[r], code).lease = loc[r].lease
      BY DEF Ended, TypeOK, Locals
    <2>2. loc[r].lease = "none"
      BY <1>6 DEF TryAcquire, LeasesCounted
    <2> QED BY <1>3, <1>6, <2>1, <2>2 DEF TryAcquire
  <1>7. ASSUME NEW r \in Requests, Allow(r) PROVE loc'[q].ans = "session_error"
    <2>1. [loc[r] EXCEPT !.pc = "quota"].pc = "quota"
      BY DEF TypeOK, Locals
    <2> QED BY <1>3, <1>4, <1>7, <2>1 DEF Allow
  <1>8. ASSUME NEW r \in Requests, Inner(r) PROVE loc'[q].ans = "session_error"
    BY <1>3, <1>4, <1>8, InnerEffect
  <1>9. ASSUME NEW r \in Requests, Leave(r) PROVE loc'[q].ans = "session_error"
    BY <1>4, <1>9 DEF Leave
  <1>10. CASE UNCHANGED loc
    BY <1>2, <1>10
  <1> QED BY <1>5, <1>6, <1>7, <1>8, <1>9, <1>10
          DEF Next, Step, Inner, Admin, Quiescent, UpdateClient, SetActive, PurgeClient,
              Midnight, vars

\* Initially nobody holds a lease.
LEMMA LeaseInit == Init => LeasesCounted /\ LeakKnown
  <1> SUFFICES ASSUME Init PROVE LeasesCounted /\ LeakKnown
    OBVIOUS
  <1>1. \A r \in Requests : loc[r].lease = "none" /\ loc[r].pc = "idle"
    BY DEF Init, Fresh
  <1>2. Holding = {}
    BY <1>1 DEF Holding
  <1>3. Cardinality(Holding) = 0
    BY <1>2, FS_EmptySet
  <1> QED BY <1>1, <1>3 DEF Init, LeasesCounted, LeakKnown

\* Whatever fails: every exit of enforce_client_governance gives its lease back,
\* except that of an admitted request whose lazy reset could not be written.
THEOREM LeasesSound == Spec => []LeasesReturned
  <1>1. TypeOK /\ LeasesCounted /\ LeakKnown /\ [Next]_vars => LeasesCounted' /\ LeakKnown'
    BY LeaseStep, LeakStep
  <1>2. LeasesCounted /\ LeakKnown => LeasesReturned
    <2> SUFFICES ASSUME LeasesCounted, LeakKnown
                 PROVE  current = Cardinality(Inside \cup Leaked)
      BY DEF LeasesReturned
    <2>1. Inside \cup Leaked = Holding
      BY DEF Inside, Leaked, Holding, LeakKnown
    <2> QED BY <2>1 DEF LeasesCounted
  <1> QED BY <1>1, <1>2, LeaseInit, TypeCorrect, PTL DEF Spec

\* Whatever fails, a lease is granted only below the limit the request read.
THEOREM GrantsSound == Spec => GrantsBounded
  <1>1. TypeOK /\ LeasesCounted /\ [Next]_vars
          => [\A r \in Requests : loc[r].pc = "lease" /\ loc'[r].lease = "counted"
                => Cardinality(Inside) < loc[r].obj.max]_vars
    <2> SUFFICES ASSUME TypeOK, LeasesCounted, Next, NEW r \in Requests,
                        loc[r].pc = "lease", loc'[r].lease = "counted"
                 PROVE  Cardinality(Inside) < loc[r].obj.max
      BY DEF GrantsBounded
    <2>1. IsFiniteSet(Holding) /\ Inside \in SUBSET Holding
      BY GovernanceAssumption, FS_Subset DEF Holding, Inside
    <2>2. Cardinality(Inside) <= current /\ Cardinality(Inside) \in Nat
      BY <2>1, FS_Subset, FS_CardinalityType DEF LeasesCounted
    <2>3. loc[r].lease = "none"
      BY DEF LeasesCounted
    <2>4. loc'[r] # loc[r]
      BY <2>3
    <2>5. ASSUME NEW q \in Requests, NEW L, Set(q, L) PROVE q = r
      BY <2>4, <2>5 DEF Set, TypeOK
    <2>6. TryAcquire(r)
      BY <2>4, <2>5 DEF Next, Step, Admin, Quiescent, vars, RequireClient, TryAcquire, Allow,
           CheckQuota, CommitReset, Serve, Reload, Consume, Leave, Answer, UpdateClient,
           SetActive, PurgeClient, Midnight
    <2>7. loc[r].obj.max \in Nat
      BY <2>6 DEF TryAcquire, TypeOK, Locals, Rows
    <2>8. Ended(loc[r], "CLIENT_CONCURRENCY_LIMITED").lease = "none"
          /\ [loc[r] EXCEPT !.pc = "rate", !.lease = "free"].lease = "free"
      BY <2>3 DEF Ended, TypeOK, Locals
    <2>9. current < loc[r].obj.max
      BY <2>6, <2>8 DEF TryAcquire, Acquirable, Set, TypeOK
    <2> QED BY <2>2, <2>7, <2>9 DEF TypeOK
  <1>2. TypeOK /\ LeasesCounted /\ [Next]_vars => LeasesCounted'
    BY LeaseStep
  <1> QED BY <1>1, <1>2, LeaseInit, TypeCorrect, PTL DEF Spec, GrantsBounded

=============================================================================
