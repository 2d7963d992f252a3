-------------------------- MODULE ForwarderProofs --------------------------
(***************************************************************************)
(* Safety of forward for any number of requests and keys, any limits and   *)
(* budgets, and any behaviour of the upstream, of the credit probe and of  *)
(* the administrator.                                                      *)
(***************************************************************************)
EXTENDS Forwarder, FiniteSetTheorems, TLAPS

-----------------------------------------------------------------------------
(***************************************************************************)
(* What the operators of KeyRows and the transitions of a call's locals    *)
(* return.                                                                 *)
(***************************************************************************)
LEMMA FlushType ==
    ASSUME NEW row \in Rows, NEW old \in Rows, NEW new \in Rows
    PROVE  Flush(row, old, new) \in Rows
  BY DEF Flush, Rows

\* The writers of the data plane produce rows, and none turns a key on.
LEMMA WriterTypes ==
    ASSUME NEW row \in Rows, NEW t \in Nat
    PROVE  /\ Reactivated(row) \in Rows /\ MarkCooling(row, t) \in Rows
           /\ MarkFailed(row, t) \in Rows /\ DisableInvalid(row) \in Rows
           /\ DisableDecryptFailed(row) \in Rows /\ ZeroCredits(row) \in Rows
           /\ \A cost \in Nat : EstimateCost(row, cost) \in Rows
           /\ \A kind \in FetchKinds, rem \in Nat : ApplyFetch(row, kind, rem, t) \in Rows
  <1> USE ForwarderAssumption DEF Rows, Statuses, CoolingStatuses, DisabledStatuses
  <1>1. /\ Reactivated(row) \in Rows /\ MarkCooling(row, t) \in Rows
        /\ MarkFailed(row, t) \in Rows /\ DisableInvalid(row) \in Rows
        /\ DisableDecryptFailed(row) \in Rows /\ ZeroCredits(row) \in Rows
    BY DEF Reactivated, MarkCooling, MarkFailed, DisableInvalid, DisableDecryptFailed, ZeroCredits
  <1>2. \A cost \in Nat : EstimateCost(row, cost) \in Rows
    BY DEF EstimateCost, AtLeast
  <1>3. \A kind \in FetchKinds, rem \in Nat : ApplyFetch(row, kind, rem, t) \in Rows
    BY <1>1 DEF ApplyFetch, FetchKinds
  <1> QED BY <1>1, <1>2, <1>3

LEMMA WritersKeepOff ==
    ASSUME NEW row \in Rows, NEW t \in Nat
    PROVE  /\ MarkCooling(row, t).active = row.active
           /\ MarkFailed(row, t).active = row.active
           /\ DisableInvalid(row).active = FALSE
           /\ DisableDecryptFailed(row).active = FALSE
           /\ ZeroCredits(row).active = row.active
           /\ \A cost \in Nat : EstimateCost(row, cost).active = row.active
           /\ \A kind \in FetchKinds, rem \in Nat :
                ApplyFetch(row, kind, rem, t).active \in {row.active, FALSE}
  <1> USE DEF Rows
  <1>1. /\ MarkCooling(row, t).active = row.active
        /\ MarkFailed(row, t).active = row.active
        /\ DisableInvalid(row).active = FALSE
        /\ DisableDecryptFailed(row).active = FALSE
        /\ ZeroCredits(row).active = row.active
    BY DEF MarkCooling, MarkFailed, DisableInvalid, DisableDecryptFailed, ZeroCredits
  <1>2. \A cost \in Nat : EstimateCost(row, cost).active = row.active
    BY DEF EstimateCost
  <1>3. \A kind \in FetchKinds, rem \in Nat :
            ApplyFetch(row, kind, rem, t).active \in {row.active, FALSE}
    BY <1>1 DEF ApplyFetch, FetchKinds
  <1> QED BY <1>1, <1>2, <1>3

-----------------------------------------------------------------------------
(***************************************************************************)
(* The types.  They need to know which outcomes a call can have where it   *)
(* is, and that it has a key where one is used.                            *)
(***************************************************************************)
Errors == {"timeout", "http_error"}
KeyErrors == {"rate_limit", "credit", "invalid_key"}
Keyed == {"commit", "gate", "decrypt", "upstream", "refresh", "punish", "failure", "ok"}

OutcomeFits(L) ==
    /\ L.pc \in Keyed => L.key # NULL
    /\ L.pc \in {"refresh", "punish"} => L.outcome \in KeyErrors \cap Outcomes
    /\ L.pc = "failure" => L.outcome \in Errors \cup {"upstream_5xx"}
    /\ L.pc = "ok" => L.outcome \in {"ok", "passthrough"}
    /\ L.lastErr # NULL => /\ L.outcome \in Outcomes
                           /\ L.outcome \in Errors => L.pc \in {"failure", "done"}
    /\ L.pc = "close" => L.lastErr # NULL

Fits(L) == L \in Locals /\ OutcomeFits(L)

LEMMA EndedFits ==
    ASSUME NEW L, Fits(L), NEW code \in Classified \cup ErrorCodes,
           NEW of \in Keys \cup {NULL}, NEW retry \in Nat
    PROVE  Fits(Ended(L, code, of, retry))
  <1> DEFINE a == [code |-> code, key |-> L.last, of |-> of, retry |-> retry]
  <1>1. a \in Answers
    BY DEF Answers, Fits, Locals
  <1>2. NoColumns \in Columns
    BY DEF NoColumns, Columns
  <1> HIDE DEF a
  <1>3. Ended(L, code, of, retry) = [L EXCEPT !.pc = "done", !.obj = NULL, !.pinObj = NULL,
                                              !.dirty = NoColumns, !.ans = a]
    BY DEF Ended, a
  <1>4. Ended(L, code, of, retry) \in Locals
    BY <1>1, <1>2, <1>3 DEF Fits, Locals, Labels
  <1> QED BY <1>3, <1>4 DEF Fits, Locals, OutcomeFits, Keyed

LEMMA RaisedFits ==
    ASSUME NEW L, Fits(L), NEW code \in ErrorCodes
    PROVE  Fits(Raised(L, code))
  BY EndedFits DEF Raised

LEMMA ReturnedFits ==
    ASSUME NEW L, Fits(L), L.outcome \in Classified, NEW retry \in Nat
    PROVE  Fits(Returned(L, retry))
  BY EndedFits DEF Returned, Fits, Locals

LEMMA ExpireKeeps ==
    ASSUME NEW L \in Locals
    PROVE  /\ Expire(L).pc = L.pc /\ Expire(L).pinned = L.pinned /\ Expire(L).pin = L.pin
           /\ Expire(L).key = L.key /\ Expire(L).last = L.last
           /\ Expire(L).tried = L.tried /\ Expire(L).used = L.used
           /\ Expire(L).attempts = L.attempts /\ Expire(L).retry = L.retry
           /\ Expire(L).outcome = L.outcome /\ Expire(L).lastErr = L.lastErr
           /\ Expire(L).decryptFailed = L.decryptFailed /\ Expire(L).ans = L.ans
  BY DEF Expire, Locals

LEMMA ExpireFits ==
    ASSUME NEW L, Fits(L)
    PROVE  Fits(Expire(L))
  <1>1. NoColumns \in Columns
    BY DEF NoColumns, Columns
  <1>2. Expire(L) \in Locals
    BY <1>1 DEF Expire, Fits, Locals
  <1> QED BY <1>2, ExpireKeeps DEF Fits, OutcomeFits

\* The rows a call reads.
LEMMA SeenType ==
    ASSUME TypeOK, NEW L, Fits(L)
    PROVE  /\ \A k \in Keys : Seen(L, k) \in Rows
           /\ L.key # NULL => Held(L) \in Rows
  BY DEF TypeOK, Fits, Locals, Seen, Held

LEMMA AfterSelectErrorFits ==
    ASSUME NEW L, Fits(L), NEW code \in ErrorCodes
    PROVE  L.pc \in {"select", "commit"} => Fits(AfterSelectError(L, code))
  <1> SUFFICES ASSUME L.pc \in {"select", "commit"} PROVE Fits(AfterSelectError(L, code))
    OBVIOUS
  <1>1. Fits(Raised(L, code)) /\ Fits(Raised(L, "KEY_DECRYPT_FAILED"))
    BY RaisedFits DEF ErrorCodes
  <1>2. L.lastErr # NULL => Fits([L EXCEPT !.pc = "close"])
    BY DEF Fits, Locals, Labels, OutcomeFits, Keyed, Errors
  <1> QED BY <1>1, <1>2 DEF AfterSelectError

\* A call is replaced by one that fits.
LEMMA SetType ==
    ASSUME TypeOK, NEW r \in Requests, NEW M, M \in Locals, Set(r, M)
    PROVE  loc' \in [Requests -> Locals] /\ loc'[r] = M
             /\ \A q \in Requests \ {r} : loc'[q] = loc[q]
  BY DEF TypeOK, Set

\* The steps of a call, one lemma each: they lead to locals that fit.
LEMMA StartFits ==
    ASSUME TypeOK, NEW r \in Requests, Start(r), Fits(loc[r])
    PROVE  \E M : Set(r, M) /\ Fits(M)
  <1> DEFINE L == loc[r]
  <1>1. L.pin \in Keys \cup {NULL}
    BY ForwarderAssumption DEF Fits, Locals
  <1>2. L.pin # NULL => keys[L.pin] \in Rows
    BY <1>1 DEF TypeOK
  <1> HIDE DEF L
  <1>3. L.pc = "idle" /\ Fits(L)
    BY DEF Start, L
  <1>4. Fits([L EXCEPT !.pc = "select"])
    BY <1>3 DEF Fits, Locals, Labels, OutcomeFits, Keyed, Errors
  <1>5. L.pin # NULL => Fits([L EXCEPT !.pc = "select", !.pinObj = keys[L.pin]])
    BY <1>2, <1>3 DEF Fits, Locals, Labels, OutcomeFits, Keyed, Errors
  <1>6. L.pin # NULL => Fits([L EXCEPT !.pc = "gate", !.pinned = TRUE, !.key = L.pin,
                                       !.last = L.pin, !.obj = keys[L.pin]])
    BY <1>1, <1>2, <1>3 DEF Fits, Locals, Labels, OutcomeFits, Keyed, Errors
  <1>7. Fits(Raised(L, "DB_UNAVAILABLE"))
    BY <1>3, RaisedFits DEF ErrorCodes
  <1> QED BY <1>4, <1>5, <1>6, <1>7 DEF Start, L

LEMMA SelectFits ==
    ASSUME TypeOK, NEW r \in Requests, Select(r), Fits(loc[r])
    PROVE  \E M : Set(r, M) /\ Fits(M)
  <1> DEFINE L == [loc[r] EXCEPT !.tries = @ + 1]
             D == [L EXCEPT !.dirty = Reactivation(L)]
  <1>1. Fits(L) /\ L.pc = "select"
    <2>1. L \in Locals
      BY DEF Fits, Locals
    <2>2. /\ L.pc = "select" /\ loc[r].pc = "select" /\ L.key = loc[r].key
          /\ L.outcome = loc[r].outcome /\ L.lastErr = loc[r].lastErr
      BY DEF Select, Fits, Locals
    <2> QED BY <2>1, <2>2 DEF Fits, OutcomeFits
  <1> HIDE DEF L
  <1>2. Reactivation(L) \in Columns
    BY DEF Reactivation, Columns
  <1>3. Fits(D) /\ D.pc = "select"
    BY <1>1, <1>2 DEF Fits, Locals, OutcomeFits
  <1>4. ASSUME NEW blocked PROVE Fits(AfterSelectError(D, SelectError(L, blocked)))
    <2>1. SelectError(L, blocked) \in ErrorCodes
      BY DEF SelectError, ErrorCodes
    <2> HIDE DEF D
    <2> QED BY <1>3, <2>1, AfterSelectErrorFits
  <1>5. ASSUME NEW k \in Keys
        PROVE  Fits([L EXCEPT !.pc = "commit", !.dirty = Reactivation(L), !.key = k,
                              !.obj = IF k \in Rested(L) THEN Reactivated(Seen(L, k))
                                      ELSE Seen(L, k)])
    <2> DEFINE o == IF k \in Rested(L) THEN Reactivated(Seen(L, k)) ELSE Seen(L, k)
    <2>1. o \in Rows
      BY <1>1, SeenType, WriterTypes
    <2> HIDE DEF o
    <2>2. [L EXCEPT !.pc = "commit", !.dirty = Reactivation(L), !.key = k, !.obj = o] \in Locals
      BY <1>1, <1>2, <2>1 DEF Fits, Locals, Labels
    <2>3. Fits([L EXCEPT !.pc = "commit", !.dirty = Reactivation(L), !.key = k, !.obj = o])
      BY <1>1, <2>2, ForwarderAssumption DEF Fits, Locals, OutcomeFits, Keyed, Errors
    <2> QED BY <2>3 DEF o
  <1>6. Eligible(L) \subseteq Keys
    BY DEF Eligible
  <1>7. \/ \E blocked : Set(r, AfterSelectError(D, SelectError(L, blocked)))
        \/ \E k \in Eligible(L) :
              Set(r, [L EXCEPT !.pc = "commit", !.dirty = Reactivation(L), !.key = k,
                               !.obj = IF k \in Rested(L) THEN Reactivated(Seen(L, k))
                                       ELSE Seen(L, k)])
    BY DEF Select, L
  <1> QED BY <1>4, <1>5, <1>6, <1>7

LEMMA SelectCommitFits ==
    ASSUME TypeOK, NEW r \in Requests, SelectCommit(r), Fits(loc[r])
    PROVE  \E M : Set(r, M) /\ Fits(M)
  <1> DEFINE L == loc[r]
  <1> HIDE DEF L
  <1>1. Fits(L) /\ L.pc = "commit"
    BY DEF SelectCommit, L
  <1>2. NoColumns \in Columns
    BY DEF NoColumns, Columns
  <1>3. Fits([L EXCEPT !.pc = "gate", !.dirty = NoColumns, !.last = L.key])
    <2>1. [L EXCEPT !.pc = "gate", !.dirty = NoColumns, !.last = L.key] \in Locals
      BY <1>1, <1>2 DEF Fits, Locals, Labels
    <2> QED BY <1>1, <2>1 DEF Fits, Locals, OutcomeFits, Keyed, Errors
  <1>4. Fits(Expire(L)) /\ Expire(L).pc = "commit"
    BY <1>1, ExpireFits DEF Expire, Fits, Locals
  <1>5. Fits(AfterSelectError(Expire(L), "DB_UNAVAILABLE"))
    BY <1>4, AfterSelectErrorFits DEF ErrorCodes
  <1> QED BY <1>3, <1>5 DEF SelectCommit, L

\* The response of an earlier key.
LEMMA LastErrorFits ==
    ASSUME NEW L, Fits(L), L.lastErr # NULL, L.pc # "failure", L.pc # "done"
    PROVE  Fits(Ended(L, L.outcome, L.lastErr, AtLeast(L.retry - 1, 0)))
  <1>1. L.outcome \in Classified
    BY ForwarderAssumption DEF Fits, OutcomeFits, Errors
  <1>2. AtLeast(L.retry - 1, 0) \in Nat /\ L.lastErr \in Keys \cup {NULL}
    BY DEF AtLeast, Fits, Locals
  <1> QED BY <1>1, <1>2, EndedFits

LEMMA CloseFits ==
    ASSUME TypeOK, NEW r \in Requests, Close(r), Fits(loc[r])
    PROVE  \E M : Set(r, M) /\ Fits(M)
  BY LastErrorFits DEF Close, Fits, OutcomeFits

LEMMA LoopExitFits ==
    ASSUME TypeOK, NEW r \in Requests, LoopExit(r), Fits(loc[r])
    PROVE  \E M : Set(r, M) /\ Fits(M)
  BY LastErrorFits, RaisedFits DEF LoopExit, ErrorCodes

LEMMA GateFits ==
    ASSUME TypeOK, NEW r \in Requests, Gate(r), Fits(loc[r])
    PROVE  \E M : Set(r, M) /\ Fits(M)
  <1> DEFINE L == loc[r]
  <1> HIDE DEF L
  <1>1. Fits(L) /\ L.pc = "gate" /\ L.key \in Keys
    BY DEF Gate, L, Fits, OutcomeFits, Locals, Keyed
  <1>2. Fits([L EXCEPT !.pc = "select", !.tried = @ \cup {L.key}, !.retry = @ + 1])
    <2>1. L.tried \cup {L.key} \in SUBSET Keys /\ L.retry + 1 \in Nat
      BY <1>1 DEF Fits, Locals
    <2>2. [L EXCEPT !.pc = "select", !.tried = @ \cup {L.key}, !.retry = @ + 1] \in Locals
      BY <1>1, <2>1 DEF Fits, Locals, Labels
    <2> QED BY <1>1, <2>2 DEF Fits, Locals, OutcomeFits, Keyed, Errors
  <1>3. Fits(PassOver(L))
    BY <1>1, <1>2, RaisedFits DEF PassOver, ErrorCodes
  <1>4. ASSUME NEW p \in {"decrypt", "upstream"} PROVE Fits([L EXCEPT !.pc = p])
    BY <1>1 DEF Fits, Locals, Labels, OutcomeFits, Keyed, Errors
  <1> QED BY <1>3, <1>4 DEF Gate, L

LEMMA DecryptFailedFits ==
    ASSUME TypeOK, NEW r \in Requests, DecryptFailed(r), Fits(loc[r])
    PROVE  \E M : Set(r, M) /\ Fits(M)
  <1> DEFINE L == loc[r]
             new == DisableDecryptFailed(Held(L))
             Switched(o) == [L EXCEPT !.pc = "select", !.tried = @ \cup {L.key},
                                      !.retry = @ + 1, !.decryptFailed = TRUE, !.obj = o]
             Switch(o) == IF L.pinned THEN Raised(L, "KEY_DECRYPT_FAILED") ELSE Switched(o)
  <1>1. Fits(L) /\ L.pc = "decrypt" /\ L.key \in Keys
    BY DEF DecryptFailed, Fits, OutcomeFits, Locals, Keyed
  <1>2. new \in Rows
    BY <1>1, SeenType, WriterTypes, ForwarderAssumption
  <1>3. ASSUME NEW o \in Rows \cup {NULL} PROVE Fits(Switch(o))
    <2> HIDE DEF L
    <2>1. L.tried \cup {L.key} \in SUBSET Keys /\ L.retry + 1 \in Nat
      BY <1>1 DEF Fits, Locals
    <2>2. Switched(o) \in Locals
      BY <1>1, <2>1 DEF Fits, Locals, Labels
    <2>3. Fits(Switched(o))
      BY <1>1, <2>2 DEF Fits, Locals, OutcomeFits, Keyed, Errors
    <2> QED BY <1>1, <2>3, RaisedFits DEF ErrorCodes
  <1>4. Fits(Switch(new)) /\ Fits(Expire(Switch(NULL)))
    BY <1>2, <1>3, ExpireFits
  <1>5. Set(r, Switch(new)) \/ Set(r, Expire(Switch(NULL)))
    BY DEF DecryptFailed
  <1> HIDE DEF L, new, Switch
  <1> QED BY <1>4, <1>5

LEMMA UpstreamFits ==
    ASSUME TypeOK, NEW r \in Requests, Upstream(r), Fits(loc[r])
    PROVE  \E M : Set(r, M) /\ Fits(M)
  <1> DEFINE L == loc[r]
             Failing(o) == [L EXCEPT !.pc = "failure", !.outcome = o, !.used = @ \cup {L.key}]
             Answering(o) == [L EXCEPT !.pc = Handler(o), !.outcome = o,
                                       !.used = L.used \cup {L.key}, !.attempts = L.attempts + 1,
                                       !.retry = IF L.pinned THEN L.attempts ELSE L.retry]
  <1>1. Fits(L) /\ L.pc = "upstream" /\ L.key \in Keys
    BY DEF Upstream, Fits, OutcomeFits, Locals, Keyed
  <1>2. PICK u \in Outcomes :
          \/ u \in Errors /\ Set(r, [L EXCEPT !.pc = "failure", !.outcome = u, !.used = @ \cup {L.key}])
          \/ u \in Classified /\ Set(r, [L EXCEPT !.pc = Handler(u), !.outcome = u,
                                                 !.used = @ \cup {L.key}, !.attempts = @ + 1,
                                                 !.retry = IF L.pinned THEN L.attempts ELSE @])
    BY DEF Upstream, Errors
  <1> HIDE DEF L
  <1>3. L.used \cup {L.key} \in SUBSET Keys /\ L.attempts + 1 \in Nat /\ L.attempts \in Nat
    BY <1>1 DEF Fits, Locals
  <1>4. ASSUME NEW o \in Outcomes, o \in Errors PROVE Fits(Failing(o))
    <2>1. Failing(o) \in Locals
      BY <1>1, <1>3 DEF Fits, Locals, Labels
    <2> QED BY <1>1, <1>4, <2>1 DEF Fits, Locals, OutcomeFits, Keyed, Errors
  <1>5. ASSUME NEW o \in Outcomes, o \in Classified PROVE Fits(Answering(o))
    <2>1. /\ Handler(o) \in {"refresh", "failure", "ok"}
          /\ Handler(o) = "refresh" => o \in KeyErrors
          /\ Handler(o) = "failure" => o = "upstream_5xx"
          /\ Handler(o) = "ok" => o \in {"ok", "passthrough"}
      BY <1>5 DEF Handler, Classified, KeyErrors
    <2>2. Answering(o) \in Locals
      <3> DEFINE n == IF L.pinned THEN L.attempts ELSE L.retry
      <3>1. n \in Nat /\ Handler(o) \in Labels
        BY <1>1, <2>1 DEF Fits, Locals, Labels
      <3>2. Answering(o) = [L EXCEPT !.pc = Handler(o), !.outcome = o,
                                     !.used = L.used \cup {L.key}, !.attempts = L.attempts + 1,
                                     !.retry = n]
        BY <1>1 DEF Fits, Locals
      <3> HIDE DEF n, Answering
      <3> QED BY <1>1, <1>3, <3>1, <3>2 DEF Fits, Locals
    <2>3. /\ Answering(o).pc = Handler(o) /\ Answering(o).key = L.key
          /\ Answering(o).outcome = o /\ Answering(o).lastErr = L.lastErr
      BY <1>1 DEF Fits, Locals
    <2>4. o \notin Errors
      BY <1>5 DEF Classified, Errors
    <2> HIDE DEF Answering
    <2> QED BY <1>1, <2>1, <2>2, <2>3, <2>4, ForwarderAssumption DEF Fits, OutcomeFits, Keyed
  <1>6. CASE u \in Errors /\ Set(r, Failing(u))
    BY <1>4, <1>6
  <1>7. CASE u \in Classified /\ Set(r, Answering(u))
    BY <1>5, <1>7
  <1> QED BY <1>2, <1>6, <1>7

LEMMA Refresh4xxFits ==
    ASSUME TypeOK, NEW r \in Requests, Refresh4xx(r), Fits(loc[r])
    PROVE  \E M : Set(r, M) /\ Fits(M)
  <1> DEFINE L == loc[r]
  <1>1. Fits(L) /\ L.pc = "refresh" /\ L.key \in Keys
    BY DEF Refresh4xx, Fits, OutcomeFits, Locals, Keyed
  <1>2. ASSUME NEW o \in Rows, NEW K, K \in {L, Expire(L)}
        PROVE  Fits([K EXCEPT !.pc = "punish"]) /\ Fits([K EXCEPT !.pc = "punish", !.obj = o])
    <2> HIDE DEF L
    <2>1. Fits(K) /\ K \in Locals /\ K.pc = "refresh" /\ K.outcome = L.outcome
      BY <1>1, <1>2, ExpireFits, ExpireKeeps DEF Fits
    <2>2. /\ [K EXCEPT !.pc = "punish"] \in Locals
          /\ [K EXCEPT !.pc = "punish", !.obj = o] \in Locals
      BY <2>1 DEF Locals, Labels
    <2> QED BY <2>1, <2>2 DEF Fits, Locals, OutcomeFits, Keyed, Errors, KeyErrors
  <1>3. ASSUME NEW kind \in FetchResults, NEW rem \in FetchCredits
        PROVE  ApplyFetch(Held(L), kind, rem, clock) \in Rows
    BY <1>1, SeenType, WriterTypes, ForwarderAssumption DEF TypeOK
  <1>4. Held(L) \in Rows
    BY <1>1, SeenType, ForwarderAssumption
  <1>5. \/ Set(r, [L EXCEPT !.pc = "punish"])
        \/ \E kind \in FetchResults, rem \in FetchCredits :
              Set(r, [L EXCEPT !.pc = "punish", !.obj = ApplyFetch(Held(L), kind, rem, clock)])
        \/ Set(r, [Expire(L) EXCEPT !.pc = "punish"])
    BY DEF Refresh4xx
  <1> HIDE DEF L
  <1> QED BY <1>2, <1>3, <1>4, <1>5

LEMMA PunishedType ==
    ASSUME clock \in Nat, NEW row \in Rows, NEW o \in KeyErrors
    PROVE  Punished(row, o) \in Rows
  <1>1. clock + Cooldown \in Nat
    BY ForwarderAssumption
  <1>2. CASE o = "rate_limit"
    BY <1>1, <1>2, WriterTypes DEF Punished
  <1>3. CASE o = "credit"
    BY <1>1, <1>3, WriterTypes DEF Punished
  <1>4. CASE o = "invalid_key"
    BY <1>1, <1>4, WriterTypes DEF Punished
  <1> QED BY <1>2, <1>3, <1>4 DEF KeyErrors

LEMMA PunishFits ==
    ASSUME TypeOK, NEW r \in Requests, Punish(r), Fits(loc[r])
    PROVE  \E M : Set(r, M) /\ Fits(M)
  <1> DEFINE L == loc[r]
  <1>1. Fits(L) /\ L.pc = "punish" /\ L.key \in Keys /\ L.outcome \in KeyErrors
    BY DEF Punish, Fits, OutcomeFits, Locals, Keyed
  <1>2. Punished(Held(L), L.outcome) \in Rows
    BY <1>1, SeenType, PunishedType, ForwarderAssumption DEF TypeOK
  <1>3. ASSUME NEW K, K \in {L, Expire(L)}, NEW o \in Rows \cup {NULL}
        PROVE  Fits(AfterPunish(K, o))
    <2> HIDE DEF L
    <2> DEFINE M == [K EXCEPT !.obj = o, !.tried = @ \cup {K.key},
                              !.retry = @ + 1, !.lastErr = K.key]
    <2>1. Fits(K) /\ K.pc = "punish" /\ K.key \in Keys /\ K.outcome \in KeyErrors
      BY <1>1, <1>3, ExpireFits, ExpireKeeps DEF Fits
    <2>2. K.outcome \in Classified
      BY <2>1 DEF KeyErrors, Classified
    <2>3. K.tried \cup {K.key} \in SUBSET Keys /\ K.retry + 1 \in Nat /\ K.retry \in Nat
      BY <2>1 DEF Fits, Locals
    <2>4. M \in Locals
      BY <2>1, <2>3 DEF Fits, Locals
    <2>5. /\ M.pc = "punish" /\ M.outcome = K.outcome /\ M.key = K.key /\ M.lastErr = K.key
          /\ M.retry = K.retry + 1
      BY <2>1 DEF Fits, Locals
    <2>6. K.outcome \in Outcomes /\ K.outcome \notin Errors
      BY <2>1 DEF Fits, OutcomeFits, Errors, KeyErrors
    <2> HIDE DEF M
    <2>7. Fits(M) /\ M.retry - 1 \in Nat /\ M.outcome \in Classified
      BY <2>1, <2>2, <2>3, <2>4, <2>5, <2>6, ForwarderAssumption DEF Fits, OutcomeFits, Keyed
    <2>8. Fits(Returned(M, M.retry - 1)) /\ Fits(Returned(K, K.retry))
      BY <2>1, <2>2, <2>3, <2>7, ReturnedFits
    <2>9. Fits([M EXCEPT !.pc = "select"])
      BY <2>5, <2>6, <2>7 DEF Fits, Locals, Labels, OutcomeFits, Keyed, Errors
    <2>10. Fits([K EXCEPT !.pc = "gate", !.obj = o])
      <3>1. [K EXCEPT !.pc = "gate", !.obj = o] \in Locals
        BY <2>1 DEF Fits, Locals, Labels
      <3> QED BY <2>1, <2>6, <3>1 DEF Fits, Locals, OutcomeFits, Keyed
    <2> QED BY <2>8, <2>9, <2>10 DEF AfterPunish, M
  <1>4. \/ Set(r, AfterPunish(L, Punished(Held(L), L.outcome)))
        \/ Set(r, AfterPunish(Expire(L), NULL))
    BY DEF Punish
  <1> HIDE DEF L
  <1> QED BY <1>2, <1>3, <1>4

LEMMA RecordFailureFits ==
    ASSUME TypeOK, NEW r \in Requests, RecordFailure(r), Fits(loc[r])
    PROVE  \E M : Set(r, M) /\ Fits(M)
  <1>1. loc[r].retry \in Nat
    BY DEF Fits, Locals
  <1>2. loc[r].outcome = "upstream_5xx" => Fits(Returned(loc[r], loc[r].retry))
    BY <1>1, ReturnedFits DEF Classified
  <1>3. /\ Fits(Raised(loc[r], "UPSTREAM_TIMEOUT"))
        /\ Fits(Raised(loc[r], "UPSTREAM_UNAVAILABLE"))
    BY RaisedFits DEF ErrorCodes
  <1> QED BY <1>2, <1>3 DEF RecordFailure

LEMMA SucceedFits ==
    ASSUME TypeOK, NEW r \in Requests, Succeed(r), Fits(loc[r])
    PROVE  \E M : Set(r, M) /\ Fits(M)
  <1>1. loc[r].retry \in Nat
    BY DEF Fits, Locals
  <1>2. loc[r].outcome \in {"ok", "passthrough"} => Fits(Returned(loc[r], loc[r].retry))
    BY <1>1, ReturnedFits DEF Classified
  <1>3. Fits(Raised(loc[r], "DB_UNAVAILABLE"))
    BY RaisedFits DEF ErrorCodes
  <1> QED BY <1>2, <1>3 DEF Succeed

-----------------------------------------------------------------------------
\* A commit of the held object, the reactivations, a lease given back.
LEMMA CommittedType ==
    ASSUME TypeOK, NEW L, Fits(L), L.key # NULL, NEW new \in Rows, Committed(L, new)
    PROVE  keys' \in [Keys -> Rows]
  <1>1. L.key \in Keys /\ keys[L.key] \in Rows /\ Held(L) \in Rows
    BY SeenType DEF Fits, Locals, TypeOK
  <1> DEFINE row == Flush(keys[L.key], Held(L), new)
  <1>2. row \in Rows
    BY <1>1, FlushType
  <1>3. keys' = [keys EXCEPT ![L.key] = row]
    BY DEF Committed
  <1> HIDE DEF row
  <1> QED BY <1>1, <1>2, <1>3 DEF TypeOK

LEMMA ReactivateType ==
    ASSUME TypeOK, NEW dirty \in Columns
    PROVE  Reactivate(dirty) \in [Keys -> Rows]
  BY DEF TypeOK, Reactivate, Rows, Statuses

LEMMA ReleaseType ==
    ASSUME TypeOK, NEW k \in Keys
    PROVE  Release(k) \in [Keys -> Nat]
  BY DEF TypeOK, Release, AtLeast, Counted

TypeInv == TypeOK /\ \A r \in Requests : OutcomeFits(loc[r])

\* A step of one call keeps the types when the shared variables keep theirs.
LEMMA CallType ==
    ASSUME TypeInv, NEW r \in Requests, \E M : Set(r, M) /\ Fits(M),
           keys' \in [Keys -> Rows], store' \in [Keys -> Nat],
           fails' \in [Keys -> [n : Nat, first : Nat]], current' \in [Keys -> Nat],
           UNCHANGED <<probing, clock>>
    PROVE  TypeInv'
  <1>1. PICK M : Set(r, M) /\ Fits(M)
    OBVIOUS
  <1>2. loc' \in [Requests -> Locals] /\ loc'[r] = M /\ \A q \in Requests \ {r} : loc'[q] = loc[q]
    BY <1>1, SetType DEF Fits, TypeInv
  <1>3. \A q \in Requests : OutcomeFits(loc'[q])
    BY <1>1, <1>2 DEF Fits, TypeInv
  <1>4. TypeOK'
    BY <1>2 DEF TypeOK, TypeInv
  <1> QED BY <1>3, <1>4 DEF TypeInv, OutcomeFits

LEMMA TypeInit == Init => TypeInv
  <1> SUFFICES ASSUME Init PROVE TypeInv
    OBVIOUS
  <1>1. keys \in [Keys -> Rows]
    <2>1. \A c \in InitCredits : [active |-> TRUE, status |-> "active", until |-> NULL, credits |-> c] \in Rows
      BY ForwarderAssumption DEF Rows, Statuses
    <2> QED BY <2>1 DEF Init
  <1>2. \A pin \in Pins : Fresh(pin) \in Locals /\ OutcomeFits(Fresh(pin))
    <2>1. NoColumns \in Columns
      BY DEF NoColumns, Columns
    <2>2. \A pin \in Pins : Fresh(pin) \in Locals
      BY <2>1 DEF Fresh, Locals, Labels
    <2>3. \A pin \in Pins : OutcomeFits(Fresh(pin))
      BY DEF Fresh, OutcomeFits, Keyed, Errors
    <2> QED BY <2>2, <2>3
  <1>3. loc \in [Requests -> Locals] /\ \A r \in Requests : OutcomeFits(loc[r])
    BY <1>2 DEF Init
  <1> QED BY <1>1, <1>3 DEF Init, TypeInv, TypeOK

\* Every step of a call keeps the types.
LEMMA StepType ==
    ASSUME TypeInv, NEW r \in Requests, Start(r) \/ Step(r)
    PROVE  TypeInv'
  <1>1. TypeOK /\ Fits(loc[r])
    BY DEF TypeInv, TypeOK, Fits
  <1>2. /\ keys \in [Keys -> Rows] /\ store \in [Keys -> Nat] /\ clock \in Nat
        /\ fails \in [Keys -> [n : Nat, first : Nat]] /\ current \in [Keys -> Nat]
    BY <1>1 DEF TypeOK
  <1>3. loc[r].pc \in Keyed => loc[r].key \in Keys /\ loc[r].key # NULL /\ Held(loc[r]) \in Rows
    BY <1>1, SeenType DEF Fits, Locals, OutcomeFits
  <1>4. CASE Start(r)
    BY <1>1, <1>2, <1>4, StartFits, CallType DEF Start
  <1>5. CASE Select(r)
    BY <1>1, <1>2, <1>5, SelectFits, CallType DEF Select
  <1>6. CASE SelectCommit(r)
    <2>1. keys' \in [Keys -> Rows]
      BY <1>1, <1>2, <1>6, ReactivateType DEF SelectCommit, Fits, Locals
    <2> QED BY <1>1, <1>2, <1>6, <2>1, SelectCommitFits, CallType DEF SelectCommit
  <1>7. CASE Close(r)
    <2>1. keys' \in [Keys -> Rows]
      BY <1>1, <1>2, <1>7, ReactivateType DEF Close, Fits, Locals
    <2> QED BY <1>1, <1>2, <1>7, <2>1, CloseFits, CallType DEF Close
  <1>8. CASE LoopExit(r)
    BY <1>1, <1>2, <1>8, LoopExitFits, CallType DEF LoopExit
  <1>9. CASE Gate(r)
    <2>1. current' \in [Keys -> Nat]
      BY <1>2, <1>3, <1>9 DEF Gate, Counted, Keyed
    <2> QED BY <1>1, <1>2, <1>9, <2>1, GateFits, CallType DEF Gate
  <1>10. CASE DecryptFailed(r)
    <2>1. current' \in [Keys -> Nat]
      BY <1>1, <1>3, <1>10, ReleaseType DEF DecryptFailed, Keyed
    <2>2. keys' \in [Keys -> Rows]
      <3>1. DisableDecryptFailed(Held(loc[r])) \in Rows
        BY <1>2, <1>3, <1>10, WriterTypes DEF DecryptFailed, Keyed
      <3> QED BY <1>1, <1>2, <1>3, <1>10, <3>1, CommittedType DEF DecryptFailed, Keyed
    <2> QED BY <1>1, <1>2, <1>10, <2>1, <2>2, DecryptFailedFits, CallType DEF DecryptFailed
  <1>11. CASE Upstream(r)
    <2>1. current' \in [Keys -> Nat]
      BY <1>1, <1>2, <1>3, <1>11, ReleaseType DEF Upstream, Keyed
    <2> QED BY <1>1, <1>2, <1>11, <2>1, UpstreamFits, CallType DEF Upstream
  <1>12. CASE Refresh4xx(r)
    <2>1. loc[r].key # NULL /\ Held(loc[r]) \in Rows
      BY <1>3, <1>12 DEF Refresh4xx, Keyed
    <2>2. \A kind \in FetchResults, rem \in FetchCredits :
            ApplyFetch(Held(loc[r]), kind, rem, clock) \in Rows
      BY <1>2, <2>1, WriterTypes, ForwarderAssumption
    <2>3. \/ UNCHANGED keys
          \/ \E kind \in FetchResults, rem \in FetchCredits :
               Committed(loc[r], ApplyFetch(Held(loc[r]), kind, rem, clock))
      BY <1>12 DEF Refresh4xx
    <2>4. keys' \in [Keys -> Rows]
      BY <1>1, <1>2, <2>1, <2>2, <2>3, CommittedType
    <2> QED BY <1>1, <1>2, <1>12, <2>4, Refresh4xxFits, CallType DEF Refresh4xx
  <1>13. CASE Punish(r)
    <2>1. /\ loc[r].key \in Keys /\ loc[r].key # NULL /\ Held(loc[r]) \in Rows
          /\ loc[r].outcome \in KeyErrors
      BY <1>1, <1>3, <1>13 DEF Punish, Keyed, Fits, OutcomeFits
    <2>2. Punished(Held(loc[r]), loc[r].outcome) \in Rows
      BY <1>2, <2>1, PunishedType
    <2>3. keys' \in [Keys -> Rows]
      BY <1>1, <1>2, <1>13, <2>1, <2>2, CommittedType DEF Punish
    <2>4. store' \in [Keys -> Nat]
      BY <1>2, <1>13, <2>1, ForwarderAssumption DEF Punish
    <2> QED BY <1>1, <1>2, <1>13, <2>3, <2>4, PunishFits, CallType DEF Punish
  <1>14. CASE RecordFailure(r)
    <2>1. loc[r].key \in Keys /\ loc[r].key # NULL /\ Held(loc[r]) \in Rows
      BY <1>3, <1>14 DEF RecordFailure, Keyed
    <2>2. MarkFailed(Held(loc[r]), clock + AtLeast(FailedCooldown, 1)) \in Rows
      <3>1. clock + AtLeast(FailedCooldown, 1) \in Nat
        BY <1>2, ForwarderAssumption DEF AtLeast
      <3> QED BY <2>1, <3>1, WriterTypes
    <2>3. keys' \in [Keys -> Rows]
      BY <1>1, <1>2, <1>14, <2>1, <2>2, CommittedType DEF RecordFailure
    <2>4. current' \in [Keys -> Nat]
      BY <1>1, <1>2, <1>14, <2>1, ReleaseType DEF RecordFailure
    <2>5. fails' \in [Keys -> [n : Nat, first : Nat]]
      <3>1. WindowCount(fails[loc[r].key]) \in [n : Nat, first : Nat]
        <4>1. fails[loc[r].key] \in [n : Nat, first : Nat]
          BY <1>2, <2>1
        <4> QED BY <1>2, <4>1, ForwarderAssumption DEF WindowCount
      <3> QED BY <1>2, <1>14, <2>1, <3>1 DEF RecordFailure
    <2> QED BY <1>1, <1>2, <1>14, <2>3, <2>4, <2>5, RecordFailureFits, CallType DEF RecordFailure
  <1>15. CASE Succeed(r)
    <2>1. loc[r].key # NULL /\ Held(loc[r]) \in Rows
      BY <1>3, <1>15 DEF Succeed, Keyed
    <2>2. \A cost \in Costs : EstimateCost(Held(loc[r]), cost) \in Rows
      BY <1>2, <2>1, WriterTypes, ForwarderAssumption
    <2>3. keys' \in [Keys -> Rows]
      BY <1>1, <1>2, <1>15, <2>1, <2>2, CommittedType DEF Succeed
    <2> QED BY <1>1, <1>2, <1>15, <2>3, SucceedFits, CallType DEF Succeed
  <1> QED BY <1>4, <1>5, <1>6, <1>7, <1>8, <1>9, <1>10, <1>11, <1>12, <1>13, <1>14, <1>15 DEF Step

\* The probe, the administrator and the clock keep the types.
LEMMA OtherType ==
    ASSUME TypeInv, NEW k \in Keys, ProbeStart(k) \/ ProbeApply(k) \/ Admin(k) \/ Tick
    PROVE  TypeInv'
  <1>1. TypeOK /\ keys[k] \in Rows /\ clock \in Nat /\ probing[k] \in Nat \cup {NULL}
    BY DEF TypeInv, TypeOK
  <1>2. CASE UNCHANGED <<keys, loc>> /\ (ProbeStart(k) \/ Tick)
    BY <1>2 DEF TypeInv, TypeOK, OutcomeFits, ProbeStart, Tick
  <1>3. ASSUME NEW row \in Rows, keys' = [keys EXCEPT ![k] = row] \/ keys' = keys,
               probing' = probing \/ probing' = [probing EXCEPT ![k] = NULL],
               UNCHANGED <<store, fails, current, clock, loc>>
        PROVE  TypeInv'
    BY <1>3 DEF TypeInv, TypeOK, OutcomeFits
  <1>4. CASE ProbeApply(k)
    <2>1. PICK kind \in ProbeKinds(k), rem \in FetchCredits :
            keys' = IF kind \notin {"invalid", "decrypt_failed"} /\ IsDisabled(keys[k])
                    THEN keys
                    ELSE [keys EXCEPT ![k] = ApplyFetch(@, kind, rem, probing[k])]
      BY <1>4 DEF ProbeApply
    <2>2. kind \in FetchKinds /\ rem \in Nat /\ probing[k] \in Nat
      BY <1>1, <1>4, ForwarderAssumption DEF ProbeKinds, ProbeApply, FetchKinds
    <2>3. ApplyFetch(keys[k], kind, rem, probing[k]) \in Rows
      BY <1>1, <2>2, WriterTypes
    <2> QED BY <1>3, <1>4, <2>1, <2>3 DEF ProbeApply
  <1>5. CASE Admin(k)
    <2>1. /\ AdminDisabled(keys[k]) \in Rows /\ AdminEnabled(keys[k]) \in Rows
          /\ Revived(keys[k]) \in Rows /\ CooldownReset(keys[k]) \in Rows
      BY <1>1 DEF AdminDisabled, AdminEnabled, Revived, CooldownReset, Rows, Statuses,
                  DisabledStatuses, CoolingStatuses
    <2> QED BY <1>3, <1>5, <2>1 DEF Admin, AdminDisable, AdminEnable, AdminRevive, AdminResetCooldown
  <1> QED BY <1>2, <1>4, <1>5 DEF ProbeStart, Tick

LEMMA TypeNext == TypeInv /\ [Next]_vars => TypeInv'
  <1> SUFFICES ASSUME TypeInv, [Next]_vars PROVE TypeInv'
    OBVIOUS
  <1>1. CASE UNCHANGED vars
    BY <1>1 DEF vars, TypeInv, TypeOK, OutcomeFits
  <1>2. CASE Tick
    BY <1>2 DEF Tick, TypeInv, TypeOK, OutcomeFits
  <1> QED BY <1>1, <1>2, StepType, OtherType DEF Next, Quiescent

\* Types: however requests, probes and the administrator interleave, the rows
\* written from stale copies are rows, and the locals of every forward call
\* have their types.
THEOREM TypeCorrect == Spec => []TypeOK
  <1>1. Spec => []TypeInv
    BY TypeInit, TypeNext, PTL DEF Spec
  <1>2. TypeInv => TypeOK
    BY DEF TypeInv
  <1> QED BY <1>1, <1>2, PTL

-----------------------------------------------------------------------------
(***************************************************************************)
(* A disabled key stays disabled.  A commit writes the flag only when the  *)
(* session changed it, and the sessions of the data plane only clear it.   *)
(***************************************************************************)
LEMMA CommittedKeepsOff ==
    ASSUME TypeOK, NEW L, Fits(L), L.key # NULL, NEW new \in Rows, Committed(L, new),
           new.active \in {Held(L).active, FALSE}
    PROVE  \A k \in Keys : keys'[k].active => keys[k].active
  <1>1. L.key \in Keys
    BY DEF Fits, Locals
  <1>2. Flush(keys[L.key], Held(L), new).active => keys[L.key].active
    BY DEF Flush
  <1> DEFINE row == Flush(keys[L.key], Held(L), new)
  <1>3. keys' = [keys EXCEPT ![L.key] = row]
    BY DEF Committed
  <1> HIDE DEF row
  <1> QED BY <1>1, <1>2, <1>3 DEF TypeOK, row

LEMMA ReactivateKeepsOff ==
    ASSUME TypeOK, NEW dirty \in Columns
    PROVE  \A k \in Keys : Reactivate(dirty)[k].active = keys[k].active
  BY DEF TypeOK, Reactivate, Rows

LEMMA StepKeepsOff ==
    ASSUME TypeInv, NEW r \in Requests, Start(r) \/ Step(r)
    PROVE  \A k \in Keys : keys'[k].active => keys[k].active
  <1>1. TypeOK /\ Fits(loc[r])
    BY DEF TypeInv, TypeOK, Fits
  <1>2. clock \in Nat
    BY <1>1 DEF TypeOK
  <1>3. loc[r].pc \in Keyed => loc[r].key # NULL /\ Held(loc[r]) \in Rows
    BY <1>1, SeenType DEF Fits, Locals, OutcomeFits
  <1>4. CASE Start(r) \/ Select(r) \/ LoopExit(r) \/ Gate(r) \/ Upstream(r)
    BY <1>4 DEF Start, Select, LoopExit, Gate, Upstream
  <1>5. CASE SelectCommit(r) \/ Close(r)
    <2>1. keys' = keys \/ keys' = Reactivate(loc[r].dirty)
      BY <1>5 DEF SelectCommit, Close
    <2>2. loc[r].dirty \in Columns
      BY <1>1 DEF Fits, Locals
    <2> QED BY <1>1, <2>1, <2>2, ReactivateKeepsOff
  <1>6. CASE DecryptFailed(r)
    <2>1. loc[r].key # NULL /\ Held(loc[r]) \in Rows
      BY <1>3, <1>6 DEF DecryptFailed, Keyed
    <2> DEFINE new == DisableDecryptFailed(Held(loc[r]))
    <2>2. new \in Rows /\ new.active = FALSE
      BY <1>2, <2>1, WriterTypes, WritersKeepOff
    <2>3. keys' = keys \/ Committed(loc[r], new)
      BY <1>6 DEF DecryptFailed
    <2> HIDE DEF new
    <2> QED BY <1>1, <2>1, <2>2, <2>3, CommittedKeepsOff
  <1>7. CASE Refresh4xx(r)
    <2>1. loc[r].key # NULL /\ Held(loc[r]) \in Rows
      BY <1>3, <1>7 DEF Refresh4xx, Keyed
    <2>2. \A kind \in FetchResults, rem \in FetchCredits :
            /\ ApplyFetch(Held(loc[r]), kind, rem, clock) \in Rows
            /\ ApplyFetch(Held(loc[r]), kind, rem, clock).active \in {Held(loc[r]).active, FALSE}
      BY <1>2, <2>1, WriterTypes, WritersKeepOff, ForwarderAssumption
    <2>3. \/ UNCHANGED keys
          \/ \E kind \in FetchResults, rem \in FetchCredits :
               Committed(loc[r], ApplyFetch(Held(loc[r]), kind, rem, clock))
      BY <1>7 DEF Refresh4xx
    <2> QED BY <1>1, <2>1, <2>2, <2>3, CommittedKeepsOff
  <1>8. CASE Punish(r)
    <2>1. loc[r].key # NULL /\ Held(loc[r]) \in Rows /\ loc[r].outcome \in KeyErrors
      BY <1>1, <1>3, <1>8 DEF Punish, Keyed, Fits, OutcomeFits
    <2> DEFINE new == Punished(Held(loc[r]), loc[r].outcome)
    <2>2. new \in Rows
      BY <1>2, <2>1, PunishedType
    <2>3. new.active \in {Held(loc[r]).active, FALSE}
      <3>1. clock + Cooldown \in Nat
        BY <1>2, ForwarderAssumption
      <3> QED BY <2>1, <3>1, WritersKeepOff DEF Punished, KeyErrors
    <2>4. keys' = keys \/ Committed(loc[r], new)
      BY <1>8 DEF Punish
    <2> HIDE DEF new
    <2> QED BY <1>1, <2>1, <2>2, <2>3, <2>4, CommittedKeepsOff
  <1>9. CASE RecordFailure(r)
    <2>1. loc[r].key # NULL /\ Held(loc[r]) \in Rows
      BY <1>3, <1>9 DEF RecordFailure, Keyed
    <2> DEFINE new == MarkFailed(Held(loc[r]), clock + AtLeast(FailedCooldown, 1))
    <2>2. new \in Rows /\ new.active = Held(loc[r]).active
      <3>1. clock + AtLeast(FailedCooldown, 1) \in Nat
        BY <1>2, ForwarderAssumption DEF AtLeast
      <3> QED BY <2>1, <3>1, WriterTypes, WritersKeepOff
    <2>3. keys' = keys \/ Committed(loc[r], new)
      BY <1>9 DEF RecordFailure
    <2> HIDE DEF new
    <2> QED BY <1>1, <2>1, <2>2, <2>3, CommittedKeepsOff
  <1>10. CASE Succeed(r)
    <2>1. loc[r].key # NULL /\ Held(loc[r]) \in Rows
      BY <1>3, <1>10 DEF Succeed, Keyed
    <2>2. \A cost \in Costs : /\ EstimateCost(Held(loc[r]), cost) \in Rows
                              /\ EstimateCost(Held(loc[r]), cost).active = Held(loc[r]).active
      BY <1>2, <2>1, WriterTypes, WritersKeepOff, ForwarderAssumption
    <2>3. keys' = keys \/ \E cost \in Costs : Committed(loc[r], EstimateCost(Held(loc[r]), cost))
      BY <1>10 DEF Succeed
    <2> QED BY <1>1, <2>1, <2>2, <2>3, CommittedKeepsOff
  <1> QED BY <1>4, <1>5, <1>6, <1>7, <1>8, <1>9, <1>10 DEF Step

LEMMA ProbeKeepsOff ==
    ASSUME TypeInv, NEW p \in Keys, ProbeApply(p)
    PROVE  \A k \in Keys : keys'[k].active => keys[k].active
  <1>1. keys[p] \in Rows /\ probing[p] \in Nat
    BY DEF TypeInv, TypeOK, ProbeApply
  <1>2. PICK kind \in ProbeKinds(p), rem \in FetchCredits :
          keys' = IF kind \notin {"invalid", "decrypt_failed"} /\ IsDisabled(keys[p])
                  THEN keys
                  ELSE [keys EXCEPT ![p] = ApplyFetch(@, kind, rem, probing[p])]
    BY DEF ProbeApply
  <1>3. kind \in FetchKinds /\ rem \in Nat
    BY ForwarderAssumption DEF ProbeKinds, FetchKinds
  <1>4. ApplyFetch(keys[p], kind, rem, probing[p]).active => keys[p].active
    BY <1>1, <1>3, WritersKeepOff
  <1> QED BY <1>2, <1>4 DEF TypeInv, TypeOK

\* The administrator alone turns a disabled key on (an action property): no
\* commit of a forward call that loaded the row before it was disabled, no
\* credit probe that comes late and no reactivation of a rested key does.
THEOREM DisabledStaysHolds == Spec => DisabledStays
  <1> DEFINE A == (\E k \in Keys : ~keys[k].active /\ keys'[k].active)
                    => \E k \in Keys : AdminEnable(k) \/ AdminRevive(k)
  <1>1. TypeInv /\ [Next]_vars => [A]_vars
    <2> SUFFICES ASSUME TypeInv, Next, NEW k \in Keys, ~keys[k].active, keys'[k].active
                 PROVE  \E q \in Keys : AdminEnable(q) \/ AdminRevive(q)
      OBVIOUS
    <2>1. ~ \E r \in Requests : Start(r) \/ Step(r)
      BY StepKeepsOff
    <2>2. ~ \E p \in Keys : ProbeApply(p)
      BY ProbeKeepsOff
    <2>3. keys' # keys
      OBVIOUS
    <2>4. PICK p \in Keys : Admin(p)
      BY <2>1, <2>2, <2>3 DEF Next, ProbeStart, Tick, Quiescent, vars
    <2>5. ~AdminDisable(p) /\ ~AdminResetCooldown(p)
      BY DEF TypeInv, TypeOK, Rows, AdminDisable, AdminDisabled, AdminResetCooldown, CooldownReset
    <2> QED BY <2>4, <2>5 DEF Admin
  <1>2. Spec => []TypeInv
    BY TypeInit, TypeNext, PTL DEF Spec
  <1> QED BY <1>1, <1>2, PTL DEF Spec, DisabledStays

-----------------------------------------------------------------------------
(***************************************************************************)
(* The leases.  That finitely many calls hold one at a time is part of the *)
(* invariant: requests may be infinitely many.                             *)
(***************************************************************************)
Holds(L) == \/ L.pc \in {"decrypt", "upstream"}
            \/ L.pc = "failure" /\ L.outcome \in Errors

LeaseInv ==
    \A k \in Keys :
        /\ IsFiniteSet(Holders(k))
        /\ current[k] = Counted * Cardinality(Holders(k))
        /\ MaxConcurrent > 0 => current[k] <= MaxConcurrent

\* Where the exits of the steps lead.
LEMMA ExitPcs ==
    ASSUME NEW L \in Locals
    PROVE  /\ \A c, o, n : Ended(L, c, o, n).pc = "done"
           /\ \A c : Raised(L, c).pc = "done"
           /\ \A n : Returned(L, n).pc = "done"
           /\ \A c : AfterSelectError(L, c).pc \in {"done", "close"}
           /\ PassOver(L).pc \in {"done", "select"}
           /\ \A o : AfterPunish(L, o).pc \in {"done", "gate", "select"}
  <1>1. \A K, c, o, n : K \in Locals => Ended(K, c, o, n).pc = "done"
    BY DEF Ended, Locals
  <1>2. /\ \A c : Raised(L, c).pc = "done"
        /\ \A n : Returned(L, n).pc = "done"
    BY <1>1 DEF Raised, Returned
  <1>3. \A c : AfterSelectError(L, c).pc \in {"done", "close"}
    BY <1>2 DEF AfterSelectError, Locals
  <1>4. PassOver(L).pc \in {"done", "select"}
    BY <1>2 DEF PassOver, Locals
  <1>5. ASSUME NEW o PROVE AfterPunish(L, o).pc \in {"done", "gate", "select"}
    <2> DEFINE M == [L EXCEPT !.obj = o, !.tried = @ \cup {L.key}, !.retry = @ + 1, !.lastErr = L.key]
    <2>1. DOMAIN M = DOMAIN L /\ "pc" \in DOMAIN L
      BY DEF Locals
    <2> HIDE DEF M
    <2>2. [M EXCEPT !.pc = "select"].pc = "select" /\ [L EXCEPT !.pc = "gate", !.obj = o].pc = "gate"
      BY <2>1 DEF Locals
    <2>3. Returned(M, M.retry - 1).pc = "done"
      BY <2>1 DEF Returned, Ended
    <2> QED BY <1>2, <2>2, <2>3 DEF AfterPunish, M
  <1> QED BY <1>1, <1>2, <1>3, <1>4, <1>5

LEMMA QuietSteps ==
    ASSUME TypeInv, NEW r \in Requests,
           \/ Start(r) \/ Select(r) \/ SelectCommit(r) \/ Close(r) \/ LoopExit(r)
           \/ Refresh4xx(r) \/ Punish(r) \/ Succeed(r)
    PROVE  /\ ~Holds(loc[r]) /\ ~Holds(loc'[r]) /\ current' = current
           /\ \A q \in Requests \ {r} : loc'[q] = loc[q]
  <1>1. loc[r] \in Locals /\ loc \in [Requests -> Locals]
    BY DEF TypeInv, TypeOK
  <1>2. [loc[r] EXCEPT !.tries = @ + 1] \in Locals
    BY <1>1 DEF Locals
  <1>3. Expire(loc[r]) \in Locals
    BY ExpireFits DEF TypeInv, TypeOK, Fits
  <1>4. ASSUME NEW M, Set(r, M), M.pc \notin {"decrypt", "upstream", "failure"},
               loc[r].pc \notin {"decrypt", "upstream", "failure"}, current' = current
        PROVE  /\ ~Holds(loc[r]) /\ ~Holds(loc'[r]) /\ current' = current
               /\ \A q \in Requests \ {r} : loc'[q] = loc[q]
    BY <1>1, <1>4 DEF Set, Holds
  <1>5. CASE Start(r)
    BY <1>1, <1>4, <1>5, ExitPcs DEF Start, Locals
  <1>6. CASE Select(r)
    <2> DEFINE L == [loc[r] EXCEPT !.tries = @ + 1]
               D == [L EXCEPT !.dirty = Reactivation(L)]
    <2>1. D \in Locals
      <3> HIDE DEF L
      <3>1. Reactivation(L) \in Columns
        BY DEF Reactivation, Columns
      <3> QED BY <1>2, <3>1 DEF Locals, L
    <2>2. \/ \E blocked : Set(r, AfterSelectError(D, SelectError(L, blocked)))
          \/ \E k : Set(r, [L EXCEPT !.pc = "commit", !.dirty = Reactivation(L), !.key = k,
                               !.obj = IF k \in Rested(L) THEN Reactivated(Seen(L, k))
                                       ELSE Seen(L, k)])
      BY <1>6 DEF Select
    <2> HIDE DEF L, D
    <2>3. \A k, o : [L EXCEPT !.pc = "commit", !.dirty = Reactivation(L), !.key = k, !.obj = o].pc = "commit"
      BY <1>2 DEF L, Locals
    <2>4. \A c : AfterSelectError(D, c).pc \in {"done", "close"}
      BY <2>1, ExitPcs
    <2>5. loc[r].pc = "select" /\ current' = current
      BY <1>6 DEF Select
    <2> QED BY <1>4, <2>2, <2>3, <2>4, <2>5
  <1>7. CASE SelectCommit(r)
    <2>1. AfterSelectError(Expire(loc[r]), "DB_UNAVAILABLE").pc \in {"done", "close"}
      BY <1>3, ExitPcs
    <2>2. [loc[r] EXCEPT !.pc = "gate", !.dirty = NoColumns, !.last = loc[r].key].pc = "gate"
      BY <1>1 DEF Locals
    <2> QED BY <1>4, <1>7, <2>1, <2>2 DEF SelectCommit
  <1>8. CASE Close(r)
    BY <1>1, <1>4, <1>8, ExitPcs DEF Close
  <1>9. CASE LoopExit(r)
    BY <1>1, <1>4, <1>9, ExitPcs DEF LoopExit
  <1>10. CASE Refresh4xx(r)
    <2>1. /\ [loc[r] EXCEPT !.pc = "punish"].pc = "punish"
          /\ \A o : [loc[r] EXCEPT !.pc = "punish", !.obj = o].pc = "punish"
          /\ [Expire(loc[r]) EXCEPT !.pc = "punish"].pc = "punish"
      BY <1>1, <1>3 DEF Locals
    <2> QED BY <1>4, <1>10, <2>1 DEF Refresh4xx
  <1>11. CASE Punish(r)
    <2>1. /\ \A o : AfterPunish(loc[r], o).pc \in {"done", "gate", "select"}
          /\ AfterPunish(Expire(loc[r]), NULL).pc \in {"done", "gate", "select"}
      BY <1>1, <1>3, ExitPcs
    <2> QED BY <1>4, <1>11, <2>1 DEF Punish
  <1>12. CASE Succeed(r)
    BY <1>1, <1>4, <1>12, ExitPcs DEF Succeed
  <1> QED BY <1>5, <1>6, <1>7, <1>8, <1>9, <1>10, <1>11, <1>12

\* A step that neither takes nor returns a lease.
LEMMA LeaseStays ==
    ASSUME LeaseInv, current' = current, NEW r \in Requests,
           \A q \in Requests \ {r} : loc'[q] = loc[q],
           Holds(loc'[r]) <=> Holds(loc[r]), Holds(loc[r]) => loc'[r].key = loc[r].key
    PROVE  LeaseInv'
  <1>1. \A k \in Keys : Holders(k)' = Holders(k)
    BY DEF Holders, Holds, Errors
  <1> QED BY <1>1 DEF LeaseInv, Counted

\* A lease of key k is taken by a call that had none.
LEMMA LeaseTaken ==
    ASSUME TypeOK, LeaseInv, NEW r \in Requests, NEW k \in Keys, Acquirable(k),
           current' = [current EXCEPT ![k] = @ + Counted],
           \A q \in Requests \ {r} : loc'[q] = loc[q],
           ~Holds(loc[r]), Holds(loc'[r]), loc'[r].key = k
    PROVE  LeaseInv'
  <1>1. \A q \in Keys \ {k} : Holders(q)' = Holders(q) /\ current'[q] = current[q]
    BY DEF Holders, Holds, Errors, TypeOK
  <1>2. Holders(k)' = Holders(k) \cup {r} /\ r \notin Holders(k)
    BY DEF Holders, Holds, Errors
  <1>3. IsFiniteSet(Holders(k)) /\ current[k] = Counted * Cardinality(Holders(k))
    BY DEF LeaseInv
  <1>4. /\ IsFiniteSet(Holders(k)')
        /\ Cardinality(Holders(k)') = Cardinality(Holders(k)) + 1
        /\ Cardinality(Holders(k)) \in Nat
    BY <1>2, <1>3, FS_AddElement, FS_CardinalityType
  <1>5. current'[k] = current[k] + Counted /\ current[k] \in Nat
    BY DEF TypeOK
  <1>6. current'[k] = Counted * Cardinality(Holders(k)')
    BY <1>3, <1>4, <1>5 DEF Counted
  <1>7. MaxConcurrent > 0 => current'[k] <= MaxConcurrent
    BY <1>5, ForwarderAssumption DEF Acquirable, Counted
  <1> QED BY <1>1, <1>4, <1>6, <1>7 DEF LeaseInv, Counted

\* The lease a call holds is returned.
LEMMA LeaseReturned ==
    ASSUME TypeOK, LeaseInv, NEW r \in Requests, NEW k \in Keys, current' = Release(k),
           \A q \in Requests \ {r} : loc'[q] = loc[q],
           Holds(loc[r]), loc[r].key = k, ~Holds(loc'[r])
    PROVE  LeaseInv'
  <1>1. \A q \in Keys \ {k} : Holders(q)' = Holders(q) /\ current'[q] = current[q]
    BY DEF Holders, Holds, Errors, TypeOK, Release
  <1>2. Holders(k)' = Holders(k) \ {r} /\ r \in Holders(k)
    BY DEF Holders, Holds, Errors
  <1>3. IsFiniteSet(Holders(k)) /\ current[k] = Counted * Cardinality(Holders(k))
    BY DEF LeaseInv
  <1>4. /\ IsFiniteSet(Holders(k)')
        /\ Cardinality(Holders(k)') = Cardinality(Holders(k)) - 1
        /\ Cardinality(Holders(k)') \in Nat /\ Cardinality(Holders(k)) \in Nat
    BY <1>2, <1>3, FS_RemoveElement, FS_CardinalityType
  <1>5. current'[k] = AtLeast(current[k] - Counted, 0) /\ current[k] \in Nat
    BY DEF TypeOK, Release
  <1>6. current'[k] = Counted * Cardinality(Holders(k)')
    BY <1>3, <1>4, <1>5 DEF Counted, AtLeast
  <1>7. MaxConcurrent > 0 => current'[k] <= MaxConcurrent
    BY <1>5, ForwarderAssumption DEF Counted, AtLeast, LeaseInv
  <1> QED BY <1>1, <1>4, <1>6, <1>7 DEF LeaseInv, Counted

LEMMA LeaseStep ==
    ASSUME TypeInv, LeaseInv, NEW r \in Requests, Start(r) \/ Step(r)
    PROVE  LeaseInv'
  <1>1. TypeOK /\ loc[r] \in Locals /\ loc \in [Requests -> Locals] /\ OutcomeFits(loc[r])
    BY DEF TypeInv, TypeOK
  <1>2. loc[r].pc \in Keyed => loc[r].key \in Keys
    BY <1>1 DEF OutcomeFits, Locals
  <1>3. CASE \/ Start(r) \/ Select(r) \/ SelectCommit(r) \/ Close(r) \/ LoopExit(r)
             \/ Refresh4xx(r) \/ Punish(r) \/ Succeed(r)
    BY <1>3, QuietSteps, LeaseStays
  <1>4. ASSUME NEW M, Set(r, M)
        PROVE  loc'[r] = M /\ \A q \in Requests \ {r} : loc'[q] = loc[q]
    BY <1>1, <1>4 DEF Set
  <1>5. CASE Gate(r)
    <2>1. loc[r].pc = "gate" /\ loc[r].key \in Keys /\ ~Holds(loc[r])
      BY <1>2, <1>5 DEF Gate, Keyed, Holds
    <2>2. CASE Set(r, PassOver(loc[r])) /\ UNCHANGED current
      <3>1. ~Holds(PassOver(loc[r]))
        BY <1>1, ExitPcs DEF Holds
      <3> QED BY <1>4, <2>1, <2>2, <3>1, LeaseStays
    <2>3. CASE /\ Acquirable(loc[r].key)
               /\ current' = [current EXCEPT ![loc[r].key] = @ + Counted]
               /\ Set(r, [loc[r] EXCEPT !.pc = IF loc[r].key \in Undecryptable THEN "decrypt"
                                               ELSE "upstream"])
      <3> DEFINE M == [loc[r] EXCEPT !.pc = IF loc[r].key \in Undecryptable THEN "decrypt"
                                            ELSE "upstream"]
      <3>1. M.key = loc[r].key /\ Holds(M)
        BY <1>1 DEF Locals, Holds
      <3>2. loc'[r] = M /\ \A q \in Requests \ {r} : loc'[q] = loc[q]
        BY <1>4, <2>3
      <3> HIDE DEF M
      <3> QED BY <1>1, <2>1, <2>3, <3>1, <3>2, LeaseTaken
    <2> QED BY <1>5, <2>2, <2>3 DEF Gate
  <1>6. CASE DecryptFailed(r)
    <2>1. loc[r].pc = "decrypt" /\ loc[r].key \in Keys /\ Holds(loc[r]) /\ current' = Release(loc[r].key)
      BY <1>2, <1>6 DEF DecryptFailed, Keyed, Holds
    <2> DEFINE Switch(o) == IF loc[r].pinned THEN Raised(loc[r], "KEY_DECRYPT_FAILED")
                            ELSE [loc[r] EXCEPT !.pc = "select", !.tried = @ \cup {loc[r].key},
                                                !.retry = @ + 1, !.decryptFailed = TRUE, !.obj = o]
    <2>2. \A o : Switch(o).pc \in {"done", "select"} /\ Expire(Switch(o)).pc \in {"done", "select"}
      <3>1. /\ Raised(loc[r], "KEY_DECRYPT_FAILED").pc = "done"
            /\ Expire(Raised(loc[r], "KEY_DECRYPT_FAILED")).pc = "done"
        BY <1>1, ExitPcs DEF Raised, Ended, Expire, Locals
      <3>2. ASSUME NEW o, NEW K, K = [loc[r] EXCEPT !.pc = "select", !.tried = @ \cup {loc[r].key},
                                          !.retry = @ + 1, !.decryptFailed = TRUE, !.obj = o]
            PROVE  K.pc = "select" /\ Expire(K).pc = "select"
        BY <1>1, <3>2 DEF Expire, Locals
      <3> QED BY <3>1, <3>2
    <2>3. \/ Set(r, Switch(DisableDecryptFailed(Held(loc[r]))))
          \/ Set(r, Expire(Switch(NULL)))
      BY <1>6 DEF DecryptFailed
    <2> HIDE DEF Switch
    <2>4. loc'[r].pc \in {"done", "select"} /\ \A q \in Requests \ {r} : loc'[q] = loc[q]
      BY <1>4, <2>2, <2>3
    <2>5. ~Holds(loc'[r])
      BY <2>4 DEF Holds
    <2> QED BY <1>1, <2>1, <2>4, <2>5, LeaseReturned
  <1>7. CASE Upstream(r)
    <2>1. loc[r].pc = "upstream" /\ loc[r].key \in Keys /\ Holds(loc[r])
      BY <1>2, <1>7 DEF Upstream, Keyed, Holds
    <2>2. PICK u \in Outcomes :
          \/ /\ u \in Errors /\ UNCHANGED current
             /\ Set(r, [loc[r] EXCEPT !.pc = "failure", !.outcome = u, !.used = @ \cup {loc[r].key}])
          \/ /\ u \in Classified /\ current' = Release(loc[r].key)
             /\ Set(r, [loc[r] EXCEPT !.pc = Handler(u), !.outcome = u,
                                      !.used = @ \cup {loc[r].key}, !.attempts = @ + 1,
                                      !.retry = IF loc[r].pinned THEN loc[r].attempts ELSE @])
      BY <1>7 DEF Upstream, Errors
    <2>3. CASE /\ u \in Errors /\ UNCHANGED current
               /\ Set(r, [loc[r] EXCEPT !.pc = "failure", !.outcome = u, !.used = @ \cup {loc[r].key}])
      <3> DEFINE M == [loc[r] EXCEPT !.pc = "failure", !.outcome = u, !.used = @ \cup {loc[r].key}]
      <3>1. Holds(M) /\ M.key = loc[r].key
        BY <1>1, <2>3 DEF Holds, Locals
      <3> HIDE DEF M
      <3> QED BY <1>4, <2>1, <2>3, <3>1, LeaseStays DEF M
    <2>4. CASE /\ u \in Classified /\ current' = Release(loc[r].key)
               /\ Set(r, [loc[r] EXCEPT !.pc = Handler(u), !.outcome = u,
                                      !.used = @ \cup {loc[r].key}, !.attempts = @ + 1,
                                      !.retry = IF loc[r].pinned THEN loc[r].attempts ELSE @])
      <3>1. loc'[r].pc = Handler(u) /\ loc'[r].outcome = u
        BY <1>1, <2>4 DEF Set, Locals
      <3>2. ~Holds(loc'[r])
        BY <2>4, <3>1 DEF Holds, Handler, Classified, Errors
      <3>3. \A q \in Requests \ {r} : loc'[q] = loc[q]
        BY <1>4, <2>4
      <3> QED BY <1>1, <2>1, <2>4, <3>2, <3>3, LeaseReturned
    <2> QED BY <2>2, <2>3, <2>4
  <1>8. CASE RecordFailure(r)
    <2>1. loc[r].pc = "failure" /\ loc[r].key \in Keys
      BY <1>2, <1>8 DEF RecordFailure, Keyed
    <2>2. loc'[r].pc = "done" /\ \A q \in Requests \ {r} : loc'[q] = loc[q]
      BY <1>1, <1>4, <1>8, ExitPcs DEF RecordFailure
    <2>3. ~Holds(loc'[r])
      BY <2>2 DEF Holds
    <2>4. CASE loc[r].outcome \in Errors /\ current' = Release(loc[r].key)
      BY <1>1, <2>1, <2>2, <2>3, <2>4, LeaseReturned DEF Holds
    <2>5. CASE loc[r].outcome = "upstream_5xx" /\ UNCHANGED current
      BY <2>1, <2>2, <2>3, <2>5, LeaseStays DEF Holds, Errors
    <2> QED BY <1>8, <2>4, <2>5 DEF RecordFailure, Errors
  <1> QED BY <1>3, <1>5, <1>6, <1>7, <1>8 DEF Step

\* The concurrency counter of a key is the number of forward calls inside the
\* try ... finally that owns a lease of it, and stays within max_concurrent, on
\* every path through forward (ConcurrencyManager.try_acquire, Lease.release).
THEOREM LeasesBalancedHolds == Spec => []LeasesBalanced
  <1>1. Init => LeaseInv
    <2> SUFFICES ASSUME Init PROVE LeaseInv
      OBVIOUS
    <2>1. \A r \in Requests : loc[r].pc = "idle"
      BY DEF Init, Fresh
    <2>2. \A k \in Keys : Holders(k) = {}
      BY <2>1 DEF Holders
    <2>3. \A k \in Keys : IsFiniteSet(Holders(k)) /\ Cardinality(Holders(k)) = 0 /\ current[k] = 0
      BY <2>2, FS_EmptySet DEF Init
    <2>4. Counted * 0 = 0 /\ (MaxConcurrent > 0 => 0 <= MaxConcurrent)
      BY ForwarderAssumption DEF Counted
    <2> QED BY <2>3, <2>4 DEF LeaseInv
  <1>2. TypeInv /\ LeaseInv /\ [Next]_vars => LeaseInv'
    <2> SUFFICES ASSUME TypeInv, LeaseInv, [Next]_vars PROVE LeaseInv'
      OBVIOUS
    <2>1. CASE UNCHANGED <<current, loc>>
      <3>1. \A k \in Keys : Holders(k)' = Holders(k)
        BY <2>1 DEF Holders
      <3> QED BY <2>1, <3>1 DEF LeaseInv, Counted
    <2>2. ASSUME NEW k \in Keys, ProbeStart(k) \/ ProbeApply(k) \/ Admin(k)
          PROVE  UNCHANGED <<current, loc>>
      BY <2>2 DEF ProbeStart, ProbeApply, Admin, AdminDisable, AdminEnable, AdminRevive,
                  AdminResetCooldown
    <2> QED BY <2>1, <2>2, LeaseStep DEF Next, Tick, Quiescent, vars
  <1>3. LeaseInv => LeasesBalanced
    BY DEF LeaseInv, LeasesBalanced
  <1> QED BY <1>1, <1>2, <1>3, TypeInit, TypeNext, PTL DEF Spec

-----------------------------------------------------------------------------
(***************************************************************************)
(* The bookkeeping of the retry loop: the keys given up (tried), the keys  *)
(* asked (used), attempts, retry_count and the last error response.        *)
(***************************************************************************)
Waiting == {"idle", "select", "commit", "close"}
Serving == {"gate", "decrypt", "upstream"}
Answered == {"refresh", "punish", "failure", "ok"}

SelectionErrors == {"ALL_KEYS_DISABLED", "ALL_KEYS_NO_CREDITS", "ALL_KEYS_COOLING",
                    "ALL_KEYS_RATE_LIMITED", "NO_KEY_AVAILABLE", "ALL_KEYS_BUSY"}

\* Wherever the call is.
Core(L) ==
    /\ L.attempts <= Budget
    /\ L.pinned => L.key = L.pin /\ L.lastErr = NULL /\ L.used \subseteq {L.pin}
    /\ ~L.pinned => /\ IsFiniteSet(L.tried) /\ IsFiniteSet(L.used)
                    /\ L.attempts <= Cardinality(L.used) /\ Cardinality(L.used) <= Budget
    /\ L.lastErr # NULL => L.last # NULL /\ L.attempts > 0

\* Depending on where it is.
Placed(L) ==
    /\ L.pinned => L.pc \notin Waiting
    /\ L.pc = "idle" => L.used = {} /\ L.attempts = 0 /\ L.lastErr = NULL
    /\ L.pc \in Serving \cup {"commit"} => L.attempts < Budget
    /\ ~L.pinned =>
         /\ L.pc # "done" => L.retry = Cardinality(L.tried)
         /\ L.pc \in Keyed => L.key \notin L.tried
         /\ L.pc \in Waiting => L.last \in L.tried \cup {NULL}
         /\ L.pc \in Serving \cup Answered => L.last = L.key
         /\ L.pc \in Waiting \cup Serving => L.used \subseteq L.tried
         /\ L.pc \in Answered => L.key \in L.used /\ L.used \subseteq L.tried \cup {L.key}
         /\ L.pc \notin {"failure", "done"} => L.attempts = Cardinality(L.used)

\* What the call answers.
Final(L) ==
    L.pc = "done" =>
        /\ ~L.pinned /\ L.ans.of # NULL => L.ans.retry = Cardinality(L.tried \ {L.ans.key})
        /\ L.lastErr # NULL /\ ~L.decryptFailed => L.ans.code \notin SelectionErrors

Counts(L) == Core(L) /\ Placed(L) /\ Final(L)

\* The call has the same books.
Same(L, M) ==
    /\ M.pin = L.pin /\ M.pinned = L.pinned /\ M.key = L.key /\ M.last = L.last
    /\ M.tried = L.tried /\ M.used = L.used /\ M.attempts = L.attempts
    /\ M.retry = L.retry /\ M.lastErr = L.lastErr

\* Moving on with the same books.
LEMMA MoveCounts ==
    ASSUME NEW L, NEW M, Counts(L), Same(L, M), L.pc # "done",
           \/ M.pc = L.pc
           \/ L.pc = "idle" /\ M.pc = "select" /\ ~L.pinned
           \/ L.pc \in {"select", "commit"} /\ M.pc = "close"
           \/ L.pc = "gate" /\ M.pc \in {"decrypt", "upstream"}
           \/ L.pc = "refresh" /\ M.pc = "punish"
    PROVE  Counts(M)
  <1>1. Core(M)
    BY DEF Counts, Core, Same
  <1>2. Placed(M)
    BY DEF Counts, Placed, Same, Waiting, Serving, Answered, Keyed
  <1>3. Final(M)
    BY DEF Final
  <1> QED BY <1>1, <1>2, <1>3 DEF Counts

\* A finished call.
LEMMA EndedCounts ==
    ASSUME NEW L \in Locals, Core(L), NEW code, NEW of, NEW retry,
           of # NULL /\ ~L.pinned => retry = Cardinality(L.tried \ {L.last}),
           L.lastErr # NULL /\ ~L.decryptFailed => code \notin SelectionErrors
    PROVE  Counts(Ended(L, code, of, retry))
  <1> DEFINE a == [code |-> code, key |-> L.last, of |-> of, retry |-> retry]
             M == Ended(L, code, of, retry)
  <1>1. a.code = code /\ a.key = L.last /\ a.of = of /\ a.retry = retry
    OBVIOUS
  <1> HIDE DEF a
  <1>2. M = [L EXCEPT !.pc = "done", !.obj = NULL, !.pinObj = NULL, !.dirty = NoColumns, !.ans = a]
    BY DEF Ended, a
  <1>3. Same(L, M) /\ M.pc = "done" /\ M.ans = a /\ M.decryptFailed = L.decryptFailed
    BY <1>2 DEF Same, Locals
  <1> HIDE DEF M
  <1>4. Core(M)
    BY <1>3 DEF Core, Same
  <1>5. Placed(M)
    BY <1>3 DEF Placed, Same, Waiting, Serving, Answered, Keyed, Core
  <1>6. Final(M)
    BY <1>1, <1>3 DEF Final, Same
  <1> QED BY <1>4, <1>5, <1>6 DEF Counts, M

LEMMA RaisedCounts ==
    ASSUME NEW L \in Locals, Core(L), NEW code,
           L.lastErr # NULL /\ ~L.decryptFailed => code \notin SelectionErrors
    PROVE  Counts(Raised(L, code))
  BY EndedCounts DEF Raised

\* The key at hand answers: it is not among those given up.
LEMMA ReturnedCounts ==
    ASSUME NEW L, Fits(L), Counts(L), L.pc \in Answered, L.outcome \in Classified
    PROVE  Counts(Returned(L, L.retry))
  <1>1. ~L.pinned => L.retry = Cardinality(L.tried \ {L.last})
    <2> SUFFICES ASSUME ~L.pinned PROVE L.retry = Cardinality(L.tried \ {L.last})
      OBVIOUS
    <2>1. L.last \notin L.tried
      BY DEF Counts, Placed, Answered, Keyed
    <2>2. L.tried \ {L.last} = L.tried
      BY <2>1
    <2> QED BY <2>2 DEF Counts, Placed, Answered
  <1>2. L.outcome \notin SelectionErrors
    BY DEF Classified, SelectionErrors
  <1> QED BY <1>1, <1>2, EndedCounts DEF Returned, Counts, Fits

\* An earlier key's error response is returned: the last key was given up.
LEMMA LastErrorCounts ==
    ASSUME NEW L, Fits(L), Counts(L), L.pc \in {"close", "select"}, L.lastErr # NULL
    PROVE  Counts(Ended(L, L.outcome, L.lastErr, AtLeast(L.retry - 1, 0)))
  <1>1. ~L.pinned /\ L.last \in L.tried /\ IsFiniteSet(L.tried) /\ L.retry = Cardinality(L.tried)
    BY DEF Counts, Core, Placed, Waiting
  <1>2. /\ Cardinality(L.tried \ {L.last}) = Cardinality(L.tried) - 1
        /\ Cardinality(L.tried \ {L.last}) \in Nat /\ Cardinality(L.tried) \in Nat
    BY <1>1, FS_RemoveElement, FS_CardinalityType
  <1>3. AtLeast(L.retry - 1, 0) = Cardinality(L.tried \ {L.last})
    BY <1>1, <1>2 DEF AtLeast
  <1>4. L.outcome \notin SelectionErrors
    BY ForwarderAssumption DEF Fits, OutcomeFits, Errors, Classified, SelectionErrors
  <1> QED BY <1>3, <1>4, EndedCounts DEF Counts, Fits

\* A call of the pool gives its key up and selects again.
LEMMA GiveUpCounts ==
    ASSUME NEW L, Fits(L), Counts(L), ~L.pinned, L.pc \in Serving \cup {"punish"},
           NEW M, M.pin = L.pin, M.pinned = L.pinned, M.key = L.key, M.last = L.last,
           M.tried = L.tried \cup {L.key}, M.used = L.used, M.attempts = L.attempts,
           M.retry = L.retry + 1, M.lastErr \in {L.lastErr, L.key},
           M.lastErr = L.key => L.attempts > 0 \/ L.lastErr = L.key,
           L.key # NULL
    PROVE  /\ Core(M)
           /\ M.tried \ {M.last} = L.tried /\ L.retry = Cardinality(L.tried)
           /\ M.pc = "select" => Counts(M)
  <1>1. /\ L.key \notin L.tried /\ IsFiniteSet(L.tried) /\ L.last = L.key
        /\ L.retry = Cardinality(L.tried)
    BY DEF Counts, Core, Placed, Serving, Answered, Keyed
  <1>2. IsFiniteSet(M.tried) /\ Cardinality(M.tried) = L.retry + 1
    <2>1. /\ IsFiniteSet(L.tried \cup {L.key})
          /\ Cardinality(L.tried \cup {L.key}) = Cardinality(L.tried) + 1
      BY <1>1, FS_AddElement
    <2> QED BY <1>1, <2>1
  <1>3. Core(M)
    BY <1>1, <1>2 DEF Counts, Core
  <1>4. ASSUME M.pc = "select" PROVE Counts(M)
    <2>1. M.used \subseteq M.tried
      BY DEF Counts, Placed, Serving, Answered
    <2>2. M.attempts = Cardinality(M.used)
      BY DEF Counts, Placed, Serving
    <2>3. Placed(M)
      BY <1>1, <1>2, <1>4, <2>1, <2>2 DEF Placed, Waiting, Serving, Answered, Keyed
    <2> QED BY <1>3, <1>4, <2>3 DEF Counts, Final
  <1> QED BY <1>1, <1>3, <1>4

\* The steps of a call, one lemma each: they keep the books.
LEMMA StartCounts ==
    ASSUME TypeOK, NEW r \in Requests, Start(r), Fits(loc[r]), Counts(loc[r])
    PROVE  \E M : Set(r, M) /\ Counts(M)
  <1> DEFINE L == loc[r]
             G == [L EXCEPT !.pc = "gate", !.pinned = TRUE, !.key = L.pin,
                            !.last = L.pin, !.obj = keys[L.pin]]
  <1>1. L.pc = "idle" /\ L \in Locals /\ Counts(L)
    BY DEF Start, Fits
  <1> HIDE DEF L
  <1>2. /\ ~L.pinned /\ L.used = {} /\ L.attempts = 0 /\ L.lastErr = NULL
    BY <1>1 DEF Counts, Placed, Waiting
  <1>3. Counts([L EXCEPT !.pc = "select"])
    <2> DEFINE M == [L EXCEPT !.pc = "select"]
    <2>1. M.pc = "select" /\ Same(L, M)
      BY <1>1 DEF Locals, Same
    <2> HIDE DEF M
    <2> QED BY <1>1, <1>2, <2>1, MoveCounts DEF M
  <1>4. Counts([L EXCEPT !.pc = "select", !.pinObj = keys[L.pin]])
    <2> DEFINE M == [L EXCEPT !.pc = "select", !.pinObj = keys[L.pin]]
    <2>1. M.pc = "select" /\ Same(L, M)
      BY <1>1 DEF Locals, Same
    <2> HIDE DEF M
    <2> QED BY <1>1, <1>2, <2>1, MoveCounts DEF M
  <1>5. Counts(G)
    <2>1. /\ G.pc = "gate" /\ G.pinned = TRUE /\ G.key = G.pin /\ G.lastErr = NULL
          /\ G.used = {} /\ G.attempts = 0
      BY <1>1, <1>2 DEF Locals
    <2> HIDE DEF G
    <2>2. Core(G)
      BY <2>1, ForwarderAssumption DEF Core
    <2>3. Placed(G)
      BY <2>1, ForwarderAssumption DEF Placed, Waiting, Serving, Answered, Keyed
    <2> QED BY <2>1, <2>2, <2>3 DEF Counts, Final
  <1>6. Counts(Raised(L, "DB_UNAVAILABLE"))
    BY <1>1, <1>2, RaisedCounts DEF Counts
  <1> QED BY <1>3, <1>4, <1>5, <1>6 DEF Start, L

LEMMA AfterSelectErrorCounts ==
    ASSUME NEW L \in Locals, Counts(L), L.pc \in {"select", "commit"}, NEW code
    PROVE  Counts(AfterSelectError(L, code))
  <1>1. Counts(Raised(L, "KEY_DECRYPT_FAILED"))
    BY RaisedCounts DEF Counts, SelectionErrors
  <1>2. L.lastErr = NULL => Counts(Raised(L, code))
    BY RaisedCounts DEF Counts
  <1>3. Counts([L EXCEPT !.pc = "close"])
    <2> DEFINE M == [L EXCEPT !.pc = "close"]
    <2>1. M.pc = "close" /\ Same(L, M)
      BY DEF Locals, Same
    <2> HIDE DEF M
    <2> QED BY <2>1, MoveCounts DEF M
  <1> QED BY <1>1, <1>2, <1>3 DEF AfterSelectError

LEMMA ExpireCounts ==
    ASSUME NEW L \in Locals, Counts(L)
    PROVE  Counts(Expire(L))
  <1>1. Same(L, Expire(L)) /\ Expire(L).pc = L.pc
    BY ExpireKeeps DEF Same
  <1>2. Core(Expire(L)) /\ Placed(Expire(L))
    BY <1>1 DEF Counts, Core, Placed, Same
  <1>3. Final(Expire(L))
    BY <1>1, ExpireKeeps DEF Counts, Final
  <1> QED BY <1>2, <1>3 DEF Counts

LEMMA SelectCounts ==
    ASSUME TypeOK, NEW r \in Requests, Select(r), Fits(loc[r]), Counts(loc[r])
    PROVE  \E M : Set(r, M) /\ Counts(M)
  <1> DEFINE L == [loc[r] EXCEPT !.tries = @ + 1]
             D == [L EXCEPT !.dirty = Reactivation(L)]
  <1>1. L \in Locals
    BY DEF Fits, Locals
  <1>2. Same(loc[r], L) /\ L.pc = "select" /\ loc[r].pc = "select" /\ L.attempts < Budget
    BY DEF Select, Fits, Locals, Same
  <1>3. \/ \E blocked : Set(r, AfterSelectError(D, SelectError(L, blocked)))
        \/ \E k \in Eligible(L) :
              Set(r, [L EXCEPT !.pc = "commit", !.dirty = Reactivation(L), !.key = k,
                               !.obj = IF k \in Rested(L) THEN Reactivated(Seen(L, k))
                                       ELSE Seen(L, k)])
    BY DEF Select
  <1> HIDE DEF L
  <1>4. Counts(L)
    BY <1>2, MoveCounts
  <1>5. ASSUME NEW blocked PROVE Counts(AfterSelectError(D, SelectError(L, blocked)))
    <2>1. Reactivation(L) \in Columns
      BY DEF Reactivation, Columns
    <2>2. D \in Locals /\ Same(L, D) /\ D.pc = "select"
      BY <1>1, <1>2, <2>1 DEF Locals, Same
    <2> HIDE DEF D
    <2>3. Counts(D)
      BY <1>2, <1>4, <2>2, MoveCounts
    <2> QED BY <2>2, <2>3, AfterSelectErrorCounts
  <1>6. ASSUME NEW k \in Eligible(L), NEW o
        PROVE  Counts([L EXCEPT !.pc = "commit", !.dirty = Reactivation(L), !.key = k, !.obj = o])
    <2> DEFINE M == [L EXCEPT !.pc = "commit", !.dirty = Reactivation(L), !.key = k, !.obj = o]
    <2>1. k \notin L.tried
      BY DEF Eligible
    <2>2. /\ M.pc = "commit" /\ M.key = k /\ M.pin = L.pin /\ M.pinned = L.pinned
          /\ M.last = L.last /\ M.tried = L.tried /\ M.used = L.used
          /\ M.attempts = L.attempts /\ M.retry = L.retry /\ M.lastErr = L.lastErr
      BY <1>1 DEF Locals
    <2> HIDE DEF M
    <2>3. ~L.pinned
      BY <1>2, <1>4 DEF Counts, Placed, Waiting
    <2>4. Core(M)
      BY <1>4, <2>2, <2>3 DEF Counts, Core
    <2>5. Placed(M)
      BY <1>2, <1>4, <2>1, <2>2, <2>3 DEF Counts, Placed, Waiting, Serving, Answered, Keyed
    <2> QED BY <2>2, <2>4, <2>5 DEF Counts, Final, M
  <1> QED BY <1>3, <1>5, <1>6

LEMMA SelectCommitCounts ==
    ASSUME TypeOK, NEW r \in Requests, SelectCommit(r), Fits(loc[r]), Counts(loc[r])
    PROVE  \E M : Set(r, M) /\ Counts(M)
  <1> DEFINE L == loc[r]
             G == [L EXCEPT !.pc = "gate", !.dirty = NoColumns, !.last = L.key]
  <1>1. L \in Locals /\ L.pc = "commit" /\ Counts(L) /\ L.key # NULL /\ Fits(L)
    BY DEF SelectCommit, Fits, OutcomeFits, Keyed
  <1> HIDE DEF L
  <1>2. Counts(G)
    <2>1. /\ G.pc = "gate" /\ G.key = L.key /\ G.pin = L.pin /\ G.pinned = L.pinned
          /\ G.last = L.key /\ G.tried = L.tried /\ G.used = L.used
          /\ G.attempts = L.attempts /\ G.retry = L.retry /\ G.lastErr = L.lastErr
      BY <1>1 DEF Locals
    <2> HIDE DEF G
    <2>2. ~L.pinned
      BY <1>1 DEF Counts, Placed, Waiting
    <2>3. Core(G)
      BY <1>1, <2>1, <2>2 DEF Counts, Core
    <2>4. Placed(G)
      BY <1>1, <2>1, <2>2 DEF Counts, Placed, Waiting, Serving, Answered, Keyed
    <2> QED BY <2>1, <2>3, <2>4 DEF Counts, Final
  <1>3. Expire(L) \in Locals /\ Expire(L).pc = "commit" /\ Counts(Expire(L))
    BY <1>1, ExpireKeeps, ExpireFits, ExpireCounts DEF Fits
  <1>4. Counts(AfterSelectError(Expire(L), "DB_UNAVAILABLE"))
    BY <1>3, AfterSelectErrorCounts
  <1> QED BY <1>2, <1>4 DEF SelectCommit, L

LEMMA CloseCounts ==
    ASSUME TypeOK, NEW r \in Requests, Close(r), Fits(loc[r]), Counts(loc[r])
    PROVE  \E M : Set(r, M) /\ Counts(M)
  BY LastErrorCounts DEF Close, Fits, OutcomeFits

LEMMA LoopExitCounts ==
    ASSUME TypeOK, NEW r \in Requests, LoopExit(r), Fits(loc[r]), Counts(loc[r])
    PROVE  \E M : Set(r, M) /\ Counts(M)
  <1>1. loc[r].attempts = 0 => loc[r].lastErr = NULL
    BY DEF Counts, Core
  <1>2. loc[r].lastErr = NULL => /\ Counts(Raised(loc[r], "ALL_KEYS_BUSY"))
                                 /\ Counts(Raised(loc[r], "UPSTREAM_UNAVAILABLE"))
    BY RaisedCounts DEF Counts, Fits
  <1> QED BY <1>1, <1>2, LastErrorCounts DEF LoopExit

LEMMA GateCounts ==
    ASSUME TypeOK, NEW r \in Requests, Gate(r), Fits(loc[r]), Counts(loc[r])
    PROVE  \E M : Set(r, M) /\ Counts(M)
  <1> DEFINE L == loc[r]
  <1>1. L \in Locals /\ L.pc = "gate" /\ Counts(L) /\ L.key # NULL /\ Fits(L)
    BY DEF Gate, Fits, OutcomeFits, Keyed
  <1>2. \/ Set(r, PassOver(L))
        \/ \E p \in {"decrypt", "upstream"} : Set(r, [L EXCEPT !.pc = p])
    BY DEF Gate
  <1> HIDE DEF L
  <1>3. L.pinned => Counts(Raised(L, "ALL_KEYS_BUSY"))
    BY <1>1, RaisedCounts DEF Counts, Core
  <1>4. ~L.pinned => Counts([L EXCEPT !.pc = "select", !.tried = @ \cup {L.key}, !.retry = @ + 1])
    <2> DEFINE M == [L EXCEPT !.pc = "select", !.tried = @ \cup {L.key}, !.retry = @ + 1]
    <2>1. /\ M.pc = "select" /\ M.key = L.key /\ M.pin = L.pin /\ M.pinned = L.pinned
          /\ M.last = L.last /\ M.tried = L.tried \cup {L.key} /\ M.used = L.used
          /\ M.attempts = L.attempts /\ M.retry = L.retry + 1 /\ M.lastErr = L.lastErr
      BY <1>1 DEF Locals
    <2> HIDE DEF M
    <2>2. ~L.pinned => Counts(M)
      BY <1>1, <2>1, GiveUpCounts DEF Serving
    <2> QED BY <2>2 DEF M
  <1>5. Counts(PassOver(L))
    BY <1>3, <1>4 DEF PassOver
  <1>6. ASSUME NEW p \in {"decrypt", "upstream"} PROVE Counts([L EXCEPT !.pc = p])
    <2> DEFINE M == [L EXCEPT !.pc = p]
    <2>1. M.pc = p /\ Same(L, M)
      BY <1>1 DEF Locals, Same
    <2> HIDE DEF M
    <2> QED BY <1>1, <2>1, MoveCounts DEF M
  <1> QED BY <1>2, <1>5, <1>6

LEMMA DecryptFailedCounts ==
    ASSUME TypeOK, NEW r \in Requests, DecryptFailed(r), Fits(loc[r]), Counts(loc[r])
    PROVE  \E M : Set(r, M) /\ Counts(M)
  <1> DEFINE L == loc[r]
             new == DisableDecryptFailed(Held(L))
             Switched(o) == [L EXCEPT !.pc = "select", !.tried = @ \cup {L.key},
                                      !.retry = @ + 1, !.decryptFailed = TRUE, !.obj = o]
             Switch(o) == IF L.pinned THEN Raised(L, "KEY_DECRYPT_FAILED") ELSE Switched(o)
  <1>1. L \in Locals /\ L.pc = "decrypt" /\ Counts(L) /\ L.key \in Keys /\ L.key # NULL /\ Fits(L)
    BY DEF DecryptFailed, Fits, OutcomeFits, Keyed, Locals
  <1>2. new \in Rows
    BY <1>1, SeenType, WriterTypes, ForwarderAssumption
  <1>3. ASSUME NEW o \in Rows \cup {NULL} PROVE Switch(o) \in Locals /\ Counts(Switch(o))
    <2> HIDE DEF L
    <2>1. Raised(L, "KEY_DECRYPT_FAILED") \in Locals /\ Counts(Raised(L, "KEY_DECRYPT_FAILED"))
      BY <1>1, RaisedFits, RaisedCounts DEF Counts, Fits, ErrorCodes, SelectionErrors
    <2>2. L.tried \cup {L.key} \in SUBSET Keys /\ L.retry + 1 \in Nat
      BY <1>1 DEF Locals
    <2>3. Switched(o) \in Locals
      BY <1>1, <2>2 DEF Locals, Labels
    <2> DEFINE M == Switched(o)
    <2>4. /\ M.pc = "select" /\ M.key = L.key /\ M.pin = L.pin /\ M.pinned = L.pinned
          /\ M.last = L.last /\ M.tried = L.tried \cup {L.key} /\ M.used = L.used
          /\ M.attempts = L.attempts /\ M.retry = L.retry + 1 /\ M.lastErr = L.lastErr
      BY <1>1 DEF Locals
    <2> HIDE DEF M
    <2>5. ~L.pinned => Counts(M)
      BY <1>1, <2>4, GiveUpCounts DEF Serving
    <2> QED BY <2>1, <2>3, <2>5 DEF M
  <1>4. Set(r, Switch(new)) \/ Set(r, Expire(Switch(NULL)))
    BY DEF DecryptFailed
  <1> HIDE DEF L, new, Switch
  <1>5. Counts(Switch(new)) /\ Counts(Expire(Switch(NULL)))
    BY <1>2, <1>3, ExpireCounts
  <1> QED BY <1>4, <1>5

LEMMA UpstreamCounts ==
    ASSUME TypeOK, NEW r \in Requests, Upstream(r), Fits(loc[r]), Counts(loc[r])
    PROVE  \E M : Set(r, M) /\ Counts(M)
  <1> DEFINE L == loc[r]
  <1>1. L \in Locals /\ L.pc = "upstream" /\ Counts(L) /\ L.key # NULL
    BY DEF Upstream, Fits, OutcomeFits, Keyed, Locals
  <1>2. PICK u \in Outcomes :
          \/ u \in Errors /\ Set(r, [L EXCEPT !.pc = "failure", !.outcome = u, !.used = @ \cup {L.key}])
          \/ u \in Classified /\ Set(r, [L EXCEPT !.pc = Handler(u), !.outcome = u,
                                                 !.used = @ \cup {L.key}, !.attempts = @ + 1,
                                                 !.retry = IF L.pinned THEN L.attempts ELSE @])
    BY DEF Upstream, Errors
  <1> HIDE DEF L
  <1>3. ~L.pinned => /\ IsFiniteSet(L.used \cup {L.key})
                     /\ Cardinality(L.used \cup {L.key}) = L.attempts + 1
    <2> SUFFICES ASSUME ~L.pinned PROVE /\ IsFiniteSet(L.used \cup {L.key})
                                        /\ Cardinality(L.used \cup {L.key}) = L.attempts + 1
      OBVIOUS
    <2>1. L.key \notin L.used /\ IsFiniteSet(L.used) /\ L.attempts = Cardinality(L.used)
      BY <1>1 DEF Counts, Core, Placed, Serving, Keyed
    <2> QED BY <2>1, FS_AddElement
  <1>4. L.attempts \in Nat /\ L.attempts < Budget /\ Budget \in Nat
    BY <1>1, ForwarderAssumption DEF Locals, Counts, Placed, Serving
  <1>5. ASSUME NEW M, M.pc \in Answered, M.key = L.key, M.pin = L.pin, M.pinned = L.pinned,
               M.last = L.last, M.tried = L.tried, M.used = L.used \cup {L.key},
               M.attempts \in {L.attempts, L.attempts + 1},
               M.pc # "failure" => M.attempts = L.attempts + 1,
               ~L.pinned => M.retry = L.retry, M.lastErr = L.lastErr
        PROVE  Counts(M)
    <2>1. Core(M)
      <3>1. M.attempts <= Budget /\ (M.lastErr # NULL => M.last # NULL /\ M.attempts > 0)
        BY <1>1, <1>4, <1>5 DEF Counts, Core
      <3>2. M.pinned => M.key = M.pin /\ M.lastErr = NULL /\ M.used \subseteq {M.pin}
        BY <1>1, <1>5 DEF Counts, Core
      <3>3. ~M.pinned => /\ IsFiniteSet(M.tried) /\ IsFiniteSet(M.used)
                         /\ M.attempts <= Cardinality(M.used) /\ Cardinality(M.used) <= Budget
        BY <1>1, <1>3, <1>4, <1>5 DEF Counts, Core
      <3> QED BY <3>1, <3>2, <3>3 DEF Core
    <2>2. Placed(M)
      <3>1. M.pc \notin Waiting /\ M.pc \notin Serving /\ M.pc \notin {"idle", "done", "commit"}
        BY <1>5 DEF Answered, Waiting, Serving
      <3>2. CASE ~M.pinned
        <4>1. L.key \notin L.tried /\ L.last = L.key /\ L.used \subseteq L.tried
              /\ L.retry = Cardinality(L.tried)
          BY <1>1, <1>5, <3>2 DEF Counts, Placed, Serving, Keyed
        <4>2. M.pc # "failure" => M.attempts = Cardinality(M.used)
          BY <1>3, <1>5, <3>2
        <4> QED BY <1>5, <3>1, <3>2, <4>1, <4>2 DEF Placed
      <3>3. CASE M.pinned
        BY <3>1, <3>3 DEF Placed
      <3> QED BY <3>2, <3>3
    <2> QED BY <1>5, <2>1, <2>2 DEF Counts, Final, Answered
  <1>6. CASE u \in Errors /\ Set(r, [L EXCEPT !.pc = "failure", !.outcome = u, !.used = @ \cup {L.key}])
    <2> DEFINE M == [L EXCEPT !.pc = "failure", !.outcome = u, !.used = @ \cup {L.key}]
    <2>1. /\ M.pc = "failure" /\ M.key = L.key /\ M.pin = L.pin /\ M.pinned = L.pinned
          /\ M.last = L.last /\ M.tried = L.tried /\ M.used = L.used \cup {L.key}
          /\ M.attempts = L.attempts /\ M.retry = L.retry /\ M.lastErr = L.lastErr
      BY <1>1 DEF Locals
    <2>2. Set(r, M)
      BY <1>6
    <2> HIDE DEF M
    <2> QED BY <1>5, <2>1, <2>2 DEF Answered
  <1>7. CASE u \in Classified /\ Set(r, [L EXCEPT !.pc = Handler(u), !.outcome = u,
                                                 !.used = @ \cup {L.key}, !.attempts = @ + 1,
                                                 !.retry = IF L.pinned THEN L.attempts ELSE @])
    <2> DEFINE M == [L EXCEPT !.pc = Handler(u), !.outcome = u,
                              !.used = @ \cup {L.key}, !.attempts = @ + 1,
                              !.retry = IF L.pinned THEN L.attempts ELSE @]
    <2>1. /\ M.pc = Handler(u) /\ M.key = L.key /\ M.pin = L.pin /\ M.pinned = L.pinned
          /\ M.last = L.last /\ M.tried = L.tried /\ M.used = L.used \cup {L.key}
          /\ M.attempts = L.attempts + 1 /\ (~L.pinned => M.retry = L.retry) /\ M.lastErr = L.lastErr
      BY <1>1 DEF Locals
    <2>2. Set(r, M)
      BY <1>7
    <2>3. Handler(u) \in Answered
      BY DEF Handler, Answered
    <2> HIDE DEF M
    <2> QED BY <1>5, <2>1, <2>2, <2>3
  <1> QED BY <1>2, <1>6, <1>7

LEMMA Refresh4xxCounts ==
    ASSUME TypeOK, NEW r \in Requests, Refresh4xx(r), Fits(loc[r]), Counts(loc[r])
    PROVE  \E M : Set(r, M) /\ Counts(M)
  <1> DEFINE L == loc[r]
  <1>1. L \in Locals /\ L.pc = "refresh" /\ Counts(L)
    BY DEF Refresh4xx, Fits
  <1>2. Expire(L) \in Locals /\ Expire(L).pc = "refresh" /\ Counts(Expire(L))
    BY <1>1, ExpireFits, ExpireKeeps, ExpireCounts DEF Fits
  <1>3. ASSUME NEW K, K \in Locals, K.pc = "refresh", Counts(K), NEW o
        PROVE  Counts([K EXCEPT !.pc = "punish"]) /\ Counts([K EXCEPT !.pc = "punish", !.obj = o])
    <2> DEFINE M == [K EXCEPT !.pc = "punish"]
               N == [K EXCEPT !.pc = "punish", !.obj = o]
    <2>1. M.pc = "punish" /\ Same(K, M) /\ N.pc = "punish" /\ Same(K, N)
      BY <1>3 DEF Locals, Same
    <2> HIDE DEF M, N
    <2> QED BY <1>3, <2>1, MoveCounts DEF M, N
  <1>4. \/ Set(r, [L EXCEPT !.pc = "punish"])
        \/ \E o : Set(r, [L EXCEPT !.pc = "punish", !.obj = o])
        \/ Set(r, [Expire(L) EXCEPT !.pc = "punish"])
    BY DEF Refresh4xx
  <1> HIDE DEF L
  <1> QED BY <1>1, <1>2, <1>3, <1>4

LEMMA PunishCounts ==
    ASSUME TypeOK, NEW r \in Requests, Punish(r), Fits(loc[r]), Counts(loc[r])
    PROVE  \E M : Set(r, M) /\ Counts(M)
  <1> DEFINE L == loc[r]
  <1>1. /\ Fits(L) /\ L.pc = "punish" /\ Counts(L) /\ L.key \in Keys /\ L.key # NULL
        /\ L.outcome \in KeyErrors /\ L \in Locals
    BY DEF Punish, Fits, OutcomeFits, Locals, Keyed
  <1>2. Punished(Held(L), L.outcome) \in Rows
    BY <1>1, SeenType, PunishedType DEF TypeOK
  <1>3. ASSUME NEW K, K \in {L, Expire(L)}, NEW o \in Rows \cup {NULL}
        PROVE  Counts(AfterPunish(K, o))
    <2> HIDE DEF L
    <2> DEFINE M == [K EXCEPT !.obj = o, !.tried = @ \cup {K.key},
                              !.retry = @ + 1, !.lastErr = K.key]
               N == [M EXCEPT !.pc = "select"]
               G == [K EXCEPT !.pc = "gate", !.obj = o]
    <2>1. /\ Fits(K) /\ K \in Locals /\ K.pc = "punish" /\ K.key \in Keys /\ K.key # NULL
          /\ K.outcome \in KeyErrors /\ Counts(K)
      BY <1>1, <1>3, ExpireFits, ExpireKeeps, ExpireCounts DEF Fits
    <2>2. K.outcome \in Classified /\ K.outcome \notin SelectionErrors
      BY <2>1 DEF KeyErrors, Classified, SelectionErrors
    <2>3. Counts(Returned(K, K.retry))
      BY <2>1, <2>2, ReturnedCounts DEF Answered
    <2>4. K.attempts < Budget /\ K.pinned => Counts(G)
      <3>1. G.pc = "gate" /\ Same(K, G)
        BY <2>1 DEF Locals, Same
      <3> HIDE DEF G
      <3>2. Core(G)
        BY <2>1, <3>1 DEF Counts, Core, Same
      <3>3. K.attempts < Budget /\ K.pinned => Placed(G)
        BY <2>1, <3>1 DEF Placed, Same, Waiting
      <3> QED BY <3>1, <3>2, <3>3 DEF Counts, Final
    <2>5. /\ M.pc = "punish" /\ M.key = K.key /\ M.pin = K.pin /\ M.pinned = K.pinned
          /\ M.last = K.last /\ M.tried = K.tried \cup {K.key} /\ M.used = K.used
          /\ M.attempts = K.attempts /\ M.retry = K.retry + 1 /\ M.lastErr = K.key
          /\ M.outcome = K.outcome
      BY <2>1 DEF Locals
    <2>6. M \in Locals
      <3>1. K.tried \cup {K.key} \in SUBSET Keys /\ K.retry + 1 \in Nat
        BY <2>1 DEF Locals
      <3> QED BY <2>1, <3>1 DEF Locals
    <2>7. Same(M, N) /\ N.pc = "select"
      BY <2>6 DEF Locals, Same
    <2> HIDE DEF M, N, G
    <2>8. ~K.pinned => K.attempts > 0
      <3> SUFFICES ASSUME ~K.pinned PROVE K.attempts > 0
        OBVIOUS
      <3>1. K.attempts = Cardinality(K.used) /\ K.attempts \in Nat /\ IsFiniteSet(K.used)
        BY <2>1 DEF Counts, Core, Placed, Locals
      <3>2. K.used # {}
        BY <2>1 DEF Counts, Placed, Answered
      <3> QED BY <3>1, <3>2, FS_EmptySet
    <2>9. ~K.pinned => Counts(N)
      BY <2>1, <2>5, <2>7, <2>8, GiveUpCounts DEF Same
    <2>10. ~K.pinned => Counts(Returned(M, M.retry - 1))
      <3> SUFFICES ASSUME ~K.pinned PROVE Counts(Returned(M, M.retry - 1))
        OBVIOUS
      <3>1. Core(M) /\ M.tried \ {M.last} = K.tried /\ K.retry = Cardinality(K.tried)
        BY <2>1, <2>5, <2>8, GiveUpCounts
      <3>2. K.retry \in Nat
        BY <2>1 DEF Locals
      <3>3. M.retry - 1 = K.retry
        BY <2>5, <3>2
      <3>4. M.retry - 1 = Cardinality(M.tried \ {M.last})
        BY <3>1, <3>3
      <3> QED BY <2>2, <2>5, <2>6, <3>1, <3>4, EndedCounts DEF Returned
    <2> QED BY <2>3, <2>4, <2>9, <2>10 DEF AfterPunish, M, N, G
  <1>4. \/ Set(r, AfterPunish(L, Punished(Held(L), L.outcome)))
        \/ Set(r, AfterPunish(Expire(L), NULL))
    BY DEF Punish
  <1> HIDE DEF L
  <1> QED BY <1>2, <1>3, <1>4

LEMMA RecordFailureCounts ==
    ASSUME TypeOK, NEW r \in Requests, RecordFailure(r), Fits(loc[r]), Counts(loc[r])
    PROVE  \E M : Set(r, M) /\ Counts(M)
  <1>1. loc[r].outcome = "upstream_5xx" => Counts(Returned(loc[r], loc[r].retry))
    BY ReturnedCounts DEF RecordFailure, Answered, Classified
  <1>2. /\ Counts(Raised(loc[r], "UPSTREAM_TIMEOUT"))
        /\ Counts(Raised(loc[r], "UPSTREAM_UNAVAILABLE"))
    BY RaisedCounts DEF Counts, Fits, SelectionErrors
  <1> QED BY <1>1, <1>2 DEF RecordFailure

LEMMA SucceedCounts ==
    ASSUME TypeOK, NEW r \in Requests, Succeed(r), Fits(loc[r]), Counts(loc[r])
    PROVE  \E M : Set(r, M) /\ Counts(M)
  <1>1. loc[r].outcome \in {"ok", "passthrough"} => Counts(Returned(loc[r], loc[r].retry))
    BY ReturnedCounts DEF Succeed, Answered, Classified
  <1>2. Counts(Raised(loc[r], "DB_UNAVAILABLE"))
    BY RaisedCounts DEF Counts, Fits, SelectionErrors
  <1> QED BY <1>1, <1>2 DEF Succeed

CountInv == \A r \in Requests : Counts(loc[r])

LEMMA CountInit == Init => CountInv
  <1> SUFFICES ASSUME Init, NEW r \in Requests PROVE Counts(loc[r])
    BY DEF CountInv
  <1>1. PICK pin \in Pins : loc[r] = Fresh(pin)
    BY DEF Init
  <1>2. /\ loc[r].pc = "idle" /\ loc[r].pinned = FALSE /\ loc[r].used = {} /\ loc[r].tried = {}
        /\ loc[r].attempts = 0 /\ loc[r].retry = 0 /\ loc[r].lastErr = NULL /\ loc[r].last = NULL
    BY <1>1 DEF Fresh
  <1>3. Core(loc[r])
    BY <1>2, FS_EmptySet, ForwarderAssumption DEF Core
  <1>4. Placed(loc[r])
    BY <1>2, FS_EmptySet DEF Placed, Waiting, Serving, Answered, Keyed
  <1> QED BY <1>2, <1>3, <1>4 DEF Counts, Final

LEMMA CountNext == TypeInv /\ CountInv /\ [Next]_vars => CountInv'
  <1> SUFFICES ASSUME TypeInv, CountInv, [Next]_vars PROVE CountInv'
    OBVIOUS
  <1>1. CASE loc' = loc
    <2>1. \A r \in Requests : Counts(loc'[r])
      BY <1>1 DEF CountInv
    <2> QED BY <2>1 DEF CountInv, Counts, Core, Placed, Final
  <1>2. ASSUME NEW r \in Requests, Start(r) \/ Step(r) PROVE CountInv'
    <2>1. TypeOK /\ Fits(loc[r]) /\ Counts(loc[r])
      BY DEF TypeInv, TypeOK, Fits, CountInv
    <2>2. PICK M : Set(r, M) /\ Counts(M)
      BY <1>2, <2>1, StartCounts, SelectCounts, SelectCommitCounts, CloseCounts, LoopExitCounts,
         GateCounts, DecryptFailedCounts, UpstreamCounts, Refresh4xxCounts, PunishCounts,
         RecordFailureCounts, SucceedCounts DEF Step
    <2>3. loc'[r] = M /\ \A q \in Requests \ {r} : loc'[q] = loc[q]
      BY <2>1, <2>2 DEF Set, TypeOK
    <2>4. \A q \in Requests : Counts(loc'[q])
      BY <2>2, <2>3 DEF CountInv
    <2> QED BY <2>4 DEF CountInv, Counts, Core, Placed, Final
  <1>3. ASSUME NEW k \in Keys, ProbeStart(k) \/ ProbeApply(k) \/ Admin(k) PROVE loc' = loc
    BY <1>3 DEF ProbeStart, ProbeApply, Admin, AdminDisable, AdminEnable, AdminRevive,
                AdminResetCooldown
  <1> QED BY <1>1, <1>2, <1>3 DEF Next, Tick, Quiescent, vars

LEMMA CountAlways == Spec => [](TypeInv /\ CountInv)
  BY TypeInit, TypeNext, CountInit, CountNext, PTL DEF Spec

\* The retry loop of forward never asks a key twice and makes at most
\* max_retries + 1 upstream calls, for any number of keys and any change of
\* their rows meanwhile; a pinned call asks its own key only.
THEOREM AttemptsDistinctHolds == Spec => []AttemptsDistinct
  <1>1. TypeInv /\ CountInv => AttemptsDistinct
    BY DEF CountInv, Counts, Core, AttemptsDistinct
  <1> QED BY <1>1, CountAlways, PTL

\* The retry_count of a response is the number of keys given up before the
\* key it reports, at every return statement of forward.
THEOREM RetryCountIsSwitchesHolds == Spec => []RetryCountIsSwitches
  <1>1. TypeInv /\ CountInv => RetryCountIsSwitches
    BY DEF CountInv, Counts, Final, RetryCountIsSwitches
  <1> QED BY <1>1, CountAlways, PTL

\* A key's error response is not replaced by an error of the selection that
\* found no other key.
THEOREM LastErrorSurfacesHolds == Spec => []LastErrorSurfaces
  <1>1. TypeInv /\ CountInv => LastErrorSurfaces
    BY DEF CountInv, Counts, Final, LastErrorSurfaces, SelectionErrors
  <1> QED BY <1>1, CountAlways, PTL
=============================================================================
