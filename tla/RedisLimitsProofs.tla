------------------------- MODULE RedisLimitsProofs -------------------------
(***************************************************************************)
(* Safety of the Redis backend for any number of requests and processes,   *)
(* any limits, any skew of their clocks within MaxSkew, any number of      *)
(* failures and crashes, with and without EVAL.                            *)
(***************************************************************************)
EXTENDS RedisLimits, FiniteSetTheorems, TLAPS

(***************************************************************************)
(* The inductive invariant.  What is known of one request with locals L    *)
(* whose entry in the sorted set is e and whose WATCH is w, at time t; b   *)
(* says whether the server knows EVAL.                                     *)
(***************************************************************************)
Sound(L, e, w, t, b) ==
    /\ L.now <= t + MaxSkew
    /\ L.pc \in {"idle", "acquire", "trim", "count", "exec"} => L.lease = "none"
    /\ L.pc \in {"acquire", "trim", "count", "exec"} => L.max \in Limits
    /\ L.pc \in {"trim", "count", "exec", "spend"} => ~b
    /\ L.pc \in {"allow", "spend"} => RatePerMin > 0
    /\ L.pc \in {"trim", "count", "exec"} => w \in {"leases", "dirty"}
    /\ L.ans = "CLIENT_CONCURRENCY_LIMITED" => L.pc = "done"
    /\ e # NULL => L.lease \in {"token", "lost"} /\ L.until = e
    /\ L.lease = "token" /\ L.until > t + MaxSkew => e = L.until

AllSound == \A r \in Requests : Sound(loc[r], zset[r], watched[r], clock, lua)

\* A transaction that will not be aborted still finds room.
Room == \A r \in Requests :
            loc[r].pc = "exec" /\ watched[r] = "leases" => Cardinality(Tokens(zset)) < loc[r].max

\* A request that has removed the old tokens finds an old one only if a rival
\* wrote it since.
Late == \A r \in Requests :
            loc[r].pc = "count" => Cardinality(Expired(zset, loc[r].now)) <= loc[r].rivals

\* A bucket that was never used has paid nothing.
Paid == /\ bucket = NULL => admitted = 0 /\ drift = 0
        /\ BucketAccounted

IInv == TypeOK /\ AllSound /\ Room /\ Late /\ Abstract!WithinLimit /\ Paid

\* Every denial is justified: the step of DenialJustified.
Justified ==
    \A r \in Requests :
        loc[r].pc # "done" /\ loc'[r].ans = "CLIENT_CONCURRENCY_LIMITED"
          => Cardinality(Blockers(loc[r].now)) + loc[r].rivals >= loc[r].max

\* What every step must show.
StepOK == IInv' /\ [Abstract!Next]_(Tokens(zset)) /\ Justified

\* M is L but for the auxiliary count of rivals.
Alike(M, L) ==
    /\ M.pc = L.pc /\ M.now = L.now /\ M.max = L.max /\ M.until = L.until
    /\ M.lease = L.lease /\ M.ans = L.ans

-----------------------------------------------------------------------------
\* A step of r leaves the locals of the others as they are.
LEMMA Moved ==
    ASSUME TypeOK, NEW r \in Requests, NEW L \in Locals, NEW key,
           Set(r, L) \/ SetAndDisturb(r, L, key)
    PROVE  /\ loc' \in [Requests -> Locals] /\ loc'[r] = L
           /\ \A q \in Requests : q # r => Alike(loc'[q], loc[q])
  <1>1. \A q \in Requests :
          /\ loc[q] \in Locals /\ [loc[q] EXCEPT !.rivals = @ + 1] \in Locals
          /\ Alike(loc[q], loc[q]) /\ Alike([loc[q] EXCEPT !.rivals = @ + 1], loc[q])
    BY DEF TypeOK, Locals, Alike
  <1>2. CASE Set(r, L)
    BY <1>1, <1>2 DEF Set, TypeOK
  <1>3. CASE SetAndDisturb(r, L, key)
    <2>1. loc' = [q \in Requests |->
                    IF q = r THEN L
                    ELSE IF q \in Contenders(key) /\ ~lua THEN [loc[q] EXCEPT !.rivals = @ + 1]
                    ELSE loc[q]]
      BY <1>3 DEF SetAndDisturb
    <2> QED BY <1>1, <2>1
  <1> QED BY <1>2, <1>3

\* What is known of a request does not depend on the count of rivals, survives
\* the abort of its transaction and the loss of an entry that has expired for
\* some clock.
LEMMA SoundKept ==
    ASSUME NEW L \in Locals, NEW M \in Locals, NEW e \in Nat \cup {NULL}, NEW w, NEW t \in Nat,
           NEW b, Sound(L, e, w, t, b), Alike(M, L)
    PROVE  /\ Sound(M, e, w, t, b) /\ Sound(M, e, "dirty", t, b)
           /\ \A now \in Nat : e # NULL /\ e <= now /\ now <= t + MaxSkew
                => Sound(M, NULL, w, t, b) /\ Sound(M, NULL, "dirty", t, b)
  BY RedisAssumption DEF Sound, Alike, Locals

\* The constants of the leases and of the bucket.
LEMMA ConstantTypes ==
    /\ LeaseTtl \in Nat /\ Capacity \in Nat /\ NULL \notin Nat
    /\ NULL # "CLIENT_CONCURRENCY_LIMITED" /\ NULL # "CLIENT_RATE_LIMITED"
  <1>1. Larger(Timeout, 1) \in Nat /\ Larger(MaxRetries, 0) + 1 \in Nat
    BY RedisAssumption DEF Larger
  <1>2. \A a, c \in Nat : a * c \in Nat
    OBVIOUS
  <1>3. NULL # "CLIENT_CONCURRENCY_LIMITED" /\ NULL # "CLIENT_RATE_LIMITED"
    BY RedisAssumption DEF Codes
  <1> QED BY <1>1, <1>2, <1>3, RedisAssumption DEF LeaseTtl, Capacity

\* The locals of a request that has its answer.
LEMMA EndedSound ==
    ASSUME NEW L \in Locals, NEW code \in Codes \cup {NULL}
    PROVE  /\ Ended(L, code) \in Locals
           /\ Ended(L, code).pc = "done" /\ Ended(L, code).ans = code
           /\ Ended(L, code).lease = L.lease /\ Ended(L, code).now = 0
           /\ L.lease # "none" => Ended(L, code).until = L.until
           /\ \A e \in Nat \cup {NULL}, t \in Nat : \A w, v, b :
                Sound(L, e, w, t, b) => Sound(Ended(L, code), e, v, t, b)
  <1>1. Fresh \in Locals
    BY RedisAssumption DEF Fresh, Locals, Pcs
  <1>2. /\ Ended(L, code) \in Locals
        /\ Ended(L, code).pc = "done" /\ Ended(L, code).ans = code
        /\ Ended(L, code).lease = L.lease /\ Ended(L, code).now = 0
        /\ L.lease # "none" => Ended(L, code).until = L.until
    BY <1>1 DEF Ended, Locals, Fresh, Pcs
  <1> QED BY <1>2, RedisAssumption DEF Sound, Locals


-----------------------------------------------------------------------------
\* The set of tokens is finite.
LEMMA TokensFinite ==
    ASSUME NEW z
    PROVE  /\ IsFiniteSet(Tokens(z)) /\ Cardinality(Tokens(z)) \in Nat
           /\ \A T \in SUBSET Tokens(z) :
                /\ IsFiniteSet(T) /\ Cardinality(T) \in Nat
                /\ Cardinality(T) <= Cardinality(Tokens(z))
  <1>1. IsFiniteSet(Tokens(z))
    BY FS_Subset, RedisAssumption DEF Tokens
  <1> QED BY <1>1, FS_Subset, FS_CardinalityType

\* The abstract specification counts with the same cardinality.
LEMMA SameCardinality == \A S : Abstract!Cardinality(S) = Cardinality(S)
  <1>1. \A S : Abstract!IsFiniteSet(S) <=> IsFiniteSet(S)
    BY DEF Abstract!IsFiniteSet, IsFiniteSet
  <1> QED BY <1>1 DEF Abstract!Cardinality, Cardinality

\* The abstract leases stay within the limits.
LEMMA LimitKept ==
    ASSUME Abstract!WithinLimit, [Abstract!Next]_(Tokens(zset))
    PROVE  Abstract!WithinLimit'
  <1> USE RedisAssumption
  <1>1. CASE UNCHANGED Tokens(zset)
    BY <1>1 DEF Abstract!WithinLimit
  <1>2. CASE Abstract!Vanish
    <2>1. Tokens(zset)' \in SUBSET Tokens(zset)
      BY <1>2 DEF Abstract!Vanish
    <2>2. /\ Cardinality(Tokens(zset)') <= Cardinality(Tokens(zset))
          /\ Cardinality(Tokens(zset)') \in Nat /\ Cardinality(Tokens(zset)) \in Nat
      BY <2>1, TokensFinite
    <2> QED BY <2>2, SameCardinality DEF Abstract!WithinLimit
  <1>3. ASSUME NEW h \in Requests, NEW max \in Limits, Abstract!Grant(h, max)
        PROVE  Abstract!WithinLimit'
    <2>1. PICK kept \in SUBSET Tokens(zset) :
             h \notin Tokens(zset) /\ Cardinality(kept) < max /\ Tokens(zset)' = kept \cup {h}
      BY <1>3, SameCardinality DEF Abstract!Grant
    <2>2. IsFiniteSet(kept) /\ Cardinality(kept) \in Nat
      BY TokensFinite
    <2>3. Cardinality(Tokens(zset)') = Cardinality(kept) + 1
      BY <2>1, <2>2, FS_AddElement
    <2> QED BY <2>1, <2>2, <2>3, SameCardinality DEF Abstract!WithinLimit
  <1> QED BY <1>1, <1>2, <1>3 DEF Abstract!Next

\* The count of rivals of the others does not fall.
LEMMA RivalsGrow ==
    ASSUME TypeOK, NEW r \in Requests, NEW L, NEW key,
           Set(r, L) \/ SetAndDisturb(r, L, key), NEW q \in Requests, q # r
    PROVE  loc'[q].rivals \in Nat /\ loc'[q].rivals >= loc[q].rivals
  <1>1. /\ loc[q] \in Locals /\ loc[q].rivals \in Nat
        /\ [loc[q] EXCEPT !.rivals = @ + 1].rivals = loc[q].rivals + 1
    BY DEF TypeOK, Locals
  <1>2. CASE Set(r, L)
    <2>1. loc'[q] = loc[q]
      BY <1>2 DEF Set, TypeOK
    <2> QED BY <1>1, <2>1
  <1>3. CASE SetAndDisturb(r, L, key)
    <2>1. loc'[q] = loc[q] \/ loc'[q] = [loc[q] EXCEPT !.rivals = @ + 1]
      BY <1>3 DEF SetAndDisturb
    <2>2. loc'[q].rivals = loc[q].rivals \/ loc'[q].rivals = loc[q].rivals + 1
      BY <1>1, <2>1
    <2> QED BY <1>1, <2>2
  <1> QED BY <1>2, <1>3

\* A write of one token makes at most one more of them old.
LEMMA ExpiredGrows ==
    ASSUME NEW z, NEW y, NEW r \in Requests, NEW now,
           \A q \in Requests : q # r => y[q] \in {z[q], NULL}
    PROVE  /\ Cardinality(Expired(z, now)) \in Nat /\ Cardinality(Expired(y, now)) \in Nat
           /\ Cardinality(Expired(y, now)) <= Cardinality(Expired(z, now)) + 1
  <1>1. IsFiniteSet(Expired(z, now)) /\ Cardinality(Expired(z, now)) \in Nat
    BY FS_Subset, FS_CardinalityType, TokensFinite DEF Expired
  <1>2. /\ IsFiniteSet(Expired(z, now) \cup {r})
        /\ Cardinality(Expired(z, now) \cup {r}) \in Nat
        /\ Cardinality(Expired(z, now) \cup {r}) <= Cardinality(Expired(z, now)) + 1
    BY <1>1, FS_AddElement, FS_CardinalityType
  <1>3. Expired(y, now) \in SUBSET (Expired(z, now) \cup {r})
    BY DEF Expired, Tokens
  <1>4. /\ Cardinality(Expired(y, now)) \in Nat
        /\ Cardinality(Expired(y, now)) <= Cardinality(Expired(z, now) \cup {r})
    BY <1>2, <1>3, FS_Subset, FS_CardinalityType
  <1> QED BY <1>1, <1>2, <1>4

\* The form of every step of a request: what it must show to keep the
\* invariant.
LEMMA StepSound ==
    ASSUME IInv, NEW r \in Requests, NEW L \in Locals, NEW key,
           Set(r, L) \/ SetAndDisturb(r, L, key),
           zset' \in [Requests -> Nat \cup {NULL}],
           watched' \in [Requests -> {"none", "leases", "bucket", "dirty"}],
           failures' \in Nat, lua' = lua, clock' = clock,
           \A q \in Requests : q # r =>
              /\ watched'[q] \in {watched[q], "dirty"}
              /\ \/ zset'[q] = zset[q]
                 \/ \E now \in Nat : /\ zset'[q] = NULL /\ zset[q] # NULL
                                     /\ zset[q] <= now /\ now <= clock + MaxSkew,
           zset' = zset \/ lua \/ \A q \in Requests : watched'[q] # "leases",
           zset' = zset \/ lua \/ SetAndDisturb(r, L, "leases"),
           Sound(L, zset'[r], watched'[r], clock, lua),
           L.pc = "count" => Cardinality(Expired(zset', L.now)) <= L.rivals,
           L.pc = "exec" /\ watched'[r] = "leases" => Cardinality(Tokens(zset')) < L.max,
           [Abstract!Next]_(Tokens(zset)),
           bucket' \in [tokens : 0..Capacity, last : Nat] \cup {NULL},
           admitted' \in Nat, drift' \in Nat, Paid',
           \/ L.ans # "CLIENT_CONCURRENCY_LIMITED"
           \/ Cardinality(Blockers(loc[r].now)) + loc[r].rivals >= loc[r].max
    PROVE  StepOK
  <1>1. /\ loc' \in [Requests -> Locals] /\ loc'[r] = L
        /\ \A q \in Requests : q # r => Alike(loc'[q], loc[q])
    BY Moved DEF IInv
  <1>2. TypeOK'
    BY <1>1 DEF IInv, TypeOK
  <1>3. AllSound'
    <2> SUFFICES ASSUME NEW q \in Requests
                 PROVE  Sound(loc'[q], zset'[q], watched'[q], clock, lua)
      BY DEF AllSound
    <2>1. CASE q = r
      BY <1>1, <2>1
    <2>2. CASE q # r
      <3>1. /\ loc[q] \in Locals /\ loc'[q] \in Locals /\ Alike(loc'[q], loc[q])
            /\ zset[q] \in Nat \cup {NULL} /\ clock \in Nat
            /\ Sound(loc[q], zset[q], watched[q], clock, lua)
        BY <1>1, <2>2 DEF IInv, TypeOK, AllSound
      <3>2. /\ Sound(loc'[q], zset[q], watched[q], clock, lua)
            /\ Sound(loc'[q], zset[q], "dirty", clock, lua)
            /\ \A now \in Nat : zset[q] # NULL /\ zset[q] <= now /\ now <= clock + MaxSkew
                 => /\ Sound(loc'[q], NULL, watched[q], clock, lua)
                    /\ Sound(loc'[q], NULL, "dirty", clock, lua)
        BY <3>1, SoundKept
      <3> QED BY <2>2, <3>2
    <2> QED BY <2>1, <2>2
  <1>4. Room'
    <2> SUFFICES ASSUME NEW q \in Requests, loc'[q].pc = "exec", watched'[q] = "leases"
                 PROVE  Cardinality(Tokens(zset')) < loc'[q].max
      BY DEF Room, Tokens
    <2>1. CASE q = r
      BY <1>1, <2>1
    <2>2. CASE q # r
      <3>1. loc[q].pc = "exec" /\ watched[q] = "leases" /\ loc'[q].max = loc[q].max
        BY <1>1, <2>2 DEF Alike
      <3>2. ~lua
        BY <1>3 DEF AllSound, Sound
      <3>3. zset' = zset
        BY <3>2
      <3> QED BY <3>1, <3>3 DEF IInv, Room
    <2> QED BY <2>1, <2>2
  <1>5. Abstract!WithinLimit'
    BY LimitKept DEF IInv
  <1>6. Justified
    <2> SUFFICES ASSUME NEW q \in Requests, loc[q].pc # "done",
                        loc'[q].ans = "CLIENT_CONCURRENCY_LIMITED", q # r
                 PROVE  FALSE
      BY <1>1 DEF Justified
    <2>1. loc[q].ans = "CLIENT_CONCURRENCY_LIMITED"
      BY <1>1 DEF Alike
    <2> QED BY <2>1 DEF IInv, AllSound, Sound
  <1>7. Late'
    <2> SUFFICES ASSUME NEW q \in Requests, loc'[q].pc = "count"
                 PROVE  Cardinality(Expired(zset', loc'[q].now)) <= loc'[q].rivals
      BY DEF Late, Expired, Tokens
    <2>1. CASE q = r
      BY <1>1, <2>1
    <2>2. CASE q # r
      <3>1. /\ loc[q].pc = "count" /\ loc'[q].now = loc[q].now /\ loc[q] \in Locals
            /\ loc[q].rivals \in Nat /\ loc[q].now \in Nat
        BY <1>1, <2>2 DEF Alike, IInv, TypeOK, Locals
      <3>2. ~lua /\ TypeOK
        BY <3>1 DEF IInv, AllSound, Sound
      <3>3. Cardinality(Expired(zset, loc[q].now)) <= loc[q].rivals
        BY <3>1 DEF IInv, Late
      <3>4. CASE zset' = zset
        <4>1. loc'[q].rivals >= loc[q].rivals /\ loc'[q].rivals \in Nat
          BY <2>2, <3>1, <3>2, RivalsGrow DEF IInv
        <4>2. Cardinality(Expired(zset, loc[q].now)) \in Nat
          BY ExpiredGrows DEF IInv
        <4> QED BY <3>1, <3>3, <3>4, <4>1, <4>2
      <3>5. CASE SetAndDisturb(r, L, "leases")
        <4>1. loc'[q].rivals = loc[q].rivals + 1
          BY <2>2, <3>1, <3>2, <3>5 DEF SetAndDisturb, Contenders, Locals
        <4>2. \A x \in Requests : x # r => zset'[x] \in {zset[x], NULL}
          OBVIOUS
        <4>3. /\ Cardinality(Expired(zset, loc[q].now)) \in Nat
              /\ Cardinality(Expired(zset', loc[q].now)) \in Nat
              /\ Cardinality(Expired(zset', loc[q].now)) <= Cardinality(Expired(zset, loc[q].now)) + 1
          BY <4>2, ExpiredGrows
        <4> QED BY <3>1, <3>3, <4>1, <4>3
      <3> QED BY <3>2, <3>4, <3>5
    <2> QED BY <2>1, <2>2
  <1> QED BY <1>2, <1>3, <1>4, <1>5, <1>6, <1>7 DEF IInv, StepOK

\* A step that leaves Redis's data alone and does not come to a transaction.
LEMMA QuietSound ==
    ASSUME IInv, NEW r \in Requests, NEW L \in Locals, Set(r, L),
           UNCHANGED <<lua, zset, bucket, clock, admitted, drift>>,
           failures' \in Nat,
           NEW w \in {"none", "leases", "bucket", "dirty"}, watched' = [watched EXCEPT ![r] = w],
           Sound(L, zset[r], w, clock, lua), L.pc \notin {"count", "exec"},
           L.ans # "CLIENT_CONCURRENCY_LIMITED"
    PROVE  StepOK
  <1>1. /\ zset' \in [Requests -> Nat \cup {NULL}]
        /\ watched' \in [Requests -> {"none", "leases", "bucket", "dirty"}]
        /\ watched'[r] = w /\ \A q \in Requests : q # r => watched'[q] = watched[q]
        /\ bucket' \in [tokens : 0..Capacity, last : Nat] \cup {NULL}
        /\ admitted' \in Nat /\ drift' \in Nat
    BY DEF IInv, TypeOK
  <1>2. UNCHANGED Tokens(zset) /\ Paid'
    BY DEF Tokens, IInv, Paid, BucketAccounted
  <1> QED BY <1>1, <1>2, StepSound

-----------------------------------------------------------------------------
\* The locals of a request after a grant, when it is served, when its
\* transaction is tried again, and when it loses its lease.
LEMMA GrantedSound ==
    ASSUME TypeOK, AllSound, NEW r \in Requests, NEW w
    PROVE  /\ Granted(r) \in Locals /\ Granted(r).pc = "rate"
           /\ Granted(r).ans = NULL
           /\ loc[r].now + LeaseTtl \in Nat
           /\ Sound(Granted(r), loc[r].now + LeaseTtl, w, clock, lua)
  <1>1. Fresh \in Locals /\ Fresh.now = 0 /\ Fresh.ans = NULL
    BY RedisAssumption DEF Fresh, Locals, Pcs
  <1>2. loc[r].now + LeaseTtl \in Nat
    BY ConstantTypes DEF TypeOK, Locals
  <1>3. /\ Granted(r) \in Locals /\ Granted(r).pc = "rate" /\ Granted(r).now = 0
        /\ Granted(r).until = loc[r].now + LeaseTtl /\ Granted(r).lease = "token"
        /\ Granted(r).ans = NULL
    BY <1>1, <1>2 DEF Granted, Locals, Pcs
  <1> QED BY <1>2, <1>3, ConstantTypes, RedisAssumption DEF Sound, TypeOK

LEMMA ServingSound ==
    ASSUME NEW L \in Locals, clock \in Nat
    PROVE  /\ Serving(L) \in Locals /\ Serving(L).pc = "serving" /\ Serving(L).ans = NULL
           /\ \A e \in Nat \cup {NULL} : \A w, v, b :
                Sound(L, e, w, clock, b) => Sound(Serving(L), e, v, clock, b)
  <1>1. Fresh \in Locals /\ Fresh.now = 0 /\ Fresh.ans = NULL
    BY RedisAssumption DEF Fresh, Locals, Pcs
  <1>2. /\ Serving(L) \in Locals /\ Serving(L).pc = "serving" /\ Serving(L).now = 0
        /\ Serving(L).until = L.until /\ Serving(L).lease = L.lease /\ Serving(L).ans = NULL
    BY <1>1 DEF Serving, Locals, Pcs
  <1> QED BY <1>2, ConstantTypes, RedisAssumption DEF Sound

LEMMA RetriedSound ==
    ASSUME NEW L \in Locals, NEW again \in {"acquire", "allow"},
           L.pc = IF again = "acquire" THEN "exec" ELSE "spend"
    PROVE  /\ Retried(L, again) \in Locals /\ Retried(L, again).pc \in {again, "done"}
           /\ Retried(L, again).ans \in {L.ans, "TRIES_EXHAUSTED"}
           /\ \A e \in Nat \cup {NULL}, t \in Nat : \A w, v, b :
                Sound(L, e, w, t, b) => Sound(Retried(L, again), e, v, t, b)
  <1>1. CASE L.tries > 1
    <2> DEFINE M == [L EXCEPT !.pc = again, !.tries = @ - 1]
    <2>1. Retried(L, again) = M
      BY <1>1 DEF Retried
    <2>2. L.tries - 1 \in Nat /\ again \in Pcs
      BY <1>1 DEF Locals, Pcs
    <2>3. M \in Locals
      BY <2>2 DEF Locals
    <2>4. /\ M.pc = again /\ M.now = L.now /\ M.max = L.max
          /\ M.until = L.until /\ M.lease = L.lease /\ M.ans = L.ans
      BY DEF Locals
    <2> QED BY <2>1, <2>3, <2>4 DEF Sound
  <1>2. CASE ~(L.tries > 1)
    <2>1. Retried(L, again) = Ended(L, "TRIES_EXHAUSTED")
      BY <1>2 DEF Retried
    <2> QED BY <2>1, EndedSound DEF Codes
  <1> QED BY <1>1, <1>2

LEMMA OrphanedSound ==
    ASSUME NEW L \in Locals
    PROVE  /\ Orphaned(L) \in Locals /\ Orphaned(L).pc = L.pc /\ Orphaned(L).ans = L.ans
           /\ \A e \in Nat \cup {NULL}, t \in Nat : \A w, b :
                Sound(L, e, w, t, b) => Sound(Orphaned(L), e, w, t, b)
  BY DEF Orphaned, Locals, Sound

\* The removal of the tokens that have expired for some clock.
LEMMA TrimSound ==
    ASSUME TypeOK, NEW now \in Nat
    PROVE  LET z == ZRemOld(zset, now) IN
           /\ z \in [Requests -> Nat \cup {NULL}]
           /\ Tokens(z) \in SUBSET Tokens(zset)
           /\ \A q \in Requests :
                z[q] = zset[q] \/ (z[q] = NULL /\ zset[q] # NULL /\ zset[q] <= now)
           /\ \A q \in Tokens(z) : z[q] = zset[q] /\ zset[q] > now
  BY DEF ZRemOld, Expired, Tokens, TypeOK

\* Adding a token.
LEMMA AddSound ==
    ASSUME NEW z \in [Requests -> Nat \cup {NULL}], NEW r \in Requests, NEW until \in Nat
    PROVE  /\ ZAdd(z, r, until) \in [Requests -> Nat \cup {NULL}]
           /\ ZAdd(z, r, until)[r] = until
           /\ \A q \in Requests : q # r => ZAdd(z, r, until)[q] = z[q]
           /\ Tokens(ZAdd(z, r, until)) = Tokens(z) \cup {r}
  BY ConstantTypes DEF ZAdd, Tokens

\* A write marks every transaction that watches the key.
LEMMA TouchedSound ==
    ASSUME NEW w \in [Requests -> {"none", "leases", "bucket", "dirty"}], NEW r, NEW key
    PROVE  /\ Touched(key, w, r) \in [Requests -> {"none", "leases", "bucket", "dirty"}]
           /\ \A q \in Requests : Touched(key, w, r)[q] \in {w[q], "dirty"}
           /\ key # "dirty" => \A q \in Requests : Touched(key, w, r)[q] # key
  BY DEF Touched

-----------------------------------------------------------------------------
\* Products, which the provers treat as opaque where they matter.
LEMMA Distributes ==
    \A a, b, c \in Nat : a * b \in Nat /\ a * b = b * a /\ a * (b + c) = a * b + a * c
  OBVIOUS

\* The bucket after a refill.
LEMMA RefillSound ==
    ASSUME bucket \in [tokens : 0..Capacity, last : Nat] \cup {NULL}, NEW now \in Nat
    PROVE  /\ Refilled(bucket, now) \in 0..Capacity
           /\ MovedBack(bucket, now) \in Nat
           /\ bucket = NULL => Refilled(bucket, now) = Capacity /\ MovedBack(bucket, now) = 0
           /\ bucket # NULL => \E d \in Nat :
                /\ bucket.last + d = now + MovedBack(bucket, now)
                /\ Refilled(bucket, now) <= bucket.tokens + RatePerMin * d
  <1>1. CASE bucket = NULL
    BY <1>1, ConstantTypes DEF Refilled, MovedBack
  <1>2. CASE bucket # NULL
    <2> DEFINE d == Larger(now - bucket.last, 0)
    <2>1. bucket.tokens \in 0..Capacity /\ bucket.last \in Nat /\ bucket.tokens \in Nat
      BY <1>2, ConstantTypes
    <2>2. /\ d \in Nat /\ MovedBack(bucket, now) \in Nat
          /\ bucket.last + d = now + MovedBack(bucket, now)
      BY <1>2, <2>1 DEF Larger, MovedBack
    <2>3. d * RatePerMin \in Nat /\ d * RatePerMin = RatePerMin * d
      BY <2>2, Distributes, RedisAssumption
    <2> DEFINE p == d * RatePerMin
    <2>4. Refilled(bucket, now) = IF bucket.tokens + p < Capacity THEN bucket.tokens + p ELSE Capacity
      BY <1>2 DEF Refilled
    <2>5. p \in Nat /\ p = RatePerMin * d
      BY <2>3
    <2> HIDE DEF d, p
    <2>6. Refilled(bucket, now) \in 0..Capacity /\ Refilled(bucket, now) <= bucket.tokens + p
      BY <2>1, <2>4, <2>5, ConstantTypes
    <2> QED BY <1>2, <2>2, <2>5, <2>6
  <1> QED BY <1>1, <1>2

\* A request takes a token or not: nothing is paid twice.
LEMMA SpendSound ==
    ASSUME TypeOK, Paid, NEW now \in Nat, Spend(now)
    PROVE  /\ bucket' \in [tokens : 0..Capacity, last : Nat] \cup {NULL}
           /\ bucket' # NULL
           /\ admitted' \in Nat /\ drift' \in Nat /\ Paid'
  <1> DEFINE t == Refilled(bucket, now)
             back == MovedBack(bucket, now)
  <1>1. /\ t \in 0..Capacity /\ back \in Nat
        /\ bucket = NULL => t = Capacity /\ back = 0
        /\ bucket # NULL => \E d \in Nat :
             bucket.last + d = now + back /\ t <= bucket.tokens + RatePerMin * d
    BY RefillSound DEF TypeOK
  <1>2. /\ bucket' = [tokens |-> IF t >= Minute THEN t - Minute ELSE t, last |-> now]
        /\ admitted' = IF t >= Minute THEN admitted + 1 ELSE admitted
        /\ drift' = drift + back
    BY DEF Spend
  <1>3. admitted \in Nat /\ drift \in Nat /\ Minute \in Nat /\ RatePerMin \in Nat /\ Minute > 0
    BY RedisAssumption DEF TypeOK
  <1> HIDE DEF t, back
  <1>4. /\ bucket' \in [tokens : 0..Capacity, last : Nat]
        /\ admitted' \in Nat /\ drift' \in Nat
    <2>1. (IF t >= Minute THEN t - Minute ELSE t) \in 0..Capacity
      BY <1>1, <1>3, ConstantTypes
    <2> QED BY <1>1, <1>2, <1>3, <2>1
  <1>5. bucket' # NULL
    <2>1. bucket' \in [tokens : Int, last : Nat]
      BY <1>4, ConstantTypes
    <2> QED BY <2>1, RedisAssumption
  <1>6. /\ Minute * admitted \in Nat
        /\ bucket'.tokens + Minute * admitted' = t + Minute * admitted
    <2>1. Minute * admitted \in Nat /\ Minute * (admitted + 1) = Minute * admitted + Minute
      BY <1>3, Distributes
    <2> DEFINE m == Minute * admitted
    <2> HIDE DEF m
    <2>2. CASE t >= Minute
      <3>1. bucket'.tokens = t - Minute /\ admitted' = admitted + 1
        BY <1>2, <2>2
      <3> QED BY <1>1, <1>3, <2>1, <3>1, ConstantTypes
    <2>3. CASE ~(t >= Minute)
      BY <1>2, <2>1, <2>3
    <2> QED BY <2>2, <2>3
  <1>7. t + Minute * admitted <= Capacity + RatePerMin * (now + drift')
    <2>1. CASE bucket = NULL
      <3>1. admitted = 0 /\ drift' = 0 /\ t = Capacity
        BY <1>1, <1>2, <2>1 DEF Paid
      <3>2. Minute * 0 = 0 /\ RatePerMin * (now + 0) \in Nat
        BY <1>3, Distributes
      <3> QED BY <3>1, <3>2, ConstantTypes
    <2>2. CASE bucket # NULL
      <3>1. PICK d \in Nat : bucket.last + d = now + back /\ t <= bucket.tokens + RatePerMin * d
        BY <1>1, <2>2
      <3>2. bucket.tokens \in Nat /\ bucket.last \in Nat
        BY <2>2, ConstantTypes DEF TypeOK
      <3>3. bucket.tokens + Minute * admitted <= Capacity + RatePerMin * (bucket.last + drift)
        BY <2>2 DEF Paid, BucketAccounted
      <3>4. now + drift' = (bucket.last + drift) + d
        BY <1>1, <1>2, <1>3, <3>1, <3>2
      <3>5. /\ RatePerMin * (now + drift') = RatePerMin * (bucket.last + drift) + RatePerMin * d
            /\ RatePerMin * (bucket.last + drift) \in Nat /\ RatePerMin * d \in Nat
        BY <1>3, <3>1, <3>2, <3>4, Distributes
      <3> QED BY <1>1, <1>6, <3>1, <3>2, <3>3, <3>5, ConstantTypes
    <2> QED BY <2>1, <2>2
  <1>8. bucket'.last = now
    BY <1>2
  <1> QED BY <1>4, <1>5, <1>6, <1>7, <1>8 DEF Paid, BucketAccounted

\* The locals of a request that the bucket has answered.
LEMMA AnsweredSound ==
    ASSUME TypeOK, NEW L \in Locals, RatePerMin > 0, L.pc \in {"allow", "spend"}
    PROVE  /\ AnsweredByBucket(L) \in Locals /\ AnsweredByBucket(L).pc \in {"serving", "release"}
           /\ AnsweredByBucket(L).ans \in {NULL, "CLIENT_RATE_LIMITED"}
           /\ \A e \in Nat \cup {NULL} : \A w, v, b :
                Sound(L, e, w, clock, b) => Sound(AnsweredByBucket(L), e, v, clock, b)
  <1> DEFINE t == Refilled(bucket, L.now)
             M == [L EXCEPT !.pc = "release", !.ans = "CLIENT_RATE_LIMITED", !.wait = RetryAfter(t)]
  <1>1. t \in 0..Capacity
    BY RefillSound DEF TypeOK, Locals
  <1>2. CASE t >= Minute
    <2>1. AnsweredByBucket(L) = Serving(L)
      BY <1>2 DEF AnsweredByBucket
    <2> QED BY <2>1, ServingSound DEF TypeOK
  <1>3. CASE ~(t >= Minute)
    <2>1. AnsweredByBucket(L) = M
      BY <1>3 DEF AnsweredByBucket
    <2>2. RetryAfter(t) \in Nat
      <3>1. Minute - t + RatePerMin - 1 \in Int /\ RatePerMin \in Nat /\ RatePerMin > 0
        BY <1>1, ConstantTypes, RedisAssumption
      <3>2. (Minute - t + RatePerMin - 1) \div RatePerMin \in Int
        BY <3>1
      <3> QED BY <3>2 DEF RetryAfter, Larger
    <2>3. M \in Locals
      BY <2>2 DEF Locals, Pcs, Codes
    <2>4. /\ M.pc = "release" /\ M.ans = "CLIENT_RATE_LIMITED" /\ M.now = L.now
          /\ M.until = L.until /\ M.lease = L.lease
      BY DEF Locals
    <2> QED BY <2>1, <2>3, <2>4 DEF Sound
  <1> QED BY <1>2, <1>3

-----------------------------------------------------------------------------
\* The invariant and the abstract step, action by action.
LEMMA ArriveSound ==
    ASSUME IInv, NEW r \in Requests, Arrive(r)
    PROVE  StepOK
  <1>1. PICK max \in Limits :
           Set(r, IF max <= 0
                  THEN [loc[r] EXCEPT !.pc = "rate", !.lease = "free"]
                  ELSE [loc[r] EXCEPT !.pc = "acquire", !.max = max, !.now = ProcessClock(r)])
    BY DEF Arrive
  <1> DEFINE A == [loc[r] EXCEPT !.pc = "rate", !.lease = "free"]
             B == [loc[r] EXCEPT !.pc = "acquire", !.max = max, !.now = ProcessClock(r)]
  <1>2. /\ loc[r] \in Locals /\ loc[r].pc = "idle" /\ clock \in Nat
        /\ zset[r] \in Nat \cup {NULL} /\ max \in Nat
        /\ ProcessClock(r) \in Nat /\ ProcessClock(r) <= clock + MaxSkew
        /\ Sound(loc[r], zset[r], watched[r], clock, lua)
    BY RedisAssumption DEF IInv, TypeOK, AllSound, Arrive, ProcessClock
  <1>3. /\ A \in Locals /\ A.pc = "rate" /\ A.lease = "free" /\ A.now = loc[r].now
        /\ A.ans = loc[r].ans
    BY <1>2 DEF Locals, Pcs
  <1>4. /\ B \in Locals /\ B.pc = "acquire" /\ B.lease = loc[r].lease /\ B.now = ProcessClock(r)
        /\ B.ans = loc[r].ans /\ B.max = max
    BY <1>2 DEF Locals, Pcs
  <1>5. /\ Sound(A, zset[r], watched[r], clock, lua)
        /\ Sound(B, zset[r], watched[r], clock, lua)
        /\ loc[r].ans # "CLIENT_CONCURRENCY_LIMITED"
    BY <1>2, <1>3, <1>4 DEF Sound
  <1>6. /\ UNCHANGED <<lua, zset, bucket, clock, admitted, drift>> /\ failures' \in Nat
        /\ watched[r] \in {"none", "leases", "bucket", "dirty"}
        /\ watched' = [watched EXCEPT ![r] = watched[r]]
    BY DEF Arrive, IInv, TypeOK
  <1> HIDE DEF A, B
  <1>7. CASE Set(r, A)
    BY <1>3, <1>5, <1>6, <1>7, QuietSound
  <1>8. CASE Set(r, B)
    BY <1>4, <1>5, <1>6, <1>8, QuietSound
  <1> QED BY <1>1, <1>7, <1>8 DEF A, B

\* A grant on what is left after a removal of old tokens is an abstract grant,
\* a removal an abstract loss.
LEMMA GrantRefines ==
    ASSUME IInv, NEW r \in Requests, loc[r].pc \in {"acquire", "trim", "count", "exec"},
           NEW z \in [Requests -> Nat \cup {NULL}], Tokens(z) \in SUBSET Tokens(zset),
           Cardinality(Tokens(z)) < loc[r].max, NEW until \in Nat, zset' = ZAdd(z, r, until)
    PROVE  [Abstract!Next]_(Tokens(zset))
  <1>1. loc[r].max \in Limits /\ zset[r] = NULL
    BY DEF IInv, AllSound, Sound
  <1>2. Tokens(zset)' = Tokens(z) \cup {r} /\ r \notin Tokens(zset)
    BY <1>1, AddSound DEF Tokens
  <1>3. Abstract!Grant(r, loc[r].max)
    BY <1>2, SameCardinality DEF Abstract!Grant
  <1> QED BY <1>1, <1>3 DEF Abstract!Next

LEMMA LossRefines ==
    ASSUME NEW z, Tokens(z) \in SUBSET Tokens(zset), zset' = z
    PROVE  [Abstract!Next]_(Tokens(zset))
  <1>1. Tokens(zset)' = Tokens(z)
    BY DEF Tokens
  <1> QED BY <1>1 DEF Abstract!Next, Abstract!Vanish

\* What the invariant says of a request that takes a step.
LEMMA Facts ==
    ASSUME IInv, NEW r \in Requests
    PROVE  /\ loc[r] \in Locals /\ clock \in Nat /\ failures \in Nat
           /\ loc[r].now \in Nat /\ loc[r].now <= clock + MaxSkew /\ loc[r].max \in Nat
           /\ zset \in [Requests -> Nat \cup {NULL}] /\ zset[r] \in Nat \cup {NULL}
           /\ watched \in [Requests -> {"none", "leases", "bucket", "dirty"}]
           /\ bucket \in [tokens : 0..Capacity, last : Nat] \cup {NULL}
           /\ admitted \in Nat /\ drift \in Nat /\ Paid
           /\ Sound(loc[r], zset[r], watched[r], clock, lua)
           /\ loc[r].pc # "done" => loc[r].ans # "CLIENT_CONCURRENCY_LIMITED"
           /\ loc[r].pc \in {"acquire", "trim", "count", "exec"} => zset[r] = NULL
  BY DEF IInv, TypeOK, AllSound, Sound, Locals

\* Every token is the lease of a blocker, or old.
LEMMA TokensFounded ==
    ASSUME IInv, NEW now \in Nat, NEW T \in SUBSET Tokens(zset),
           NEW E \in SUBSET Requests, T \cap Expired(zset, now) \in SUBSET E
    PROVE  /\ Cardinality(T) \in Nat /\ Cardinality(E) \in Nat
           /\ Cardinality(Blockers(now)) \in Nat
           /\ Cardinality(T) <= Cardinality(Blockers(now)) + Cardinality(E)
  <1>1. \A q \in Tokens(zset) : /\ q \in Requests /\ zset[q] # NULL /\ zset[q] \in Nat
                                /\ loc[q].lease \in {"token", "lost"} /\ loc[q].until = zset[q]
    BY Facts DEF Tokens, Sound
  <1>2. T \in SUBSET (Blockers(now) \cup E)
    BY <1>1 DEF Blockers, Expired
  <1>3. /\ IsFiniteSet(Blockers(now)) /\ IsFiniteSet(E) /\ IsFiniteSet(T)
        /\ Cardinality(Blockers(now)) \in Nat /\ Cardinality(E) \in Nat /\ Cardinality(T) \in Nat
    BY FS_Subset, FS_CardinalityType, TokensFinite, RedisAssumption DEF Blockers
  <1>4. /\ IsFiniteSet(Blockers(now) \cup E)
        /\ Cardinality(Blockers(now) \cup E)
             = Cardinality(Blockers(now)) + Cardinality(E) - Cardinality(Blockers(now) \cap E)
        /\ Cardinality(Blockers(now) \cap E) \in Nat
    BY <1>3, FS_Union, FS_Intersection, FS_CardinalityType
  <1>5. Cardinality(T) <= Cardinality(Blockers(now) \cup E)
    BY <1>2, <1>4, FS_Subset
  <1> QED BY <1>3, <1>4, <1>5

\* After the removal of old tokens every one that is left is a blocker's.
LEMMA DenialFounded ==
    ASSUME IInv, NEW r \in Requests,
           Cardinality(Tokens(ZRemOld(zset, loc[r].now))) >= loc[r].max
    PROVE  Cardinality(Blockers(loc[r].now)) + loc[r].rivals >= loc[r].max
  <1> DEFINE T == Tokens(ZRemOld(zset, loc[r].now))
  <1>1. /\ loc[r].now \in Nat /\ loc[r].max \in Nat /\ loc[r].rivals \in Nat /\ TypeOK
    BY Facts DEF IInv, Locals
  <1>2. T \in SUBSET Tokens(zset) /\ T \cap Expired(zset, loc[r].now) = {}
    <2>1. T \in SUBSET Tokens(zset) /\ \A q \in T : zset[q] > loc[r].now
      BY <1>1, TrimSound
    <2>2. \A q \in Tokens(zset) : zset[q] \in Nat
      BY Facts DEF Tokens
    <2>3. \A q \in T : ~(zset[q] <= loc[r].now)
      BY <1>1, <2>1, <2>2
    <2> QED BY <2>1, <2>3 DEF Expired
  <1> HIDE DEF T
  <1>3. /\ Cardinality(T) \in Nat /\ Cardinality(Blockers(loc[r].now)) \in Nat
        /\ Cardinality(T) <= Cardinality(Blockers(loc[r].now)) + Cardinality({})
    BY <1>1, <1>2, TokensFounded
  <1>4. Cardinality({}) = 0
    BY FS_EmptySet
  <1>5. Cardinality(T) >= loc[r].max
    BY DEF T
  <1> QED BY <1>1, <1>3, <1>4, <1>5

\* The request is denied: the old tokens are gone, the others stay.
LEMMA DeniedSound ==
    ASSUME IInv, NEW r \in Requests, NEW key, loc[r].pc = "acquire", lua,
           Cardinality(Tokens(ZRemOld(zset, loc[r].now))) >= loc[r].max,
           zset' = ZRemOld(zset, loc[r].now),
           LET L == Ended(loc[r], "CLIENT_CONCURRENCY_LIMITED")
           IN  Set(r, L) \/ SetAndDisturb(r, L, key),
           UNCHANGED <<lua, bucket, clock, admitted, drift, failures>>,
           watched' \in [Requests -> {"none", "leases", "bucket", "dirty"}],
           \A q \in Requests : q # r => watched'[q] \in {watched[q], "dirty"},
           zset' = zset \/ lua \/ \A q \in Requests : watched'[q] # "leases"
    PROVE  StepOK
  <1> DEFINE L == Ended(loc[r], "CLIENT_CONCURRENCY_LIMITED")
  <1>1. /\ zset' \in [Requests -> Nat \cup {NULL}] /\ Tokens(zset') \in SUBSET Tokens(zset)
        /\ zset'[r] = zset[r]
        /\ \A q \in Requests :
             \/ zset'[q] = zset[q]
             \/ zset'[q] = NULL /\ zset[q] # NULL /\ zset[q] <= loc[r].now
    BY Facts, TrimSound DEF IInv
  <1>2. L \in Locals /\ L.pc = "done" /\ Sound(L, zset'[r], watched'[r], clock, lua)
    <2>1. loc[r] \in Locals /\ "CLIENT_CONCURRENCY_LIMITED" \in Codes \cup {NULL}
      BY Facts DEF Codes
    <2>2. Sound(loc[r], zset'[r], watched[r], clock, lua) /\ clock \in Nat
          /\ zset'[r] \in Nat \cup {NULL}
      BY <1>1, Facts
    <2>3. /\ L \in Locals /\ L.pc = "done"
          /\ \A e \in Nat \cup {NULL}, t \in Nat : \A w, v, b :
               Sound(loc[r], e, w, t, b) => Sound(L, e, v, t, b)
      BY <2>1, EndedSound
    <2> QED BY <2>2, <2>3
  <1>3. [Abstract!Next]_(Tokens(zset))
    BY <1>1, LossRefines
  <1>4. Paid' /\ Cardinality(Blockers(loc[r].now)) + loc[r].rivals >= loc[r].max
    BY DenialFounded DEF IInv, Paid, BucketAccounted
  <1>5. \A q \in Requests : q # r =>
           \/ zset'[q] = zset[q]
           \/ \E now \in Nat : /\ zset'[q] = NULL /\ zset[q] # NULL
                               /\ zset[q] <= now /\ now <= clock + MaxSkew
    BY <1>1, Facts
  <1> HIDE DEF L
  <1>6. Set(r, L) \/ SetAndDisturb(r, L, key)
    BY DEF L
  <1> QED BY <1>1, <1>2, <1>3, <1>4, <1>5, <1>6, Facts, StepSound

\* A token is added to what a removal of old tokens has left.
LEMMA AddedSound ==
    ASSUME IInv, NEW r \in Requests, NEW key, loc[r].pc \in {"acquire", "exec"},
           NEW L \in Locals, L.pc \notin {"count", "exec"}, L.ans # "CLIENT_CONCURRENCY_LIMITED",
           Sound(L, loc[r].now + LeaseTtl, watched'[r], clock, lua),
           Set(r, L) \/ SetAndDisturb(r, L, key),
           NEW z \in {zset, ZRemOld(zset, loc[r].now)}, Cardinality(Tokens(z)) < loc[r].max,
           zset' = ZAdd(z, r, loc[r].now + LeaseTtl),
           UNCHANGED <<lua, bucket, clock, admitted, drift>>, failures' \in Nat,
           watched' \in [Requests -> {"none", "leases", "bucket", "dirty"}],
           \A q \in Requests : q # r => watched'[q] \in {watched[q], "dirty"},
           lua \/ \A q \in Requests : watched'[q] # "leases",
           lua \/ SetAndDisturb(r, L, "leases")
    PROVE  StepOK
  <1>1. /\ z \in [Requests -> Nat \cup {NULL}] /\ Tokens(z) \in SUBSET Tokens(zset)
        /\ \A q \in Requests :
             \/ z[q] = zset[q]
             \/ z[q] = NULL /\ zset[q] # NULL /\ zset[q] <= loc[r].now
    BY Facts, TrimSound DEF IInv
  <1>2. loc[r].now + LeaseTtl \in Nat
    BY Facts, ConstantTypes
  <1>3. /\ zset' \in [Requests -> Nat \cup {NULL}] /\ zset'[r] = loc[r].now + LeaseTtl
        /\ \A q \in Requests : q # r => zset'[q] = z[q]
    BY <1>1, <1>2, AddSound
  <1>4. [Abstract!Next]_(Tokens(zset))
    BY <1>1, <1>2, GrantRefines
  <1>5. Paid'
    BY DEF IInv, Paid, BucketAccounted
  <1>6. \A q \in Requests : q # r =>
           \/ zset'[q] = zset[q]
           \/ \E now \in Nat : /\ zset'[q] = NULL /\ zset[q] # NULL
                               /\ zset[q] <= now /\ now <= clock + MaxSkew
    BY <1>1, <1>3, Facts
  <1> QED BY <1>3, <1>4, <1>5, <1>6, Facts, StepSound

LEMMA AcquireLuaSound ==
    ASSUME IInv, NEW r \in Requests, AcquireLua(r)
    PROVE  StepOK
  <1> DEFINE z == ZRemOld(zset, loc[r].now)
  <1>1. /\ loc[r].pc = "acquire" /\ lua
        /\ UNCHANGED <<lua, bucket, watched, clock, admitted, drift, failures>>
    BY DEF AcquireLua
  <1>2. watched' \in [Requests -> {"none", "leases", "bucket", "dirty"}] /\ failures' \in Nat
    BY <1>1, Facts
  <1>3. /\ Cardinality(Tokens(z)) \in Nat /\ loc[r].max \in Nat
    BY TokensFinite, Facts
  <1>4. CASE Cardinality(Tokens(z)) >= loc[r].max
    <2>1. zset' = z /\ Set(r, Ended(loc[r], "CLIENT_CONCURRENCY_LIMITED"))
      BY <1>4 DEF AcquireLua
    <2> QED BY <1>1, <1>2, <1>4, <2>1, DeniedSound
  <1>5. CASE ~(Cardinality(Tokens(z)) >= loc[r].max)
    <2>1. zset' = ZAdd(z, r, loc[r].now + LeaseTtl) /\ Set(r, Granted(r))
      BY <1>5 DEF AcquireLua
    <2>2. /\ Granted(r) \in Locals /\ Granted(r).pc = "rate"
          /\ Granted(r).ans # "CLIENT_CONCURRENCY_LIMITED"
          /\ Sound(Granted(r), loc[r].now + LeaseTtl, watched'[r], clock, lua)
      BY GrantedSound, ConstantTypes DEF IInv
    <2>3. Cardinality(Tokens(z)) < loc[r].max
      BY <1>3, <1>5
    <2> QED BY <1>1, <1>2, <2>1, <2>2, <2>3, AddedSound
  <1> QED BY <1>4, <1>5

\* A request that only changes its own place and its own WATCH.
LEMMA GotoSound ==
    ASSUME IInv, NEW r \in Requests, loc[r].pc # "done", NEW p \in Pcs \ {"count", "exec"},
           LET L == [loc[r] EXCEPT !.pc = p]
           IN  Set(r, L) /\ Sound(L, zset[r], watched'[r], clock, lua),
           UNCHANGED <<lua, zset, bucket, clock, admitted, drift, failures>>,
           NEW w \in {"none", "leases", "bucket", "dirty"}, watched' = [watched EXCEPT ![r] = w]
    PROVE  StepOK
  <1> DEFINE L == [loc[r] EXCEPT !.pc = p]
  <1>1. L \in Locals /\ L.pc \notin {"count", "exec"} /\ L.ans # "CLIENT_CONCURRENCY_LIMITED"
    BY Facts DEF Locals
  <1>2. watched'[r] = w /\ failures' \in Nat
    BY Facts
  <1> HIDE DEF L
  <1>3. Set(r, L) /\ Sound(L, zset[r], w, clock, lua)
    BY <1>2 DEF L
  <1> QED BY <1>1, <1>2, <1>3, QuietSound

LEMMA WatchSound ==
    ASSUME IInv, NEW r \in Requests, WatchLeases(r) \/ WatchBucket(r)
    PROVE  StepOK
  <1>1. Sound(loc[r], zset[r], watched[r], clock, lua) /\ loc[r] \in Locals
    BY Facts
  <1>2. CASE WatchLeases(r)
    <2> DEFINE L == [loc[r] EXCEPT !.pc = "trim"]
    <2>1. /\ loc[r].pc = "acquire" /\ ~lua /\ watched' = [watched EXCEPT ![r] = "leases"]
          /\ Set(r, L) /\ UNCHANGED <<lua, zset, bucket, clock, admitted, drift, failures>>
      BY <1>2 DEF WatchLeases
    <2>2. watched'[r] = "leases"
      BY <2>1, Facts
    <2>3. Sound(L, zset[r], watched'[r], clock, lua)
      BY <1>1, <2>1, <2>2 DEF Sound, Locals
    <2> QED BY <2>1, <2>3, GotoSound DEF Pcs
  <1>3. CASE WatchBucket(r)
    <2> DEFINE L == [loc[r] EXCEPT !.pc = "spend"]
    <2>1. /\ loc[r].pc = "allow" /\ ~lua /\ watched' = [watched EXCEPT ![r] = "bucket"]
          /\ Set(r, L) /\ UNCHANGED <<lua, zset, bucket, clock, admitted, drift, failures>>
      BY <1>3 DEF WatchBucket
    <2>2. Sound(L, zset[r], watched'[r], clock, lua)
      BY <1>1, <2>1 DEF Sound, Locals
    <2> QED BY <2>1, <2>2, GotoSound DEF Pcs
  <1> QED BY <1>2, <1>3

LEMMA TrimStepSound ==
    ASSUME IInv, NEW r \in Requests, Trim(r)
    PROVE  StepOK
  <1> DEFINE z == ZRemOld(zset, loc[r].now)
             L == [loc[r] EXCEPT !.pc = "count"]
  <1>1. /\ loc[r].pc = "trim" /\ zset' = z
        /\ IF z = zset THEN watched' = watched /\ Set(r, L)
           ELSE watched' = Touched("leases", watched, r) /\ SetAndDisturb(r, L, "leases")
        /\ UNCHANGED <<lua, bucket, clock, admitted, drift, failures>>
    BY DEF Trim
  <1>2. /\ L \in Locals /\ L.pc = "count" /\ L.now = loc[r].now /\ L.max = loc[r].max
        /\ L.until = loc[r].until /\ L.lease = loc[r].lease /\ L.ans = loc[r].ans
        /\ L.rivals = loc[r].rivals /\ L.rivals \in Nat
    BY Facts DEF Locals, Pcs
  <1> HIDE DEF L
  <1>3. /\ watched' \in [Requests -> {"none", "leases", "bucket", "dirty"}]
        /\ \A q \in Requests : watched'[q] \in {watched[q], "dirty"}
        /\ zset' = zset \/ lua \/ \A q \in Requests : watched'[q] # "leases"
    <2>1. CASE z = zset
      BY <1>1, <2>1, Facts
    <2>2. CASE z # zset
      BY <1>1, <2>2, Facts, TouchedSound
    <2> QED BY <2>1, <2>2
  <1>4. /\ Set(r, L) \/ SetAndDisturb(r, L, "leases")
        /\ zset' = zset \/ lua \/ SetAndDisturb(r, L, "leases")
    BY <1>1
  <1>5. /\ zset' \in [Requests -> Nat \cup {NULL}] /\ Tokens(zset') \in SUBSET Tokens(zset)
        /\ zset'[r] = zset[r]
        /\ \A q \in Requests :
             \/ zset'[q] = zset[q]
             \/ zset'[q] = NULL /\ zset[q] # NULL /\ zset[q] <= loc[r].now
        /\ \A q \in Tokens(zset') : zset'[q] > loc[r].now
    BY <1>1, Facts, TrimSound DEF IInv
  <1>6. Sound(L, zset'[r], watched'[r], clock, lua)
    BY <1>1, <1>2, <1>3, <1>5, Facts DEF Sound
  <1>7. Cardinality(Expired(zset', L.now)) <= L.rivals
    <2>1. \A q \in Tokens(zset') : zset'[q] \in Nat
      BY <1>5 DEF Tokens
    <2>2. Expired(zset', L.now) = {}
      BY <1>2, <1>5, <2>1, Facts DEF Expired
    <2> QED BY <1>2, <2>2, FS_EmptySet
  <1>8. [Abstract!Next]_(Tokens(zset))
    BY <1>5, LossRefines
  <1>9. Paid' /\ failures' \in Nat /\ L.ans # "CLIENT_CONCURRENCY_LIMITED"
    BY <1>1, <1>2, Facts DEF Paid, BucketAccounted
  <1>10. \A q \in Requests : q # r =>
           \/ zset'[q] = zset[q]
           \/ \E now \in Nat : /\ zset'[q] = NULL /\ zset[q] # NULL
                               /\ zset[q] <= now /\ now <= clock + MaxSkew
    BY <1>5, Facts
  <1>11. L.pc # "exec"
    BY <1>2
  <1> QED BY <1>1, <1>2, <1>3, <1>4, <1>5, <1>6, <1>7, <1>8, <1>9, <1>10, <1>11, Facts, StepSound

LEMMA CountSound ==
    ASSUME IInv, NEW r \in Requests, Count(r)
    PROVE  StepOK
  <1> DEFINE n == Cardinality(Tokens(zset))
  <1>1. /\ loc[r].pc = "count" /\ loc[r] \in Locals
        /\ UNCHANGED <<lua, zset, bucket, clock, admitted, drift, failures>>
        /\ Sound(loc[r], zset[r], watched[r], clock, lua)
        /\ clock \in Nat /\ zset[r] \in Nat \cup {NULL}
    BY Facts DEF Count
  <1>2. UNCHANGED Tokens(zset) /\ Paid' /\ failures' \in Nat
    BY <1>1, Facts DEF Tokens, Paid, BucketAccounted
  <1>3. CASE n >= loc[r].max
    <2> DEFINE L == Ended(loc[r], "CLIENT_CONCURRENCY_LIMITED")
    <2>1. watched' = [watched EXCEPT ![r] = "none"] /\ Set(r, L)
      BY <1>3 DEF Count
    <2>2. /\ L \in Locals /\ L.pc = "done"
          /\ \A e \in Nat \cup {NULL}, t \in Nat : \A w, v, b :
               Sound(loc[r], e, w, t, b) => Sound(L, e, v, t, b)
      BY <1>1, EndedSound DEF Codes
    <2>3. Sound(L, zset[r], watched'[r], clock, lua)
      BY <1>1, <2>2
    <2> HIDE DEF L
    <2>4. /\ watched' \in [Requests -> {"none", "leases", "bucket", "dirty"}]
          /\ \A q \in Requests : q # r => watched'[q] = watched[q]
      BY <2>1, Facts
    <2>5. Cardinality(Blockers(loc[r].now)) + loc[r].rivals >= loc[r].max
      <3>1. PICK E : E = Expired(zset, loc[r].now)
        OBVIOUS
      <3>2. E \in SUBSET Requests /\ Cardinality(E) <= loc[r].rivals
        BY <1>1, <3>1 DEF IInv, Late, Expired, Tokens
      <3>3. /\ n \in Nat /\ Cardinality(E) \in Nat /\ Cardinality(Blockers(loc[r].now)) \in Nat
            /\ n <= Cardinality(Blockers(loc[r].now)) + Cardinality(E)
        BY <3>1, <3>2, Facts, TokensFounded
      <3>4. loc[r].rivals \in Nat /\ loc[r].max \in Nat
        BY <1>1 DEF Locals
      <3> HIDE DEF n
      <3> QED BY <1>3, <3>2, <3>3, <3>4
    <2>6. L.pc \notin {"count", "exec"}
      BY <2>2
    <2> QED BY <1>1, <1>2, <2>1, <2>2, <2>3, <2>4, <2>5, <2>6, Facts, StepSound
  <1>4. CASE ~(n >= loc[r].max)
    <2> DEFINE L == [loc[r] EXCEPT !.pc = "exec"]
    <2>1. watched' = watched /\ Set(r, L)
      BY <1>4 DEF Count
    <2>2. /\ L \in Locals /\ L.pc = "exec" /\ L.now = loc[r].now /\ L.max = loc[r].max
          /\ L.until = loc[r].until /\ L.lease = loc[r].lease /\ L.ans = loc[r].ans
      BY <1>1 DEF Locals, Pcs
    <2> HIDE DEF L
    <2>3. Sound(L, zset[r], watched[r], clock, lua) /\ L.ans # "CLIENT_CONCURRENCY_LIMITED"
      BY <1>1, <2>2 DEF Sound
    <2>4. Cardinality(Tokens(zset)) < L.max
      <3>1. n \in Nat /\ loc[r].max \in Nat
        BY TokensFinite, Facts
      <3> HIDE DEF n
      <3>2. n < L.max
        BY <1>4, <2>2, <3>1
      <3> QED BY <3>2 DEF n
    <2>5. L.pc # "count"
      BY <2>2
    <2> QED BY <1>1, <1>2, <2>1, <2>2, <2>3, <2>4, <2>5, Facts, StepSound
  <1> QED BY <1>3, <1>4

LEMMA ExecLeasesSound ==
    ASSUME IInv, NEW r \in Requests, ExecLeases(r)
    PROVE  StepOK
  <1>1. /\ loc[r].pc = "exec" /\ UNCHANGED <<lua, bucket, clock, admitted, drift, failures>>
    BY DEF ExecLeases
  <1>2. watched[r] \in {"leases", "dirty"} /\ loc[r] \in Locals /\ failures' \in Nat /\ clock \in Nat
    BY <1>1, Facts DEF Sound
  <1>3. CASE watched[r] = "dirty"
    <2> DEFINE L == Retried(loc[r], "acquire")
    <2>1. Set(r, L) /\ zset' = zset /\ watched' = [watched EXCEPT ![r] = "none"]
      BY <1>3 DEF ExecLeases
    <2>2. /\ L \in Locals /\ L.pc \notin {"count", "exec"} /\ L.ans # "CLIENT_CONCURRENCY_LIMITED"
          /\ \A e \in Nat \cup {NULL}, t \in Nat : \A w, v, b :
               Sound(loc[r], e, w, t, b) => Sound(L, e, v, t, b)
      BY <1>1, <1>2, RetriedSound, Facts
    <2>3. Sound(L, zset[r], "none", clock, lua)
      BY <1>2, <2>2, Facts
    <2> HIDE DEF L
    <2> QED BY <1>1, <1>2, <2>1, <2>2, <2>3, QuietSound
  <1>4. CASE watched[r] # "dirty"
    <2>1. /\ zset' = ZAdd(zset, r, loc[r].now + LeaseTtl)
          /\ watched' = Touched("leases", [watched EXCEPT ![r] = "none"], r)
          /\ SetAndDisturb(r, Granted(r), "leases")
      BY <1>4 DEF ExecLeases
    <2>2. Cardinality(Tokens(zset)) < loc[r].max
      BY <1>1, <1>2, <1>4 DEF IInv, Room
    <2>3. /\ Granted(r) \in Locals /\ Granted(r).pc = "rate"
          /\ Granted(r).ans # "CLIENT_CONCURRENCY_LIMITED"
          /\ Sound(Granted(r), loc[r].now + LeaseTtl, watched'[r], clock, lua)
      BY GrantedSound, ConstantTypes DEF IInv
    <2>4. /\ watched' \in [Requests -> {"none", "leases", "bucket", "dirty"}]
          /\ \A q \in Requests : q # r => watched'[q] \in {watched[q], "dirty"}
          /\ \A q \in Requests : watched'[q] # "leases"
      <3> DEFINE w == [watched EXCEPT ![r] = "none"]
      <3>1. /\ w \in [Requests -> {"none", "leases", "bucket", "dirty"}]
            /\ \A q \in Requests : q # r => w[q] = watched[q]
        BY Facts
      <3>2. watched' = Touched("leases", w, r)
        BY <2>1
      <3> HIDE DEF w
      <3>3. /\ Touched("leases", w, r) \in [Requests -> {"none", "leases", "bucket", "dirty"}]
            /\ \A q \in Requests : Touched("leases", w, r)[q] \in {w[q], "dirty"}
            /\ \A q \in Requests : Touched("leases", w, r)[q] # "leases"
        BY <3>1, TouchedSound
      <3> QED BY <3>1, <3>2, <3>3
    <2>5. /\ zset \in {zset, ZRemOld(zset, loc[r].now)}
          /\ Set(r, Granted(r)) \/ SetAndDisturb(r, Granted(r), "leases")
          /\ loc[r].pc \in {"acquire", "exec"} /\ Granted(r).pc \notin {"count", "exec"}
          /\ lua \/ \A q \in Requests : watched'[q] # "leases"
          /\ lua \/ SetAndDisturb(r, Granted(r), "leases")
          /\ zset' = ZAdd(zset, r, loc[r].now + LeaseTtl)
      BY <1>1, <2>1, <2>3, <2>4
    <2>6. UNCHANGED <<lua, bucket, clock, admitted, drift>> /\ failures' \in Nat
      BY <1>1, <1>2
    <2> QED BY <2>2, <2>3, <2>4, <2>5, <2>6, AddedSound
  <1> QED BY <1>3, <1>4

\* The WATCH of r ends, with or without a write that marks the others.
LEMMA Unwatched ==
    ASSUME IInv, NEW r \in Requests
    PROVE  LET w == [watched EXCEPT ![r] = "none"] IN
           /\ w \in [Requests -> {"none", "leases", "bucket", "dirty"}]
           /\ \A q \in Requests : q # r => w[q] = watched[q]
           /\ \A key \in {"leases", "bucket"} :
                /\ Touched(key, w, r) \in [Requests -> {"none", "leases", "bucket", "dirty"}]
                /\ \A q \in Requests : q # r => Touched(key, w, r)[q] \in {watched[q], "dirty"}
                /\ \A q \in Requests : Touched(key, w, r)[q] # key
  <1> DEFINE w == [watched EXCEPT ![r] = "none"]
  <1>1. /\ w \in [Requests -> {"none", "leases", "bucket", "dirty"}]
        /\ \A q \in Requests : q # r => w[q] = watched[q]
    BY Facts
  <1> HIDE DEF w
  <1>2. ASSUME NEW key \in {"leases", "bucket"}
        PROVE  /\ Touched(key, w, r) \in [Requests -> {"none", "leases", "bucket", "dirty"}]
               /\ \A q \in Requests : Touched(key, w, r)[q] \in {w[q], "dirty"}
               /\ \A q \in Requests : Touched(key, w, r)[q] # key
    BY <1>1, TouchedSound
  <1>3. ASSUME NEW key \in {"leases", "bucket"}, NEW q \in Requests, q # r
        PROVE  Touched(key, w, r)[q] \in {watched[q], "dirty"}
    BY <1>1, <1>2, <1>3
  <1> QED BY <1>1, <1>2, <1>3 DEF w

\* A request ends with an error and leaves Redis alone.
LEMMA EndSound ==
    ASSUME IInv, NEW r \in Requests, NEW L \in Locals,
           Sound(L, zset[r], watched[r], clock, lua),
           NEW code \in (Codes \cup {NULL}) \ {"CLIENT_CONCURRENCY_LIMITED"},
           Set(r, Ended(L, code)),
           UNCHANGED <<lua, zset, bucket, clock, admitted, drift>>, failures' \in Nat,
           NEW u \in {"none", watched[r]}, watched' = [watched EXCEPT ![r] = u]
    PROVE  StepOK
  <1> DEFINE M == Ended(L, code)
  <1>1. zset[r] \in Nat \cup {NULL} /\ clock \in Nat
        /\ u \in {"none", "leases", "bucket", "dirty"}
    BY Facts
  <1>2. /\ M \in Locals /\ M.pc \notin {"count", "exec"} /\ M.ans # "CLIENT_CONCURRENCY_LIMITED"
        /\ \A e \in Nat \cup {NULL}, t \in Nat : \A w, v, b :
             Sound(L, e, w, t, b) => Sound(M, e, v, t, b)
    BY EndedSound
  <1>3. Sound(M, zset[r], u, clock, lua)
    BY <1>1, <1>2
  <1> HIDE DEF M
  <1>4. Set(r, M)
    BY DEF M
  <1> QED BY <1>1, <1>2, <1>3, <1>4, QuietSound

LEMMA AcquireFailsSound ==
    ASSUME IInv, NEW r \in Requests, AcquireFails(r)
    PROVE  StepOK
  <1> DEFINE z == ZRemOld(zset, loc[r].now)
             L == Ended(loc[r], "DB_UNAVAILABLE")
             Lost == [L EXCEPT !.lease = "lost", !.until = loc[r].now + LeaseTtl]
             w == [watched EXCEPT ![r] = "none"]
  <1>1. /\ loc[r].pc \in {"acquire", "trim", "count", "exec"} /\ failures' \in Nat
        /\ UNCHANGED <<lua, bucket, clock, admitted, drift>>
        /\ loc[r] \in Locals /\ loc[r].now + LeaseTtl \in Nat /\ clock \in Nat
    BY Facts, ConstantTypes DEF AcquireFails, Fails
  <1>2. /\ L \in Locals /\ L.pc = "done" /\ L.ans = "DB_UNAVAILABLE" /\ L.now = 0
    BY <1>1, EndedSound DEF Codes
  <1> HIDE DEF L
  <1>3. /\ Lost \in Locals /\ Lost.pc = "done" /\ Lost.ans = "DB_UNAVAILABLE" /\ Lost.now = 0
        /\ Lost.lease = "lost" /\ Lost.until = loc[r].now + LeaseTtl
    BY <1>1, <1>2 DEF Locals
  <1> HIDE DEF Lost
  <1>4. Sound(Lost, loc[r].now + LeaseTtl, watched'[r], clock, lua)
    BY <1>1, <1>3, RedisAssumption DEF Sound
  <1>5. CASE watched' = w /\ Set(r, L) /\ zset' = zset
    BY <1>1, <1>5, EndSound, Facts DEF L, Codes
  <1>6. CASE /\ loc[r].pc = "acquire" /\ lua /\ Cardinality(Tokens(z)) < loc[r].max
             /\ zset' = ZAdd(z, r, loc[r].now + LeaseTtl)
             /\ Set(r, Lost) /\ watched' = watched
    <2>1. /\ z \in {zset, ZRemOld(zset, loc[r].now)}
          /\ Set(r, Lost) \/ SetAndDisturb(r, Lost, "leases")
          /\ watched' \in [Requests -> {"none", "leases", "bucket", "dirty"}]
          /\ \A q \in Requests : q # r => watched'[q] \in {watched[q], "dirty"}
      BY <1>6, Facts
    <2> HIDE DEF z
    <2> QED BY <1>1, <1>3, <1>4, <1>6, <2>1, AddedSound
  <1>7. CASE /\ loc[r].pc = "exec" /\ watched[r] # "dirty"
             /\ zset' = ZAdd(zset, r, loc[r].now + LeaseTtl)
             /\ watched' = Touched("leases", w, r)
             /\ SetAndDisturb(r, Lost, "leases")
    <2>1. Cardinality(Tokens(zset)) < loc[r].max
      <3>1. watched[r] = "leases"
        BY <1>7, Facts DEF Sound
      <3> QED BY <1>7, <3>1 DEF IInv, Room
    <2>2. /\ zset \in {zset, ZRemOld(zset, loc[r].now)}
          /\ Set(r, Lost) \/ SetAndDisturb(r, Lost, "leases")
          /\ lua \/ SetAndDisturb(r, Lost, "leases")
          /\ loc[r].pc \in {"acquire", "exec"}
          /\ zset' = ZAdd(zset, r, loc[r].now + LeaseTtl)
      BY <1>7
    <2>3. /\ watched' \in [Requests -> {"none", "leases", "bucket", "dirty"}]
          /\ \A q \in Requests : q # r => watched'[q] \in {watched[q], "dirty"}
          /\ lua \/ \A q \in Requests : watched'[q] # "leases"
      BY <1>7, Unwatched
    <2>4. Lost.pc \notin {"count", "exec"} /\ Lost.ans # "CLIENT_CONCURRENCY_LIMITED"
      BY <1>3
    <2> QED BY <1>1, <1>3, <1>4, <2>1, <2>2, <2>3, <2>4, AddedSound
  <1> QED BY <1>5, <1>6, <1>7 DEF AcquireFails, L, Lost

\* A request takes a token from the bucket, or finds none.
LEMMA BucketSound ==
    ASSUME IInv, NEW r \in Requests, NEW L \in Locals, L.pc \notin {"count", "exec"},
           L.ans # "CLIENT_CONCURRENCY_LIMITED", Spend(loc[r].now), NEW key,
           Set(r, L) \/ SetAndDisturb(r, L, key),
           UNCHANGED <<lua, zset, clock>>, failures' \in Nat,
           watched' \in [Requests -> {"none", "leases", "bucket", "dirty"}],
           \A q \in Requests : q # r => watched'[q] \in {watched[q], "dirty"},
           Sound(L, zset[r], watched'[r], clock, lua)
    PROVE  StepOK
  <1>1. /\ bucket' \in [tokens : 0..Capacity, last : Nat] \cup {NULL}
        /\ admitted' \in Nat /\ drift' \in Nat /\ Paid'
    BY SpendSound, Facts DEF IInv
  <1>2. UNCHANGED Tokens(zset)
    BY DEF Tokens
  <1> QED BY <1>1, <1>2, Facts, StepSound

LEMMA AskRateSound ==
    ASSUME IInv, NEW r \in Requests, AskRate(r)
    PROVE  StepOK
  <1> DEFINE B == [loc[r] EXCEPT !.pc = "allow", !.now = ProcessClock(r)]
  <1>1. /\ loc[r].pc = "rate" /\ UNCHANGED <<lua, zset, bucket, clock, admitted, drift>>
        /\ watched' = watched /\ failures' \in Nat
        /\ Set(r, IF RatePerMin <= 0 THEN Serving(loc[r]) ELSE B)
    BY Facts DEF AskRate
  <1>2. /\ loc[r] \in Locals /\ clock \in Nat /\ zset[r] \in Nat \cup {NULL}
        /\ Sound(loc[r], zset[r], watched[r], clock, lua)
        /\ watched[r] \in {"none", "leases", "bucket", "dirty"}
        /\ watched' = [watched EXCEPT ![r] = watched[r]]
        /\ loc[r].ans # "CLIENT_CONCURRENCY_LIMITED"
    BY <1>1, Facts
  <1>3. CASE RatePerMin <= 0
    <2>1. Set(r, Serving(loc[r]))
      BY <1>1, <1>3
    <2>2. /\ Serving(loc[r]) \in Locals /\ Serving(loc[r]).pc \notin {"count", "exec"}
          /\ Serving(loc[r]).ans # "CLIENT_CONCURRENCY_LIMITED"
          /\ \A e \in Nat \cup {NULL} : \A w, v, b :
               Sound(loc[r], e, w, clock, b) => Sound(Serving(loc[r]), e, v, clock, b)
      BY <1>2, ServingSound, ConstantTypes
    <2>3. Sound(Serving(loc[r]), zset[r], watched[r], clock, lua)
      BY <1>2, <2>2
    <2> QED BY <1>1, <1>2, <2>1, <2>2, <2>3, QuietSound
  <1>4. CASE ~(RatePerMin <= 0)
    <2>1. ProcessClock(r) \in Nat /\ ProcessClock(r) <= clock + MaxSkew /\ RatePerMin > 0
      BY <1>2, <1>4, RedisAssumption DEF ProcessClock
    <2>2. /\ B \in Locals /\ B.pc = "allow" /\ B.now = ProcessClock(r) /\ B.lease = loc[r].lease
          /\ B.until = loc[r].until /\ B.ans = loc[r].ans
      BY <1>2, <2>1 DEF Locals, Pcs
    <2>3. Set(r, B)
      BY <1>1, <1>4
    <2> HIDE DEF B
    <2>4. Sound(B, zset[r], watched[r], clock, lua)
      BY <1>2, <2>1, <2>2 DEF Sound
    <2> QED BY <1>1, <1>2, <2>2, <2>3, <2>4, QuietSound
  <1> QED BY <1>3, <1>4

LEMMA AllowLuaSound ==
    ASSUME IInv, NEW r \in Requests, AllowLua(r)
    PROVE  StepOK
  <1> DEFINE L == AnsweredByBucket(loc[r])
  <1>1. /\ loc[r].pc = "allow" /\ Spend(loc[r].now) /\ Set(r, L)
        /\ UNCHANGED <<lua, zset, clock>> /\ watched' = watched /\ failures' \in Nat
    BY Facts DEF AllowLua
  <1>2. /\ loc[r] \in Locals /\ RatePerMin > 0 /\ TypeOK
        /\ zset[r] \in Nat \cup {NULL} /\ Sound(loc[r], zset[r], watched[r], clock, lua)
    BY <1>1, Facts DEF Sound, IInv
  <1>3. /\ L \in Locals /\ L.pc \notin {"count", "exec"} /\ L.ans # "CLIENT_CONCURRENCY_LIMITED"
        /\ \A e \in Nat \cup {NULL} : \A w, v, b :
             Sound(loc[r], e, w, clock, b) => Sound(L, e, v, clock, b)
    BY <1>1, <1>2, AnsweredSound, ConstantTypes
  <1>4. Sound(L, zset[r], watched'[r], clock, lua)
    BY <1>2, <1>3
  <1>5. /\ watched' \in [Requests -> {"none", "leases", "bucket", "dirty"}]
        /\ \A q \in Requests : q # r => watched'[q] \in {watched[q], "dirty"}
    BY <1>1, Facts
  <1> HIDE DEF L
  <1> QED BY <1>1, <1>3, <1>4, <1>5, BucketSound

LEMMA ExecBucketSound ==
    ASSUME IInv, NEW r \in Requests, ExecBucket(r)
    PROVE  StepOK
  <1>1. /\ loc[r].pc = "spend" /\ UNCHANGED <<lua, zset, clock>> /\ failures' \in Nat
    BY Facts DEF ExecBucket
  <1>2. /\ loc[r] \in Locals /\ RatePerMin > 0 /\ TypeOK /\ clock \in Nat
        /\ zset[r] \in Nat \cup {NULL} /\ Sound(loc[r], zset[r], watched[r], clock, lua)
        /\ loc[r].ans # "CLIENT_CONCURRENCY_LIMITED"
    BY <1>1, Facts DEF Sound, IInv
  <1>3. CASE watched[r] = "dirty"
    <2> DEFINE M == Retried(loc[r], "allow")
               L == IF M.pc = "done" THEN Orphaned(M) ELSE M
    <2>1. /\ watched' = [watched EXCEPT ![r] = "none"] /\ Set(r, L)
          /\ UNCHANGED <<bucket, admitted, drift>>
      BY <1>3 DEF ExecBucket
    <2>2. /\ M \in Locals /\ M.pc \notin {"count", "exec"} /\ M.ans # "CLIENT_CONCURRENCY_LIMITED"
          /\ \A e \in Nat \cup {NULL}, t \in Nat : \A w, v, b :
               Sound(loc[r], e, w, t, b) => Sound(M, e, v, t, b)
      BY <1>1, <1>2, RetriedSound
    <2>3. Sound(M, zset[r], "none", clock, lua)
      BY <1>2, <2>2
    <2> HIDE DEF M
    <2>4. /\ L \in Locals /\ L.pc \notin {"count", "exec"} /\ L.ans # "CLIENT_CONCURRENCY_LIMITED"
          /\ Sound(L, zset[r], "none", clock, lua)
      BY <1>2, <2>2, <2>3, OrphanedSound
    <2> HIDE DEF L
    <2> QED BY <1>1, <2>1, <2>4, QuietSound
  <1>4. CASE watched[r] # "dirty"
    <2> DEFINE L == AnsweredByBucket(loc[r])
    <2>1. /\ Spend(loc[r].now) /\ SetAndDisturb(r, L, "bucket")
          /\ watched' = Touched("bucket", [watched EXCEPT ![r] = "none"], r)
      BY <1>4 DEF ExecBucket
    <2>2. /\ L \in Locals /\ L.pc \notin {"count", "exec"} /\ L.ans # "CLIENT_CONCURRENCY_LIMITED"
          /\ \A e \in Nat \cup {NULL} : \A w, v, b :
               Sound(loc[r], e, w, clock, b) => Sound(L, e, v, clock, b)
      BY <1>1, <1>2, AnsweredSound, ConstantTypes
    <2>3. Sound(L, zset[r], watched'[r], clock, lua)
      BY <1>2, <2>2
    <2>4. /\ watched' \in [Requests -> {"none", "leases", "bucket", "dirty"}]
          /\ \A q \in Requests : q # r => watched'[q] \in {watched[q], "dirty"}
      BY <2>1, Unwatched
    <2> HIDE DEF L
    <2>5. Set(r, L) \/ SetAndDisturb(r, L, "bucket")
      BY <2>1
    <2> QED BY <1>1, <2>1, <2>2, <2>3, <2>4, <2>5, BucketSound
  <1> QED BY <1>3, <1>4

LEMMA AllowFailsSound ==
    ASSUME IInv, NEW r \in Requests, AllowFails(r)
    PROVE  StepOK
  <1> DEFINE O == Orphaned(loc[r])
             L == Ended(O, "DB_UNAVAILABLE")
             w == [watched EXCEPT ![r] = "none"]
  <1>1. loc[r].pc \in {"allow", "spend"} /\ failures' \in Nat /\ UNCHANGED <<lua, zset, clock>>
    BY Facts DEF AllowFails, Fails
  <1>2. /\ loc[r] \in Locals /\ clock \in Nat /\ zset[r] \in Nat \cup {NULL}
        /\ Sound(loc[r], zset[r], watched[r], clock, lua)
    BY Facts
  <1>3. O \in Locals /\ Sound(O, zset[r], watched[r], clock, lua)
    BY <1>2, OrphanedSound
  <1> HIDE DEF O
  <1>4. CASE watched' = w /\ Set(r, L) /\ UNCHANGED <<bucket, admitted, drift>>
    BY <1>1, <1>3, <1>4, EndSound DEF Codes
  <1>5. CASE /\ Spend(loc[r].now) /\ watched' = Touched("bucket", w, r)
             /\ SetAndDisturb(r, L, "bucket")
    <2>1. /\ L \in Locals /\ L.pc \notin {"count", "exec"} /\ L.ans # "CLIENT_CONCURRENCY_LIMITED"
          /\ \A e \in Nat \cup {NULL}, t \in Nat : \A x, v, b :
               Sound(O, e, x, t, b) => Sound(L, e, v, t, b)
      <3>1. "DB_UNAVAILABLE" \in Codes \cup {NULL}
        BY DEF Codes
      <3>2. L.pc = "done" /\ L.ans = "DB_UNAVAILABLE"
        BY <1>3, <3>1, EndedSound
      <3> QED BY <1>3, <3>1, <3>2, EndedSound
    <2>2. Sound(L, zset[r], watched'[r], clock, lua)
      BY <1>2, <1>3, <2>1
    <2>3. /\ watched' \in [Requests -> {"none", "leases", "bucket", "dirty"}]
          /\ \A q \in Requests : q # r => watched'[q] \in {watched[q], "dirty"}
      BY <1>5, Unwatched
    <2> HIDE DEF L
    <2>4. Set(r, L) \/ SetAndDisturb(r, L, "bucket")
      BY <1>5
    <2> QED BY <1>1, <1>5, <2>1, <2>2, <2>3, <2>4, BucketSound
  <1> QED BY <1>4, <1>5 DEF AllowFails, O

LEMMA FinishSound ==
    ASSUME IInv, NEW r \in Requests, Finish(r)
    PROVE  StepOK
  <1> DEFINE L == [loc[r] EXCEPT !.pc = "release", !.ans = "SERVED"]
  <1>1. /\ loc[r].pc = "serving" /\ Set(r, L) /\ watched' = watched /\ failures' \in Nat
        /\ UNCHANGED <<lua, zset, bucket, clock, admitted, drift>>
    BY Facts DEF Finish
  <1>2. /\ watched[r] \in {"none", "leases", "bucket", "dirty"}
        /\ watched' = [watched EXCEPT ![r] = watched[r]]
    BY <1>1, Facts
  <1>3. /\ L \in Locals /\ L.pc = "release" /\ L.ans = "SERVED" /\ L.now = loc[r].now
        /\ L.lease = loc[r].lease /\ L.until = loc[r].until
    BY Facts DEF Locals, Pcs, Codes
  <1> HIDE DEF L
  <1>4. Sound(L, zset[r], watched[r], clock, lua)
    BY <1>1, <1>3, Facts DEF Sound
  <1> QED BY <1>1, <1>2, <1>3, <1>4, QuietSound

LEMMA CrashSound ==
    ASSUME IInv, NEW r \in Requests, Crash(r)
    PROVE  StepOK
  <1>1. /\ failures' \in Nat /\ Set(r, Ended(Orphaned(loc[r]), "CRASHED"))
        /\ watched' = [watched EXCEPT ![r] = "none"]
        /\ UNCHANGED <<lua, zset, bucket, clock, admitted, drift>>
    BY Facts DEF Crash, Fails
  <1>2. /\ Orphaned(loc[r]) \in Locals
        /\ Sound(Orphaned(loc[r]), zset[r], watched[r], clock, lua)
    BY Facts, OrphanedSound
  <1> QED BY <1>1, <1>2, EndSound DEF Codes

LEMMA ReleaseSound ==
    ASSUME IInv, NEW r \in Requests, ReleaseLease(r)
    PROVE  StepOK
  <1> DEFINE N == [loc[r] EXCEPT !.lease = "none"]
             K == [loc[r] EXCEPT !.lease = "lost"]
             a == loc[r].ans
  <1>1. /\ loc[r].pc = "release" /\ UNCHANGED <<lua, bucket, clock, admitted, drift>>
        /\ loc[r] \in Locals /\ clock \in Nat /\ failures \in Nat
        /\ a \in (Codes \cup {NULL}) \ {"CLIENT_CONCURRENCY_LIMITED"}
        /\ Sound(loc[r], zset[r], watched[r], clock, lua)
    BY Facts DEF ReleaseLease, Locals
  <1>2. /\ N \in Locals /\ N.pc = "release" /\ N.lease = "none" /\ N.now = loc[r].now
        /\ N.ans = loc[r].ans
        /\ K \in Locals /\ K.pc = "release" /\ K.lease = "lost" /\ K.now = loc[r].now
        /\ K.ans = loc[r].ans /\ K.until = loc[r].until
    BY <1>1 DEF Locals
  <1> HIDE DEF N, K, a
  <1>3. CASE /\ loc[r].lease = "free" /\ Set(r, Ended(N, a))
             /\ UNCHANGED <<zset, watched, failures>>
    <2>1. Sound(N, zset[r], watched[r], clock, lua)
      BY <1>1, <1>2, <1>3 DEF Sound
    <2>2. watched' = [watched EXCEPT ![r] = watched[r]] /\ failures' \in Nat
      BY <1>1, <1>3, Facts
    <2> QED BY <1>1, <1>2, <1>3, <2>1, <2>2, EndSound
  <1>4. CASE /\ Fails("release") /\ loc[r].lease = "token" /\ Set(r, Ended(K, a))
             /\ UNCHANGED <<zset, watched>>
    <2>1. Sound(K, zset[r], watched[r], clock, lua)
      BY <1>1, <1>2, <1>4 DEF Sound
    <2>2. watched' = [watched EXCEPT ![r] = watched[r]] /\ failures' \in Nat
      BY <1>1, <1>4, Facts DEF Fails
    <2> QED BY <1>1, <1>2, <1>4, <2>1, <2>2, EndSound
  <1>5. CASE /\ loc[r].lease = "token" /\ zset' = [zset EXCEPT ![r] = NULL] /\ failures' = failures
             /\ IF zset[r] = NULL
                THEN watched' = watched /\ Set(r, Ended(N, a))
                ELSE /\ watched' = Touched("leases", watched, r)
                     /\ SetAndDisturb(r, Ended(N, a), "leases")
    <2> DEFINE L == Ended(N, a)
    <2>1. /\ zset' \in [Requests -> Nat \cup {NULL}] /\ zset'[r] = NULL
          /\ \A q \in Requests : q # r => zset'[q] = zset[q]
          /\ Tokens(zset') \in SUBSET Tokens(zset)
      BY <1>5, Facts DEF Tokens
    <2>2. Sound(N, NULL, watched[r], clock, lua)
      BY <1>1, <1>2 DEF Sound
    <2>3. /\ L \in Locals /\ L.pc \notin {"count", "exec"} /\ L.ans # "CLIENT_CONCURRENCY_LIMITED"
          /\ \A e \in Nat \cup {NULL}, t \in Nat : \A w, v, b :
               Sound(N, e, w, t, b) => Sound(L, e, v, t, b)
      BY <1>1, <1>2, EndedSound
    <2>4. Sound(L, zset'[r], watched'[r], clock, lua)
      BY <1>1, <2>1, <2>2, <2>3
    <2> HIDE DEF L
    <2>5. /\ Set(r, L) \/ SetAndDisturb(r, L, "leases")
          /\ watched' \in [Requests -> {"none", "leases", "bucket", "dirty"}]
          /\ \A q \in Requests : q # r => watched'[q] \in {watched[q], "dirty"}
          /\ zset' = zset \/ lua \/ \A q \in Requests : watched'[q] # "leases"
          /\ zset' = zset \/ lua \/ SetAndDisturb(r, L, "leases")
      <3>1. CASE zset[r] = NULL
        <4>1. zset' = zset
          BY <1>5, <3>1, Facts
        <4> QED BY <1>5, <3>1, <4>1, Facts DEF L
      <3>2. CASE zset[r] # NULL
        BY <1>5, <3>2, Facts, TouchedSound DEF L
      <3> QED BY <3>1, <3>2
    <2>6. [Abstract!Next]_(Tokens(zset))
      BY <2>1, LossRefines
    <2>7. Paid' /\ failures' \in Nat
      BY <1>1, <1>5, Facts DEF Paid, BucketAccounted
    <2> QED BY <1>1, <2>1, <2>3, <2>4, <2>5, <2>6, <2>7, Facts, StepSound
  <1> QED BY <1>3, <1>4, <1>5 DEF ReleaseLease, N, K, a

LEMMA TickSound ==
    ASSUME IInv, Tick
    PROVE  StepOK
  <1>1. /\ clock \in Nat /\ clock' = clock + 1
        /\ UNCHANGED <<lua, zset, bucket, watched, loc, admitted, drift, failures>>
    BY DEF Tick, IInv, TypeOK
  <1>2. TypeOK'
    BY <1>1 DEF IInv, TypeOK
  <1>3. AllSound'
    <2> SUFFICES ASSUME NEW r \in Requests
                 PROVE  Sound(loc[r], zset[r], watched[r], clock + 1, lua)
      BY <1>1 DEF AllSound
    <2>1. loc[r].now \in Nat /\ loc[r].until \in Nat
      BY DEF IInv, TypeOK, Locals
    <2> QED BY <1>1, <2>1, Facts, RedisAssumption DEF Sound
  <1>4. Room' /\ Late' /\ Paid' /\ UNCHANGED Tokens(zset) /\ Abstract!WithinLimit'
    BY <1>1 DEF IInv, Room, Late, Expired, Paid, BucketAccounted, Tokens, Abstract!WithinLimit
  <1>5. Justified
    BY <1>1, Facts DEF Justified
  <1> QED BY <1>2, <1>3, <1>4, <1>5 DEF IInv, StepOK

-----------------------------------------------------------------------------
LEMMA InitSound == Init => IInv /\ Abstract!Init
  <1> SUFFICES ASSUME Init PROVE IInv /\ Abstract!Init
    OBVIOUS
  <1>1. Fresh \in Locals /\ Fresh.pc = "idle" /\ Fresh.now = 0 /\ Fresh.lease = "none" /\ Fresh.ans = NULL
    BY RedisAssumption DEF Fresh, Locals, Pcs
  <1>2. TypeOK
    BY <1>1, RedisAssumption DEF Init, TypeOK
  <1>3. AllSound
    BY <1>1, ConstantTypes, RedisAssumption DEF Init, AllSound, Sound
  <1>4. Room /\ Late /\ Paid
    BY <1>1 DEF Init, Room, Late, Paid, BucketAccounted
  <1>5. Tokens(zset) = {}
    BY DEF Init, Tokens
  <1>6. Abstract!WithinLimit
    <2>1. Abstract!Cardinality(Tokens(zset)) = 0
      BY <1>5, FS_EmptySet, SameCardinality
    <2>2. PICK max \in Limits : TRUE
      BY RedisAssumption
    <2>3. max \in Nat /\ 0 <= max
      BY RedisAssumption
    <2> QED BY <2>1, <2>2, <2>3 DEF Abstract!WithinLimit
  <1> QED BY <1>2, <1>3, <1>4, <1>5, <1>6 DEF IInv, Abstract!Init

LEMMA NextSound == IInv /\ [Next]_vars => StepOK
  <1> SUFFICES ASSUME IInv, [Next]_vars PROVE StepOK
    OBVIOUS
  <1>1. ASSUME NEW r \in Requests, Step(r) PROVE StepOK
    BY <1>1, ArriveSound, AcquireLuaSound, WatchSound, TrimStepSound, CountSound, ExecLeasesSound,
       AcquireFailsSound, AskRateSound, AllowLuaSound, ExecBucketSound, AllowFailsSound,
       FinishSound, ReleaseSound, CrashSound DEF Step
  <1>2. CASE UNCHANGED vars
    <2>1. IInv'
      BY <1>2 DEF vars, IInv, TypeOK, AllSound, Room, Late, Expired, Paid, BucketAccounted,
                     Abstract!WithinLimit, Tokens
    <2>2. UNCHANGED Tokens(zset)
      BY <1>2 DEF vars, Tokens
    <2>3. Justified
      BY <1>2, Facts DEF vars, Justified
    <2> QED BY <2>1, <2>2, <2>3 DEF StepOK
  <1> QED BY <1>1, <1>2, TickSound DEF Next, Finished

\* The inductive invariant holds, and every step is justified and abstract.
LEMMA Invariant == Spec => []IInv /\ [][StepOK]_vars
  <1>1. IInv /\ [Next]_vars => IInv'
    BY NextSound DEF StepOK
  <1> QED BY <1>1, InitSound, NextSound, PTL DEF Spec

\* Types: the bucket holds between nothing and its capacity, on every path of
\* the script, of the WATCH transaction and of their failures.
THEOREM TypeCorrect == Spec => []TypeOK
  <1>1. IInv => TypeOK
    BY DEF IInv
  <1> QED BY <1>1, Invariant, PTL

\* The sorted set implements the abstract leases (try_acquire of
\* RedisConcurrencyManager), by the Lua script and by the fallback.
THEOREM Refinement == Spec => ImplementsLeases
  <1>1. StepOK => [Abstract!Next]_(Tokens(zset))
    BY DEF StepOK
  <1>2. UNCHANGED vars => UNCHANGED Tokens(zset)
    BY DEF vars, Tokens
  <1> QED BY <1>1, <1>2, InitSound, Invariant, PTL DEF Spec, ImplementsLeases, Abstract!Spec

\* Never more requests are at work under a live lease than a limit allows,
\* although clocks differ by up to MaxSkew (try_acquire).
THEOREM LimitSound == Spec => []LimitHolds
  <1>1. IInv => LimitHolds
    <2> SUFFICES ASSUME IInv, AtWork # {} PROVE \E max \in Limits : Cardinality(AtWork) <= max
      BY DEF LimitHolds
    <2>1. AtWork \in SUBSET Tokens(zset)
      <3> SUFFICES ASSUME NEW r \in AtWork PROVE r \in Requests /\ zset[r] # NULL
        BY DEF Tokens
      <3>1. r \in Requests /\ loc[r].lease = "token" /\ loc[r].until > clock + MaxSkew
        BY DEF AtWork
      <3>2. zset[r] = loc[r].until /\ loc[r].until \in Nat
        BY <3>1, Facts DEF Sound, Locals
      <3> QED BY <3>1, <3>2, ConstantTypes
    <2>2. PICK max \in Limits : Cardinality(Tokens(zset)) <= max
      BY SameCardinality DEF IInv, Abstract!WithinLimit
    <2>3. /\ Cardinality(AtWork) \in Nat /\ Cardinality(Tokens(zset)) \in Nat /\ max \in Nat
          /\ Cardinality(AtWork) <= Cardinality(Tokens(zset))
      BY <2>1, TokensFinite, RedisAssumption
    <2> QED BY <2>2, <2>3
  <1> QED BY <1>1, Invariant, PTL

\* A denial means that max_concurrent others are at work or have leaked their
\* lease less than its lifetime ago, but for one of them per write of a rival
\* while the request was trying (try_acquire, _acquire_fallback).
THEOREM DenialSound == Spec => DenialJustified
  <1>1. StepOK => Justified
    BY DEF StepOK
  <1> QED BY <1>1, Invariant, PTL DEF DenialJustified, Justified

\* The bucket never pays out more than its capacity and the refill of the time
\* that passed and of the time late writers set it back (allow).
THEOREM BucketAccount == Spec => []BucketAccounted
  <1>1. IInv => BucketAccounted
    BY DEF IInv, Paid
  <1> QED BY <1>1, Invariant, PTL

-----------------------------------------------------------------------------
(***************************************************************************)
(* The aborts of a WATCH transaction.  Each one of the past, the one that  *)
(* is certain because the watched key was written, and the one the reader  *)
(* will cause itself because it finds old tokens are paid for: one by the  *)
(* tokens that were old at the start, two by every write of a rival, which *)
(* aborts the attempt it meets and may add a token that is already old for *)
(* the clock of the reader.                                                *)
(***************************************************************************)
One(b) == IF b THEN 1 ELSE 0

Stale(z, now) == Expired(z, now) # {}

\* What is known of one request with locals L and WATCH w; s says whether the
\* set holds a token that is old for it, b whether the server knows EVAL.
Counted(L, w, s, b) ==
    /\ L.tries \in 1..Tries
    /\ L.ans = "TRIES_EXHAUSTED" => L.pc = "done"
    /\ b \/ L.pc \in {"idle", "rate"} => L.tries = Tries
    /\ b \/ L.pc \notin {"trim", "count", "exec", "spend"} => w = "none"
    /\ L.pc \in {"trim", "count", "exec"} => w \in {"leases", "dirty"}
    /\ L.pc = "spend" => w \in {"bucket", "dirty"}
    /\ L.pc \in {"acquire", "trim", "count", "exec"} =>
         (Tries - L.tries) + One(w = "dirty") + One(s) <= 2 * L.rivals + 1
    /\ L.pc \in {"allow", "spend"} => (Tries - L.tries) + One(w = "dirty") <= L.rivals

Counting == \A r \in Requests : Counted(loc[r], watched[r], Stale(zset, loc[r].now), lua)

\* The wait told to a client whose bucket is b after its request at `now`.
Exact(b, now, wait) == /\ Refilled(b, now + wait) >= Minute
                       /\ Refilled(b, (now + wait) - 1) < Minute

\* The steps of GiveUpMeansContention and of RetryAfterExact.
Fair ==
    \A r \in Requests :
        /\ loc[r].pc # "done" /\ loc'[r].ans = "TRIES_EXHAUSTED" => 2 * loc[r].rivals + 1 >= Tries
        /\ loc[r].ans = NULL /\ loc'[r].ans = "CLIENT_RATE_LIMITED"
             => Exact(bucket', loc[r].now, loc'[r].wait)

CountOK == Counting' /\ Fair

\* Rounding up.
LEMMA RoundedUp ==
    ASSUME NEW a \in Nat \ {0}, NEW k \in Nat \ {0}
    PROVE  LET w == (a + k - 1) \div k IN
           w \in Nat \ {0} /\ w * k >= a /\ (w - 1) * k < a
  <1> DEFINE n == a + k - 1
             w == n \div k
  <1>1. n \in Nat /\ n >= k
    OBVIOUS
  <1>2. w \in Int /\ n % k \in 0..(k - 1) /\ n = k * w + (n % k)
    BY <1>1
  <1> HIDE DEF w
  <1>3. k * w = w * k /\ w * k \in Int /\ (w - 1) * k = w * k - k
    BY <1>2
  <1>4. w * k >= a /\ (w - 1) * k < a
    BY <1>1, <1>2, <1>3
  <1>5. w > 0
    <2>1. w <= 0 => w * k <= 0
      BY <1>2
    <2> QED BY <1>2, <1>4, <2>1
  <1> QED BY <1>2, <1>4, <1>5 DEF w

\* The wait is exact: at that time there is a token, a tick earlier there is none.
LEMMA WaitExact ==
    ASSUME NEW t \in Nat, t < Minute, NEW now \in Nat, RatePerMin > 0
    PROVE  Exact([tokens |-> t, last |-> now], now, RetryAfter(t))
  <1> DEFINE b == [tokens |-> t, last |-> now]
  <1>1. RatePerMin \in Nat \ {0} /\ Minute \in Nat \ {0} /\ Minute - t \in Nat \ {0}
    BY RedisAssumption
  <1>2. PICK w : w = RetryAfter(t)
    OBVIOUS
  <1>3. /\ w \in Nat \ {0} /\ w * RatePerMin >= Minute - t
        /\ (w - 1) * RatePerMin < Minute - t
    <2>1. PICK u : u = (Minute - t + RatePerMin - 1) \div RatePerMin
      OBVIOUS
    <2>2. /\ u \in Nat \ {0} /\ u * RatePerMin >= Minute - t
          /\ (u - 1) * RatePerMin < Minute - t
      BY <1>1, <2>1, RoundedUp
    <2>3. w = u
      BY <1>2, <2>1, <2>2 DEF RetryAfter, Larger
    <2> QED BY <2>2, <2>3
  <1>4. Capacity \in Nat /\ Capacity >= Minute
    BY <1>1 DEF Capacity
  <1>5. b # NULL
    BY RedisAssumption
  <1>6. \A d \in Nat : d * RatePerMin \in Nat
    BY <1>1
  <1>7. \A d \in Nat : Refilled(b, now + d) =
           IF t + d * RatePerMin < Capacity THEN t + d * RatePerMin ELSE Capacity
    <2> SUFFICES ASSUME NEW d \in Nat
                 PROVE  Refilled(b, now + d) =
                          IF t + d * RatePerMin < Capacity THEN t + d * RatePerMin ELSE Capacity
      OBVIOUS
    <2>1. Larger((now + d) - now, 0) = d
      BY DEF Larger
    <2>2. b.tokens = t /\ b.last = now
      OBVIOUS
    <2> HIDE DEF b
    <2> QED BY <1>5, <2>1, <2>2 DEF Refilled
  <1> HIDE DEF b
  <1>8. Refilled(b, now + w) >= Minute
    BY <1>1, <1>3, <1>4, <1>6, <1>7
  <1>9. Refilled(b, (now + w) - 1) < Minute
    <2>1. w - 1 \in Nat /\ (now + w) - 1 = now + (w - 1)
      BY <1>3
    <2>2. (w - 1) * RatePerMin \in Nat
      BY <1>6, <2>1
    <2>3. Refilled(b, now + (w - 1)) < Minute
      <3>1. PICK v \in Nat : v = w - 1
        BY <2>1
      <3>2. v * RatePerMin < Minute - t /\ v * RatePerMin \in Nat
        BY <1>3, <2>2, <3>1
      <3>3. Refilled(b, now + v) < Minute
        BY <1>1, <1>4, <1>7, <3>2
      <3> QED BY <3>1, <3>3
    <2> QED BY <2>1, <2>3
  <1> QED BY <1>2, <1>8, <1>9 DEF Exact, b

\* A write of another request is paid for by one rival more.
LEMMA CountedDisturbed ==
    ASSUME NEW L \in Locals, NEW w, NEW v, NEW s, s \in BOOLEAN, NEW u, u \in BOOLEAN,
           NEW b, b \in BOOLEAN, Counted(L, w, s, b)
    PROVE  /\ b => Counted(L, w, u, b)
           /\ (u => s) => Counted(L, w, u, b)
           /\ /\ ~b /\ L.pc \in {"acquire", "trim", "count", "exec", "allow", "spend"}
              /\ v \in {w, "dirty"} /\ (w = "none" => v = "none")
              => Counted([L EXCEPT !.rivals = @ + 1], v, u, b)
  <1> PICK M : M = [L EXCEPT !.rivals = @ + 1]
    OBVIOUS
  <1>1. /\ M.pc = L.pc /\ M.tries = L.tries /\ M.ans = L.ans /\ M.rivals = L.rivals + 1
        /\ L.rivals \in Nat /\ L.tries \in Nat /\ Tries \in Nat
    BY RedisAssumption DEF Locals
  <1>2. /\ One(u) \in 0..1 /\ One(s) \in 0..1 /\ ((u => s) => One(u) <= One(s))
        /\ One(w = "dirty") \in 0..1 /\ One(v = "dirty") \in 0..1
    BY DEF One
  <1>3. b => Counted(L, w, u, b)
    <2> SUFFICES ASSUME b PROVE Counted(L, w, u, b)
      OBVIOUS
    <2>1. L.tries = Tries /\ w = "none"
      BY DEF Counted
    <2>2. One(w = "dirty") = 0
      BY <2>1 DEF One
    <2>3. (Tries - L.tries) + One(w = "dirty") + One(u) <= 2 * L.rivals + 1
      BY <1>1, <1>2, <2>1, <2>2
    <2> QED BY <2>3 DEF Counted
  <1>4. (u => s) => Counted(L, w, u, b)
    <2> SUFFICES ASSUME u => s PROVE Counted(L, w, u, b)
      OBVIOUS
    <2>1. L.pc \in {"acquire", "trim", "count", "exec"} =>
            (Tries - L.tries) + One(w = "dirty") + One(u) <= 2 * L.rivals + 1
      BY <1>1, <1>2 DEF Counted
    <2> QED BY <2>1 DEF Counted
  <1>5. ASSUME ~b, L.pc \in {"acquire", "trim", "count", "exec", "allow", "spend"}, v \in {w, "dirty"},
               w = "none" => v = "none"
        PROVE  Counted(M, v, u, b)
    <2>1. L.pc \in {"acquire", "trim", "count", "exec"} =>
            (Tries - M.tries) + One(v = "dirty") + One(u) <= 2 * M.rivals + 1
      BY <1>1, <1>2 DEF Counted
    <2>2. L.pc \in {"allow", "spend"} => (Tries - M.tries) + One(v = "dirty") <= M.rivals
      BY <1>1, <1>2 DEF Counted
    <2> QED BY <1>1, <1>5, <2>1, <2>2 DEF Counted
  <1> QED BY <1>3, <1>4, <1>5

\* A step of r to the locals L, seen from the others: no key is written, or
\* those who are at the key are disturbed.
Moves(r, L) ==
    \/ /\ Set(r, L) /\ \A q \in Requests : q # r => watched'[q] = watched[q]
       /\ lua \/ \A now \in Nat : Stale(zset', now) => Stale(zset, now)
    \/ \E key \in {"leases", "bucket"} :
         /\ SetAndDisturb(r, L, key)
         /\ \A q \in Requests : q # r =>
              watched'[q] = IF watched[q] = key THEN "dirty" ELSE watched[q]
         /\ key = "bucket" => zset' = zset

\* The form of every step: what a request r that moves to L must show.
LEMMA CountStep ==
    ASSUME IInv, Counting, NEW r \in Requests, NEW L \in Locals, lua' = lua,
           Counted(L, watched'[r], Stale(zset', L.now), lua),
           Moves(r, L),
           L.ans = "TRIES_EXHAUSTED" /\ loc[r].pc # "done" => 2 * loc[r].rivals + 1 >= Tries,
           L.ans = "CLIENT_RATE_LIMITED" /\ loc[r].ans = NULL
             => Exact(bucket', loc[r].now, L.wait)
    PROVE  CountOK
  <1>1. TypeOK /\ lua \in BOOLEAN
    BY DEF IInv, TypeOK
  <1>2. PICK key : Set(r, L) \/ SetAndDisturb(r, L, key)
    BY DEF Moves
  <1>3. /\ loc'[r] = L
        /\ \A q \in Requests : q # r => Alike(loc'[q], loc[q])
    BY <1>1, <1>2, Moved
  <1>4. Fair
    <2> SUFFICES ASSUME NEW q \in Requests, q # r
                 PROVE  /\ ~(loc[q].pc # "done" /\ loc'[q].ans = "TRIES_EXHAUSTED")
                        /\ ~(loc[q].ans = NULL /\ loc'[q].ans = "CLIENT_RATE_LIMITED")
      BY <1>3 DEF Fair
    <2>1. loc'[q].ans = loc[q].ans
      BY <1>3 DEF Alike
    <2> QED BY <2>1, ConstantTypes DEF Counting, Counted
  <1>5. ASSUME NEW q \in Requests
        PROVE  Counted(loc'[q], watched'[q], Stale(zset', loc'[q].now), lua)
    <2>1. CASE q = r
      BY <1>3, <2>1
    <2>2. CASE q # r
      <3>1. PICK s : s = Stale(zset, loc[q].now)
        OBVIOUS
      <3>2. PICK u : u = Stale(zset', loc[q].now)
        OBVIOUS
      <3>3. /\ s \in BOOLEAN /\ u \in BOOLEAN /\ loc[q] \in Locals /\ loc[q].now \in Nat
            /\ Counted(loc[q], watched[q], s, lua)
        BY <1>1, <3>1, <3>2 DEF Stale, Counting, TypeOK, Locals
      <3>4. loc'[q].now = loc[q].now
        BY <1>3, <2>2 DEF Alike
      <3>5. SUFFICES Counted(loc'[q], watched'[q], u, lua)
        BY <3>2, <3>4
      <3>6. CASE /\ Set(r, L) /\ watched'[q] = watched[q]
                 /\ lua \/ \A now \in Nat : Stale(zset', now) => Stale(zset, now)
        <4>1. loc'[q] = loc[q]
          BY <1>1, <2>2, <3>6 DEF Set, TypeOK
        <4>2. lua \/ (u => s)
          BY <3>1, <3>2, <3>3, <3>6
        <4> QED BY <1>1, <3>3, <3>6, <4>1, <4>2, CountedDisturbed
      <3>7. ASSUME NEW k \in {"leases", "bucket"}, SetAndDisturb(r, L, k),
                   watched'[q] = IF watched[q] = k THEN "dirty" ELSE watched[q],
                   k = "bucket" => zset' = zset
            PROVE  Counted(loc'[q], watched'[q], u, lua)
        <4>1. loc'[q] = IF q \in Contenders(k) /\ ~lua THEN [loc[q] EXCEPT !.rivals = @ + 1]
                        ELSE loc[q]
          BY <2>2, <3>7 DEF SetAndDisturb
        <4>2. /\ watched'[q] \in {watched[q], "dirty"}
              /\ watched[q] = "none" => watched'[q] = "none"
          BY <3>7
        <4>3. CASE q \in Contenders(k) /\ ~lua
          <5>1. loc[q].pc \in {"acquire", "trim", "count", "exec", "allow", "spend"}
            BY <4>3 DEF Contenders
          <5>2. Counted([loc[q] EXCEPT !.rivals = @ + 1], watched'[q], u, lua)
            BY <1>1, <3>3, <4>2, <4>3, <5>1, CountedDisturbed
          <5> QED BY <4>1, <4>3, <5>2
        <4>4. CASE ~(q \in Contenders(k) /\ ~lua)
          <5>1. loc'[q] = loc[q]
            BY <4>1, <4>4
          <5>2. watched[q] # k
            BY <3>3, <4>4 DEF Contenders, Counted
          <5>3. watched'[q] = watched[q]
            BY <3>7, <5>2
          <5>4. CASE lua
            BY <1>1, <3>3, <5>1, <5>3, <5>4, CountedDisturbed
          <5>5. CASE ~lua /\ k = "bucket"
            <6>1. u = s
              BY <3>1, <3>2, <3>7, <5>5
            <6> QED BY <3>3, <5>1, <5>3, <6>1
          <5>6. CASE ~lua /\ k = "leases"
            <6>1. loc[q].pc \notin {"acquire", "trim", "count", "exec"}
              BY <4>4, <5>6 DEF Contenders
            <6> QED BY <3>3, <5>1, <5>3, <6>1 DEF Counted
          <5> QED BY <5>4, <5>5, <5>6
        <4> QED BY <4>3, <4>4
      <3> QED BY <2>2, <3>6, <3>7 DEF Moves
    <2> QED BY <2>1, <2>2
  <1> QED BY <1>4, <1>5 DEF CountOK, Counting
\* A step to a place without a transaction.
LEMMA CountedOver ==
    ASSUME IInv, Counting, NEW r \in Requests, NEW L \in Locals, lua' = lua, Moves(r, L),
           L.pc \in {"rate", "serving", "release", "done"}, watched'[r] = "none",
           L.tries = Tries \/ (L.tries \in 1..Tries /\ ~lua /\ L.pc # "rate"),
           L.ans = "TRIES_EXHAUSTED" => L.pc = "done",
           L.ans = "TRIES_EXHAUSTED" /\ loc[r].pc # "done" => 2 * loc[r].rivals + 1 >= Tries,
           L.ans = "CLIENT_RATE_LIMITED" /\ loc[r].ans = NULL
             => Exact(bucket', loc[r].now, L.wait)
    PROVE  CountOK
  <1>1. L.tries \in 1..Tries
    BY RedisAssumption
  <1>2. Counted(L, watched'[r], Stale(zset', L.now), lua)
    BY <1>1 DEF Counted
  <1> QED BY <1>2, CountStep

\* Old tokens are only added by writes.
LEMMA StaleShrinks ==
    ASSUME TypeOK
    PROVE  /\ \A n, now \in Nat : Stale(ZRemOld(zset, n), now) => Stale(zset, now)
           /\ \A n \in Nat : ~Stale(ZRemOld(zset, n), n)
           /\ \A r \in Requests, now \in Nat : Stale([zset EXCEPT ![r] = NULL], now) => Stale(zset, now)
           /\ \A now \in Nat : Stale(zset, now) \in BOOLEAN
  BY DEF Stale, Expired, ZRemOld, Tokens, TypeOK

\* What a write to a key means for the WATCH of each request.
LEMMA Marks ==
    ASSUME TypeOK, NEW r \in Requests, NEW key \in {"leases", "bucket"}
    PROVE  LET w == [watched EXCEPT ![r] = "none"] IN
           /\ w[r] = "none" /\ \A q \in Requests : q # r => w[q] = watched[q]
           /\ Touched(key, w, r)[r] = "none"
           /\ \A q \in Requests : q # r =>
                Touched(key, w, r)[q] = IF watched[q] = key THEN "dirty" ELSE watched[q]
           /\ \A q \in Requests :
                Touched(key, watched, r)[q] = IF watched[q] = key THEN "dirty" ELSE watched[q]
  BY DEF Touched, TypeOK

\* The number of attempts left in the locals a step builds.
LEMMA TriesLeft ==
    ASSUME NEW L \in Locals, NEW r \in Requests, NEW code
    PROVE  /\ Ended(L, code).tries = Tries /\ Serving(L).tries = Tries /\ Granted(r).tries = Tries
           /\ Orphaned(L).tries = L.tries /\ Orphaned(L).rivals = L.rivals
           /\ Fresh.tries = Tries
  BY DEF Ended, Serving, Granted, Orphaned, Fresh, Locals

\* What both invariants say of a request that takes a step.
LEMMA CountFacts ==
    ASSUME IInv, Counting, NEW r \in Requests
    PROVE  /\ TypeOK /\ lua \in BOOLEAN /\ loc[r] \in Locals
           /\ loc[r].now \in Nat /\ loc[r].rivals \in Nat
           /\ loc[r].tries \in 1..Tries /\ Tries \in Nat
           /\ Counted(loc[r], watched[r], Stale(zset, loc[r].now), lua)
           /\ loc[r].pc # "done" => loc[r].ans # "TRIES_EXHAUSTED"
  BY RedisAssumption DEF IInv, TypeOK, Counting, Counted, Locals

LEMMA ArriveCounts ==
    ASSUME IInv, Counting, NEW r \in Requests, Arrive(r)
    PROVE  CountOK
  <1>1. /\ loc[r].pc = "idle" /\ UNCHANGED <<lua, zset, bucket, watched, clock, admitted, drift, failures>>
        /\ ProcessClock(r) \in Nat
    BY RedisAssumption DEF Arrive, ProcessClock, IInv, TypeOK
  <1>2. /\ loc[r] \in Locals /\ loc[r].tries = Tries /\ watched[r] = "none" /\ loc[r].rivals \in Nat
        /\ loc[r].ans # "TRIES_EXHAUSTED" /\ Tries \in Nat \ {0}
    BY <1>1, CountFacts, RedisAssumption DEF Counted
  <1>3. ASSUME NEW L, Set(r, L) PROVE Moves(r, L)
    BY <1>1, <1>3 DEF Moves
  <1>4. PICK max \in Limits :
          Set(r, IF max <= 0 THEN [loc[r] EXCEPT !.pc = "rate", !.lease = "free"]
                 ELSE [loc[r] EXCEPT !.pc = "acquire", !.max = max, !.now = ProcessClock(r)])
    BY DEF Arrive
  <1>5. max \in Nat
    BY RedisAssumption
  <1>6. CASE max <= 0
    <2>1. PICK L : L = [loc[r] EXCEPT !.pc = "rate", !.lease = "free"]
      OBVIOUS
    <2>2. L \in Locals /\ L.pc = "rate" /\ L.tries = Tries /\ L.ans = loc[r].ans
      BY <1>2, <2>1 DEF Locals, Pcs
    <2>3. Set(r, L)
      BY <1>4, <1>6, <2>1
    <2> QED BY <1>1, <1>2, <1>3, <2>2, <2>3, CountedOver, ConstantTypes
  <1>7. CASE ~(max <= 0)
    <2>1. PICK L : L = [loc[r] EXCEPT !.pc = "acquire", !.max = max, !.now = ProcessClock(r)]
      OBVIOUS
    <2>2. /\ L \in Locals /\ L.pc = "acquire" /\ L.tries = Tries /\ L.ans = loc[r].ans
          /\ L.rivals = loc[r].rivals
      BY <1>1, <1>2, <1>5, <2>1 DEF Locals, Pcs
    <2>3. Set(r, L)
      BY <1>4, <1>7, <2>1
    <2>4. Counted(L, watched'[r], Stale(zset', L.now), lua)
      BY <1>1, <1>2, <2>2 DEF Counted, One
    <2> QED BY <1>1, <1>2, <1>3, <2>2, <2>3, <2>4, CountStep, ConstantTypes
  <1> QED BY <1>6, <1>7
LEMMA AcquireLuaCounts ==
    ASSUME IInv, Counting, NEW r \in Requests, AcquireLua(r)
    PROVE  CountOK
  <1>1. /\ loc[r].pc = "acquire" /\ lua /\ UNCHANGED <<lua, watched, bucket>>
    BY DEF AcquireLua
  <1>2. PICK L : /\ Set(r, L)
                 /\ L \in {Ended(loc[r], "CLIENT_CONCURRENCY_LIMITED"), Granted(r)}
    BY DEF AcquireLua
  <1>3. /\ L \in Locals /\ L.pc \in {"done", "rate"} /\ L.tries = Tries
        /\ L.ans \in {"CLIENT_CONCURRENCY_LIMITED", NULL}
    BY <1>2, CountFacts, EndedSound, GrantedSound, TriesLeft DEF IInv, Codes
  <1>4. watched[r] = "none"
    BY <1>1, CountFacts DEF Counted
  <1>5. Moves(r, L)
    BY <1>1, <1>2 DEF Moves
  <1>6. NULL # "TRIES_EXHAUSTED"
    BY RedisAssumption DEF Codes
  <1> QED BY <1>1, <1>3, <1>4, <1>5, <1>6, CountedOver, ConstantTypes

LEMMA WatchCounts ==
    ASSUME IInv, Counting, NEW r \in Requests, WatchLeases(r) \/ WatchBucket(r)
    PROVE  CountOK
  <1>1. PICK w \in {"leases", "bucket"}, pc \in {"trim", "spend"} :
          /\ loc[r].pc \in {"acquire", "allow"} /\ ~lua
          /\ w = "leases" <=> loc[r].pc = "acquire"
          /\ w = "leases" <=> pc = "trim"
          /\ watched' = [watched EXCEPT ![r] = w]
          /\ Set(r, [loc[r] EXCEPT !.pc = pc])
          /\ UNCHANGED <<lua, zset, bucket>>
    <2>1. CASE WatchLeases(r)
      BY <2>1 DEF WatchLeases
    <2>2. CASE WatchBucket(r)
      BY <2>2 DEF WatchBucket
    <2> QED BY <2>1, <2>2
  <1>2. PICK L : L = [loc[r] EXCEPT !.pc = pc]
    OBVIOUS
  <1>3. /\ L \in Locals /\ L.pc = pc /\ L.tries = loc[r].tries /\ L.ans = loc[r].ans
        /\ L.rivals = loc[r].rivals /\ L.now = loc[r].now
    BY <1>2, CountFacts DEF Locals, Pcs
  <1>4. watched'[r] = w /\ \A q \in Requests : q # r => watched'[q] = watched[q]
    BY <1>1, CountFacts DEF TypeOK
  <1>5. Counted(L, watched'[r], Stale(zset', L.now), lua)
    <2>1. watched[r] = "none" /\ One(watched[r] = "dirty") = 0 /\ One(w = "dirty") = 0
      BY <1>1, CountFacts DEF Counted, One
    <2>2. PICK s : s = Stale(zset, loc[r].now) /\ s = Stale(zset', L.now)
      BY <1>1, <1>3
    <2>3. Counted(loc[r], watched[r], s, lua)
      BY <2>2, CountFacts
    <2>4. Counted(L, w, s, lua)
      BY <1>1, <1>3, <2>1, <2>3, CountFacts DEF Counted
    <2> QED BY <1>4, <2>2, <2>4
  <1>6. Moves(r, L)
    BY <1>1, <1>2, <1>4 DEF Moves
  <1> QED BY <1>1, <1>3, <1>5, <1>6, CountFacts, CountStep, ConstantTypes

\* The request's own removal of old tokens pays for the abort it causes.
LEMMA TrimCounts ==
    ASSUME IInv, Counting, NEW r \in Requests, Trim(r)
    PROVE  CountOK
  <1> DEFINE z == ZRemOld(zset, loc[r].now)
  <1>1. PICK L : L = [loc[r] EXCEPT !.pc = "count"]
    OBVIOUS
  <1>2. /\ L \in Locals /\ L.pc = "count" /\ L.tries = loc[r].tries /\ L.ans = loc[r].ans
        /\ L.rivals = loc[r].rivals /\ L.now = loc[r].now
    BY <1>1, CountFacts DEF Locals, Pcs
  <1>3. /\ loc[r].pc = "trim" /\ zset' = z /\ UNCHANGED <<lua, bucket>>
        /\ IF z = zset THEN watched' = watched /\ Set(r, L)
           ELSE watched' = Touched("leases", watched, r) /\ SetAndDisturb(r, L, "leases")
    BY <1>1 DEF Trim
  <1>4. /\ \A now \in Nat : Stale(zset', now) => Stale(zset, now)
        /\ ~Stale(zset', loc[r].now)
    BY <1>3, CountFacts, StaleShrinks
  <1>5. Moves(r, L)
    <2>1. CASE z = zset
      BY <1>3, <1>4, <2>1 DEF Moves
    <2>2. CASE z # zset
      <3>1. \A q \in Requests : q # r =>
              watched'[q] = IF watched[q] = "leases" THEN "dirty" ELSE watched[q]
        <4>1. watched' = Touched("leases", watched, r) /\ TypeOK
          BY <1>3, <2>2, CountFacts
        <4> QED BY <4>1, Marks
      <3> QED BY <1>3, <2>2, <3>1 DEF Moves
    <2> QED BY <2>1, <2>2
  <1>6. PICK s : s = Stale(zset, loc[r].now)
    OBVIOUS
  <1>7. s \in BOOLEAN /\ Counted(loc[r], watched[r], s, lua)
    BY <1>6, CountFacts, StaleShrinks
  <1>8. /\ watched'[r] \in {watched[r], "dirty"}
        /\ watched[r] \in {"leases", "dirty"}
        /\ One(watched'[r] = "dirty") <= One(watched[r] = "dirty") + One(s)
        /\ ~lua
    <2>1. watched[r] \in {"leases", "dirty"} /\ ~lua
      BY <1>3, <1>7 DEF Counted
    <2>2. CASE z = zset
      BY <1>3, <1>7, <2>1, <2>2 DEF One
    <2>3. CASE z # zset
      <3>1. s
        BY <1>3, <1>6, <2>3, CountFacts DEF Stale, ZRemOld, Expired, TypeOK
      <3>2. watched'[r] = "dirty"
        <4>1. watched' = Touched("leases", watched, r)
          BY <1>3, <2>3
        <4> QED BY <2>1, <4>1 DEF Touched
      <3> QED BY <2>1, <3>1, <3>2 DEF One
    <2> QED BY <2>2, <2>3
  <1>9. One(Stale(zset', L.now)) = 0
    BY <1>2, <1>4 DEF One
  <1>10. /\ One(watched'[r] = "dirty") \in 0..1 /\ One(watched[r] = "dirty") \in 0..1
         /\ One(s) \in 0..1
    BY DEF One
  <1>11. (Tries - loc[r].tries) + One(watched[r] = "dirty") + One(s) <= 2 * loc[r].rivals + 1
    BY <1>3, <1>7 DEF Counted
  <1>12. (Tries - L.tries) + One(watched'[r] = "dirty") + One(Stale(zset', L.now)) <= 2 * L.rivals + 1
    BY <1>2, <1>8, <1>9, <1>10, <1>11, CountFacts
  <1>13. Counted(L, watched'[r], Stale(zset', L.now), lua)
    BY <1>2, <1>3, <1>8, <1>12, CountFacts DEF Counted
  <1> QED BY <1>2, <1>3, <1>5, <1>13, CountFacts, CountStep, ConstantTypes

LEMMA CountCounts ==
    ASSUME IInv, Counting, NEW r \in Requests, Count(r)
    PROVE  CountOK
  <1>1. loc[r].pc = "count" /\ UNCHANGED <<lua, zset, bucket>>
    BY DEF Count
  <1>2. CASE Cardinality(Tokens(zset)) >= loc[r].max
    <2>1. PICK L : L = Ended(loc[r], "CLIENT_CONCURRENCY_LIMITED")
      OBVIOUS
    <2>2. watched' = [watched EXCEPT ![r] = "none"] /\ Set(r, L)
      BY <1>2, <2>1 DEF Count
    <2>3. /\ L \in Locals /\ L.pc = "done" /\ L.tries = Tries
          /\ L.ans = "CLIENT_CONCURRENCY_LIMITED"
      BY <2>1, CountFacts, EndedSound, TriesLeft DEF Codes
    <2>4. watched'[r] = "none" /\ \A q \in Requests : q # r => watched'[q] = watched[q]
      BY <2>2, CountFacts, Marks
    <2>5. Moves(r, L)
      BY <1>1, <2>2, <2>4 DEF Moves
    <2> QED BY <1>1, <2>3, <2>4, <2>5, CountedOver
  <1>3. CASE ~(Cardinality(Tokens(zset)) >= loc[r].max)
    <2>1. PICK L : L = [loc[r] EXCEPT !.pc = "exec"]
      OBVIOUS
    <2>2. watched' = watched /\ Set(r, L)
      BY <1>3, <2>1 DEF Count
    <2>3. /\ L \in Locals /\ L.pc = "exec" /\ L.tries = loc[r].tries /\ L.ans = loc[r].ans
          /\ L.rivals = loc[r].rivals /\ L.now = loc[r].now
      BY <2>1, CountFacts DEF Locals, Pcs
    <2>4. PICK s : s = Stale(zset, loc[r].now) /\ s = Stale(zset', L.now)
      BY <1>1, <2>3
    <2>5. Counted(loc[r], watched[r], s, lua)
      BY <2>4, CountFacts
    <2>6. Counted(L, watched[r], s, lua)
      BY <1>1, <2>3, <2>5, CountFacts DEF Counted
    <2>7. Counted(L, watched'[r], Stale(zset', L.now), lua)
      BY <2>2, <2>4, <2>6
    <2>8. Moves(r, L)
      BY <1>1, <2>2 DEF Moves
    <2> QED BY <1>1, <2>3, <2>7, <2>8, CountFacts, CountStep, ConstantTypes
  <1> QED BY <1>2, <1>3

\* An attempt whose transaction was aborted: the last one only after enough
\* writes of others.
LEMMA RetriedCounts ==
    ASSUME NEW L \in Locals, NEW s, s \in BOOLEAN, NEW b, b \in BOOLEAN,
           NEW again \in {"acquire", "allow"},
           L.pc = IF again = "acquire" THEN "exec" ELSE "spend",
           Counted(L, "dirty", s, b)
    PROVE  /\ Counted(Retried(L, again), "none", s, b)
           /\ Retried(L, again).ans = "TRIES_EXHAUSTED" => 2 * L.rivals + 1 >= Tries
           /\ Retried(L, again).ans = "CLIENT_RATE_LIMITED" => L.ans = "CLIENT_RATE_LIMITED"
           /\ Retried(L, again).pc \in {again, "done"}
           /\ Retried(L, again).pc = again => Retried(L, again).now = L.now
  <1>1. /\ ~b /\ L.tries \in 1..Tries /\ Tries \in Nat /\ L.rivals \in Nat
        /\ L.ans # "TRIES_EXHAUSTED" /\ again \in Pcs
    BY RedisAssumption DEF Counted, Locals, Pcs
  <1>2. One("dirty" = "dirty") = 1 /\ One("none" = "dirty") = 0 /\ One(s) \in 0..1
    BY DEF One
  <1>3. CASE L.tries > 1
    <2>1. PICK M : M = Retried(L, again)
      OBVIOUS
    <2>2. M = [L EXCEPT !.pc = again, !.tries = @ - 1]
      BY <1>3, <2>1 DEF Retried
    <2>3. /\ M.pc = again /\ M.tries = L.tries - 1 /\ M.ans = L.ans /\ M.rivals = L.rivals
          /\ M.now = L.now
      BY <2>2 DEF Locals
    <2>4. Counted(M, "none", s, b)
      BY <1>1, <1>2, <1>3, <2>3 DEF Counted
    <2> QED BY <1>1, <2>1, <2>3, <2>4
  <1>4. CASE ~(L.tries > 1)
    <2>1. Retried(L, again) = Ended(L, "TRIES_EXHAUSTED")
      BY <1>4 DEF Retried
    <2>2. PICK M : M = Retried(L, again)
      OBVIOUS
    <2>3. M.pc = "done" /\ M.ans = "TRIES_EXHAUSTED" /\ M.tries = Tries
      BY <2>1, <2>2 DEF Ended, Fresh
    <2>4. Counted(M, "none", s, b)
      BY <1>1, <2>3 DEF Counted
    <2>5. 2 * L.rivals + 1 >= Tries
      BY <1>1, <1>2, <1>4 DEF Counted
    <2> QED BY <2>2, <2>3, <2>4, <2>5
  <1> QED BY <1>3, <1>4
LEMMA ExecLeasesCounts ==
    ASSUME IInv, Counting, NEW r \in Requests, ExecLeases(r)
    PROVE  CountOK
  <1>1. loc[r].pc = "exec" /\ UNCHANGED <<lua, bucket>>
    BY DEF ExecLeases
  <1>2. CASE watched[r] = "dirty"
    <2>1. PICK L : L = Retried(loc[r], "acquire")
      OBVIOUS
    <2>2. watched' = [watched EXCEPT ![r] = "none"] /\ Set(r, L) /\ zset' = zset
      BY <1>2, <2>1 DEF ExecLeases
    <2>3. L \in Locals
      BY <1>1, <2>1, CountFacts, RetriedSound
    <2>4. PICK s : s = Stale(zset, loc[r].now)
      OBVIOUS
    <2>5. s \in BOOLEAN /\ Counted(loc[r], "dirty", s, lua)
      BY <1>2, <2>4, CountFacts, StaleShrinks
    <2>6. /\ Counted(L, "none", s, lua)
          /\ L.ans = "TRIES_EXHAUSTED" => 2 * loc[r].rivals + 1 >= Tries
          /\ L.ans = "CLIENT_RATE_LIMITED" => loc[r].ans = "CLIENT_RATE_LIMITED"
          /\ L.pc \in {"acquire", "done"} /\ (L.pc = "acquire" => L.now = loc[r].now)
      BY <1>1, <2>1, <2>5, CountFacts, RetriedCounts
    <2>7. watched'[r] = "none" /\ \A q \in Requests : q # r => watched'[q] = watched[q]
      BY <2>2, CountFacts, Marks
    <2>8. Moves(r, L)
      BY <2>2, <2>7 DEF Moves
    <2>9. Counted(L, watched'[r], Stale(zset', L.now), lua)
      <3>1. CASE L.pc = "acquire"
        BY <2>2, <2>4, <2>6, <2>7, <3>1
      <3>2. CASE L.pc = "done"
        BY <2>6, <2>7, <3>2 DEF Counted
      <3> QED BY <2>6, <3>1, <3>2
    <2> QED BY <1>1, <2>3, <2>6, <2>8, <2>9, CountStep, ConstantTypes
  <1>3. CASE watched[r] # "dirty"
    <2>1. /\ watched' = Touched("leases", [watched EXCEPT ![r] = "none"], r)
          /\ SetAndDisturb(r, Granted(r), "leases")
      BY <1>3 DEF ExecLeases
    <2>2. PICK L : L = Granted(r)
      OBVIOUS
    <2>3. /\ L \in Locals /\ L.pc = "rate" /\ L.tries = Tries /\ L.ans = NULL
      BY <2>2, CountFacts, GrantedSound, TriesLeft DEF IInv
    <2>4. /\ watched'[r] = "none"
          /\ \A q \in Requests : q # r =>
               watched'[q] = IF watched[q] = "leases" THEN "dirty" ELSE watched[q]
      BY <2>1, CountFacts, Marks
    <2>5. Moves(r, L)
      BY <2>1, <2>2, <2>4 DEF Moves
    <2>6. NULL # "TRIES_EXHAUSTED"
      BY RedisAssumption DEF Codes
    <2> QED BY <1>1, <2>3, <2>4, <2>5, <2>6, CountedOver, ConstantTypes
  <1> QED BY <1>2, <1>3

\* A request that ends without an answer of Redis.
LEMMA CountedEnd ==
    ASSUME IInv, Counting, NEW r \in Requests, NEW L \in Locals, lua' = lua, Moves(r, L),
           L.pc = "done", watched'[r] = "none", L.tries = Tries,
           \/ L.ans \in {"DB_UNAVAILABLE", "CRASHED"}
           \/ L.ans = loc[r].ans /\ loc[r].pc # "done"
    PROVE  CountOK
  BY CountedOver, CountFacts, ConstantTypes

LEMMA AcquireFailsCounts ==
    ASSUME IInv, Counting, NEW r \in Requests, AcquireFails(r)
    PROVE  CountOK
  <1> DEFINE w == [watched EXCEPT ![r] = "none"]
  <1>1. PICK L : L = Ended(loc[r], "DB_UNAVAILABLE")
    OBVIOUS
  <1>2. PICK Lost : Lost = [L EXCEPT !.lease = "lost", !.until = loc[r].now + LeaseTtl]
    OBVIOUS
  <1>3. L \in Locals /\ L.pc = "done" /\ L.tries = Tries /\ L.ans = "DB_UNAVAILABLE"
    BY <1>1, CountFacts, EndedSound, TriesLeft DEF Codes
  <1>4. Lost \in Locals /\ Lost.pc = "done" /\ Lost.tries = Tries /\ Lost.ans = "DB_UNAVAILABLE"
    <2>1. loc[r].now + LeaseTtl \in Nat
      BY CountFacts, ConstantTypes
    <2> QED BY <1>2, <1>3, <2>1 DEF Locals
  <1>5. lua' = lua
    BY DEF AcquireFails
  <1>6. CASE watched' = w /\ Set(r, L) /\ UNCHANGED zset
    <2>1. watched'[r] = "none" /\ Moves(r, L)
      BY <1>6, CountFacts, Marks DEF Moves
    <2> QED BY <1>3, <1>5, <2>1, CountedEnd
  <1>7. CASE lua /\ loc[r].pc = "acquire" /\ Set(r, Lost) /\ UNCHANGED watched
    <2>1. watched'[r] = "none" /\ Moves(r, Lost)
      BY <1>7, CountFacts DEF Moves, Counted
    <2> QED BY <1>4, <1>5, <2>1, CountedEnd
  <1>8. CASE watched' = Touched("leases", w, r) /\ SetAndDisturb(r, Lost, "leases")
    <2>1. /\ watched'[r] = "none"
          /\ \A q \in Requests : q # r =>
               watched'[q] = IF watched[q] = "leases" THEN "dirty" ELSE watched[q]
      BY <1>8, CountFacts, Marks
    <2>2. Moves(r, Lost)
      BY <1>8, <2>1 DEF Moves
    <2> QED BY <1>4, <1>5, <2>1, <2>2, CountedEnd
  <1> QED BY <1>1, <1>2, <1>6, <1>7, <1>8 DEF AcquireFails

LEMMA AskRateCounts ==
    ASSUME IInv, Counting, NEW r \in Requests, AskRate(r)
    PROVE  CountOK
  <1>1. /\ loc[r].pc = "rate" /\ UNCHANGED <<lua, zset, bucket, watched, clock>>
        /\ ProcessClock(r) \in Nat /\ clock \in Nat
    BY RedisAssumption DEF AskRate, ProcessClock, IInv, TypeOK
  <1>2. /\ loc[r] \in Locals /\ loc[r].tries = Tries /\ watched[r] = "none" /\ loc[r].rivals \in Nat
        /\ loc[r].ans # "TRIES_EXHAUSTED" /\ Tries \in Nat \ {0}
    BY <1>1, CountFacts, RedisAssumption DEF Counted
  <1>3. ASSUME NEW L, Set(r, L) PROVE Moves(r, L)
    BY <1>1, <1>3 DEF Moves
  <1>4. CASE RatePerMin <= 0
    <2>1. PICK L : L = Serving(loc[r])
      OBVIOUS
    <2>2. Set(r, L)
      BY <1>4, <2>1 DEF AskRate
    <2>3. L \in Locals /\ L.pc = "serving" /\ L.ans = NULL /\ L.tries = Tries
      BY <1>1, <1>2, <2>1, ServingSound, TriesLeft
    <2>4. NULL # "TRIES_EXHAUSTED"
      BY RedisAssumption DEF Codes
    <2> QED BY <1>1, <1>2, <1>3, <2>2, <2>3, <2>4, CountedOver, ConstantTypes
  <1>5. CASE ~(RatePerMin <= 0)
    <2>1. PICK L : L = [loc[r] EXCEPT !.pc = "allow", !.now = ProcessClock(r)]
      OBVIOUS
    <2>2. Set(r, L)
      BY <1>5, <2>1 DEF AskRate
    <2>3. /\ L \in Locals /\ L.pc = "allow" /\ L.tries = Tries /\ L.ans = loc[r].ans
          /\ L.rivals = loc[r].rivals
      BY <1>1, <1>2, <2>1 DEF Locals, Pcs
    <2>4. Counted(L, watched'[r], Stale(zset', L.now), lua)
      BY <1>1, <1>2, <2>3 DEF Counted, One
    <2> QED BY <1>1, <1>2, <1>3, <2>2, <2>3, <2>4, CountStep, ConstantTypes
  <1> QED BY <1>4, <1>5
\* A request that the bucket has answered: its wait is exact.
LEMMA AnsweredCounts ==
    ASSUME IInv, Counting, NEW r \in Requests, loc[r].pc \in {"allow", "spend"},
           Spend(loc[r].now)
    PROVE  LET L == AnsweredByBucket(loc[r]) IN
           /\ L \in Locals /\ L.pc \in {"serving", "release"} /\ L.ans # "TRIES_EXHAUSTED"
           /\ L.tries = Tries \/ L.tries = loc[r].tries
           /\ L.ans = "CLIENT_RATE_LIMITED" => Exact(bucket', loc[r].now, L.wait)
  <1>1. RatePerMin > 0 /\ loc[r] \in Locals /\ loc[r].now \in Nat /\ TypeOK
    BY Facts DEF Sound, IInv
  <1>2. PICK t : t = Refilled(bucket, loc[r].now)
    OBVIOUS
  <1>3. t \in Nat
    BY <1>1, <1>2, RefillSound, ConstantTypes DEF TypeOK
  <1>4. PICK L : L = AnsweredByBucket(loc[r])
    OBVIOUS
  <1>5. /\ L \in Locals /\ L.pc \in {"serving", "release"}
        /\ L.ans \in {NULL, "CLIENT_RATE_LIMITED"}
    BY <1>1, <1>4, AnsweredSound
  <1>6. CASE t >= Minute
    <2>1. L = Serving(loc[r])
      BY <1>2, <1>4, <1>6 DEF AnsweredByBucket
    <2>2. L.tries = Tries /\ L.ans = NULL
      BY <1>1, <2>1, TriesLeft, ServingSound DEF TypeOK
    <2>3. NULL # "TRIES_EXHAUSTED"
      BY RedisAssumption DEF Codes
    <2> QED BY <1>4, <1>5, <2>2, <2>3, ConstantTypes
  <1>7. CASE ~(t >= Minute)
    <2>1. L = [loc[r] EXCEPT !.pc = "release", !.ans = "CLIENT_RATE_LIMITED",
                             !.wait = RetryAfter(t)]
      BY <1>2, <1>4, <1>7 DEF AnsweredByBucket
    <2>2. L.tries = loc[r].tries /\ L.wait = RetryAfter(t) /\ L.ans = "CLIENT_RATE_LIMITED"
      BY <1>1, <2>1 DEF Locals
    <2>3. bucket' = [tokens |-> t, last |-> loc[r].now]
      BY <1>2, <1>7 DEF Spend
    <2>4. t < Minute
      BY <1>3, <1>7, RedisAssumption
    <2>5. Exact(bucket', loc[r].now, L.wait)
      BY <1>1, <1>3, <2>2, <2>3, <2>4, WaitExact
    <2> QED BY <1>4, <1>5, <2>2, <2>5
  <1> QED BY <1>6, <1>7

LEMMA AllowLuaCounts ==
    ASSUME IInv, Counting, NEW r \in Requests, AllowLua(r)
    PROVE  CountOK
  <1>1. /\ loc[r].pc = "allow" /\ lua /\ Spend(loc[r].now) /\ UNCHANGED <<lua, watched>>
    BY DEF AllowLua
  <1>2. PICK L : L = AnsweredByBucket(loc[r])
    OBVIOUS
  <1>3. /\ L \in Locals /\ L.pc \in {"serving", "release"} /\ L.ans # "TRIES_EXHAUSTED"
        /\ L.tries = Tries \/ L.tries = loc[r].tries
        /\ L.ans = "CLIENT_RATE_LIMITED" => Exact(bucket', loc[r].now, L.wait)
    BY <1>1, <1>2, AnsweredCounts
  <1>4. watched[r] = "none" /\ loc[r].tries = Tries
    BY <1>1, CountFacts DEF Counted
  <1>5. Set(r, L)
    BY <1>2 DEF AllowLua
  <1>6. Moves(r, L)
    BY <1>1, <1>5 DEF Moves
  <1> QED BY <1>1, <1>3, <1>4, <1>6, CountedOver

LEMMA ExecBucketCounts ==
    ASSUME IInv, Counting, NEW r \in Requests, ExecBucket(r)
    PROVE  CountOK
  <1>1. loc[r].pc = "spend" /\ UNCHANGED <<lua, zset>> /\ ~lua
    BY Facts DEF ExecBucket, Sound
  <1>2. CASE watched[r] = "dirty"
    <2>1. PICK M : M = Retried(loc[r], "allow")
      OBVIOUS
    <2>2. PICK L : L = IF M.pc = "done" THEN Orphaned(M) ELSE M
      OBVIOUS
    <2>3. watched' = [watched EXCEPT ![r] = "none"] /\ Set(r, L)
      BY <1>2, <2>1, <2>2 DEF ExecBucket
    <2>4. PICK s : s = Stale(zset, loc[r].now)
      OBVIOUS
    <2>5. s \in BOOLEAN /\ Counted(loc[r], "dirty", s, lua)
      BY <1>2, <2>4, CountFacts, StaleShrinks
    <2>6. /\ M \in Locals /\ Counted(M, "none", s, lua)
          /\ M.ans = "TRIES_EXHAUSTED" => 2 * loc[r].rivals + 1 >= Tries
          /\ M.ans = "CLIENT_RATE_LIMITED" => loc[r].ans = "CLIENT_RATE_LIMITED"
          /\ M.pc \in {"allow", "done"}
      BY <1>1, <2>1, <2>5, CountFacts, RetriedCounts, RetriedSound
    <2>7. /\ L \in Locals /\ L.pc = M.pc /\ L.ans = M.ans /\ L.tries = M.tries
          /\ L.rivals = M.rivals
      BY <2>2, <2>6, OrphanedSound, TriesLeft
    <2>8. watched'[r] = "none" /\ \A q \in Requests : q # r => watched'[q] = watched[q]
      BY <2>3, CountFacts, Marks
    <2>9. Moves(r, L)
      BY <1>1, <2>3, <2>8 DEF Moves
    <2>10. Counted(L, watched'[r], Stale(zset', L.now), lua)
      BY <1>1, <2>6, <2>7, <2>8 DEF Counted
    <2> QED BY <1>1, <2>6, <2>7, <2>9, <2>10, CountStep, ConstantTypes
  <1>3. CASE watched[r] # "dirty"
    <2>1. PICK L : L = AnsweredByBucket(loc[r])
      OBVIOUS
    <2>2. /\ Spend(loc[r].now) /\ SetAndDisturb(r, L, "bucket")
          /\ watched' = Touched("bucket", [watched EXCEPT ![r] = "none"], r)
      BY <1>3, <2>1 DEF ExecBucket
    <2>3. /\ L \in Locals /\ L.pc \in {"serving", "release"} /\ L.ans # "TRIES_EXHAUSTED"
          /\ L.tries = Tries \/ L.tries = loc[r].tries
          /\ L.ans = "CLIENT_RATE_LIMITED" => Exact(bucket', loc[r].now, L.wait)
      BY <1>1, <2>1, <2>2, AnsweredCounts
    <2>4. /\ watched'[r] = "none"
          /\ \A q \in Requests : q # r =>
               watched'[q] = IF watched[q] = "bucket" THEN "dirty" ELSE watched[q]
      BY <2>2, CountFacts, Marks
    <2>5. Moves(r, L)
      BY <1>1, <2>2, <2>4 DEF Moves
    <2> QED BY <1>1, <2>3, <2>4, <2>5, CountFacts, CountedOver
  <1> QED BY <1>2, <1>3

LEMMA AllowFailsCounts ==
    ASSUME IInv, Counting, NEW r \in Requests, AllowFails(r)
    PROVE  CountOK
  <1> DEFINE w == [watched EXCEPT ![r] = "none"]
  <1>1. PICK L : L = Ended(Orphaned(loc[r]), "DB_UNAVAILABLE")
    OBVIOUS
  <1>2. L \in Locals /\ L.pc = "done" /\ L.tries = Tries /\ L.ans = "DB_UNAVAILABLE"
    <2>1. Orphaned(loc[r]) \in Locals
      BY CountFacts, OrphanedSound
    <2> QED BY <1>1, <2>1, EndedSound, TriesLeft DEF Codes
  <1>3. UNCHANGED <<lua, zset>>
    BY DEF AllowFails
  <1>4. CASE watched' = w /\ Set(r, L)
    <2>1. watched'[r] = "none" /\ Moves(r, L)
      BY <1>3, <1>4, CountFacts, Marks DEF Moves
    <2> QED BY <1>2, <1>3, <2>1, CountedEnd
  <1>5. CASE watched' = Touched("bucket", w, r) /\ SetAndDisturb(r, L, "bucket")
    <2>1. /\ watched'[r] = "none"
          /\ \A q \in Requests : q # r =>
               watched'[q] = IF watched[q] = "bucket" THEN "dirty" ELSE watched[q]
      BY <1>5, CountFacts, Marks
    <2>2. Moves(r, L)
      BY <1>3, <1>5, <2>1 DEF Moves
    <2> QED BY <1>2, <1>3, <2>1, <2>2, CountedEnd
  <1> QED BY <1>1, <1>4, <1>5 DEF AllowFails

LEMMA FinishCounts ==
    ASSUME IInv, Counting, NEW r \in Requests, Finish(r)
    PROVE  CountOK
  <1>1. /\ loc[r].pc = "serving" /\ UNCHANGED <<lua, zset, watched>>
    BY DEF Finish
  <1>2. PICK L : L = [loc[r] EXCEPT !.pc = "release", !.ans = "SERVED"]
    OBVIOUS
  <1>3. Set(r, L)
    BY <1>2 DEF Finish
  <1>4. L \in Locals /\ L.pc = "release" /\ L.ans = "SERVED" /\ L.tries = loc[r].tries
    BY <1>2, CountFacts DEF Locals, Pcs, Codes
  <1>5. watched[r] = "none" /\ loc[r].tries \in 1..Tries /\ (lua => loc[r].tries = Tries)
    BY <1>1, CountFacts DEF Counted
  <1>6. Moves(r, L)
    BY <1>1, <1>3 DEF Moves
  <1>7. L.tries = Tries \/ (L.tries \in 1..Tries /\ ~lua /\ L.pc # "rate")
    BY <1>4, <1>5
  <1> QED BY <1>1, <1>4, <1>5, <1>6, <1>7, CountedOver

LEMMA CrashCounts ==
    ASSUME IInv, Counting, NEW r \in Requests, Crash(r)
    PROVE  CountOK
  <1>1. PICK L : L = Ended(Orphaned(loc[r]), "CRASHED")
    OBVIOUS
  <1>2. L \in Locals /\ L.pc = "done" /\ L.tries = Tries /\ L.ans = "CRASHED"
    <2>1. Orphaned(loc[r]) \in Locals
      BY CountFacts, OrphanedSound
    <2> QED BY <1>1, <2>1, EndedSound, TriesLeft DEF Codes
  <1>3. /\ Set(r, L) /\ watched' = [watched EXCEPT ![r] = "none"] /\ UNCHANGED <<lua, zset>>
    BY <1>1 DEF Crash
  <1>4. watched'[r] = "none" /\ Moves(r, L)
    BY <1>3, CountFacts, Marks DEF Moves
  <1> QED BY <1>2, <1>3, <1>4, CountedEnd

LEMMA ReleaseCounts ==
    ASSUME IInv, Counting, NEW r \in Requests, ReleaseLease(r)
    PROVE  CountOK
  <1>1. loc[r].pc = "release" /\ UNCHANGED <<lua, bucket>>
    BY DEF ReleaseLease
  <1>2. watched[r] = "none"
    BY <1>1, CountFacts DEF Counted
  <1>3. PICK lease, L :
          /\ lease \in {"none", "lost"}
          /\ L = Ended([loc[r] EXCEPT !.lease = lease], loc[r].ans)
          /\ \/ Set(r, L) /\ UNCHANGED watched /\ zset' \in {zset, [zset EXCEPT ![r] = NULL]}
             \/ watched' = Touched("leases", watched, r) /\ SetAndDisturb(r, L, "leases")
    BY DEF ReleaseLease
  <1>4. L \in Locals /\ L.pc = "done" /\ L.tries = Tries /\ L.ans = loc[r].ans
    <2>1. [loc[r] EXCEPT !.lease = lease] \in Locals /\ loc[r].ans \in Codes \cup {NULL}
      BY <1>3, CountFacts DEF Locals
    <2> QED BY <1>3, <2>1, EndedSound, TriesLeft
  <1>5. CASE Set(r, L) /\ UNCHANGED watched /\ zset' \in {zset, [zset EXCEPT ![r] = NULL]}
    <2>1. \A now \in Nat : Stale(zset', now) => Stale(zset, now)
      BY <1>5, CountFacts, StaleShrinks
    <2>2. watched'[r] = "none" /\ Moves(r, L)
      BY <1>2, <1>5, <2>1 DEF Moves
    <2> QED BY <1>1, <1>4, <2>2, CountedEnd
  <1>6. CASE watched' = Touched("leases", watched, r) /\ SetAndDisturb(r, L, "leases")
    <2>1. \A q \in Requests :
            watched'[q] = IF watched[q] = "leases" THEN "dirty" ELSE watched[q]
      BY <1>6, CountFacts, Marks
    <2>2. watched'[r] = "none" /\ Moves(r, L)
      BY <1>2, <1>6, <2>1 DEF Moves
    <2> QED BY <1>1, <1>4, <2>2, CountedEnd
  <1> QED BY <1>3, <1>5, <1>6

LEMMA CountInit == Init => Counting
  <1> SUFFICES ASSUME Init, NEW r \in Requests
               PROVE  Counted(loc[r], watched[r], Stale(zset, loc[r].now), lua)
    BY DEF Counting
  <1>1. /\ Fresh.pc = "idle" /\ Fresh.tries = Tries /\ Fresh.ans = NULL
        /\ NULL # "TRIES_EXHAUSTED" /\ Tries \in Nat \ {0}
    BY RedisAssumption DEF Fresh, Codes
  <1>2. loc[r] = Fresh /\ watched[r] = "none"
    BY DEF Init
  <1> QED BY <1>1, <1>2 DEF Counted

LEMMA CountNext == IInv /\ Counting /\ [Next]_vars => CountOK
  <1> SUFFICES ASSUME IInv, Counting, [Next]_vars PROVE CountOK
    OBVIOUS
  <1>1. ASSUME NEW r \in Requests, Step(r) PROVE CountOK
    BY <1>1, ArriveCounts, AcquireLuaCounts, WatchCounts, TrimCounts, CountCounts, ExecLeasesCounts,
       AcquireFailsCounts, AskRateCounts, AllowLuaCounts, ExecBucketCounts, AllowFailsCounts,
       FinishCounts, ReleaseCounts, CrashCounts DEF Step
  <1>2. CASE UNCHANGED <<lua, zset, watched, loc>>
    <2>1. Counting'
      BY <1>2 DEF Counting, Stale, Expired, Tokens
    <2>2. Fair
      <3> SUFFICES ASSUME NEW r \in Requests
                   PROVE  /\ ~(loc[r].pc # "done" /\ loc'[r].ans = "TRIES_EXHAUSTED")
                          /\ ~(loc[r].ans = NULL /\ loc'[r].ans = "CLIENT_RATE_LIMITED")
        BY DEF Fair
      <3> QED BY <1>2, CountFacts, ConstantTypes
    <2> QED BY <2>1, <2>2 DEF CountOK
  <1>3. CASE Tick
    BY <1>2, <1>3 DEF Tick
  <1>4. CASE UNCHANGED vars
    BY <1>2, <1>4 DEF vars
  <1> QED BY <1>1, <1>3, <1>4 DEF Next, Finished

LEMMA CountInvariant == Spec => [][Fair]_vars
  <1>1. IInv /\ Counting /\ [Next]_vars => Counting' /\ Fair
    BY CountNext DEF CountOK
  <1> QED BY <1>1, CountInit, Invariant, PTL DEF Spec

\* A request is answered "tries exhausted" only after enough writes of others
\* to the key (_acquire_fallback, _allow_fallback), for any number of attempts.
THEOREM GiveUpSound == Spec => GiveUpMeansContention
  <1>1. Fair => \A r \in Requests :
          loc[r].pc # "done" /\ loc'[r].ans = "TRIES_EXHAUSTED" => 2 * loc[r].rivals + 1 >= Tries
    BY DEF Fair
  <1> QED BY <1>1, CountInvariant, PTL DEF GiveUpMeansContention

\* The wait of a 429 is neither a tick too short nor a tick too long
\* (RedisTokenBucketRateLimiter.allow), for any rate and any length of a minute.
THEOREM RetryAfterSound == Spec => RetryAfterExact
  <1>1. Fair => \A r \in Requests :
          loc[r].ans = NULL /\ loc'[r].ans = "CLIENT_RATE_LIMITED"
            => LET t == loc[r].now + loc'[r].wait IN
               /\ Refilled(bucket', t) >= Minute
               /\ Refilled(bucket', t - 1) < Minute
    <2> SUFFICES ASSUME Fair, NEW r \in Requests, loc[r].ans = NULL,
                        loc'[r].ans = "CLIENT_RATE_LIMITED"
                 PROVE  /\ Refilled(bucket', loc[r].now + loc'[r].wait) >= Minute
                        /\ Refilled(bucket', (loc[r].now + loc'[r].wait) - 1) < Minute
      OBVIOUS
    <2>1. Exact(bucket', loc[r].now, loc'[r].wait)
      BY DEF Fair
    <2> QED BY <2>1 DEF Exact
  <1> QED BY <1>1, CountInvariant, PTL DEF RetryAfterExact

=============================================================================
