--------------------------- MODULE KeyStoreProofs ---------------------------
(***************************************************************************)
(* Safety of the stored keys for any number of rows, secrets and balances, *)
(* any batch size, and any actions of the administrator, faults and        *)
(* answers of the upstream.                                                *)
(***************************************************************************)
EXTENDS KeyStore, FiniteSetTheorems, WellFoundedInduction, TLAPS

Kinds == {"success", "cooling", "error", "invalid", "decrypt_failed"}
Verdicts == {"invalid", "decrypt_failed"}
Ciphers == Secrets \cup Sealed

KeyRow == [secret : Ciphers, active : BOOLEAN, status : Statuses, until : {NULL, 0},
           credits : Balances \cup {NULL, 0}, next : {NULL, "due", "later"}]

Loops == [pc : {"sleep", "round"}, todo : SUBSET [id : Ids, secret : Ciphers],
          batch : SUBSET [id : Ids, secret : Ciphers, kind : Kinds \cup {NULL}],
          old : BOOLEAN]
Manuals == [kind : {"none", "refresh", "test"}, queue : SUBSET [id : Ids, row : KeyRow]]

\* Types of what KeyStore!TypeOK leaves open.
Typed ==
    /\ rows \in [Ids -> KeyRow \cup {NULL}]
    /\ good \subseteq Secrets
    /\ loop \in Loops /\ (loop.pc = "sleep" => loop = Asleep)
    /\ manual \in Manuals
    /\ admin \in 0..MaxAdmin /\ faults \in 0..MaxFaults
    /\ probed \subseteq Ids

Distinct == \A i, j \in Present : rows[i].secret = rows[j].secret => i = j

\* A worker of the loop that met a 401 asked with a secret that the upstream
\* does not accept now either.
RefusedStays ==
    \A x \in loop.batch : x.kind # NULL /\ x.kind = "invalid" => ~Accepted(x.secret)

\* A key that the loop probed has its next time set, or is about to get it.
ProbedWaits ==
    \A i \in probed :
        rows[i] = NULL \/ rows[i].next = "later" \/ \E x \in loop.batch : x.id = i

IInv == Typed /\ Distinct /\ RefusedStays /\ ProbedWaits

-----------------------------------------------------------------------------
(***************************************************************************)
(* The id of a new row.                                                    *)
(***************************************************************************)
\* A nonempty set of natural numbers has a least element.
LEMMA LeastNat ==
    ASSUME NEW T \in SUBSET Nat, T # {}
    PROVE  \E u \in T : \A v \in T : u <= v
  <1> DEFINE R == OpToRel(<, Nat)
  <1>1. IsWellFoundedOn(R, Nat)
    BY NatLessThanWellFounded
  <1>2. \A u, v \in Nat : u < v => <<u, v>> \in R
    BY DEF OpToRel
  <1> HIDE DEF R
  <1>3. PICK u \in T : \A v \in T : ~(<<v, u>> \in R)
    BY <1>1, WFMin
  <1>4. ASSUME NEW v \in T PROVE u <= v
    <2>1. u \in Nat /\ v \in Nat
      OBVIOUS
    <2>2. ~(v < u)
      BY <1>2, <1>3, <2>1
    <2> QED BY <2>1, <2>2
  <1> QED BY <1>4

\* Ids are the numbers from 1 to some n.
LEMMA IdsType ==
    \E n \in Nat : Ids = 1..n
  <1> DEFINE n == Cardinality(Ids)
  <1>1. n \in Nat /\ Ids = 1..n
    BY FS_CardinalityType, KeyStoreAssumption
  <1> QED BY <1>1, Zenon

\* The largest id is the least upper bound of the ids.
LEMMA LargestType ==
    ASSUME NEW S \in SUBSET Ids
    PROVE  Largest(S) \in Nat /\ \A i \in S : i <= Largest(S)
  <1> DEFINE U == {u \in Nat : \A i \in S : i <= u}
  <1>1. PICK n \in Nat : S \subseteq 1..n
    BY IdsType
  <1>2. n \in U /\ U \in SUBSET Nat
    BY <1>1
  <1>3. PICK u \in U : \A v \in U : u <= v
    BY <1>2, LeastNat
  <1>4. u \in Nat /\ \A i \in S : i \in Nat /\ i >= 1 /\ i <= u
    BY <1>1
  <1>5. CASE S = {}
    BY <1>5 DEF Largest
  <1>6. CASE S # {}
    <2>1. u \in S
      <3> SUFFICES ASSUME u \notin S PROVE FALSE
        OBVIOUS
      <3>1. \A i \in S : i <= u - 1
        BY <1>4
      <3>2. u - 1 \in Nat
        BY <1>4, <1>6
      <3>3. u - 1 \in U
        BY <3>1, <3>2
      <3>4. u <= u - 1
        BY <1>3, <3>3
      <3> QED BY <1>4, <3>4
    <2>2. \A i \in S : u >= i
      BY <1>4
    <2>3. Max(S) \in S /\ \A i \in S : Max(S) >= i
      BY <2>1, <2>2 DEF Max
    <2>4. Largest(S) = Max(S)
      BY <1>6 DEF Largest
    <2>5. Max(S) \in Nat /\ \A i \in S : i <= Max(S)
      BY <1>4, <2>3
    <2> QED BY <2>4, <2>5
  <1> QED BY <1>5, <1>6

LEMMA NewIdType ==
    NewId \in Nat /\ \A i \in Present : i < NewId
  <1>1. Present \in SUBSET Ids
    BY DEF Present
  <1>2. Largest(Present) \in Nat /\ \A i \in Present : i <= Largest(Present)
    BY <1>1, LargestType
  <1>3. Present \subseteq Int
    BY <1>1, IdsType
  <1> QED BY <1>2, <1>3 DEF NewId

-----------------------------------------------------------------------------
(***************************************************************************)
(* What the writers of a row return.                                       *)
(***************************************************************************)
LEMMA NewRowType ==
    ASSUME NEW s \in Ciphers, NEW active \in BOOLEAN
    PROVE  /\ NewRow(s, active) \in KeyRow /\ NewRow(s, active).secret = s
           /\ NewRow(s, active).status # "invalid"
  BY DEF NewRow, KeyRow, Statuses, DisabledStatuses

LEMMA AdminTypes ==
    ASSUME NEW row \in KeyRow
    PROVE  \A new \in {AdminEnabled(row), AdminDisabled(row), CooldownReset(row), Revived(row)} :
             /\ new \in KeyRow /\ new.secret = row.secret /\ new.next = row.next
             /\ row.status # "invalid" => new.status # "invalid"
  BY DEF AdminEnabled, AdminDisabled, CooldownReset, Revived, KeyRow, Statuses, DisabledStatuses,
         CoolingStatuses

LEMMA ApplyFetchType ==
    ASSUME NEW row \in KeyRow, NEW kind \in Kinds, NEW rem \in Balances
    PROVE  LET new == ApplyFetch(row, kind, rem, 0) IN
           /\ new \in KeyRow /\ new.secret = row.secret
           /\ kind \notin Verdicts => (IsDisabled(row) \/ ~IsDisabled(new))
           /\ kind # "invalid" /\ row.status # "invalid" => new.status # "invalid"
           /\ kind # "invalid" /\ new.status # row.status => new.status # "invalid"
  BY DEF ApplyFetch, Kinds, Verdicts, DisableInvalid, DisableDecryptFailed, KeyRow, IsDisabled, Statuses,
         DisabledStatuses, CoolingStatuses

LEMMA AppliedType ==
    ASSUME NEW row \in KeyRow, NEW kind \in Kinds, NEW rem \in Balances
    PROVE  LET new == Applied(row, kind, rem) IN
           /\ new \in KeyRow /\ new.secret = row.secret
           /\ kind \notin Verdicts => (IsDisabled(row) \/ ~IsDisabled(new))
           /\ kind # "invalid" /\ row.status # "invalid" => new.status # "invalid"
           /\ kind # "invalid" /\ new.status # row.status => new.status # "invalid"
           /\ kind = "success" => IsDisabled(new) \/ new.next = "later"
  <1> DEFINE a == ApplyFetch(row, kind, rem, 0)
             next == CASE kind \in {"invalid", "decrypt_failed"} -> NULL
                       [] kind = "success" -> NextRefresh(a)
                       [] OTHER -> a.next
             new == [a EXCEPT !.next = next]
  <1>1. /\ a \in KeyRow /\ a.secret = row.secret
        /\ kind \notin Verdicts => (IsDisabled(row) \/ ~IsDisabled(a))
        /\ kind # "invalid" /\ row.status # "invalid" => a.status # "invalid"
        /\ kind # "invalid" /\ a.status # row.status => a.status # "invalid"
    BY ApplyFetchType
  <1> HIDE DEF a
  <1>2. next \in {NULL, "due", "later"} /\ (kind = "success" => IsDisabled(a) \/ next = "later")
    BY <1>1 DEF NextRefresh, KeyRow
  <1>3. Applied(row, kind, rem) = new
    BY DEF Applied, a
  <1> HIDE DEF next
  <1>4. /\ new \in KeyRow /\ new.secret = a.secret /\ new.active = a.active
        /\ new.status = a.status /\ new.next = next
    BY <1>1, <1>2 DEF KeyRow
  <1> HIDE DEF new
  <1> QED BY <1>1, <1>2, <1>3, <1>4 DEF IsDisabled

\* What the loop writes after a probe that gave no verdict.
LEMMA BackoffType ==
    ASSUME NEW row \in KeyRow, NEW kind \in Kinds \ Verdicts, NEW rem \in Balances,
           NEW old \in BOOLEAN, ~IsDisabled(row)
    PROVE  LET new == Applied(row, kind, rem)
               after == [new EXCEPT !.next = Backoff(new, kind, old)] IN
           /\ after \in KeyRow /\ after.secret = row.secret
           /\ ~(old /\ kind # "success") => after.next = "later"
           /\ row.status # "invalid" => after.status # "invalid"
  <1> DEFINE new == Applied(row, kind, rem)
  <1>1. /\ new \in KeyRow /\ new.secret = row.secret /\ ~IsDisabled(new)
        /\ row.status # "invalid" => new.status # "invalid"
        /\ kind = "success" => new.next = "later"
    BY AppliedType DEF Verdicts
  <1> HIDE DEF new
  <1>2. /\ Backoff(new, kind, old) \in {"due", "later"}
        /\ ~(old /\ kind # "success") => Backoff(new, kind, old) = "later"
    BY <1>1 DEF Backoff
  <1> QED BY <1>1, <1>2 DEF KeyRow, new

Outcome == [row : KeyRow, times : SUBSET {"until", "next"}]

LEMMA WrittenType ==
    ASSUME NEW row \in KeyRow, NEW old \in KeyRow, NEW out \in Outcome
    PROVE  /\ Written(row, old, out) \in KeyRow /\ Written(row, old, out).secret = row.secret
           /\ out.row.next = old.next /\ "next" \notin out.times => Written(row, old, out).next = row.next
           /\ Written(row, old, out).status = IF out.row.status = old.status THEN row.status ELSE out.row.status
  <1>1. PICK u, n :
          /\ u \in {row.until, out.row.until} /\ n \in {row.next, out.row.next}
          /\ out.row.next = old.next /\ "next" \notin out.times => n = row.next
          /\ Written(row, old, out) =
               LET f == Flush(row, old, out.row) IN
               [row EXCEPT !.active = f.active, !.status = f.status, !.credits = f.credits,
                           !.until = u, !.next = n]
    <2> DEFINE Set(c) == out.row[c] # old[c] \/ (c \in out.times /\ out.row[c] # NULL)
               uu == IF Set("until") THEN out.row.until ELSE row.until
               nn == IF Set("next") THEN out.row.next ELSE row.next
    <2>1. Written(row, old, out) =
               LET f == Flush(row, old, out.row) IN
               [row EXCEPT !.active = f.active, !.status = f.status, !.credits = f.credits,
                           !.until = uu, !.next = nn]
      BY DEF Written
    <2>2. /\ uu \in {row.until, out.row.until} /\ nn \in {row.next, out.row.next}
          /\ out.row.next = old.next /\ "next" \notin out.times => nn = row.next
      OBVIOUS
    <2> HIDE DEF uu, nn
    <2> QED BY <2>1, <2>2
  <1>2. /\ row \in KeyRow /\ old \in KeyRow /\ out.row \in KeyRow
    BY DEF Outcome
  <1> PICK f : f = Flush(row, old, out.row)
    OBVIOUS
  <1>3. /\ f.active \in BOOLEAN /\ f.status \in Statuses /\ f.credits \in Balances \cup {NULL, 0}
        /\ f.status = IF out.row.status = old.status THEN row.status ELSE out.row.status
    BY <1>2 DEF Flush, KeyRow
  <1>4. u \in {NULL, 0} /\ n \in {NULL, "due", "later"}
    BY <1>1, <1>2 DEF KeyRow
  <1>5. Written(row, old, out) = [row EXCEPT !.active = f.active, !.status = f.status,
                                             !.credits = f.credits, !.until = u, !.next = n]
    BY <1>1
  <1> QED BY <1>1, <1>2, <1>3, <1>4, <1>5 DEF KeyRow

\* What a request of the administrator computes from the row it loaded.
LEMMA TestOutcomesType ==
    ASSUME NEW row \in KeyRow, NEW out \in TestOutcomes(row)
    PROVE  /\ out \in Outcome
           /\ out.row.status # row.status /\ out.row.status = "invalid" => ~Accepted(row.secret)
  <1>1. out.times \in SUBSET {"until", "next"} /\ out = [row |-> out.row, times |-> out.times]
    BY DEF TestOutcomes
  <1>2. \/ out.row \in {row, MarkActive(row), MarkCooling(row, 0), MarkFailed(row, 0),
                        [DisableDecryptFailed(row) EXCEPT !.next = NULL]}
        \/ out.row = [DisableInvalid(row) EXCEPT !.next = NULL] /\ row.secret \notin good
    BY DEF TestOutcomes
  <1>3. /\ out.row \in KeyRow
        /\ out.row.status # row.status /\ out.row.status = "invalid" => row.secret \notin good
    BY <1>2 DEF KeyRow, Statuses, DisabledStatuses, CoolingStatuses, MarkActive, MarkCooling,
                MarkFailed, DisableDecryptFailed, DisableInvalid
  <1> QED BY <1>1, <1>3 DEF Outcome, Accepted

LEMMA ProbeKindsType ==
    ASSUME NEW s
    PROVE  ProbeKinds(s) \subseteq Kinds /\ ("invalid" \in ProbeKinds(s) => ~Accepted(s))
  BY DEF ProbeKinds, Kinds

LEMMA RefreshOutcomesType ==
    ASSUME NEW row \in KeyRow, NEW out \in RefreshOutcomes(row)
    PROVE  /\ out \in Outcome
           /\ out.row.status # row.status /\ out.row.status = "invalid" => ~Accepted(row.secret)
  <1>1. PICK kind \in ProbeKinds(row.secret), rem \in Balances :
          /\ out.row = Applied(row, kind, rem) /\ out.times \in SUBSET {"until", "next"}
          /\ out = [row |-> out.row, times |-> out.times]
    BY DEF RefreshOutcomes
  <1>2. kind \in Kinds /\ (kind = "invalid" => ~Accepted(row.secret))
    BY <1>1, ProbeKindsType
  <1>3. /\ Applied(row, kind, rem) \in KeyRow
        /\ kind # "invalid" /\ Applied(row, kind, rem).status # row.status
             => Applied(row, kind, rem).status # "invalid"
    BY <1>2, AppliedType
  <1> QED BY <1>1, <1>2, <1>3 DEF Outcome

-----------------------------------------------------------------------------
(***************************************************************************)
(* IInv is inductive: what a step keeps.                                   *)
(***************************************************************************)
\* A row is written, with a secret of its own.
LEMMA RowWrite ==
    ASSUME IInv, NEW i \in Ids, NEW R \in KeyRow, rows' = [rows EXCEPT ![i] = R],
           R.secret \notin Stored \/ (rows[i] # NULL /\ R.secret = rows[i].secret)
    PROVE  /\ rows' \in [Ids -> KeyRow \cup {NULL}] /\ Distinct' /\ rows'[i] = R
           /\ \A j \in Ids \ {i} : rows'[j] = rows[j]
  <1>1. /\ rows' \in [Ids -> KeyRow \cup {NULL}] /\ rows'[i] = R
        /\ \A j \in Ids \ {i} : rows'[j] = rows[j]
    BY DEF IInv, Typed
  <1>2. ASSUME NEW j \in Ids, rows[j] # NULL, j # i PROVE rows[j].secret # R.secret
    BY <1>2 DEF IInv, Distinct, Present, Stored
  <1>3. Distinct'
    <2> SUFFICES ASSUME NEW j \in Ids, NEW k \in Ids, rows'[j] # NULL, rows'[k] # NULL,
                        rows'[j].secret = rows'[k].secret
                 PROVE  j = k
      BY DEF Distinct, Present
    <2>1. CASE j # i /\ k # i
      BY <1>1, <2>1 DEF IInv, Distinct, Present
    <2>2. CASE j = i \/ k = i
      BY <1>1, <1>2, <2>2
    <2> QED BY <2>1, <2>2
  <1> QED BY <1>1, <1>3

LEMMA RefusedKept ==
    ASSUME IInv, UNCHANGED loop, good' \subseteq good
    PROVE  RefusedStays'
  BY DEF IInv, RefusedStays, Accepted

LEMMA WaitsKept ==
    ASSUME IInv, UNCHANGED loop, probed' \subseteq probed,
           \A j \in probed' : \/ rows'[j] = rows[j]
                              \/ rows[j] # NULL /\ rows'[j].next = rows[j].next
    PROVE  ProbedWaits'
  BY DEF IInv, ProbedWaits

LEMMA AdministerType ==
    ASSUME IInv, Administer
    PROVE  admin' \in 0..MaxAdmin
  BY KeyStoreAssumption DEF IInv, Typed, Administer

LEMMA FaultType ==
    ASSUME IInv, Fault
    PROVE  faults' \in 0..MaxFaults
  BY KeyStoreAssumption DEF IInv, Typed, Fault

\* The administrator.
LEMMA CreateKeyKeeps ==
    ASSUME IInv, NEW s \in Secrets, NEW active \in BOOLEAN, CreateKey(s, active)
    PROVE  IInv'
  <1> PICK i : i = NewId
    OBVIOUS
  <1> PICK R : R = NewRow(s, active)
    OBVIOUS
  <1>1. /\ i \in Ids /\ rows' = [rows EXCEPT ![i] = R] /\ probed' = probed \ {i}
        /\ UNCHANGED <<good, loop, manual, faults>> /\ admin' \in 0..MaxAdmin
    BY AdministerType DEF CreateKey
  <1>2. R \in KeyRow /\ R.secret \notin Stored
    BY NewRowType DEF Ciphers, CreateKey, Free
  <1>3. /\ rows' \in [Ids -> KeyRow \cup {NULL}] /\ Distinct'
        /\ \A j \in Ids \ {i} : rows'[j] = rows[j]
    BY <1>1, <1>2, RowWrite
  <1>4. Typed'
    BY <1>1, <1>3 DEF IInv, Typed
  <1>5. RefusedStays' /\ ProbedWaits'
    BY <1>1, <1>3, RefusedKept, WaitsKept DEF IInv, Typed
  <1> QED BY <1>3, <1>4, <1>5 DEF IInv

\* One or two new rows, whose secrets are not stored and differ.
LEMMA ImportedRows ==
    ASSUME NEW s \in Secrets, NEW t \in Secrets, NEW active, ImportKeysText(s, t, active)
    PROVE  LET lines == {s, t} \ Stored
               ids == NewId..(NewId + Cardinality(lines) - 1)
               added == IF Cardinality(lines) = 2 THEN <<s, t>> ELSE <<CHOOSE x \in lines : TRUE>> IN
           /\ ids \subseteq Ids
           /\ \A i \in ids : added[i - NewId + 1] \in lines
           /\ \A i, j \in ids : added[i - NewId + 1] = added[j - NewId + 1] => i = j
  <1> DEFINE lines == {s, t} \ Stored
             n == Cardinality(lines)
             ids == NewId..(NewId + n - 1)
             added == IF n = 2 THEN <<s, t>> ELSE <<CHOOSE x \in lines : TRUE>>
  <1>1. ids \subseteq Ids /\ s # t /\ lines # {}
    BY DEF ImportKeysText
  <1>2. NewId \in Nat
    BY NewIdType
  <1>3. CASE lines = {s, t}
    <2>1. n = 2
      <3>1. IsFiniteSet({s}) /\ Cardinality({s}) = 1
        BY FS_Singleton
      <3>2. Cardinality({s} \cup {t}) = Cardinality({s}) + 1
        BY <1>1, <3>1, FS_AddElement
      <3>3. {s} \cup {t} = {s, t}
        OBVIOUS
      <3> QED BY <1>3, <3>1, <3>2, <3>3
    <2>2. added = <<s, t>>
      BY <2>1
    <2> HIDE DEF added, n
    <2>3. \A i \in ids : i = NewId \/ i = NewId + 1
      BY <1>2, <2>1
    <2>4. \A i \in ids : \/ i = NewId /\ added[i - NewId + 1] = s
                         \/ i = NewId + 1 /\ added[i - NewId + 1] = t
      BY <1>2, <2>2, <2>3
    <2>5. /\ \A i \in ids : added[i - NewId + 1] \in lines
          /\ \A i, j \in ids : added[i - NewId + 1] = added[j - NewId + 1] => i = j
      <3> HIDE DEF ids, lines
      <3> QED BY <1>1, <1>3, <2>4
    <2> QED BY <1>1, <2>5 DEF added, n
  <1>4. ASSUME NEW x \in {s, t}, lines = {x}
        PROVE  /\ \A i \in ids : added[i - NewId + 1] \in lines
               /\ \A i, j \in ids : added[i - NewId + 1] = added[j - NewId + 1] => i = j
    <2>1. n = 1
      BY <1>4, FS_Singleton
    <2>2. added = <<x>>
      BY <1>4, <2>1
    <2> HIDE DEF added, n
    <2>3. \A i \in ids : i = NewId
      BY <1>2, <2>1
    <2>4. \A i \in ids : added[i - NewId + 1] = x
      BY <1>2, <2>2, <2>3
    <2> QED BY <1>4, <2>3, <2>4
  <1>5. lines = {s, t} \/ lines = {s} \/ lines = {t}
    BY <1>1
  <1> QED BY <1>1, <1>3, <1>4, <1>5

LEMMA ImportEffect ==
    ASSUME NEW s \in Secrets, NEW t \in Secrets, NEW active, ImportKeysText(s, t, active)
    PROVE  \E ids \in SUBSET Ids : \E sec \in [ids -> Secrets \ Stored] :
             /\ \A i, j \in ids : sec[i] = sec[j] => i = j
             /\ rows' = [i \in Ids |-> IF i \in ids THEN NewRow(sec[i], active) ELSE rows[i]]
             /\ probed' = probed \ ids
  <1> DEFINE lines == {s, t} \ Stored
             ids == NewId..(NewId + Cardinality(lines) - 1)
             added == IF Cardinality(lines) = 2 THEN <<s, t>> ELSE <<CHOOSE x \in lines : TRUE>>
             sec == [i \in ids |-> added[i - NewId + 1]]
  <1>1. /\ ids \subseteq Ids
        /\ \A i \in ids : added[i - NewId + 1] \in lines
        /\ \A i, j \in ids : added[i - NewId + 1] = added[j - NewId + 1] => i = j
    BY ImportedRows, Zenon
  <1>2. /\ rows' = [i \in Ids |-> IF i \in ids THEN NewRow(added[i - NewId + 1], active) ELSE rows[i]]
        /\ probed' = probed \ ids
    BY DEF ImportKeysText
  <1>3. lines \subseteq Secrets \ Stored
    OBVIOUS
  <1> HIDE DEF ids, added, lines
  <1>4. sec \in [ids -> Secrets \ Stored]
    BY <1>1, <1>3
  <1>5. \A i \in ids : sec[i] = added[i - NewId + 1]
    OBVIOUS
  <1>6. rows' = [i \in Ids |-> IF i \in ids THEN NewRow(sec[i], active) ELSE rows[i]]
    BY <1>2, <1>5
  <1> HIDE DEF sec
  <1>7. \A i, j \in ids : sec[i] = sec[j] => i = j
    BY <1>1, <1>5
  <1> QED BY <1>1, <1>2, <1>4, <1>6, <1>7

LEMMA ImportKeeps ==
    ASSUME IInv, NEW s \in Secrets, NEW t \in Secrets, NEW active, active \in BOOLEAN,
           ImportKeysText(s, t, active)
    PROVE  IInv'
  <1>1. UNCHANGED <<good, loop, manual, faults>> /\ admin' \in 0..MaxAdmin
    BY AdministerType DEF ImportKeysText
  <1>2. PICK ids \in SUBSET Ids : \E sec \in [ids -> Secrets \ Stored] :
             /\ \A i, j \in ids : sec[i] = sec[j] => i = j
             /\ rows' = [i \in Ids |-> IF i \in ids THEN NewRow(sec[i], active) ELSE rows[i]]
             /\ probed' = probed \ ids
    BY ImportEffect
  <1>3. PICK sec \in [ids -> Secrets \ Stored] :
             /\ \A i, j \in ids : sec[i] = sec[j] => i = j
             /\ rows' = [i \in Ids |-> IF i \in ids THEN NewRow(sec[i], active) ELSE rows[i]]
             /\ probed' = probed \ ids
    BY <1>2
  <1>4. \A i \in ids : /\ sec[i] \in Secrets \ Stored /\ NewRow(sec[i], active) \in KeyRow
                       /\ NewRow(sec[i], active).secret = sec[i]
    BY NewRowType DEF Ciphers
  <1>5. /\ rows' \in [Ids -> KeyRow \cup {NULL}]
        /\ \A i \in Ids : rows'[i] = IF i \in ids THEN NewRow(sec[i], active) ELSE rows[i]
    BY <1>3, <1>4 DEF IInv, Typed
  <1>6. Distinct'
    <2> SUFFICES ASSUME NEW j \in Ids, NEW k \in Ids, rows'[j] # NULL, rows'[k] # NULL,
                        rows'[j].secret = rows'[k].secret
                 PROVE  j = k
      BY DEF Distinct, Present
    <2>1. \A i \in Ids : i \in ids => rows'[i].secret = sec[i] /\ sec[i] \notin Stored
      BY <1>4, <1>5
    <2>2. \A i \in Ids : i \notin ids /\ rows'[i] # NULL =>
             rows'[i] = rows[i] /\ i \in Present /\ rows'[i].secret \in Stored
      BY <1>5 DEF Present, Stored
    <2>3. CASE j \in ids /\ k \in ids
      BY <1>3, <2>1, <2>3
    <2>4. CASE j \notin ids /\ k \notin ids
      BY <2>2, <2>4 DEF IInv, Distinct
    <2>5. CASE ~(j \in ids <=> k \in ids)
      BY <2>1, <2>2, <2>5
    <2> QED BY <2>3, <2>4, <2>5
  <1>7. Typed'
    BY <1>1, <1>3, <1>5 DEF IInv, Typed
  <1>8. RefusedStays' /\ ProbedWaits'
    BY <1>1, <1>3, <1>5, RefusedKept, WaitsKept DEF IInv, Typed
  <1> QED BY <1>6, <1>7, <1>8 DEF IInv

\* A writer of the administrator keeps the time of the next probe.
LEMMA AdminWrite ==
    ASSUME IInv, NEW i \in Ids, rows[i] # NULL, NEW R \in KeyRow, rows' = [rows EXCEPT ![i] = R],
           R.secret \notin Stored \/ R.secret = rows[i].secret, R.next = rows[i].next,
           admin' \in 0..MaxAdmin, UNCHANGED <<good, loop, manual, faults, probed>>
    PROVE  IInv'
  <1>1. /\ rows' \in [Ids -> KeyRow \cup {NULL}] /\ Distinct' /\ rows'[i] = R
        /\ \A j \in Ids \ {i} : rows'[j] = rows[j]
    BY RowWrite
  <1>2. Typed'
    BY <1>1 DEF IInv, Typed
  <1>3. RefusedStays' /\ ProbedWaits'
    BY <1>1, RefusedKept, WaitsKept DEF IInv, Typed
  <1> QED BY <1>1, <1>2, <1>3 DEF IInv

LEMMA UpdateKeyKeeps ==
    ASSUME IInv, NEW i \in Ids, NEW s \in Secrets, NEW active \in BOOLEAN \cup {NULL},
           UpdateKey(i, s, active)
    PROVE  /\ IInv'
           /\ rows[i].status # "invalid" => rows'[i].status # "invalid"
  <1> DEFINE row == [rows[i] EXCEPT !.secret = s]
  <1> PICK R : R = CASE active = NULL -> row
                     [] active = TRUE -> AdminEnabled(row)
                     [] OTHER -> AdminDisabled(row)
    OBVIOUS
  <1>1. rows[i] \in KeyRow /\ rows[i] # NULL
    BY DEF UpdateKey, IInv, Typed
  <1>2. row \in KeyRow /\ row.secret = s /\ row.next = rows[i].next /\ row.status = rows[i].status
    BY <1>1 DEF KeyRow, Ciphers
  <1>3. /\ rows' = [rows EXCEPT ![i] = R] /\ UNCHANGED <<good, loop, manual, faults, probed>>
        /\ admin' \in 0..MaxAdmin /\ (s = rows[i].secret \/ s \notin Stored)
    BY AdministerType DEF UpdateKey, Free
  <1> HIDE DEF row
  <1>4. /\ R \in KeyRow /\ R.secret = s /\ R.next = rows[i].next
        /\ rows[i].status # "invalid" => R.status # "invalid"
    <2>1. R \in {row, AdminEnabled(row), AdminDisabled(row)}
      OBVIOUS
    <2> QED BY <1>2, <2>1, AdminTypes
  <1>5. rows'[i] = R
    BY <1>3 DEF IInv, Typed
  <1> QED BY <1>1, <1>3, <1>4, <1>5, AdminWrite

LEMMA BatchItemKeeps ==
    ASSUME IInv, NEW i \in Ids, NEW op, BatchItem(i, op)
    PROVE  /\ IInv'
           /\ rows[i].status # "invalid" => rows'[i].status # "invalid"
  <1> DEFINE row == rows[i]
  <1> PICK R : R = CASE op = "reset" -> CooldownReset(row)
                     [] op = "enable" -> AdminEnabled(row)
                     [] OTHER -> AdminDisabled(row)
    OBVIOUS
  <1>1. row \in KeyRow /\ row # NULL
    BY DEF BatchItem, IInv, Typed
  <1>2. /\ rows' = [rows EXCEPT ![i] = R] /\ UNCHANGED <<good, loop, manual, faults, probed>>
        /\ admin' \in 0..MaxAdmin
    BY AdministerType DEF BatchItem
  <1>3. /\ R \in KeyRow /\ R.secret = row.secret /\ R.next = row.next
        /\ row.status # "invalid" => R.status # "invalid"
    <2>1. R \in {CooldownReset(row), AdminEnabled(row), AdminDisabled(row)}
      OBVIOUS
    <2> HIDE DEF row
    <2> QED BY <1>1, <2>1, AdminTypes
  <1>4. rows'[i] = R
    BY <1>2 DEF IInv, Typed
  <1> QED BY <1>1, <1>2, <1>3, <1>4, AdminWrite

LEMMA PurgeKeyKeeps ==
    ASSUME IInv, NEW i \in Ids, PurgeKey(i)
    PROVE  IInv'
  <1>1. /\ rows' = [rows EXCEPT ![i] = NULL] /\ probed' = probed \ {i}
        /\ UNCHANGED <<good, loop, manual, faults>> /\ admin' \in 0..MaxAdmin
    BY AdministerType DEF PurgeKey
  <1>2. /\ rows' \in [Ids -> KeyRow \cup {NULL}] /\ rows'[i] = NULL
        /\ \A j \in Ids \ {i} : rows'[j] = rows[j]
    BY <1>1 DEF IInv, Typed
  <1>3. Typed'
    BY <1>1, <1>2 DEF IInv, Typed
  <1>4. Distinct'
    BY <1>2 DEF IInv, Distinct, Present
  <1>5. RefusedStays' /\ ProbedWaits'
    BY <1>1, <1>2, RefusedKept, WaitsKept DEF IInv, Typed
  <1> QED BY <1>3, <1>4, <1>5 DEF IInv

LEMMA ReviveKeyKeeps ==
    ASSUME IInv, NEW i \in Ids, NEW requeue \in BOOLEAN, NEW test \in BOOLEAN,
           ReviveKey(i, requeue, test)
    PROVE  /\ IInv'
           /\ rows'[i].status # "invalid"
  <1> DEFINE row == rows[i]
  <1> PICK R : R = Requeued(Revived(row), requeue)
    OBVIOUS
  <1>1. row \in KeyRow /\ row # NULL
    BY DEF ReviveKey, IInv, Typed
  <1>2. /\ rows' = [rows EXCEPT ![i] = R] /\ probed' = probed \ {i}
        /\ UNCHANGED <<good, loop, faults>> /\ admin' \in 0..MaxAdmin
        /\ manual' = IF test THEN [kind |-> "test", queue |-> {[id |-> i, row |-> rows'[i]]}] ELSE manual
    <2>1. probed' = probed \ {i} /\ UNCHANGED <<good, loop, faults>> /\ admin' \in 0..MaxAdmin
      BY AdministerType DEF ReviveKey
    <2>2. rows' = [rows EXCEPT ![i] = R]
      BY DEF ReviveKey
    <2>3. manual' = IF test THEN [kind |-> "test", queue |-> {[id |-> i, row |-> rows'[i]]}] ELSE manual
      BY DEF ReviveKey
    <2> QED BY <2>1, <2>2, <2>3
  <1>3. R \in KeyRow /\ R.secret = row.secret /\ R.status = "active"
    BY <1>1 DEF Requeued, Revived, KeyRow, Statuses
  <1>4. /\ rows' \in [Ids -> KeyRow \cup {NULL}] /\ Distinct' /\ rows'[i] = R
        /\ \A j \in Ids \ {i} : rows'[j] = rows[j]
    BY <1>1, <1>2, <1>3, RowWrite
  <1>5. manual' \in Manuals
    BY <1>2, <1>3, <1>4 DEF Manuals, IInv, Typed
  <1>6. Typed'
    BY <1>2, <1>4, <1>5 DEF IInv, Typed
  <1>7. RefusedStays' /\ ProbedWaits'
    BY <1>2, <1>4, RefusedKept, WaitsKept DEF IInv, Typed
  <1> QED BY <1>3, <1>4, <1>6, <1>7 DEF IInv

\* The upstream.
LEMMA RevokeKeeps ==
    ASSUME IInv, NEW s \in Secrets, Revoke(s)
    PROVE  IInv'
  <1>1. good' \subseteq good /\ UNCHANGED <<rows, loop, manual, admin, faults, probed>>
    BY DEF Revoke
  <1>2. Typed' /\ Distinct'
    BY <1>1 DEF IInv, Typed, Distinct, Present
  <1>3. RefusedStays' /\ ProbedWaits'
    BY <1>1, RefusedKept, WaitsKept
  <1> QED BY <1>2, <1>3 DEF IInv

\* The loop.
LEMMA StartRoundKeeps ==
    ASSUME IInv, StartRound
    PROVE  IInv' /\ \A x \in loop'.todo : x.id \in {i \in Ids : Due(i)}
  <1> DEFINE due == {i \in Ids : Due(i)}
  <1>1. /\ loop' = [pc |-> "round", todo |-> {[id |-> i, secret |-> rows[i].secret] : i \in due},
                    batch |-> {}, old |-> FALSE]
        /\ UNCHANGED <<rows, good, manual, admin, faults, probed>> /\ loop = Asleep
    BY DEF StartRound, IInv, Typed
  <1>2. {[id |-> i, secret |-> rows[i].secret] : i \in due} \in SUBSET [id : Ids, secret : Ciphers]
    BY DEF Due, IInv, Typed, KeyRow
  <1>3. loop' \in Loops /\ loop'.pc # "sleep" /\ loop'.batch = {}
    BY <1>1, <1>2 DEF Loops
  <1>4. Typed' /\ Distinct' /\ RefusedStays'
    BY <1>1, <1>3 DEF IInv, Typed, Distinct, Present, RefusedStays
  <1>5. ProbedWaits'
    BY <1>1, <1>3 DEF IInv, ProbedWaits, Asleep
  <1> QED BY <1>1, <1>4, <1>5 DEF IInv

LEMMA NextBatchKeeps ==
    ASSUME IInv, NextBatch
    PROVE  IInv'
  <1> PICK batch : batch = {x \in loop.todo : Cardinality({y \in loop.todo : y.id < x.id}) < BatchSize}
    OBVIOUS
  <1>1. /\ loop' = [loop EXCEPT !.todo = @ \ batch,
                    !.batch = {[id |-> x.id, secret |-> x.secret, kind |-> NULL] : x \in batch}]
        /\ loop.pc = "round" /\ UNCHANGED <<rows, good, manual, admin, faults, probed>> /\ loop.batch = {}
    BY DEF NextBatch
  <1>2. loop \in Loops /\ loop.todo \in SUBSET [id : Ids, secret : Ciphers] /\ batch \subseteq loop.todo
    BY DEF IInv, Typed, Loops
  <1> PICK B : B = {[id |-> x.id, secret |-> x.secret, kind |-> NULL] : x \in batch}
    OBVIOUS
  <1>3. B \in SUBSET [id : Ids, secret : Ciphers, kind : Kinds \cup {NULL}] /\ \A y \in B : y.kind = NULL
    <2> SUFFICES ASSUME NEW y \in B
                 PROVE  y \in [id : Ids, secret : Ciphers, kind : Kinds \cup {NULL}] /\ y.kind = NULL
      OBVIOUS
    <2>1. PICK x \in batch : y = [id |-> x.id, secret |-> x.secret, kind |-> NULL]
      OBVIOUS
    <2>2. x.id \in Ids /\ x.secret \in Ciphers
      BY <1>2
    <2> QED BY <2>1, <2>2
  <1>4. /\ loop' \in Loops /\ loop'.pc # "sleep" /\ \A x \in loop'.batch : x.kind = NULL
    <2>1. loop.todo \ batch \in SUBSET [id : Ids, secret : Ciphers]
      BY <1>2
    <2>2. loop' = [loop EXCEPT !.todo = loop.todo \ batch, !.batch = B]
      BY <1>1
    <2> QED BY <1>1, <1>2, <1>3, <2>1, <2>2 DEF Loops
  <1>5. Typed' /\ Distinct' /\ RefusedStays'
    BY <1>1, <1>4 DEF IInv, Typed, Distinct, Present, RefusedStays
  <1>6. ProbedWaits'
    BY <1>1 DEF IInv, ProbedWaits
  <1> QED BY <1>5, <1>6 DEF IInv

LEMMA OverrunKeeps ==
    ASSUME IInv, Overrun
    PROVE  IInv'
  <1>1. loop' = [loop EXCEPT !.old = TRUE] /\ UNCHANGED <<rows, good, manual, admin, faults, probed>>
    BY DEF Overrun
  <1>2. loop' \in Loops /\ loop'.pc = loop.pc /\ loop'.batch = loop.batch /\ loop.pc # "sleep"
    BY <1>1 DEF IInv, Typed, Loops, Overrun
  <1>3. Typed' /\ Distinct' /\ RefusedStays'
    BY <1>1, <1>2 DEF IInv, Typed, Distinct, Present, RefusedStays, Accepted
  <1>4. ProbedWaits'
    BY <1>1, <1>2 DEF IInv, ProbedWaits
  <1> QED BY <1>3, <1>4 DEF IInv

LEMMA AsleepType ==
    Asleep \in Loops /\ Asleep.batch = {} /\ NoManual \in Manuals
  BY DEF Asleep, Loops, NoManual, Manuals

LEMMA EndRoundKeeps ==
    ASSUME IInv, EndRound
    PROVE  IInv'
  <1>1. loop' = Asleep /\ loop.batch = {} /\ UNCHANGED <<rows, good, manual, admin, faults, probed>>
    BY DEF EndRound
  <1>2. Typed' /\ Distinct' /\ RefusedStays'
    BY <1>1, AsleepType DEF IInv, Typed, Distinct, Present, RefusedStays
  <1>3. ProbedWaits'
    BY <1>1, AsleepType DEF IInv, ProbedWaits
  <1> QED BY <1>2, <1>3 DEF IInv

LEMMA RestartKeeps ==
    ASSUME IInv, Restart
    PROVE  IInv'
  <1>1. /\ loop' = Asleep /\ manual' = NoManual /\ probed' = {} /\ UNCHANGED <<rows, good, admin>>
        /\ faults' \in 0..MaxFaults
    BY FaultType DEF Restart
  <1>2. Typed' /\ Distinct' /\ RefusedStays'
    BY <1>1, AsleepType DEF IInv, Typed, Distinct, Present, RefusedStays
  <1>3. ProbedWaits'
    BY <1>1 DEF ProbedWaits
  <1> QED BY <1>2, <1>3 DEF IInv

LEMMA BatchType ==
    ASSUME IInv, NEW x \in loop.batch
    PROVE  /\ x \in [id : Ids, secret : Ciphers, kind : Kinds \cup {NULL}]
           /\ loop \in Loops /\ loop.pc = "round"
  <1>1. loop \in Loops /\ (loop.pc = "sleep" => loop = Asleep)
    BY DEF IInv, Typed
  <1> QED BY <1>1, AsleepType DEF Loops

LEMMA ProbeOneKeyKeeps ==
    ASSUME IInv, NEW x \in loop.batch, ProbeOneKey(x)
    PROVE  IInv'
  <1>1. PICK kind \in ProbeKinds(x.secret) :
          loop' = [loop EXCEPT !.batch = (@ \ {x}) \cup {[x EXCEPT !.kind = kind]}]
    BY DEF ProbeOneKey
  <1> PICK y : y = [x EXCEPT !.kind = kind]
    OBVIOUS
  <1> DEFINE batch == (loop.batch \ {x}) \cup {y}
  <1>2. kind \in Kinds /\ (kind = "invalid" => ~Accepted(x.secret))
    BY <1>1, ProbeKindsType
  <1>3. probed' = probed \cup {x.id} /\ UNCHANGED <<rows, good, manual, admin, faults>>
    BY DEF ProbeOneKey
  <1>4. /\ x \in [id : Ids, secret : Ciphers, kind : Kinds \cup {NULL}]
        /\ loop \in Loops /\ loop.pc = "round"
    BY BatchType
  <1>5. /\ y \in [id : Ids, secret : Ciphers, kind : Kinds \cup {NULL}]
        /\ y.id = x.id /\ y.secret = x.secret /\ y.kind = kind
    BY <1>2, <1>4
  <1>6. loop' = [loop EXCEPT !.batch = batch]
    BY <1>1
  <1>7. batch \in SUBSET [id : Ids, secret : Ciphers, kind : Kinds \cup {NULL}]
    BY <1>4, <1>5 DEF Loops
  <1> HIDE DEF batch
  <1>8. loop' \in Loops /\ loop'.pc # "sleep" /\ loop'.batch = batch
    BY <1>4, <1>6, <1>7 DEF Loops
  <1>9. Typed' /\ Distinct'
    BY <1>3, <1>4, <1>8 DEF IInv, Typed, Distinct, Present
  <1>10. RefusedStays'
    <2> SUFFICES ASSUME NEW z \in batch, z.kind # NULL, z.kind = "invalid"
                 PROVE  ~Accepted(z.secret)'
      BY <1>8 DEF RefusedStays
    <2>1. ~Accepted(z.secret)
      BY <1>2, <1>5 DEF batch, IInv, RefusedStays
    <2> QED BY <1>3, <2>1 DEF Accepted
  <1>11. ProbedWaits'
    <2> SUFFICES ASSUME NEW i \in probed'
                 PROVE  rows'[i] = NULL \/ rows'[i].next = "later" \/ \E z \in batch : z.id = i
      BY <1>8 DEF ProbedWaits
    <2>1. CASE i = x.id
      BY <1>5, <2>1 DEF batch
    <2>2. CASE i \in probed
      <3>1. rows[i] = NULL \/ rows[i].next = "later" \/ \E z \in loop.batch : z.id = i
        BY <2>2 DEF IInv, ProbedWaits
      <3>2. ASSUME NEW z \in loop.batch, z.id = i PROVE \E w \in batch : w.id = i
        BY <1>5, <3>2 DEF batch
      <3> QED BY <1>3, <3>1, <3>2
    <2> QED BY <1>3, <2>1, <2>2
  <1> QED BY <1>9, <1>10, <1>11 DEF IInv

\* A result of the batch is taken and the row of its key gets a time, or the
\* key is not held to be probed any more.
LEMMA ResultTaken ==
    ASSUME IInv, NEW x \in loop.batch, loop' = [loop EXCEPT !.batch = @ \ {x}],
           probed' \subseteq probed, UNCHANGED <<good, manual, admin>>, faults' \in 0..MaxFaults,
           rows' \in [Ids -> KeyRow \cup {NULL}], Distinct',
           \A j \in Ids \ {x.id} : rows'[j] = rows[j],
           x.id \in probed' => rows'[x.id] = NULL \/ rows'[x.id].next = "later"
    PROVE  IInv'
  <1>1. /\ x \in [id : Ids, secret : Ciphers, kind : Kinds \cup {NULL}]
        /\ loop \in Loops /\ loop.pc = "round"
    BY BatchType
  <1>2. loop' \in Loops /\ loop'.pc # "sleep" /\ loop'.batch = loop.batch \ {x}
    BY <1>1 DEF Loops
  <1>3. Typed'
    BY <1>2 DEF IInv, Typed
  <1>4. RefusedStays'
    BY <1>2 DEF IInv, RefusedStays, Accepted
  <1>5. ProbedWaits'
    BY <1>2 DEF IInv, Typed, ProbedWaits
  <1> QED BY <1>3, <1>4, <1>5 DEF IInv

LEMMA ApplyResultKeeps ==
    ASSUME IInv, NEW x \in loop.batch, ApplyResult(x)
    PROVE  /\ IInv' /\ \A j \in Ids \ {x.id} : rows'[j] = rows[j]
           /\ rows[x.id] # NULL /\ rows[x.id].status # "invalid" /\ rows'[x.id].status = "invalid"
                => ~Accepted(x.secret)
  <1> PICK i : i = x.id
    OBVIOUS
  <1>1. /\ x \in [id : Ids, secret : Ciphers, kind : Kinds \cup {NULL}] /\ i \in Ids
        /\ rows \in [Ids -> KeyRow \cup {NULL}] /\ Distinct
        /\ faults \in 0..MaxFaults
    BY BatchType DEF IInv, Typed
  <1>2. /\ loop' = [loop EXCEPT !.batch = @ \ {x}] /\ UNCHANGED <<good, manual, admin>>
        /\ x.kind \in Kinds /\ x.kind # NULL
    BY <1>1 DEF ApplyResult
  <1>3. CASE UNCHANGED rows /\ faults' \in 0..MaxFaults /\ probed' \subseteq probed
              /\ (i \in probed' => rows[i] = NULL)
    <2>1. Distinct' /\ rows' \in [Ids -> KeyRow \cup {NULL}]
      BY <1>1, <1>3 DEF Distinct, Present
    <2> QED BY <1>1, <1>2, <1>3, <2>1, ResultTaken
  <1>4. ASSUME NEW R \in KeyRow, rows[i] # NULL, rows' = [rows EXCEPT ![i] = R], UNCHANGED faults,
               probed' \subseteq probed, R.secret = rows[i].secret,
               i \in probed' => R.next = "later",
               rows[i].status # "invalid" /\ R.status = "invalid" => x.kind = "invalid"
        PROVE  /\ IInv' /\ \A j \in Ids \ {i} : rows'[j] = rows[j]
               /\ rows[i].status # "invalid" /\ rows'[i].status = "invalid" => ~Accepted(x.secret)
    <2>1. /\ rows' \in [Ids -> KeyRow \cup {NULL}] /\ Distinct' /\ rows'[i] = R
          /\ \A j \in Ids \ {i} : rows'[j] = rows[j]
      BY <1>1, <1>4, RowWrite
    <2>2. IInv'
      BY <1>1, <1>2, <1>4, <2>1, ResultTaken
    <2>3. x.kind = "invalid" => ~Accepted(x.secret)
      BY <1>2 DEF IInv, RefusedStays
    <2> QED BY <1>4, <2>1, <2>2, <2>3
  <1>5. CASE rows[i] # NULL /\ x.kind \in Verdicts /\ UNCHANGED faults
              /\ rows' = [rows EXCEPT ![i] = Applied(@, x.kind, 0)] /\ probed' = probed \ {i}
    <2> PICK R : R = Applied(rows[i], x.kind, 0)
      OBVIOUS
    <2>1. /\ R \in KeyRow /\ R.secret = rows[i].secret
          /\ x.kind # "invalid" => R.status # "invalid"
      BY <1>1, <1>5 DEF Applied, ApplyFetch, DisableInvalid, DisableDecryptFailed, KeyRow, Statuses,
                        DisabledStatuses, Verdicts
    <2>2. rows' = [rows EXCEPT ![i] = R]
      BY <1>5
    <2> QED BY <1>4, <1>5, <2>1, <2>2
  <1>6. CASE rows[i] # NULL /\ x.kind \notin Verdicts /\ UNCHANGED faults
              /\ rows' = [rows EXCEPT ![i].next = NULL] /\ probed' = probed \ {i}
    <2> PICK R : R = [rows[i] EXCEPT !.next = NULL]
      OBVIOUS
    <2>1. R \in KeyRow /\ R.secret = rows[i].secret /\ R.status = rows[i].status
      BY <1>1, <1>6 DEF KeyRow
    <2>2. rows' = [rows EXCEPT ![i] = R]
      BY <1>1, <1>6
    <2> QED BY <1>4, <1>6, <2>1, <2>2
  <1>7. ASSUME rows[i] # NULL, x.kind \notin Verdicts, ~IsDisabled(rows[i]), UNCHANGED faults,
               probed' = IF loop.old /\ x.kind # "success" THEN probed \ {i} ELSE probed,
               NEW rem \in Balances,
               rows' = [rows EXCEPT ![i] = [Applied(rows[i], x.kind, rem) EXCEPT
                                    !.next = Backoff(Applied(rows[i], x.kind, rem), x.kind, loop.old)]]
        PROVE  /\ IInv' /\ \A j \in Ids \ {i} : rows'[j] = rows[j]
               /\ rows[i].status # "invalid" /\ rows'[i].status = "invalid" => ~Accepted(x.secret)
    <2> PICK R : R = [Applied(rows[i], x.kind, rem) EXCEPT
                        !.next = Backoff(Applied(rows[i], x.kind, rem), x.kind, loop.old)]
      OBVIOUS
    <2>1. /\ R \in KeyRow /\ R.secret = rows[i].secret
          /\ ~(loop.old /\ x.kind # "success") => R.next = "later"
          /\ rows[i].status # "invalid" => R.status # "invalid"
      <3>1. rows[i] \in KeyRow /\ x.kind \in Kinds \ Verdicts /\ loop.old \in BOOLEAN
        BY <1>1, <1>2, <1>7, BatchType DEF Loops
      <3> QED BY <1>7, <3>1, BackoffType
    <2>2. rows' = [rows EXCEPT ![i] = R]
      BY <1>7
    <2> QED BY <1>4, <1>7, <2>1, <2>2
  <1>8. CASE Fault /\ probed' = probed \ {i} /\ UNCHANGED rows
    BY <1>3, <1>8, FaultType
  <1>9. CASE rows[i] = NULL /\ UNCHANGED <<rows, probed, faults>>
    BY <1>1, <1>3, <1>9
  <1> QED BY <1>5, <1>6, <1>7, <1>8, <1>9 DEF ApplyResult, Target, Verdicts

LEMMA TickKeeps ==
    ASSUME IInv, NEW i \in Ids, Tick(i)
    PROVE  IInv' /\ rows'[i].status = rows[i].status
  <1> PICK R : R = [rows[i] EXCEPT !.next = "due"]
    OBVIOUS
  <1>1. rows[i] \in KeyRow /\ rows[i] # NULL
    BY DEF Tick, IInv, Typed
  <1>2. R \in KeyRow /\ R.secret = rows[i].secret /\ R.status = rows[i].status
    BY <1>1 DEF KeyRow
  <1>3. /\ rows' = [rows EXCEPT ![i] = R] /\ probed' = probed \ {i}
        /\ UNCHANGED <<good, loop, manual, admin, faults>>
    BY <1>1 DEF Tick, IInv, Typed
  <1>4. /\ rows' \in [Ids -> KeyRow \cup {NULL}] /\ Distinct' /\ rows'[i] = R
        /\ \A j \in Ids \ {i} : rows'[j] = rows[j]
    BY <1>1, <1>2, <1>3, RowWrite
  <1>5. Typed'
    BY <1>3, <1>4 DEF IInv, Typed
  <1>6. RefusedStays' /\ ProbedWaits'
    BY <1>3, <1>4, RefusedKept, WaitsKept DEF IInv, Typed
  <1> QED BY <1>2, <1>4, <1>5, <1>6 DEF IInv

\* The requests that wait for the upstream.
LEMMA StartManualKeeps ==
    ASSUME IInv, StartManual
    PROVE  IInv'
  <1>1. UNCHANGED <<rows, good, loop, faults, probed>> /\ admin' \in 0..MaxAdmin
    BY AdministerType DEF StartManual
  <1>2. \A i \in Ids : rows[i] # NULL => Copy(i) \in [id : Ids, row : KeyRow]
    BY DEF Copy, IInv, Typed
  <1>3. \E kind \in {"refresh", "test"}, Q \in SUBSET [id : Ids, row : KeyRow] :
          manual' = [kind |-> kind, queue |-> Q]
    <2>1. CASE \E i \in Ids : Refreshable(i) /\ manual' = [kind |-> "refresh", queue |-> {Copy(i)}]
      BY <1>2, <2>1 DEF Refreshable
    <2>2. CASE LET all == {i \in Ids : Refreshable(i) /\ rows[i].active} IN
               all # {} /\ manual' = [kind |-> "refresh", queue |-> {Copy(i) : i \in all}]
      <3> DEFINE Q == {Copy(i) : i \in {j \in Ids : Refreshable(j) /\ rows[j].active}}
      <3>1. Q \in SUBSET [id : Ids, row : KeyRow]
        BY <1>2 DEF Refreshable
      <3>2. manual' = [kind |-> "refresh", queue |-> Q]
        BY <2>2
      <3> HIDE DEF Q
      <3> QED BY <3>1, <3>2
    <2>3. CASE \E i \in Present : manual' = [kind |-> "test", queue |-> {Copy(i)}]
      BY <1>2, <2>3 DEF Present
    <2> QED BY <2>1, <2>2, <2>3 DEF StartManual
  <1>4. manual' \in Manuals
    BY <1>3 DEF Manuals
  <1>5. Typed' /\ Distinct'
    BY <1>1, <1>4 DEF IInv, Typed, Distinct, Present
  <1>6. RefusedStays' /\ ProbedWaits'
    BY <1>1, RefusedKept, WaitsKept
  <1> QED BY <1>5, <1>6 DEF IInv

LEMMA FinishManualKeeps ==
    ASSUME IInv, NEW x \in manual.queue, FinishManual(x)
    PROVE  /\ IInv' /\ x.id \in Ids /\ \A j \in Ids \ {x.id} : rows'[j] = rows[j]
           /\ rows[x.id] # NULL /\ rows[x.id].status # "invalid" /\ rows'[x.id].status = "invalid"
                => ~Accepted(x.row.secret)
  <1> PICK i : i = x.id
    OBVIOUS
  <1>1. /\ x \in [id : Ids, row : KeyRow] /\ i \in Ids /\ x.row \in KeyRow
        /\ manual \in Manuals /\ rows \in [Ids -> KeyRow \cup {NULL}]
    BY DEF IInv, Typed, Manuals
  <1>2. UNCHANGED <<good, loop, admin, faults>>
    BY DEF FinishManual
  <1>3. manual' \in Manuals
    BY <1>1, AsleepType DEF FinishManual, Manuals
  <1>4. CASE rows[i] # NULL
    <2>1. PICK out \in IF manual.kind = "test" THEN TestOutcomes(x.row) ELSE RefreshOutcomes(x.row) :
               /\ rows' = [rows EXCEPT ![x.id] = Written(@, x.row, out)]
               /\ probed' = IF out.row.next = x.row.next /\ "next" \notin out.times
                            THEN probed ELSE probed \ {x.id}
      BY <1>4 DEF FinishManual
    <2> PICK R : R = Written(rows[i], x.row, out)
      OBVIOUS
    <2>2. /\ out \in Outcome
          /\ out.row.status # x.row.status /\ out.row.status = "invalid" => ~Accepted(x.row.secret)
      BY <1>1, <2>1, TestOutcomesType, RefreshOutcomesType
    <2>3. rows[i] \in KeyRow
      BY <1>1, <1>4
    <2>4. /\ R \in KeyRow /\ R.secret = rows[i].secret
          /\ out.row.next = x.row.next /\ "next" \notin out.times => R.next = rows[i].next
          /\ R.status = IF out.row.status = x.row.status THEN rows[i].status ELSE out.row.status
      <3>1. PICK row, old : row = rows[i] /\ old = x.row
        OBVIOUS
      <3>2. old \in KeyRow /\ out \in Outcome /\ row \in KeyRow /\ R = Written(row, old, out)
        BY <1>1, <2>2, <2>3, <3>1
      <3>3. /\ Written(row, old, out) \in KeyRow /\ Written(row, old, out).secret = row.secret
            /\ out.row.next = old.next /\ "next" \notin out.times => Written(row, old, out).next = row.next
            /\ Written(row, old, out).status = IF out.row.status = old.status THEN row.status ELSE out.row.status
        BY <3>2, WrittenType, Zenon
      <3>4. /\ R \in KeyRow /\ R.secret = row.secret
            /\ out.row.next = old.next /\ "next" \notin out.times => R.next = row.next
            /\ R.status = IF out.row.status = old.status THEN row.status ELSE out.row.status
        BY <3>2, <3>3
      <3> QED BY <3>1, <3>4
    <2>5. rows' = [rows EXCEPT ![i] = R]
      BY <2>1
    <2>6. /\ rows' \in [Ids -> KeyRow \cup {NULL}] /\ Distinct' /\ rows'[i] = R
          /\ \A j \in Ids \ {i} : rows'[j] = rows[j]
      BY <1>1, <1>4, <2>4, <2>5, RowWrite
    <2>7. Typed'
      BY <1>2, <1>3, <2>1, <2>6 DEF IInv, Typed
    <2>8. RefusedStays' /\ ProbedWaits'
      <3>1. \A j \in probed' : rows'[j] = rows[j] \/ (rows[j] # NULL /\ rows'[j].next = rows[j].next)
        BY <1>4, <2>1, <2>4, <2>6 DEF IInv, Typed
      <3>2. probed' \subseteq probed
        BY <2>1
      <3> QED BY <1>2, <3>1, <3>2, RefusedKept, WaitsKept
    <2> QED BY <1>1, <2>2, <2>4, <2>6, <2>7, <2>8 DEF IInv
  <1>5. CASE UNCHANGED <<rows, probed>> /\ rows[i] = NULL
    <2>1. Typed' /\ Distinct'
      BY <1>2, <1>3, <1>5 DEF IInv, Typed, Distinct, Present
    <2>2. RefusedStays' /\ ProbedWaits'
      BY <1>2, <1>5, RefusedKept, WaitsKept
    <2> QED BY <1>1, <1>5, <2>1, <2>2 DEF IInv
  <1> QED BY <1>4, <1>5 DEF FinishManual

-----------------------------------------------------------------------------
(***************************************************************************)
(* The results.                                                            *)
(***************************************************************************)
LEMMA IInvInit ==
    Init => IInv
  <1> SUFFICES ASSUME Init PROVE IInv
    OBVIOUS
  <1>1. PICK f \in [1..InitKeys -> Ciphers] :
         /\ \A i, j \in 1..InitKeys : f[i] = f[j] => i = j
         /\ rows = [i \in Ids |-> IF i \in 1..InitKeys THEN NewRow(f[i], TRUE) ELSE NULL]
    BY DEF Init, Ciphers
  <1>2. \A i \in 1..InitKeys : NewRow(f[i], TRUE) \in KeyRow /\ NewRow(f[i], TRUE).secret = f[i]
    BY NewRowType
  <1>3. /\ rows \in [Ids -> KeyRow \cup {NULL}]
        /\ \A i \in Ids : rows[i] # NULL => i \in 1..InitKeys /\ rows[i].secret = f[i]
    BY <1>1, <1>2
  <1>4. Typed
    <2>1. MaxAdmin \in Nat /\ MaxFaults \in Nat
      BY KeyStoreAssumption
    <2>2. /\ good = Secrets /\ loop = Asleep /\ manual = NoManual
          /\ admin = 0 /\ faults = 0 /\ probed = {}
      BY DEF Init
    <2> QED BY <1>3, <2>1, <2>2, AsleepType DEF Typed
  <1>5. Distinct
    <2> SUFFICES ASSUME NEW i \in Ids, NEW j \in Ids, rows[i] # NULL, rows[j] # NULL,
                        rows[i].secret = rows[j].secret
                 PROVE  i = j
      BY DEF Distinct, Present
    <2>1. i \in 1..InitKeys /\ j \in 1..InitKeys /\ f[i] = f[j]
      BY <1>3
    <2> QED BY <1>1, <2>1
  <1>6. RefusedStays /\ ProbedWaits
    BY AsleepType DEF Init, RefusedStays, ProbedWaits
  <1> QED BY <1>4, <1>5, <1>6 DEF IInv

LEMMA IInvStep ==
    IInv /\ [Next]_vars => IInv'
  <1> SUFFICES ASSUME IInv, [Next]_vars PROVE IInv'
    OBVIOUS
  <1>1. CASE UNCHANGED vars
    BY <1>1 DEF vars, IInv, Typed, Distinct, Present, RefusedStays, ProbedWaits, Accepted
  <1>2. CASE \E s \in Secrets, active \in BOOLEAN : CreateKey(s, active)
    BY <1>2, CreateKeyKeeps
  <1>3. ASSUME NEW s \in Secrets, NEW t \in Secrets, NEW active, active \in BOOLEAN,
               ImportKeysText(s, t, active)
        PROVE  IInv'
    BY <1>3, ImportKeeps
  <1>4. CASE \E i \in Ids, s \in Secrets, active \in BOOLEAN \cup {NULL} : UpdateKey(i, s, active)
    BY <1>4, UpdateKeyKeeps
  <1>5. CASE \E i \in Ids : PurgeKey(i) \/ Tick(i)
    BY <1>5, PurgeKeyKeeps, TickKeeps
  <1>6. CASE \E i \in Ids, op \in {"reset", "enable", "delete"} : BatchItem(i, op)
    BY <1>6, BatchItemKeeps
  <1>7. CASE \E i \in Ids, requeue, test \in BOOLEAN : ReviveKey(i, requeue, test)
    BY <1>7, ReviveKeyKeeps
  <1>8. CASE \E s \in Secrets : Revoke(s)
    BY <1>8, RevokeKeeps
  <1>9. CASE StartRound \/ NextBatch \/ Overrun \/ EndRound \/ Restart \/ StartManual
    BY <1>9, StartRoundKeeps, NextBatchKeeps, OverrunKeeps, EndRoundKeeps, RestartKeeps, StartManualKeeps
  <1>10. CASE \E x \in loop.batch : ProbeOneKey(x) \/ ApplyResult(x)
    BY <1>10, ProbeOneKeyKeeps, ApplyResultKeeps
  <1>11. CASE \E x \in manual.queue : FinishManual(x)
    BY <1>11, FinishManualKeeps
  <1> QED BY <1>1, <1>2, <1>3, <1>4, <1>5, <1>6, <1>7, <1>8, <1>9, <1>10, <1>11 DEF Next

LEMMA IInvInvariant ==
    Spec => []IInv
  BY IInvInit, IInvStep, PTL DEF Spec

\* Types, and the unique index: two rows never hold the same secret.
THEOREM TypeCorrect ==
    Spec => []TypeOK
  <1>1. IInv => TypeOK
    BY DEF IInv, Typed, Distinct, Present, TypeOK, KeyRow, Ciphers
  <1> QED BY <1>1, IInvInvariant, PTL

\* The loop does not probe a key again before its interval, or after a failure
\* the retry delay since the start of the round, has passed (_refresh_once,
\* _apply_results_serial and its failing commits).
THEOREM BackoffRespectedHolds ==
    Spec => BackoffRespected
  <1>1. ASSUME IInv, StartRound, NEW x \in loop'.todo PROVE x.id \notin probed
    <2>1. x.id \in Ids /\ Due(x.id) /\ loop = Asleep
      BY <1>1, StartRoundKeeps DEF StartRound, IInv, Typed
    <2>2. rows[x.id] # NULL /\ rows[x.id].next # "later" /\ loop.batch = {}
      BY <2>1, AsleepType, KeyStoreAssumption DEF Due
    <2> QED BY <1>1, <2>2 DEF IInv, ProbedWaits
  <1>2. ASSUME IInv, [Next]_vars, loop.pc = "sleep", loop'.pc = "round" PROVE StartRound
    <2>1. loop # loop'
      BY <1>2
    <2>2. loop.batch = {}
      BY <1>2, AsleepType DEF IInv, Typed
    <2>3. ~NextBatch /\ ~Overrun /\ ~EndRound /\ ~Restart
      BY <1>2 DEF NextBatch, Overrun, EndRound, Restart, Asleep
    <2> QED BY <1>2, <2>1, <2>2, <2>3
            DEF Next, vars, CreateKey, ImportKeysText, UpdateKey, PurgeKey, BatchItem, ReviveKey,
                Revoke, Tick, StartManual, FinishManual
  <1>3. IInv /\ [Next]_vars =>
          [loop.pc = "sleep" /\ loop'.pc = "round" => \A x \in loop'.todo : x.id \notin probed]_vars
    BY <1>1, <1>2
  <1> QED BY <1>3, IInvInvariant, PTL DEF Spec, BackoffRespected

\* A key becomes invalid only by a refusal of its own secret, or of a secret
\* its row held when the upstream was asked (apply_credit_fetch_result, test_key).
THEOREM VerdictJustifiedHolds ==
    Spec => VerdictJustified
  <1> DEFINE Condemned(i) == /\ rows[i] # NULL /\ rows'[i] # NULL
                             /\ rows[i].status # "invalid" /\ rows'[i].status = "invalid"
             Justified(i) == ~Accepted(rows[i].secret) \/ \E s \in Asked(i) : s # rows[i].secret
  <1>1. ASSUME IInv, [Next]_vars, NEW i \in Ids, Condemned(i) PROVE Justified(i)
    <2>1. CASE UNCHANGED rows
      BY <1>1, <2>1
    <2>2. ASSUME NEW s \in Secrets, NEW active, active \in BOOLEAN, CreateKey(s, active) PROVE FALSE
      BY <1>1, <2>2, NewRowType DEF Ciphers, CreateKey, IInv, Typed
    <2>3. ASSUME NEW s \in Secrets, NEW t \in Secrets, NEW active, active \in BOOLEAN,
                 ImportKeysText(s, t, active)
          PROVE  FALSE
      <3>1. PICK ids \in SUBSET Ids : \E sec \in [ids -> Secrets \ Stored] :
                 /\ \A j, k \in ids : sec[j] = sec[k] => j = k
                 /\ rows' = [j \in Ids |-> IF j \in ids THEN NewRow(sec[j], active) ELSE rows[j]]
                 /\ probed' = probed \ ids
        BY <2>3, ImportEffect
      <3>2. PICK sec \in [ids -> Secrets \ Stored] :
                 rows' = [j \in Ids |-> IF j \in ids THEN NewRow(sec[j], active) ELSE rows[j]]
        BY <3>1
      <3>3. rows'[i] = IF i \in ids THEN NewRow(sec[i], active) ELSE rows[i]
        BY <3>2
      <3>4. i \in ids => NewRow(sec[i], active).status # "invalid"
        BY <2>3, NewRowType DEF Ciphers
      <3> QED BY <1>1, <3>3, <3>4
    <2>4. ASSUME NEW j \in Ids, NEW s \in Secrets, NEW active \in BOOLEAN \cup {NULL}, UpdateKey(j, s, active)
          PROVE  FALSE
      <3>1. i # j => rows'[i] = rows[i]
        BY <2>4 DEF UpdateKey
      <3> QED BY <1>1, <2>4, <3>1, UpdateKeyKeeps
    <2>5. ASSUME NEW j \in Ids, PurgeKey(j) PROVE FALSE
      BY <1>1, <2>5 DEF PurgeKey, IInv, Typed
    <2>6. ASSUME NEW j \in Ids, NEW op, BatchItem(j, op) PROVE FALSE
      <3>1. i # j => rows'[i] = rows[i]
        BY <2>6 DEF BatchItem
      <3> QED BY <1>1, <2>6, <3>1, BatchItemKeeps
    <2>7. ASSUME NEW j \in Ids, NEW requeue \in BOOLEAN, NEW test \in BOOLEAN, ReviveKey(j, requeue, test)
          PROVE  FALSE
      <3>1. i # j => rows'[i] = rows[i]
        BY <2>7 DEF ReviveKey
      <3> QED BY <1>1, <2>7, <3>1, ReviveKeyKeeps
    <2>8. ASSUME NEW j \in Ids, Tick(j) PROVE FALSE
      <3>1. i # j => rows'[i] = rows[i]
        BY <2>8 DEF Tick
      <3> QED BY <1>1, <2>8, <3>1, TickKeeps
    <2>9. ASSUME NEW x \in loop.batch, ApplyResult(x) PROVE Justified(i)
      <3>1. i = x.id /\ ~Accepted(x.secret)
        BY <1>1, <2>9, ApplyResultKeeps
      <3>2. x.secret \in Asked(i)
        BY <3>1 DEF Asked
      <3> QED BY <3>1, <3>2
    <2>10. ASSUME NEW x \in manual.queue, FinishManual(x) PROVE Justified(i)
      <3>1. i = x.id /\ ~Accepted(x.row.secret)
        BY <1>1, <2>10, FinishManualKeeps
      <3>2. x.row.secret \in Asked(i)
        BY <3>1 DEF Asked
      <3> QED BY <3>1, <3>2
    <2>11. ASSUME \/ \E s \in Secrets : Revoke(s)
                  \/ StartRound \/ NextBatch \/ Overrun \/ EndRound \/ Restart \/ StartManual
                  \/ \E x \in loop.batch : ProbeOneKey(x)
                  \/ UNCHANGED vars
           PROVE  UNCHANGED rows
      BY <2>11 DEF Revoke, StartRound, NextBatch, Overrun, EndRound, Restart, StartManual, ProbeOneKey, vars
    <2> HIDE DEF Condemned, Justified
    <2> QED BY <1>1, <2>1, <2>2, <2>3, <2>4, <2>5, <2>6, <2>7, <2>8, <2>9, <2>10, <2>11 DEF Next
  <1>2. IInv /\ [Next]_vars => [\A i \in Ids : Condemned(i) => Justified(i)]_vars
    <2> HIDE DEF Condemned, Justified
    <2> QED BY <1>1
  <1>3. IInv /\ [Next]_vars =>
          [\A i \in Ids :
             rows[i] # NULL /\ rows'[i] # NULL /\ rows[i].status # "invalid" /\ rows'[i].status = "invalid"
               => ~Accepted(rows[i].secret) \/ \E s \in Asked(i) : s # rows[i].secret]_vars
    BY <1>2
  <1> QED BY <1>3, IInvInvariant, PTL DEF Spec, VerdictJustified
=============================================================================
