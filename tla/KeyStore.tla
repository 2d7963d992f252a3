------------------------------ MODULE KeyStore ------------------------------
(***************************************************************************)
(* The life of the upstream keys: what the administrator does to them      *)
(* (app/api/control_plane.py), the loop that probes their credits in the   *)
(* background (app/core/credit_refresh.py), and probes and tests on demand.*)
(* KeyRows says what a result does to a row.                               *)
(*                                                                         *)
(* next_refresh_at is NULL, "due" (not after now) or "later"; Tick lets    *)
(* time pass for one key, Overrun for a round.  Secrets stand for the      *)
(* upstream's keys: the row of a key holds one, encrypted, and an          *)
(* administrator may replace it.                                           *)
(***************************************************************************)
EXTENDS KeyRows, FiniteSets, FiniteSetsExt

CONSTANTS
    Ids,          \* primary keys of api_keys, 1..n
    Secrets,      \* the plaintext keys of the upstream
    Sealed,       \* stored ciphertexts that the master key does not open
    ExaSecrets,   \* those that belong to the provider Exa
    Balances,     \* what a probe may find
    InitKeys,     \* how many keys are stored when the process starts
    BatchSize,    \* credit_monitoring.batch_size
    MaxAdmin,     \* bound on the number of administrative requests
    MaxFaults     \* bound on failing commits and restarts

ASSUME KeyStoreAssumption ==
    /\ IsFiniteSet(Ids) /\ Ids = 1..Cardinality(Ids)
    /\ ExaSecrets \subseteq Secrets /\ Sealed \cap Secrets = {}
    /\ Balances \subseteq Nat /\ InitKeys \in Nat
    /\ BatchSize \in Nat \ {0}
    /\ MaxAdmin \in Nat /\ MaxFaults \in Nat
    /\ NULL \notin {"due", "later"}

VARIABLES
    rows,    \* table api_keys: id -> row, NULL if there is none
    good,    \* the upstream: secrets it accepts
    loop,    \* credit_refresh_loop: where it is, the keys still due, the batch
    manual,  \* a request of the administrator that waits for the upstream
    admin, faults,
    probed   \* auxiliary: ids the loop probed, whose time to wait has not passed

vars == <<rows, good, loop, manual, admin, faults, probed>>

Provider(s) == IF s \in ExaSecrets THEN "exa" ELSE "firecrawl"

NewRow(s, active) ==
    [secret |-> s, active |-> active, status |-> IF active THEN "active" ELSE "disabled",
     until |-> NULL, credits |-> NULL, next |-> NULL]

Present == {i \in Ids : rows[i] # NULL}
Stored == {rows[i].secret : i \in Present}

FreeUnchecked(s) == TRUE  \* mutant: the hash has no unique index
\* api_key_hash is unique: a stored key is refused with 409.
Free(s) == s \notin Stored

Asleep == [pc |-> "sleep", todo |-> {}, batch |-> {}, old |-> FALSE]
NoManual == [kind |-> "none", queue |-> {}]

Init ==
    /\ \E f \in [1..InitKeys -> Secrets \cup Sealed] :
         /\ \A i, j \in 1..InitKeys : f[i] = f[j] => i = j
         /\ rows = [i \in Ids |-> IF i \in 1..InitKeys THEN NewRow(f[i], TRUE) ELSE NULL]
    /\ good = Secrets
    /\ loop = Asleep /\ manual = NoManual
    /\ admin = 0 /\ faults = 0
    /\ probed = {}

Largest(S) == IF S = {} THEN 0 ELSE Max(S)

Administer == admin < MaxAdmin /\ admin' = admin + 1
Fault == faults < MaxFaults /\ faults' = faults + 1

(***************************************************************************)
(* The control plane.  Every operation is one transaction; a failing one   *)
(* changes nothing and is left out, and so is the audit row of each.       *)
(***************************************************************************)
\* SQLite gives a new row the id after the largest one: that of a purged key
\* may come back.
NewId == Largest(Present) + 1

CreateKey(s, active) ==
    /\ Administer
    /\ Free(s) /\ NewId \in Ids
    /\ rows' = [rows EXCEPT ![NewId] = NewRow(s, active)]
    /\ probed' = probed \ {NewId}
    /\ UNCHANGED <<good, loop, manual, faults>>

\* import_keys_text: a savepoint per line; a line whose key is stored already
\* is skipped.  Two lines, of which at least one is new.
ImportKeysText(s, t, active) ==
    LET lines == {s, t} \ Stored
        ids == NewId..(NewId + Cardinality(lines) - 1)
        added == IF Cardinality(lines) = 2 THEN <<s, t>> ELSE <<CHOOSE x \in lines : TRUE>> IN
    /\ Administer
    /\ s # t /\ lines # {} /\ ids \subseteq Ids
    /\ rows' = [i \in Ids |-> IF i \in ids THEN NewRow(added[i - NewId + 1], active) ELSE rows[i]]
    /\ probed' = probed \ ids
    /\ UNCHANGED <<good, loop, manual, faults>>

\* update_key: the secret is replaced (a stored one is a 409), the flag is
\* set, or both.  Rotation leaves status and next_refresh_at alone.
UpdateKey(i, s, active) ==
    /\ Administer
    /\ rows[i] # NULL
    /\ s = rows[i].secret \/ Free(s)
    /\ LET row == [rows[i] EXCEPT !.secret = s] IN
       rows' = [rows EXCEPT ![i] = CASE active = NULL -> row
                                     [] active = TRUE -> AdminEnabled(row)
                                     [] OTHER -> AdminDisabled(row)]
    /\ UNCHANGED <<good, loop, manual, faults, probed>>

\* purge_key, and the purge of batch_keys.
PurgeKey(i) ==
    /\ Administer
    /\ rows[i] # NULL
    /\ rows' = [rows EXCEPT ![i] = NULL]
    /\ probed' = probed \ {i}
    /\ UNCHANGED <<good, loop, manual, faults>>

\* An item of batch_keys, a transaction of its own: reset_cooldown, the flag
\* of the patch, soft_delete (delete_key does the same to one key).
BatchItem(i, op) ==
    /\ Administer
    /\ rows[i] # NULL
    /\ rows' = [rows EXCEPT ![i] = CASE op = "reset" -> CooldownReset(@)
                                     [] op = "enable" -> AdminEnabled(@)
                                     [] OTHER -> AdminDisabled(@)]
    /\ UNCHANGED <<good, loop, manual, faults, probed>>

\* revive_key: the key is put at the head of the refresh loop's queue if asked.
Requeued(row, requeue) == [row EXCEPT !.next = IF requeue THEN "due" ELSE @]

\* revive_key, the first transaction; a test may follow.
ReviveKey(i, requeue, test) ==
    /\ Administer
    /\ rows[i] # NULL /\ (test => manual.kind = "none")
    /\ rows' = [rows EXCEPT ![i] = Requeued(Revived(@), requeue)]
    /\ manual' = IF test THEN [kind |-> "test", queue |-> {[id |-> i, row |-> rows'[i]]}] ELSE manual
    /\ probed' = probed \ {i}
    /\ UNCHANGED <<good, loop, faults>>

(***************************************************************************)
(* The upstream.  It may revoke a key; a probe asks Firecrawl.             *)
(***************************************************************************)
Revoke(s) ==
    /\ s \in good
    /\ good' = good \ {s}
    /\ UNCHANGED <<rows, loop, manual, admin, faults, probed>>

Accepted(s) == s \in good /\ s \notin ExaSecrets
ProbeKinds(s) ==
    IF s \in Sealed THEN {"decrypt_failed"}
    ELSE {"cooling", "error", IF Accepted(s) THEN "success" ELSE "invalid"}

(***************************************************************************)
(* apply_credit_fetch_result and calculate_next_refresh_time; the length   *)
(* of the interval is left out.                                            *)
(***************************************************************************)
NextRefresh(row) == IF IsDisabled(row) THEN NULL ELSE "later"

Applied(row, kind, rem) ==
    LET new == ApplyFetch(row, kind, rem, 0) IN
    [new EXCEPT !.next = CASE kind \in {"invalid", "decrypt_failed"} -> NULL
                           [] kind = "success" -> NextRefresh(new)
                           [] OTHER -> @]

BackoffNever(row, kind, old) == row.next  \* mutant: an error leaves next_refresh_at alone
\* After the result: a probe that gave no balance is repeated when the delay
\* has passed since the start of the round, which may be the case already.
Backoff(row, kind, old) ==
    IF IsDisabled(row) THEN NULL
    ELSE IF kind = "success" THEN row.next ELSE IF old THEN "due" ELSE "later"

(***************************************************************************)
(* _refresh_once.  The due keys are read in one session, with their        *)
(* secrets; a batch is probed by concurrent workers and then applied one   *)
(* key, one transaction, at a time.                                        *)
(***************************************************************************)
DueScheduled(i) ==  \* mutant: the comparison with NULL is forgotten
    rows[i] # NULL /\ ~IsDisabled(rows[i]) /\ rows[i].next = "due"
Due(i) == rows[i] # NULL /\ ~IsDisabled(rows[i]) /\ rows[i].next \in {NULL, "due"}

StartRound ==
    LET due == {i \in Ids : Due(i)} IN
    /\ loop.pc = "sleep" /\ due # {}
    /\ loop' = [pc |-> "round", todo |-> {[id |-> i, secret |-> rows[i].secret] : i \in due},
                batch |-> {}, old |-> FALSE]
    /\ UNCHANGED <<rows, good, manual, admin, faults, probed>>

NextBatch ==
    LET batch == {x \in loop.todo : Cardinality({y \in loop.todo : y.id < x.id}) < BatchSize} IN
    /\ loop.pc = "round" /\ loop.batch = {} /\ loop.todo # {}
    /\ loop' = [loop EXCEPT !.todo = @ \ batch,
                            !.batch = {[id |-> x.id, secret |-> x.secret, kind |-> NULL] : x \in batch}]
    /\ UNCHANGED <<rows, good, manual, admin, faults, probed>>

\* The retry delay passes while the workers and the pauses between the batches
\* take their time.
Overrun ==
    /\ loop.pc = "round" /\ ~loop.old
    /\ loop' = [loop EXCEPT !.old = TRUE]
    /\ UNCHANGED <<rows, good, manual, admin, faults, probed>>

ProbeOneKey(x) ==
    /\ x \in loop.batch /\ x.kind = NULL
    /\ \E kind \in ProbeKinds(x.secret) :
         loop' = [loop EXCEPT !.batch = (@ \ {x}) \cup {[x EXCEPT !.kind = kind]}]
    /\ probed' = probed \cup {x.id}
    /\ UNCHANGED <<rows, good, manual, admin, faults>>

TargetFirst(x) == Min(Present \cup {x.id})  \* mutant: results paired with the wrong key
Target(x) == x.id

\* _apply_results_serial, one result: the row is read again.
ApplyResult(x) ==
    LET i == Target(x) IN
    /\ x \in loop.batch /\ \A y \in loop.batch : y.kind # NULL /\ x.id <= y.id
    /\ loop' = [loop EXCEPT !.batch = @ \ {x}]
    /\ \/ /\ rows[i] = NULL
          /\ UNCHANGED <<rows, probed, faults>>
       \/ /\ rows[i] # NULL
          /\ \/ /\ x.kind \in {"invalid", "decrypt_failed"}
                /\ rows' = [rows EXCEPT ![i] = Applied(@, x.kind, 0)]
                /\ probed' = probed \ {i}
             \/ /\ x.kind \notin {"invalid", "decrypt_failed"} /\ IsDisabled(rows[i])
                /\ rows' = [rows EXCEPT ![i].next = NULL]
                /\ probed' = probed \ {i}
             \/ /\ x.kind \notin {"invalid", "decrypt_failed"} /\ ~IsDisabled(rows[i])
                /\ \E rem \in Balances :
                     LET new == Applied(rows[i], x.kind, rem) IN
                     rows' = [rows EXCEPT ![i] = [new EXCEPT !.next = Backoff(new, x.kind, loop.old)]]
                /\ probed' = IF loop.old /\ x.kind # "success" THEN probed \ {i} ELSE probed
          /\ UNCHANGED faults
       \/ /\ Fault                                    \* rolled back, logged
          /\ probed' = probed \ {x.id}
          /\ UNCHANGED rows
    /\ UNCHANGED <<good, manual, admin>>

EndRound ==
    /\ loop.pc = "round" /\ loop.todo = {} /\ loop.batch = {}
    /\ loop' = Asleep
    /\ UNCHANGED <<rows, good, manual, admin, faults, probed>>

\* stop_credit_refresh_scheduler cancels the task, or the process dies; the
\* next process starts the loop again.
Restart ==
    /\ Fault
    /\ loop' = Asleep /\ manual' = NoManual /\ probed' = {}
    /\ UNCHANGED <<rows, good, admin>>

\* Time passes until next_refresh_at of a key.
Tick(i) ==
    /\ rows[i] # NULL /\ rows[i].next = "later"
    /\ rows' = [rows EXCEPT ![i].next = "due"]
    /\ probed' = probed \ {i}
    /\ UNCHANGED <<good, loop, manual, admin, faults>>

(***************************************************************************)
(* Requests of the administrator that call the upstream with rows loaded   *)
(* before: refresh_key_credits_api (one key), refresh_all_credits_api (the *)
(* active ones), test_key and the test of batch_keys and revive_key.       *)
(***************************************************************************)
Copy(i) == [id |-> i, row |-> rows[i]]
Refreshable(i) == rows[i] # NULL /\ Provider(rows[i].secret) = "firecrawl"

StartManual ==
    /\ manual.kind = "none" /\ Administer
    /\ \/ \E i \in Ids : Refreshable(i) /\ manual' = [kind |-> "refresh", queue |-> {Copy(i)}]
       \/ LET all == {i \in Ids : Refreshable(i) /\ rows[i].active} IN
          all # {} /\ manual' = [kind |-> "refresh", queue |-> {Copy(i) : i \in all}]
       \/ \E i \in Present : manual' = [kind |-> "test", queue |-> {Copy(i)}]
    /\ UNCHANGED <<rows, good, loop, faults, probed>>

\* What the commit of a session writes that loaded old and now holds out.row:
\* the columns that changed, and the times it computed.
Written(row, old, out) ==
    LET new == out.row
        f == Flush(row, old, new)
        Set(c) == new[c] # old[c] \/ (c \in out.times /\ new[c] # NULL) IN
    [row EXCEPT !.active = f.active, !.status = f.status, !.credits = f.credits,
                !.until = IF Set("until") THEN new.until ELSE @,
                !.next = IF Set("next") THEN new.next ELSE @]

MarkActive(row) == IF Guarded(row) THEN row ELSE [row EXCEPT !.status = "active", !.until = NULL]

\* What a refresh or a test may turn a loaded row into, and the columns that
\* then hold a time of their own.
RefreshOutcomes(row) ==
    {[row |-> Applied(row, kind, rem),
      times |-> CASE kind = "success" -> {"next"} [] kind = "cooling" -> {"until"} [] OTHER -> {}] :
       kind \in ProbeKinds(row.secret), rem \in Balances}

TestOutcomes(row) ==
    LET verdict == IF row.secret \in good THEN MarkActive(row)
                   ELSE [DisableInvalid(row) EXCEPT !.next = NULL] IN
    IF row.secret \in Sealed
    THEN {[row |-> [DisableDecryptFailed(row) EXCEPT !.next = NULL], times |-> {}]}
    ELSE {[row |-> new, times |-> {}] : new \in {verdict, row}}
           \cup {[row |-> new, times |-> {"until"}] :
                   new \in IF Guarded(row) THEN {} ELSE {MarkCooling(row, 0), MarkFailed(row, 0)}}

FinishManual(x) ==
    /\ x \in manual.queue /\ \A y \in manual.queue : x.id <= y.id
    /\ manual' = IF manual.queue = {x} THEN NoManual ELSE [manual EXCEPT !.queue = @ \ {x}]
    /\ \/ /\ rows[x.id] # NULL
          /\ \E out \in IF manual.kind = "test" THEN TestOutcomes(x.row) ELSE RefreshOutcomes(x.row) :
               /\ rows' = [rows EXCEPT ![x.id] = Written(@, x.row, out)]
               /\ probed' = IF out.row.next = x.row.next /\ "next" \notin out.times
                            THEN probed ELSE probed \ {x.id}
       \/ /\ rows[x.id] = NULL                        \* nothing to update: 503
          /\ UNCHANGED <<rows, probed>>
    /\ UNCHANGED <<good, loop, admin, faults>>

Next ==
    \/ \E s \in Secrets, active \in BOOLEAN : CreateKey(s, active)
    \/ \E s, t \in Secrets, active \in BOOLEAN : ImportKeysText(s, t, active)
    \/ \E i \in Ids, s \in Secrets, active \in BOOLEAN \cup {NULL} : UpdateKey(i, s, active)
    \/ \E i \in Ids : PurgeKey(i)
    \/ \E i \in Ids, op \in {"reset", "enable", "delete"} : BatchItem(i, op)
    \/ \E i \in Ids, requeue, test \in BOOLEAN : ReviveKey(i, requeue, test)
    \/ \E s \in Secrets : Revoke(s)
    \/ StartRound \/ NextBatch \/ Overrun \/ EndRound \/ Restart
    \/ \E x \in loop.batch : ProbeOneKey(x) \/ ApplyResult(x)
    \/ \E i \in Ids : Tick(i)
    \/ StartManual
    \/ \E x \in manual.queue : FinishManual(x)

LoopStep == StartRound \/ NextBatch \/ EndRound \/ \E x \in loop.batch : ProbeOneKey(x) \/ ApplyResult(x)

\* The event loop keeps running the task, and time passes.
Fairness == WF_vars(LoopStep) /\ \A i \in Ids : WF_vars(Tick(i))

Spec == Init /\ [][Next]_vars
FairSpec == Spec /\ Fairness

-----------------------------------------------------------------------------
\* Types; two rows never hold the same secret, although keys are created,
\* imported and rotated at any time.
TypeOK ==
    /\ \A i \in Present :
         /\ rows[i] \in [secret : Secrets \cup Sealed, active : BOOLEAN, status : Statuses, until : {NULL, 0},
                         credits : Balances \cup {NULL, 0}, next : {NULL, "due", "later"}]
         /\ \A j \in Present : rows[i].secret = rows[j].secret => i = j
    /\ good \subseteq Secrets
    /\ loop.pc = "sleep" => loop = Asleep
    /\ admin \in 0..MaxAdmin /\ faults \in 0..MaxFaults
    /\ probed \subseteq Ids

\* The secrets with which the upstream is being asked about a row.
Asked(i) == {x.secret : x \in {y \in loop.batch : y.id = i}}
              \cup {x.row.secret : x \in {y \in manual.queue : y.id = i}}

\* Action property: a key becomes invalid only when the upstream refuses its
\* secret, or when its row got another secret, by rotation or because the id of
\* a purged key was given out again, while the upstream was asked about the
\* former one (_apply_results_serial, fetch_credit_from_firecrawl, test_key).
VerdictJustified ==
    [][\A i \in Ids :
         rows[i] # NULL /\ rows'[i] # NULL /\ rows[i].status # "invalid" /\ rows'[i].status = "invalid"
           => ~Accepted(rows[i].secret) \/ \E s \in Asked(i) : s # rows[i].secret]_vars

\* Action property: between two probes of a key by the loop its interval, or
\* after a failure the retry delay, counted from the start of the round that
\* failed, passes, unless the result could not be written, the process was
\* restarted, the key was disabled meanwhile or the administrator asked for it
\* (_apply_results_serial, calculate_next_refresh_time).
BackoffRespected ==
    [][loop.pc = "sleep" /\ loop'.pc = "round" => \A x \in loop'.todo : x.id \notin probed]_vars

\* Liveness: a key that may be scheduled is probed again and again as long as
\* it may be scheduled, although rounds fail, the process restarts and the
\* administrator interferes, each a bounded number of times
\* (credit_refresh_loop).
KeysStayMonitored ==
    \A i \in Ids :
        rows[i] # NULL /\ ~IsDisabled(rows[i])
          ~> (rows[i] = NULL \/ IsDisabled(rows[i]) \/ i \in probed)

\* docs/API-Usage.md:244, "Exa Key does not support credit monitoring": the
\* loop never takes a key of Exa out of service (_refresh_once).
ExaNotMonitored ==
    \A i \in Present : Provider(rows[i].secret) = "exa" /\ rows[i].secret \in good
        => rows[i].status # "invalid"

=============================================================================
