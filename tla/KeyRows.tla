------------------------------ MODULE KeyRows ------------------------------
(***************************************************************************)
(* The scheduling state of one upstream key (a row of table api_keys) and  *)
(* what each writer does to it.  The operators are pure: they map the row  *)
(* object a session holds to the row object after the assignments; Flush   *)
(* says what a commit then writes to the table.                            *)
(*                                                                         *)
(* Left out: names, plan, counters and refresh times, which selection does *)
(* not read.                                                               *)
(***************************************************************************)
EXTENDS Integers

CONSTANT NULL  \* None

DisabledStatuses == {"disabled", "decrypt_failed", "invalid"}
CoolingStatuses == {"cooling", "failed"}
Statuses == {"active"} \cup CoolingStatuses \cup DisabledStatuses

\* is_active, status, cooldown_until, cached_remaining_credits
Rows == [active : BOOLEAN, status : Statuses,
         until : Nat \cup {NULL}, credits : Nat \cup {NULL}]

AtLeast(a, b) == IF a >= b THEN a ELSE b

(***************************************************************************)
(* Sessions are created with expire_on_commit = False and autoflush =      *)
(* False: an object keeps the values it was loaded with, and a commit      *)
(* writes only the columns that differ from them.                          *)
(***************************************************************************)
FlushWholeRow(row, old, new) == new  \* mutant: every column is written back
Flush(row, old, new) ==
    [active  |-> IF new.active = old.active THEN row.active ELSE new.active,
     status  |-> IF new.status = old.status THEN row.status ELSE new.status,
     until   |-> IF new.until = old.until THEN row.until ELSE new.until,
     credits |-> IF new.credits = old.credits THEN row.credits ELSE new.credits]

(***************************************************************************)
(* What KeyPool.select reads off a row.                                    *)
(***************************************************************************)
IsDisabled(row) == ~row.active \/ row.status \in DisabledStatuses

Cools(row) == row.status \in CoolingStatuses \/ row.until # NULL

CooldownRemaining(row, t) == IF row.until = NULL THEN 0 ELSE AtLeast(row.until - t, 0)

NoCredits(row) == row.credits # NULL /\ row.credits <= 0

Reactivated(row) ==
    [row EXCEPT !.until = NULL,
                !.status = IF @ \in CoolingStatuses THEN "active" ELSE @]

(***************************************************************************)
(* Writers of the data plane (Forwarder).                                  *)
(***************************************************************************)
Guarded(row) == ~row.active \/ row.status = "disabled"

MarkCooling(row, until) ==
    IF Guarded(row) THEN row
    ELSE [row EXCEPT !.status = "cooling", !.until = until]

MarkFailed(row, until) == [row EXCEPT !.status = "failed", !.until = until]

DisableInvalid(row) ==
    [row EXCEPT !.status = "invalid", !.active = FALSE, !.credits = 0]

DisableDecryptFailed(row) ==
    [row EXCEPT !.status = "decrypt_failed", !.active = FALSE]

ZeroCredits(row) == [row EXCEPT !.credits = 0]

EstimateCostUnclamped(row, cost) ==  \* mutant: max(..., 0) is dropped
    IF row.credits = NULL THEN row ELSE [row EXCEPT !.credits = @ - cost]
EstimateCost(row, cost) ==
    IF row.credits = NULL THEN row
    ELSE [row EXCEPT !.credits = AtLeast(@ - cost, 0)]

(***************************************************************************)
(* apply_credit_fetch_result for a result of the given kind, fetched at t  *)
(* with rem remaining credits.  "error" only adds a snapshot.              *)
(***************************************************************************)
FetchKinds == {"decrypt_failed", "invalid", "cooling", "success", "error"}

ApplyFetch(row, kind, rem, t) ==
    CASE kind = "decrypt_failed" -> DisableDecryptFailed(row)
      [] kind = "invalid" -> DisableInvalid(row)
      [] kind = "cooling" -> [row EXCEPT !.status = "cooling", !.until = t]
      [] kind = "success" -> [row EXCEPT !.credits = rem]
      [] OTHER -> row

(***************************************************************************)
(* Writers of the control plane.                                           *)
(***************************************************************************)
AdminDisabled(row) == [row EXCEPT !.active = FALSE, !.status = "disabled"]

AdminEnabled(row) ==
    [row EXCEPT !.active = TRUE,
                !.status = IF @ = "disabled" THEN "active" ELSE @]

Revived(row) == [row EXCEPT !.active = TRUE, !.status = "active", !.until = NULL]

CooldownReset(row) ==
    [row EXCEPT !.until = NULL,
                !.status = IF @ \in CoolingStatuses /\ row.active
                           THEN "active" ELSE @]

=============================================================================
