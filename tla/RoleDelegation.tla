--------------------------- MODULE RoleDelegation ---------------------------
(***************************************************************************)
(* The durable journal of specialist tasks and one advisory run's use of   *)
(* it.  A task is one row per scope and role; the scope is the identity of *)
(* the parent run, so two runs never share a row, and two turns of one     *)
(* conversation do.  The token of an owner is written as the attempt that  *)
(* it was issued for: every claim of a row raises the attempt.             *)
(*                                                                         *)
(* `live` stands for the lease.  It outlasts a consultation (90 seconds    *)
(* against 60), so it only runs out once its owner is gone.                *)
(***************************************************************************)
EXTENDS Integers

CONSTANTS Roles, Questions

MaxAttempts == 2

NoTask == [question |-> "", status |-> "NONE", attempt |-> 0, live |-> FALSE]

Rows == [question : Questions, status : {"RUNNING", "COMPLETED", "FAILED", "CANCELLED"},
         attempt : 1 .. MaxAttempts, live : BOOLEAN]

Cached(row, q) == row.question = q /\ row.status = "COMPLETED"

(* claim: the refusals, in the order of the code; a completed task is      *)
(* returned before its attempts are counted.                               *)
Refused(row, q) ==
    /\ row # NoTask
    /\ \/ row.question # q
       \/ row.status = "CANCELLED"
       \/ row.status = "RUNNING" /\ row.live
       \/ row.status # "COMPLETED" /\ row.attempt >= MaxAttempts

Claimed(row, q) ==
    [question |-> q, status |-> "RUNNING", live |-> TRUE,
     attempt |-> row.attempt + 1]

(* finish: only the owner of the running attempt settles it. *)
Owns(row, token) == row.status = "RUNNING" /\ row.attempt = token

Finished(row, token, status) ==
    IF Owns(row, token) THEN [row EXCEPT !.status = status] ELSE row

Expired(row) == [row EXCEPT !.live = FALSE]

NoTasks == [r \in Roles |-> 0]

(* close: every task the run still owns is settled when the run ends. *)
Settled(rows, owned, status) ==
    [r \in Roles |-> IF owned[r] > 0 THEN Finished(rows[r], owned[r], status) ELSE rows[r]]
=============================================================================
