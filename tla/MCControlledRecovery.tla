------------------------- MODULE MCControlledRecovery -------------------------
(* A small instance of ControlledRecovery: two processes call execute() on   *)
(* one receipt authorization, for the same execution.                        *)
EXTENDS ControlledRecovery

CONSTANTS w1, w2, a1, x1, k1, operator, approver, ev0

MCRoleOf == [p \in {operator, approver} |->
               IF p = operator THEN "INTEGRATION_OPERATOR" ELSE "AP_APPROVER"]

MCRequests ==
  { [auth |-> a1, exec |-> x1, key |-> k1, principal |-> operator,
     params |-> [tool |-> Receipt, revision |-> 1]] }

=============================================================================
