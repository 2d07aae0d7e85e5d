---------------------------- MODULE CaseLifecycle ----------------------------
(***************************************************************************)
(* The lifecycle vocabulary of a receiving-exception case and the only     *)
(* transition table the code allows (domain/states.py), with the pure      *)
(* function that applies one event to a case (domain/state_machine.py).    *)
(* A case is a record of its status, its version, its evidence revision    *)
(* and the time of its last update.                                        *)
(***************************************************************************)
EXTENDS Naturals

Receipt == "restart_receipt_message"
Invoice == "release_invoice"

\* ActionTool: the two consequential actions a human may authorise.
Tools == {Receipt, Invoice}

CaseStatus ==
  { "OPEN", "INVESTIGATING", "NEEDS_EVIDENCE", "PROTECTED",
    "RECEIPT_ALREADY_VERIFIED", "RECEIPT_RESTART_RECOMMENDED",
    "AWAITING_RECEIPT_APPROVAL", "RECEIPT_ACTION_AUTHORIZED",
    "RECEIPT_EXECUTING", "RECEIPT_VERIFIED", "AWAITING_INVOICE_APPROVAL",
    "INVOICE_ACTION_AUTHORIZED", "INVOICE_EXECUTING", "CLOSED" }

\* TRANSITIONS, as the set of <<status, event, next status>> triples.
TRANSITIONS ==
  { <<"OPEN", "INVESTIGATION_STARTED", "INVESTIGATING">>,
    <<"INVESTIGATING", "EVIDENCE_REQUIRED", "NEEDS_EVIDENCE">>,
    <<"NEEDS_EVIDENCE", "EVIDENCE_ADMITTED", "INVESTIGATING">>,
    <<"RECEIPT_ACTION_AUTHORIZED", "EVIDENCE_ADMITTED", "INVESTIGATING">>,
    <<"INVESTIGATING", "INVESTIGATION_ASSESSED", "INVESTIGATING">>,
    <<"INVESTIGATING", "ACTION_PROTECTED", "PROTECTED">>,
    <<"INVESTIGATING", "RECEIPT_ALREADY_POSTED", "RECEIPT_ALREADY_VERIFIED">>,
    <<"RECEIPT_ALREADY_VERIFIED", "INVOICE_APPROVAL_REQUESTED",
      "AWAITING_INVOICE_APPROVAL">>,
    <<"INVESTIGATING", "RECEIPT_RESTART_RECOMMENDED",
      "RECEIPT_RESTART_RECOMMENDED">>,
    <<"RECEIPT_RESTART_RECOMMENDED", "RECEIPT_APPROVAL_REQUESTED",
      "AWAITING_RECEIPT_APPROVAL">>,
    <<"AWAITING_RECEIPT_APPROVAL", "RECEIPT_APPROVAL_ACCEPTED",
      "RECEIPT_ACTION_AUTHORIZED">>,
    <<"RECEIPT_ACTION_AUTHORIZED", "RECEIPT_EXECUTION_STARTED",
      "RECEIPT_EXECUTING">>,
    <<"RECEIPT_EXECUTING", "RECEIPT_POSTCONDITIONS_VERIFIED",
      "RECEIPT_VERIFIED">>,
    <<"RECEIPT_VERIFIED", "INVOICE_APPROVAL_REQUESTED",
      "AWAITING_INVOICE_APPROVAL">>,
    <<"AWAITING_INVOICE_APPROVAL", "INVOICE_APPROVAL_ACCEPTED",
      "INVOICE_ACTION_AUTHORIZED">>,
    <<"INVOICE_ACTION_AUTHORIZED", "INVOICE_EXECUTION_STARTED",
      "INVOICE_EXECUTING">>,
    <<"INVOICE_EXECUTING", "INVOICE_POSTCONDITIONS_VERIFIED", "CLOSED">> }

TransitionEvent == { t[2] : t \in TRANSITIONS }

\* Where each action is requested, authorised, running and done, and the
\* human role that may approve it.
AwaitingStatus(tool) ==
  IF tool = Receipt THEN "AWAITING_RECEIPT_APPROVAL" ELSE "AWAITING_INVOICE_APPROVAL"
AuthorizedStatus(tool) ==
  IF tool = Receipt THEN "RECEIPT_ACTION_AUTHORIZED" ELSE "INVOICE_ACTION_AUTHORIZED"
ExecutingStatus(tool) ==
  IF tool = Receipt THEN "RECEIPT_EXECUTING" ELSE "INVOICE_EXECUTING"
RequiredRole(tool) ==
  IF tool = Receipt THEN "INTEGRATION_OPERATOR" ELSE "AP_APPROVER"
AcceptedEvent(tool) ==
  IF tool = Receipt THEN "RECEIPT_APPROVAL_ACCEPTED" ELSE "INVOICE_APPROVAL_ACCEPTED"
StartedEvent(tool) ==
  IF tool = Receipt THEN "RECEIPT_EXECUTION_STARTED" ELSE "INVOICE_EXECUTION_STARTED"
VerifiedEvent(tool) ==
  IF tool = Receipt THEN "RECEIPT_POSTCONDITIONS_VERIFIED"
                    ELSE "INVOICE_POSTCONDITIONS_VERIFIED"

NextStatus(status, event) ==
  CHOOSE s \in CaseStatus : <<status, event, s>> \in TRANSITIONS

\* advance_case accepts an event for the version the caller read, not earlier
\* than the last update, that the table has for the current status.
CanAdvance(case, event, expectedVersion, occurredAt) ==
  /\ expectedVersion = case.version
  /\ occurredAt >= case.updatedAt
  /\ \E s \in CaseStatus : <<case.status, event, s>> \in TRANSITIONS

\* The projection advance_case returns.
Advanced(case, event, occurredAt) ==
  [ status           |-> NextStatus(case.status, event),
    version          |-> case.version + 1,
    evidenceRevision |-> IF event = "EVIDENCE_ADMITTED"
                         THEN case.evidenceRevision + 1
                         ELSE case.evidenceRevision,
    updatedAt        |-> occurredAt ]

\* InvestigationDecision -> event of record_investigation_outcome.
DecisionEvents ==
  { "RECEIPT_RESTART_RECOMMENDED", "RECEIPT_ALREADY_POSTED",
    "EVIDENCE_REQUIRED", "ACTION_PROTECTED", "INVESTIGATION_ASSESSED" }

=============================================================================
