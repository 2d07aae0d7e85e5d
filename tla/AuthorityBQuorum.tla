--------------------------- MODULE AuthorityBQuorum ---------------------------
(***************************************************************************)
(* Authority B as pure operators.  classifier.py decides which controlled  *)
(* action the latest evidence permits; quorum.py keeps one intent per      *)
(* action, collects one attestation per role and signs a grant;            *)
(* executor.py says which lifecycle transitions bind the grant to the      *)
(* case.  The modules that own the state apply these operators to it.      *)
(*                                                                         *)
(* A digest is the value it is computed from.  The five authoritative      *)
(* sources are SourceTypes, the records of one read share a stamp, and a   *)
(* record shows the effects that were in the enterprise when it was read.  *)
(***************************************************************************)
EXTENDS Naturals, FiniteSets, Sequences

CONSTANTS
  None,         \* an absent value
  SourceTypes,  \* REQUIRED_AUTHORITATIVE_SOURCES
  Principals,   \* PrincipalDirectory: the trusted principals
  RoleOf        \* and their roles

Restart == "restart_receipt_message"
Release == "release_invoice"
Tools == {Restart, Release}
Roles == {"INTEGRATION_OPERATOR", "AP_APPROVER"}

ASSUME DirectoryAssumption == RoleOf \in [Principals -> Roles]

-----------------------------------------------------------------------------
(* classifier.py *)

\* latest_authoritative_evidence: the newest record of every source.
Latest(evidence) ==
  { id \in DOMAIN evidence :
      \A other \in DOMAIN evidence : other[2] = id[2] => other[1] <= id[1] }

\* What the records of all sources agree on: an effect is visible only when
\* every source shows it (queue consumed, one material document, quantities
\* equal; invoice no longer held).
Shown(evidence) == { t \in Tools : \A id \in Latest(evidence) : t \in evidence[id] }
Hidden(evidence) == { t \in Tools : \A id \in Latest(evidence) : t \notin evidence[id] }

\* classify_operational_state: the action it leaves PENDING_APPROVAL, or None.
AllowedAction(case, evidence) ==
  IF { id[2] : id \in Latest(evidence) } # SourceTypes THEN None
  ELSE IF case.status = "RECEIPT_VERIFIED"
  THEN IF Restart \in Shown(evidence) /\ Release \in Hidden(evidence)
       THEN Release ELSE None
  ELSE IF Restart \in Hidden(evidence) THEN Restart ELSE None

\* decision_digest: it covers the case version and the evidence ids.
Decision(case, evidence) ==
  [action |-> AllowedAction(case, evidence), version |-> case.version,
   source |-> Latest(evidence)]

-----------------------------------------------------------------------------
(* quorum.py: the intents of one ledger, a function on Tools *)

NoIntent == [status |-> "NONE", decision |-> None, attested |-> {}, grant |-> None]
Pending == {"OPEN", "QUORUM_PENDING"}

\* create_intent, for an id that is not used yet.
IntentCreated(ledger, tool, decision) ==
  [ledger EXCEPT ![tool] =
     [status |-> "OPEN", decision |-> decision, attested |-> {}, grant |-> None]]

\* _expire_if_needed, at an instant at which the intents of late have expired.
Expired(ledger, tool, late) ==
  IF ledger[tool].status \in Pending /\ tool \in late
  THEN [ledger EXCEPT ![tool].status = "EXPIRED"] ELSE ledger

\* Mutant of MayAttest: one person may sign in two rounds.
MayAttestTwice(ledger, tool, principal) == ledger[tool].status \in Pending

\* attest is accepted: the intent is open and neither this principal nor
\* this role has attested.
MayAttest(ledger, tool, principal) ==
  /\ ledger[tool].status \in Pending
  /\ \A prior \in ledger[tool].attested :
       prior # principal /\ RoleOf[prior] # RoleOf[principal]

\* attest, APPROVED: the second one signs the grant (issue identifies the
\* signed bytes: issued_at is among them).
Attested(ledger, tool, principal, issue) ==
  LET first == ledger[tool].status = "OPEN" IN
  [ledger EXCEPT ![tool].attested = @ \union {principal},
                 ![tool].status = IF first THEN "QUORUM_PENDING" ELSE "GRANTED",
                 ![tool].grant = IF first THEN None ELSE issue]

\* validate_grant and ensure_execution_available.  The guard refuses every
\* expired grant; the identity of a consumption is fixed per action.
MayExecute(ledger, tool, late) ==
  /\ tool \notin late
  /\ ledger[tool].status \in {"GRANTED", "CONSUMED"}

\* mark_consumed.
Consumed(ledger, tool) == [ledger EXCEPT ![tool].status = "CONSUMED"]

-----------------------------------------------------------------------------
(* executor.py *)

\* _preparation_transitions, then the execution-start transition: the status
\* the reservation leaves and the versions it takes.
ReservableFrom(tool) == IF tool = Restart THEN "INVESTIGATING" ELSE "RECEIPT_VERIFIED"
Reserved(case, tool) ==
  IF tool = Restart
  THEN [status |-> "RECEIPT_EXECUTING", version |-> case.version + 4]
  ELSE [status |-> "INVOICE_EXECUTING", version |-> case.version + 3]

\* The verified transition of complete_attempt.
Settled(case, tool) ==
  [status |-> IF tool = Restart THEN "RECEIPT_VERIFIED" ELSE "CLOSED",
   version |-> case.version + 1]

\* _verify_decision and the version test: the grant is bound to the current
\* deterministic decision, on a case that can be prepared.
Binds(intent, tool, case, evidence) ==
  /\ intent.decision = Decision(case, evidence)
  /\ intent.decision.action = tool
  /\ case.status = ReservableFrom(tool)

=============================================================================
