------------------------------ MODULE CaseAudit ------------------------------
(***************************************************************************)
(* What is read back from the two databases after a recovery:              *)
(*  - the append-only case_events log and its replay                       *)
(*    (SQLiteCaseStore.replay_case, _validate_replay_payload);             *)
(*  - the ledger checks of Golden v1 (evaluation/invariants.py) and its    *)
(*    safety counters (evaluation/golden_runner.py).                       *)
(* All of it is a pure reading of the state of ControlledRecovery, except  *)
(* the log, the one variable added here.  Case, trace and record identity  *)
(* are fixed in that model, so the equality tests on them are left out.    *)
(***************************************************************************)
EXTENDS ControlledRecovery, Sequences

VARIABLE log    \* case_events in order of new_version

auditVars == <<vars, log>>

-----------------------------------------------------------------------------
(* The log. *)

\* The one event of the table between two statuses.
EventBetween(from, to) == CHOOSE e \in TransitionEvent : <<from, e, to>> \in TRANSITIONS

\* What an event carries: an assessment lists the evidence admitted so far, an
\* evidence event its item (stored already, or inserted with it).
Payloads(event) ==
  CASE event \in DecisionEvents -> { [admitted |-> evidence] }
    [] event = "EVIDENCE_ADMITTED" ->
         { [item |-> i] : i \in { j \in LateEvidence : evidence' = evidence \union {j} } }
    [] OTHER -> { <<>> }

\* The transaction that advances the projection inserts its event.
Append1(prior, event, payload, at) ==
  Append(log, [prior |-> prior, event |-> event, payload |-> payload, at |-> at])

Logged ==
  IF case' = case THEN UNCHANGED log
  ELSE LET event == EventBetween(case.status, case'.status) IN
       \E p \in Payloads(event) :
         log' = Append1([status |-> case.status, version |-> case.version], event, p,
                        case'.updatedAt)

-----------------------------------------------------------------------------
(* replay_case. *)

\* The projection of DetectionGenesis, and the evidence it names.
Genesis == [case |-> [status |-> "OPEN", version |-> 0, evidenceRevision |-> 0, updatedAt |-> 0],
            admitted |-> DetectorEvidence, valid |-> TRUE]

\* _validate_replay_payload.
PayloadReplays(state, entry) ==
  CASE entry.event \in DecisionEvents -> entry.payload.admitted = state.admitted
    [] entry.event = "EVIDENCE_ADMITTED" ->
         entry.payload.item \in evidence \ state.admitted
    [] OTHER -> TRUE

\* One event: it follows the replayed projection, its payload is admissible
\* and the table allows it, or replay raises.
ReplayEvent(state, entry) ==
  IF /\ state.valid
     /\ entry.prior = [status |-> state.case.status, version |-> state.case.version]
     /\ PayloadReplays(state, entry)
     /\ \E s \in CaseStatus : <<state.case.status, entry.event, s>> \in TRANSITIONS
  THEN [case     |-> Advanced(state.case, entry.event, entry.at),
        admitted |-> IF entry.event = "EVIDENCE_ADMITTED"
                     THEN state.admitted \union {entry.payload.item} ELSE state.admitted,
        valid    |-> TRUE]
  ELSE [state EXCEPT !.valid = FALSE]

\* The events in order, from genesis.
Replayed ==
  LET state[n \in 0..Len(log)] ==
        IF n = 0 THEN Genesis ELSE ReplayEvent(state[n - 1], log[n])
  IN  state[Len(log)]

-----------------------------------------------------------------------------
(* evaluation/invariants.py. *)

RoleTools(role) == { t \in Tools : RequiredRole(t) = role }

\* cross_role_grants, and the first half of no_unauthorized_business_effects.
CrossRoleGrants ==
  { a \in Auths : /\ grantStatus[a] # "NONE"
                  /\ grant[a].tool \notin RoleTools(RoleOf[grant[a].principal]) }

\* _local_effect_is_bound: the receipt half.  The result says of the
\* postconditions what they were (a SAFE_NOOP of the execution's own effect
\* needs the note that a reservation was resumed, and only a resumed one gets
\* that result), and the documents on the receipt r are those in
\* the enterprise now: the one document of the effect.
ReceiptEffectBound(f, r) ==
  /\ \/ r.result \in {"EXECUTED", "SAFE_NOOP"} /\ r.holds
     \/ r.result = "FAILED" /\ ~r.holds
  /\ r.docs = ent.docs
  /\ ent.docs = {[exec |-> f.exec, key |-> f.key, quantity |-> MissingQuantity]}

\* _local_effect_is_bound: the invoice half.
InvoiceEffectBound(f, r) ==
  /\ r.result = "EXECUTED" /\ r.holds
  /\ r.docs = ent.docs
  /\ ent.invoice.state = "RELEASED"
  /\ ent.invoice.releasedBy = f.exec

\* The one ALLOW of the execution gate is stored with the reservation: an
\* execution that has an attempt and a gate decision was allowed.
AllowRecorded(e) == <<"execution", e>> \in decisions

\* _local_effect_is_bound: one attempt, grant, receipt and ALLOW of the same
\* identity stand behind the effect.
LocalEffectBound(f) ==
  /\ f.exec \in Execs
  /\ AttemptExists(f.exec)
  /\ receipt[f.exec].result # "NONE"
  /\ LET command == attempt[f.exec].command
         g       == grant[command.auth] IN
     /\ f.type = LocalType(g.tool)
     /\ g.tool \in RoleTools(RoleOf[g.principal])
     /\ command.params.tool = g.tool
     /\ command.key = f.key
     /\ IF g.tool = Receipt THEN ReceiptEffectBound(f, receipt[f.exec])
                            ELSE InvoiceEffectBound(f, receipt[f.exec])
     /\ AllowRecorded(f.exec)

\* _external_receipt_is_valid
ExternalReceiptValid(f) ==
  /\ f.exec \in ExternalIds /\ f.key \in ExternalIds
  /\ ent.message.status = "CONSUMED"
  /\ ent.message.consumedBy = f.exec
  /\ ent.docs = {[exec |-> f.exec, key |-> f.key, quantity |-> MissingQuantity]}

\* _external_invoice_is_valid
ExternalInvoiceValid(f) ==
  /\ f.exec \in ExternalIds /\ f.key \in ExternalIds
  /\ ent.invoice.state = "RELEASED"
  /\ ent.invoice.releasedBy = f.exec

ExternalValid(f) ==
  IF f.tool = Receipt THEN ExternalReceiptValid(f) ELSE ExternalInvoiceValid(f)

\* _safe_noop_external_is_bound
NoopBoundTo(e, f) ==
  LET command == attempt[e].command IN
  /\ command.params = grant[command.auth].params
  /\ AllowRecorded(e)
  /\ command.params.tool = f.tool
  /\ f.type = ExternalType(f.tool)
  /\ ExternalValid(f)

\* local_effects_link_to_attempts_authorizations_and_receipts, for an attempt
\* that has ended.
LocalAccounted(f) ==
  f.type = LocalType(f.tool) /\ f.exec \in Execs =>
    attempt[f.exec].status = "RESERVED" \/ LocalEffectBound(f)

\* safe_noop_receipts_link_local_attempt_to_external_effect
NoopLinked(e) ==
  /\ AttemptExists(e)
  /\ \E f \in ent.effects :
       \/ f.exec = e /\ LocalEffectBound(f)
       \/ NoopBoundTo(e, f)

\* crash_recovery_duplicate_count of a reserved execution of the receipt.
CrashDuplicates(e) ==
  LET effects == { f \in ent.effects : f.type = LocalType(Receipt)
                                       /\ (f.exec = e \/ f.tool = Receipt) }
      Surplus(records) == IF records = {} THEN 0 ELSE Cardinality(records) - 1 IN
  Surplus(effects) + Surplus(ent.docs)

-----------------------------------------------------------------------------
\* Three rows are not held against the ledger, all of them invoice releases:
\* an invoice put back on hold by a later source change, a release whose
\* receipt is a hard stop or the no-op of a recovered call (the invoice half
\* above only knows EXECUTED), and a release whose receipt does not list a
\* document because the message was posted only after it.
PostedSince(r) == \E d \in ent.docs : d \notin r.docs
Exempt(f) ==
  f.tool = Invoice /\ ( \/ ent.invoice.state = "HELD"
                        \/ /\ f.exec \in Execs
                           /\ \/ receipt[f.exec].result # "EXECUTED"
                              \/ PostedSince(receipt[f.exec]) )

\* Effects beside a receipt that denies them: two calls resumed one attempt,
\* the first read the enterprise before the second posted, and its FAILED
\* receipt, which lists no document, ended the attempt.  The ledger checks
\* refuse such a row.
Overtaken ==
  { f \in ent.effects : /\ f.exec \in Execs /\ f.tool = Receipt
                        /\ receipt[f.exec].result = "FAILED"
                        /\ receipt[f.exec].docs = {} }

Admissions == { n \in DOMAIN log : log[n].event = "EVIDENCE_ADMITTED" }
\* An item was admitted that the detector, or an earlier event, had admitted.
AdmittedTwice ==
  \E n \in Admissions :
    \/ log[n].payload.item \in DetectorEvidence
    \/ \E m \in Admissions : m # n /\ log[m].payload.item = log[n].payload.item

\* replay_case does not raise and returns the projection.
ReplayAgrees == AdmittedTwice \/ (Replayed.valid /\ Replayed.case = case)
\* Every ledger check passes, up to the exempt rows and the effects in S.
AcceptedBut(S) ==
  /\ CrossRoleGrants = {}
  /\ \A f \in ent.effects \ S : ~Exempt(f) =>
       /\ LocalAccounted(f)
       /\ f.type = ExternalType(f.tool) => ExternalValid(f)
  /\ \A e \in Execs : receipt[e].result = "SAFE_NOOP" =>
       \/ NoopLinked(e)
       \/ \E f \in ent.effects : f.tool = ToolOf(e) /\ Exempt(f)
  /\ \A e \in Execs : AttemptExists(e) /\ ToolOf(e) = Receipt => CrashDuplicates(e) = 0
LedgersAccepted == AcceptedBut({})

\* However a recovery ran (retries of crashed calls, drift, work done
\* outside), the ledger checks of Golden v1 accept what it left: every local
\* effect of an ended attempt is bound to one grant, receipt and decision,
\* every effect done outside to its source history, every safe no-op to an
\* effect, no grant crosses roles and nothing was posted twice.  And the
\* projection is a cache: replaying genesis and the event log gives it back,
\* at every point of a case that never admitted the same evidence twice.
\* One call runs at a time, as in the runner: with two calls on one attempt
\* an effect may be Overtaken, and no other row fails (AuditHolds).
AuditAccepts == ReplayAgrees /\ LedgersAccepted

=============================================================================
