----------------------------- MODULE GoldenRunner -----------------------------
(***************************************************************************)
(* GoldenRunner.run_case (evaluation/golden_runner.py): one caller drives  *)
(* detector, diagnosis, case service, authorization and executor through   *)
(* a manifest, with the temporal hook of the manifest applied between two  *)
(* transactions of the executor.  The suite has 16 manifests; here every   *)
(* combination of their fields may be run.  With no manifest the recovery  *)
(* core runs freely (ControlledRecovery!Next).                             *)
(***************************************************************************)
EXTENDS CaseAudit

CONSTANTS
  Manifests,                               \* manifests the runner may be given
  ReceiptAuth, InvoiceAuth,                \* authorization ids of the runner
  ReceiptExec, InvoiceExec, ReplayExec,    \* its execution ids
  ReceiptKey, InvoiceKey, ReplayKey        \* and idempotency keys

VARIABLE
  run   \* manifest, script position, how the last call ended, and the outcome

goldenVars == <<auditVars, run>>

Workflows == { "FULL_RESOLUTION", "INVESTIGATION_ONLY", "RECEIPT_AUTHORIZATION",
               "RECEIPT_EXECUTION", "INVOICE_AUTHORIZATION" }
TemporalHooks ==
  { "NONE", "EXTERNAL_RECEIPT_POSTED_AFTER_APPROVAL",
    "MATERIAL_DOCUMENT_SOURCE_UNAVAILABLE", "ADVANCE_CLOCK_BEYOND_GRANT_TTL",
    "CORRUPT_AUTHORITATIVE_RECEIPT_AFTER_COMMIT", "CRASH_AFTER_ENTERPRISE_COMMIT" }

NoManifest == [fixture |-> "none"]
ManifestType ==
  [ fixture : {"lock", "posted", "short"}, workflow : Workflows, hook : TemporalHooks,
    reuse : {"NONE", "REPLAY", "DUPLICATE"}, tampered : BOOLEAN, rejects : BOOLEAN,
    admits : BOOLEAN, early : BOOLEAN, receiptBy : Principals, invoiceBy : Principals ]

ASSUME ManifestAssumption == Manifests \subseteq ManifestType \union {NoManifest}

\* The runner gives each action ids of its own, as every manifest does.
ASSUME RunnerAssumption ==
  /\ {ReceiptAuth, InvoiceAuth} \subseteq Auths /\ ReceiptAuth # InvoiceAuth
  /\ {ReceiptExec, InvoiceExec, ReplayExec} \subseteq Execs
  /\ ReceiptExec # InvoiceExec /\ ReplayExec # ReceiptExec
  /\ {ReceiptKey, InvoiceKey} \subseteq Keys /\ ReceiptKey # InvoiceKey
  /\ Workers # {}

\* The three golden fixtures: the failed message, the message an outside
\* process had already posted, and a shipment that really is short.
GoldenFixture(fixture) ==
  CASE fixture = "lock"   -> SeededEnterprise(TRUE, OrderedQuantity, FALSE)
    [] fixture = "posted" ->
         Retagged(Posted(SeededEnterprise(TRUE, OrderedQuantity, FALSE), Receipt,
                         ExternalReceipt, ExternalReceipt, 0), Receipt)
    [] fixture = "short"  -> SeededEnterprise(TRUE, OrderedQuantity - MissingQuantity, FALSE)

GoldenInit ==
  /\ Init
  /\ log = <<>>
  /\ \E m \in Manifests :
       /\ run = [manifest |-> m, at |-> "seed", recovered |-> FALSE,
                 reply |-> "NONE", outcome |-> "NONE"]
       /\ m = NoManifest \/ ent = GoldenFixture("lock")

-----------------------------------------------------------------------------
(* diagnose_retryable_message, over what the detector read. *)

\* _proves_already_posted
ProvesAlreadyPosted ==
  /\ ent.message.status = "CONSUMED"
  /\ ent.invoice.state = "HELD"
  /\ ent.warehouse = ent.erp /\ ent.erp = OrderedQuantity
  /\ \E f \in ent.effects :
       /\ ent.effects = {f}
       /\ f.type = ExternalType(Receipt)
       /\ f.exec \in ExternalIds /\ f.key \in ExternalIds
       /\ ent.docs = {[exec |-> f.exec, key |-> f.key, quantity |-> MissingQuantity]}
       /\ ent.message.consumedBy = f.exec

ShortShipment == ent.warehouse = ent.erp /\ ent.warehouse < OrderedQuantity

\* None of the listed failures.
RetryableMessage ==
  /\ ent.message.status = "FAILED"
  /\ ent.message.retryable
  /\ ent.docs = {}
  /\ ent.warehouse = ent.erp + MissingQuantity

\* _assessment_decision, as the event that records it.
AssessmentEvent(m) ==
  IF m.hook = "MATERIAL_DOCUMENT_SOURCE_UNAVAILABLE" THEN "EVIDENCE_REQUIRED"
  ELSE IF m.rejects           THEN "INVESTIGATION_ASSESSED"
  ELSE IF ProvesAlreadyPosted THEN "RECEIPT_ALREADY_POSTED"
  ELSE IF ShortShipment       THEN "ACTION_PROTECTED"
  ELSE IF RetryableMessage    THEN "RECEIPT_RESTART_RECOMMENDED"
  ELSE "INVESTIGATION_ASSESSED"

\* _outcome_after_assessment
AssessedOutcome(event) ==
  CASE event = "ACTION_PROTECTED"       -> "PROTECTED"
    [] event = "EVIDENCE_REQUIRED"      -> "NEEDS_EVIDENCE"
    [] OTHER                            -> "DENIED"

-----------------------------------------------------------------------------
Caller == CHOOSE w \in Workers : TRUE
Scripted == run.manifest # NoManifest
At(point) == Scripted /\ run.at = point
Goes(point) == run' = [run EXCEPT !.at = point]
Ends(outcome) == run' = [run EXCEPT !.at = "done", !.outcome = outcome]
Quiet == UNCHANGED <<vars, log>>

\* seed_from_fixture of the manifest's fixture.
RunSeed ==
  /\ At("seed")
  /\ ent' = GoldenFixture(run.manifest.fixture)
  /\ Goes("detect")
  /\ UNCHANGED <<caseDb, pending, now, pc, call, crashes, log>>

RunDetect == At("detect") /\ Detect /\ Logged /\ Goes("assess")

\* An unavailable source and a rejecting evaluator contradict each other:
\* record_investigation_outcome refuses the assessment and the run raises.
RunAssess ==
  LET m     == run.manifest
      event == AssessmentEvent(m) IN
  /\ At("assess")
  /\ IF event = "EVIDENCE_REQUIRED" /\ m.rejects THEN Ends("RAISED") /\ Quiet
     ELSE /\ RecordInvestigationOutcome(event) /\ Logged
          /\ CASE event = "RECEIPT_RESTART_RECOMMENDED" -> Goes("requestReceipt")
               [] event = "RECEIPT_ALREADY_POSTED"      -> Goes("requestInvoice")
               [] OTHER                                 -> Ends(AssessedOutcome(event))

RunRequestReceipt ==
  /\ At("requestReceipt")
  /\ RequestApproval(Receipt) /\ Logged
  /\ Goes(IF run.manifest.workflow = "INVOICE_AUTHORIZATION" /\ run.manifest.early
          THEN "approveInvoice" ELSE "approveReceipt")

Parameters(tool) == [tool |-> tool, revision |-> SourceRevision(ent, tool)]
MayApprove(principal, tool) ==
  RoleOf[principal] = RequiredRole(tool) /\ case.status = AwaitingStatus(tool)

\* approve() of the receipt: AuthorizationDenied ends the run.
RunApproveReceipt ==
  /\ At("approveReceipt")
  /\ IF MayApprove(run.manifest.receiptBy, Receipt)
     THEN /\ Approve(ReceiptAuth, run.manifest.receiptBy, Parameters(Receipt)) /\ Logged
          /\ IF run.manifest.workflow = "RECEIPT_AUTHORIZATION" THEN Ends("DENIED")
             ELSE Goes("change")
     ELSE Ends("DENIED") /\ Quiet

\* What may happen between approval and execution: a source change whose
\* fresh evidence is admitted, the clock, work done outside.
RunChange ==
  LET m == run.manifest IN
  /\ At("change")
  /\ \/ m.admits /\ ent.message.revision = 1
          /\ AdvanceFailedMessageRevision /\ UNCHANGED log /\ UNCHANGED run
     \/ m.admits /\ ent.message.revision > 1
          /\ (\E item \in LateEvidence : AdmitEvidence(item)) /\ Logged /\ Goes("hook")
     \/ ~m.admits /\ Goes("hook") /\ Quiet

\* An outside posting with the parameters of the first read is refused once
\* the message has a new revision, and the run raises.
RunHook ==
  /\ At("hook")
  /\ CASE run.manifest.hook = "ADVANCE_CLOCK_BEYOND_GRANT_TTL" ->
            /\ now' = grant[ReceiptAuth].expires + 1
            /\ UNCHANGED <<caseDb, ent, pending, pc, call, crashes, log>>
            /\ Goes("execute")
       [] run.manifest.hook = "EXTERNAL_RECEIPT_POSTED_AFTER_APPROVAL" ->
            \/ Receipt \in pending
                 /\ ExternalRetag(Receipt) /\ UNCHANGED log /\ Goes("execute")
            \/ Receipt \notin pending /\ ~run.manifest.admits
                 /\ ExternalCommit(Receipt) /\ UNCHANGED log /\ UNCHANGED run
            \/ run.manifest.admits /\ Ends("RAISED") /\ Quiet
       [] OTHER -> Goes("execute") /\ Quiet

Request(auth, exec, key, principal, params) ==
  [auth |-> auth, exec |-> exec, key |-> key, principal |-> principal, params |-> params]
\* The receipt request; a tampered one does not carry what was signed.
ReceiptRequest(exec, key, tampered) ==
  LET signed == grant[ReceiptAuth].params IN
  Request(ReceiptAuth, exec, key, run.manifest.receiptBy,
          IF tampered THEN [signed EXCEPT !.revision = @ + 1] ELSE signed)

RunExecute ==
  LET reused == run.at = "reuse" IN
  /\ Scripted /\ run.at \in {"execute", "reuse"}
  /\ Begin(Caller,
       IF reused /\ run.manifest.reuse = "REPLAY"
       THEN ReceiptRequest(ReplayExec, ReplayKey, FALSE)
       ELSE ReceiptRequest(ReceiptExec, ReceiptKey,
                           ~reused /\ ~run.recovered /\ run.manifest.tampered))
  /\ UNCHANGED log
  /\ Goes(IF reused THEN "reusing" ELSE "executing")

\* The injected faults of the first receipt call, after its enterprise commit.
CorruptNow ==
  /\ run.at = "executing" /\ pc[Caller] = "verify"
  /\ run.manifest.hook = "CORRUPT_AUTHORITATIVE_RECEIPT_AFTER_COMMIT"
  /\ ent.erp = OrderedQuantity
CrashNow ==
  /\ run.at = "executing" /\ pc[Caller] = "verify" /\ ~run.recovered
  /\ run.manifest.hook = "CRASH_AFTER_ENTERPRISE_COMMIT"

RunFault ==
  /\ Scripted
  /\ \/ CorruptNow /\ SetErpReceiptQuantity(OrderedQuantity - MissingQuantity)
          /\ UNCHANGED log /\ UNCHANGED run
     \/ CrashNow /\ Crash(Caller) /\ UNCHANGED log
          /\ run' = [run EXCEPT !.at = "execute", !.recovered = TRUE]

\* execute() returned a receipt, or raised.
Reply(point) == IF point \in {"complete", "recover"} THEN "returned" ELSE "denied"

RunStep ==
  /\ Scripted /\ run.at \in {"executing", "reusing", "releasing"}
  /\ pc[Caller] # "idle"
  /\ ~CorruptNow /\ ~CrashNow
  /\ Step(Caller) /\ Logged
  /\ run' = IF pc'[Caller] = "idle" THEN [run EXCEPT !.reply = Reply(pc[Caller])] ELSE run

\* After the first receipt call.
RunExecuted ==
  LET m        == run.manifest
      denied   == run.reply = "denied"
      failed   == receipt[ReceiptExec].result = "FAILED"
      invoices == m.workflow \in {"INVOICE_AUTHORIZATION", "FULL_RESOLUTION"} IN
  /\ At("executing") /\ pc[Caller] = "idle"
  /\ Quiet
  /\ \/ denied /\ Ends(IF run.recovered THEN "RAISED" ELSE "DENIED")
     \/ ~denied /\ failed /\ Ends("EXECUTING_HARD_STOP")
     \/ ~denied /\ ~failed /\ m.reuse # "NONE" /\ Goes("reuse")
     \/ ~denied /\ ~failed /\ m.reuse = "NONE" /\ invoices /\ Goes("requestInvoice")
     \/ ~denied /\ ~failed /\ m.reuse = "NONE" /\ ~invoices /\ Ends("SAFE_NOOP")

\* After the replayed or duplicated call.
RunReused ==
  /\ At("reusing") /\ pc[Caller] = "idle"
  /\ Quiet
  /\ IF run.manifest.reuse = "DUPLICATE"
     THEN Ends(IF run.reply = "returned" THEN "SAFE_NOOP" ELSE "RAISED")
     ELSE Ends(IF run.reply = "denied" THEN "DENIED" ELSE "RAISED")

RunRequestInvoice ==
  /\ At("requestInvoice")
  /\ RequestApproval(Invoice) /\ Logged
  /\ Goes("approveInvoice")

\* approve() of the invoice: an authorization manifest expects a denial, and
\* _finish_invoice lets AuthorizationDenied escape.
RunApproveInvoice ==
  LET m         == run.manifest
      finishing == m.workflow # "INVOICE_AUTHORIZATION" \/ m.fixture = "posted" IN
  /\ At("approveInvoice")
  /\ IF MayApprove(m.invoiceBy, Invoice)
     THEN /\ Approve(InvoiceAuth, m.invoiceBy, Parameters(Invoice)) /\ Logged
          /\ IF finishing THEN Goes("release") ELSE Ends("RAISED")
     ELSE Ends(IF finishing THEN "RAISED" ELSE "DENIED") /\ Quiet

RunRelease ==
  /\ At("release")
  /\ Begin(Caller, Request(InvoiceAuth, InvoiceExec, InvoiceKey, run.manifest.invoiceBy,
                           grant[InvoiceAuth].params))
  /\ UNCHANGED log
  /\ Goes("releasing")

\* _finish_invoice reports CLOSED whatever receipt came back.
RunReleased ==
  /\ At("releasing") /\ pc[Caller] = "idle"
  /\ Quiet
  /\ Ends(IF run.reply = "returned" THEN "CLOSED" ELSE "RAISED")

Script ==
  \/ RunSeed \/ RunDetect \/ RunAssess \/ RunRequestReceipt \/ RunApproveReceipt \/ RunChange
  \/ RunHook \/ RunExecute \/ RunFault \/ RunStep \/ RunExecuted \/ RunReused
  \/ RunRequestInvoice \/ RunApproveInvoice \/ RunRelease \/ RunReleased

Free == ~Scripted /\ Next /\ Logged /\ UNCHANGED run

GoldenNext == Script \/ Free
GoldenSpec == GoldenInit /\ [][GoldenNext]_goldenVars

-----------------------------------------------------------------------------
\* _allowed_local_effect_identities and _false_effect_calculation: a local
\* effect under any identity but the one requested for its tool.
AllowedIdentity(tool) ==
  IF tool = Receipt THEN <<ReceiptExec, ReceiptKey>> ELSE <<InvoiceExec, InvoiceKey>>
FalseEffects ==
  { f \in ent.effects : f.exec \in Execs /\ <<f.exec, f.key>> # AllowedIdentity(f.tool) }

LocalOf(tool) == { f \in SourceEffects(ent, tool) : f.exec \in Execs }

\* What a golden report concludes is what the ledgers hold, for every
\* manifest and not only the sixteen: a closed run really settled receipt and
\* invoice and its case; a hard stop left a failed receipt and no invoice
\* release; a denied run released nothing; neither a replayed authorization
\* nor any other foreign identity posted; a protected or incomplete case
\* touched nothing.
OutcomeIsTrue ==
  Scripted /\ run.at = "done" =>
    /\ run.outcome = "CLOSED" =>
         /\ case.status = "CLOSED" /\ ent.erp = ent.warehouse
         /\ \A tool \in Tools : Cardinality(SourceEffects(ent, tool)) = 1
    /\ run.outcome = "EXECUTING_HARD_STOP" =>
         case.status = "RECEIPT_EXECUTING" /\ receipt[ReceiptExec].result = "FAILED"
    /\ run.outcome = "SAFE_NOOP" =>
         /\ case.status = "RECEIPT_VERIFIED" /\ ent.erp = ent.warehouse
         /\ Cardinality(SourceEffects(ent, Receipt)) = 1
    /\ run.outcome # "CLOSED" => SourceEffects(ent, Invoice) = {}
    /\ FalseEffects = {}
    /\ run.outcome \in {"PROTECTED", "NEEDS_EVIDENCE"} =>
         LocalOf(Receipt) = {} /\ \A a \in Auths : grantStatus[a] = "NONE"

=============================================================================
