# Verification of the receiving-exception recovery system

TLA+ specifications of `src/the_missing_20`, the TLC configurations that check
them on small instances, and TLAPS proofs of what must hold for every instance.
Paths below are relative to `src/the_missing_20/` unless they begin with
`scripts/`.

## 1. The system

A shipment of 100 units was received; the ERP shows 80.  The program finds out
why, lets a human sign one precise action, performs it once, and closes the case
only when the enterprise's own records say so.  Around that core the repository
has grown several pipelines of the same shape: a durable journal, a remote
system that is written to over an unreliable link, and a human in between.

### Inventory

| Component | State | Operations | What is hard | What makes it correct |
|---|---|---|---|---|
| **Recovery core** `domain/{states,state_machine}.py`, `application/{detector,case_service,authorization_service,executor}.py`, `adapters/sqlite_case_store.py` | case projection (status, version), evidence, grants, policy decisions, attempts, receipts, event log in `case.sqlite` | detect, record outcome, request approval, admit evidence, approve, execute (policy, reserve, mutate, verify, complete), recover, replay | execute() is a dozen transactions on two databases; concurrent calls on one authorization; crashes between any two transactions; expiry; evidence that arrives after the signature | an authorization is spent once; an effect is posted at most once and only by an authorised attempt; a posted effect is eventually receipted; the case closes only when settled; the log replays to the projection |
| **Synthetic enterprise and verifier** `adapters/synthetic_enterprise.py`, `application/verifier.py` | failed message, receipts, documents, invoice, effect ledger in `enterprise.sqlite` | restart_receipt_message, release_invoice, external equivalents, drift, verify | external work done in two transactions, drift between verification and closure | effects unique per source record; verification judges one snapshot |
| **Golden evaluation** `evaluation/{golden_runner,invariants}.py` | one run of a manifest | seed, detect, assess, approve, execute with a temporal hook, replay, audit | the audit has to accept every history a recovery may leave, not only the sixteen of the suite | with one call at a time it accepts them, and with concurrent calls all but one kind of row; the outcome reported is what the ledgers hold |
| **Supplier bill: journal, coordinator, console** `adapters/normal_receipt_billing_{journal,coordinator}.py`, routes of `scripts/decision_workspace_server.py` | one journal row per intent, raw tokens in memory | prepare, approve, renew, refuse, insert, submit, reconcile, record unknown or no hit | answers of the ERP are lost; the claim is written before the call; retries must not insert twice; a restart loses the token | one invoice per bill, of the approved version; unknown outcomes are reconciled, never re-sent; a stop is final |
| **Supplier bill: source and preview** `adapters/normal_receipt_billing_{source,preview,context}.py` | none: one read of order, receipt, mapper and every related document | read, preview, compare with the frozen source | pages are read one by one while other users change the lists | a ready preview means that nothing else stands on the receipt line |
| **Receiving hand-off and review** `adapters/{receiving_handoff,receiving_handoff_worker,receiving_jira,receiving_destinations,distributor_handoff}.py` | hand-off rows (status, last failure) | deliver, worker tick, review task: create, comment, evidence, resolve | the destination accepted but the acknowledgement was lost; a status is read outside the lock and written back | nothing is sent twice; the review closes last |
| **Agent platform console** `adapters/{agent_platform,work_state}.py` | current model run, its gate, one approval, one execution, saved under a lock | claim, record, approve, execute, verify, stop, reload | the model reports after a stop, a restart or changed evidence; cached reads | an approval binds the evidence the run validated |
| **Demo executor** `adapters/demo_executor.py` | none: it resumes from what the ERP shows | find or create the stock transfer, discard a draft, unblock the invoice, deliver and bill the order, check | every request may fail before or after it took effect; an insert may land after its timeout | one submitted transfer releases the stock; "verified" stands for real documents |
| **Automatic investigation** `adapters/automatic_investigation.py` | permission, budget, attempts, retries in a journal | enable, disable, pause, close, tick (observe, claim, refund, investigate, record) | a tick overlaps a pause or a human's run; a restart leaves an attempt without an outcome | paid runs stay within the permission; new evidence is attended |
| **Distributor operations** `adapters/distributor_{operations,erp,allocation}.py` | event rows, allocation retries, proposals, attachments | submit event, retry, reconcile, propose, approve, assistant turn, attach and analyse a photo | one ERP operation is several writes; the process dies between a row and its document | books and documents agree; documents exist once and for a reason; one evidence chain per lot |
| **Authority B** `authority_b/*` | intents, attestations, signed grants in the quorum file | classify, prepare, attest, validate, bind, consume | the quorum file, the case store and the enterprise are three stores | no effect without signatures of both roles |
| **Experiment session and ledger** `experiment/{session,ledger,events}.py` | append-only public ledger, outbox, worker threads | start, inject, detect, investigate, prepare, approve, execute, replay, reopen | no transaction spans two of four stores; failed appends; stale reads | what is published is durable; nothing is published without its cause; a committed condition is detected |
| **Live advisory and ambiguous case** `adapters/{live_advisory_gateway,ambiguous_case_platform,specialist_role_tools}.py`, `agents/{live_advisory,role_delegation,dialogue_intent}.py`, `adapters/role_task_journal.py` | case, advisory, conversation, specialist tasks with leases and tokens | diagnose, ask, approve, execute, stop, reset; claim, finish, fail, close | model runs outlive stops, refusals and resets; a specialist outlives its run | only a warranted plan goes ahead; a refusal is remembered; an answer's team has settled |
| **Photo receiving** `adapters/photo_receiving.py`, `receiving_{arrivals,barcode,draft_worker}.py`, `receiving_erp.py` | captures, images, scans, barcode votes | upload, extract, scan, match, draft, confirm, submit, reconcile | several instances on one store; readers answer after a retake; drafts and submissions are lost or late | one receipt and one posting per photo; confirmed is what was seen |
| **Agent harness and budget** `agents/{harness,policy,validation}.py`, `domain/assessment.py`, `ports/agent_model.py` | agent loops, tool log, shared token ledger | investigate (three at once), synthesise, evaluate, retry, reserve, settle | concurrent reservations, streams that are cut off, retries that mix attempts | budget caps hold; an action rests on records read in the accepted attempt |
| **Provider proof** `authority_b/{provider,advisory}.py`, `evaluation/agent_golden_runner.py`, `scripts/run_{authority_b_proof,agent_smoke}.py` | claim file and four records | claim, run, record, compose the report | two launches, a death at any step, files that are not yet durable | one attempt, and only its records are promoted |
| **Readers, packaging, server and pages** `live_sources.py`, `adapters/erpnext_source.py`, `competition/*`, `scripts/*`, `workspace/*` | none that another part depends on | HTTP, parsing, rendering, reports | I/O | - |

Components call each other synchronously; what they share is SQLite.  `BEGIN
IMMEDIATE` makes one method's transaction atomic; nothing makes two of them so.
The HTTP server serves each request in a thread of its own, so every request may
run concurrently with every other.

`PROJECT.json` lists the same components with the status of each and, under
`hazards`, the places in the code that are hard to test, each at its line with
the properties that would catch it going wrong.

## 2. Structure and plan

Each group of modules models one pipeline; within a group a module EXTENDS the
ones to its left, and abstract specifications are INSTANCEd.

| Group | Modules | Abstract specification | State |
|---|---|---|---|
| core | `CaseLifecycle`, `EnterpriseLedger`, `ControlledRecovery`, `CaseAudit`, `GoldenRunner` | `OnceOnlySettlement` | checked; safety, refinement, the audit and the outcome of golden runs proved |
| supplier bill | `BillingJournal`, `NormalReceiptBilling` | `OneInvoicePerBill` | checked; safety and refinement proved |
| bill source | `BillingSource` | - | checked; safety proved |
| hand-off | `HandoffJournal` (many threads), then `ReceivingHandoff` (the worker and the review) | - | checked; safety of the worker proved |
| console | `DemoExecutor`, `AgentPlatform`, `AutomaticInvestigation` | - | checked; safety proved |
| distributor | `DistributorERP`, `DistributorOperations`, `DistributorPhotos` | - | checked; photos and approvals proved |
| session | `AuthorityBQuorum`, `ExperimentSession` | - | checked; safety proved |
| advisory | `InvestigationPolicy` and `RoleDelegation`, `AmbiguousCase` | - | checked; safety proved |
| photo | `PhotoReceiving` | - | checked; safety proved |
| harness | `AgentValidation` and `AgentBudgetLedger`, `AgentHarness`, `ProviderProof` | - | checked; safety proved, save `ScriptedRunAssesses` |

The `MC*` modules instantiate the last module of a group for TLC where a .cfg cannot
give the constants their values.  Proofs are in modules of their own (section 6).  No
module declares a `RECURSIVE` operator, so every one can be proved about.

What is left to TLC (section 6 says why): the quantities of the distributor
(`RetainedIsBacked` and `SuccessIsExact` of `BooksAgree`, and `DocumentsAreWarranted`),
`ScriptedRunAssesses`, and liveness.

## 3. The modules and the code

An action is what the code does without letting go: one SQLite transaction, one
remote request, or one stretch under a lock.  Between two actions of a call,
any other thread, process, user or restart may act.  Definitions keep the names
of the methods they model; `PROJECT.json` maps each to its lines.  Operators
whose comment begins with "Mutant of" are wrong versions of the definition that
follows them; they are no part of any specification and show that each checked
property can fail.

### Recovery core

* `CaseLifecycle` is `TRANSITIONS` as a set of triples and `advance_case` as the
  guard `CanAdvance` (existing transition, expected version, monotone clock) and
  the result `Advanced` (version and, for admitted evidence, evidence revision).
* `EnterpriseLedger` is the second database as operators on one record: the
  failed message, the two receipt quantities, documents, the invoice holds and the
  effect ledger (`ReceiptPosted`, `InvoiceReleased`, `Retagged`, the setters), with
  the preconditions of `restart_receipt_message` and `release_invoice` and both
  verifiers.
* `ControlledRecovery` is everything that moves them.  `case`, `evidence`,
  `grant`, `grantStatus`, `decisions`, `attempt`, `receipt` are the tables of the
  case database, `ent` the enterprise.  `pc[w]` and `call[w]` are a running
  `execute()` and its locals; `GetGrant ... CompleteUnverified` are its steps in
  the order of the method, with `Deny` for its early exits.  `Crash` ends a call
  anywhere.  The lifecycle commands, `Approve`, the external competitor
  (`ExternalCommit`, then `ExternalRetag`), drift and the clock are single steps.
* `CaseAudit` adds the one variable `log` (the case_events table), its replay, and
  the ledger checks of the evaluation as operators on the state.
* `GoldenRunner` drives the core through a manifest: `run` holds the manifest, the
  position in the script and the outcome; without a manifest the core runs freely.
* `OnceOnlySettlement` is the promise: per action, posted or not and by whom,
  one outcome, and closed only when both are settled.

### Supplier bill

* `BillingJournal` is the row of one intent (version, token and its use, source
  revision, insert and submit markers, admitted draft, submitted readback,
  conflict, refusal) with one operator per journal method.
* `NormalReceiptBilling` is the coordinator and the console in front of it: a
  request of a worker is a program of journal transactions and ERP requests.  The
  raw token lives in process memory (`tokens`) and dies with a restart.  `docs`,
  `wire` and `source` are the ERP: external, it may execute a POST late, lose it,
  and let other users edit or delete.
* `BillingSource` is one read, request by request (`reader`), of an `enterprise` that its
  users change meanwhile; the preview and the comparison with what the journal
  froze (`stored`) are operators on what was read.
* `OneInvoicePerBill` is the promise: asked, executed and known, each once and in
  this order.

### Hand-off

* `HandoffJournal` is `deliver()`: the row, the status a call read outside the lock
  (`seen`), the claim before the send, the readback, the failure handler.  The
  provider (`flights`, `records`) is external.
* Its `ConcurrentSpec` runs it from several threads, as the HTTP server does;
  `ReceivingHandoff` from the one worker thread that notifies each destination
  and keeps the Jira review task (create, comment, evidence, resolve).

### Console

* `DemoExecutor` is `execute()` request by request against the tenant
  (`transfers`, `blocked`, `order`); a request that fails ends the call before or
  after it took effect, and an insert may land after its client gave up (`late`).
* `AgentPlatform` is the console's state machine: `ClaimDiagnosis` and
  `RecordLive` are the two halves of an HTTP diagnosis with the model in between;
  `Project` is the `_projection` that ends each method and revokes a plan whose
  evidence changed; a method reads either the cached or the current snapshot;
  `Reload` is `_load_state`.
* `AutomaticInvestigation` is the daemon: `tick.pc` is where its tick stands; `ctl`
  and the dispatching half of a tick hold the control lock.

### Distributor operations

* `DistributorERP` is the tenant's documents and every native operation as the set
  of its outcomes: the documents it leaves, after any prefix of its writes, and the
  status it reports; and the contract allocation arithmetic.
* `DistributorOperations` is the service.  Every method holds one lock over its
  ERP calls; `op` is the method in progress, one step per ERP call, so that a crash
  may fall between any two.  The assistant's model call is outside the lock
  (`turn`).
* `DistributorPhotos` adds the attachments: which photo replaces which, and what it
  is bound to.

### Session and Authority B

* `AuthorityBQuorum` is the classifier, the quorum and the grant bindings as pure
  operators; a digest is the value it is computed from.
* `ExperimentSession` owns the state: the public `ledger`, `injected` and `effects`
  of the enterprise, `case`/`evidence`/`store` of the case store, `saved` of the
  quorum file and the memory of the process.  A step is one durable write.
  Threads: the command lock's holder, the investigation worker, the execution
  workers.

### Advisory

* `InvestigationPolicy` holds the fourteen counterfactuals, the records the tools
  serve for each, the join and the policy, the packet's own label of a case, and
  what a model answer must pass.
* `RoleDelegation` is the specialist journal with owner tokens and leases.
* `AmbiguousCase` runs diagnoses and questions in threads (`threads`) over the
  platform's state `p`.  Claims, progress, records, stops and resets take the
  platform's `_run_lock` and are one step each.  `approve`, `reject_plan`, `execute`
  and `verify` take no lock (`adapters/ambiguous_case_platform.py:1539-1650,1758`) and
  run in request threads, so each is a command on a `desk`: `Begin` is its tests, `End`
  its writes, and anything may come in between (an approval also computes its binding
  in a step of its own).  `approve_execute_verify` is the three commands in order.  The
  field `p.crossed`, which the code does not have, remembers what has overlapped a
  command in flight in this opening of the case: another command, the claim of a
  diagnosis, or the reset that opened it.

### Photo receiving

* `PhotoReceiving` has the store (`caps`, `images`, `scans`, `barcodes`), the ERP
  (`docs`, `po`, `wire`) and the instances (`inst`), each with one operation under
  its work lock and its own copy of the capture, saved only if the version did not
  move.

### Harness and provider proof

* `AgentValidation` is what the application lets a model say and concludes from it;
  `AgentBudgetLedger` the shared ledger, one operator per method.
* `AgentHarness` runs the five agents; a turn opens one model request, which ends
  in a tool call or in the structured answer.
* `ProviderProof` is the exclusive claim, the records a launch leaves, what a crash
  keeps of them, and the report composed from them.

## 4. Runs

Every property of a passing run has a mutant of mapped code that violates it.

| Run | What it asks | Bounds and why they are enough |
|---|---|---|
| `crash_recovery` | two concurrent `execute()` calls on one authorization with crashes, expiry, drift and an external competitor: one effect, authorised (`AtMostOneEffect`, `EffectAuthorized`); the ledgers agree and an open attempt holds the case (`LedgersAgree`, `OpenAttemptHoldsCase`); the grant is spent once (`OneTimeAuthorization`); an effect that reached the enterprise gets its receipt (`EffectReceipted`) | two calls for every pairwise race, one execution id (a retry and its original); `MaxTime = 1 > GrantTtl = 0` makes the grant expire; one crash; `MaxRevision = 2` makes the source move once; the fixture's invoice has another hold, so no outside process releases it in this run (`golden` has that competitor) |
| `golden` | the golden script and free recoveries: the audit accepts the ledgers and the log replays (`AuditAccepts`), the reported outcome is what the ledgers hold (`OutcomeIsTrue`), and all of it implements `OnceOnlySettlement` (`ImplementsSettlement`) | the main manifest and every one within two fields of it, which includes the suite's sixteen; free recoveries with two authorizations (receipt twice after late evidence, or receipt then invoice); `MaxVersion = 8` reaches closure after both; one caller at a time, one crash |
| `billing` | at most one invoice, asked, executed and admitted in this order (`ImplementsPromise`); it is of the approved version (`InvoiceIsApproved`); a conflict means an edit (`ConflictMeansEdited`); a stop is final (`StoppedStaysStopped`) | two request threads, two managers, two versions, two tokens, two source revisions, one edit, one restart; threads and managers are interchangeable (symmetry; the run has no liveness property) |
| `source` | `READY` means a clear bill whatever slid between the pages (`ReadyMeansClear`); the preview names the one effect there is (`PreviewIsExact`) | pages of two, at most three pages and four documents, six names: lists that end on a full page and that reach either limit, every kind of document, two edits during the read |
| `second_send` | violation: section 7 | two threads, one key, one failing request |
| `handoff_worker` | the worker never sends twice (`NeverSecondSend`), closes the review last (`ReviewClosesLast`), and learns of every effect (`EffectIsLearned`) | two destinations, two capture versions, an outage, a restart |
| `console` | approvals bind the validated evidence (`ApprovalBindsInvestigation`), a recovery happens once and on proof (`RecoveredOnce`), the automation does what it was permitted (`SpendsAsPermitted`), new evidence is attended (`EvidenceIsAttended`) | four deployments: writing with and without an order, automatic, both; a budget of two, two model runs, one failing request, one restart, late inserts, three stock entries |
| `distributor` | books and documents agree (`BooksAgree`), documents exist once and for a reason (`DocumentsAreWarranted`), photos form one chain (`EvidenceChain`) | nine configurations, each with the events it can meet; two lots, two orders; one refused or lost call or one crash between any two writes; three photos of two images, up to four readings |
| `session` | what is published is durable (`PublishedIsDurable`), the console offers only what is accepted (`ConsoleAgrees`), nothing is published or executed without its cause (`NothingWithoutCause`), a committed condition is detected (`CommittedIsDetected`) | seven configurations: the whole recovery with one crash, an early release, two execution threads with a crash and with a failed write, a failed write with an expiry, chat with a scripted and with a live provider |
| `advisory` | only a warranted plan is executed (`PlanIsWarranted`), a refusal is remembered (`RefusalHonoured`), an answer's specialists have settled (`AnswerHasSettledTeam`), an investigation ends (`InvestigationSettles`) | two diagnoses and a question at a time, all fourteen counterfactuals, two conversations, one reset, one crash; six modes, of which the first has two managers whose commands overlap each other and a reset, with two executions; two source tools for the five, one specialist for the three (no rule tells them apart) |
| `photo` | one receipt and one posting per photo (`OneReceiptPerPhoto`), confirmed is what was seen (`ConfirmedWhatWasSeen`), effects are learned (`EffectsAreLearned`) | six situations on two instances: retakes, one photo for two captures, uncertain writes, scans and edits, barcodes, two crashes with two failing requests |
| `harness` | one provider attempt and only its records are promoted (`PromotionIsOneAttempt`), the budget holds (`BudgetHolds`), an action rests on what was read (`ActionIsGrounded`), the scripted provider always reaches an assessment (`ScriptedRunAssesses`) | two sources for the five, one free stage at a time with the others as the profile, a budget that does not last for three investigators, two faults, one crash |

`CHECK_DEADLOCK FALSE` is set where the bounds (crashes, versions, sends, runs)
end all activity; the program itself then waits for a request.

## 5. Fairness

* `ControlledRecovery`: weak fairness of a running call's `Step` (a thread that is
  not killed goes on) and strong fairness of `RetryReserved` (operators retry a
  reserved execution, as the recovery path of `execute()` expects).  Crashes are
  finite (`MaxCrashes`).  `crash_recovery` admits no late evidence: a crash
  followed by evidence and a re-approval makes recovery impossible, through the
  version gap described in section 7.
* `ReceivingHandoff`: weak fairness of the worker loop; outages and restarts are
  finite.  The provider is never assumed to execute a send.
* `AutomaticInvestigation`: weak fairness of the tick, of the second half of
  `configure(False)` and of a running `execute()`, whose requests have timeouts.
* `AmbiguousCase`: weak fairness of each thread's `Advance`: a model run ends, by
  its answer or by its timeout.
* `PhotoReceiving`: weak fairness of a running request's `Step` and of the worker
  thread of an instance.  No user, reader or late request is assumed to come.
* `ExperimentSession`: weak fairness of `Open` and `Opening`: a process that died
  is started again and its constructor runs on.
* The other specifications state none; their properties are safety.

## 6. Proofs

Proved with TLAPS for every value of the constants:

| Theorem | Module | States |
|---|---|---|
| `TypeCorrect` | `ControlledRecoveryProofs` | `Spec => []TypeOK` |
| `Inductive` | same | `Spec => []IInv` |
| `OnePosting` | same | `Spec => []AtMostOneEffect` |
| `PostingAuthorized` | same | `Spec => []EffectAuthorized` |
| `LedgerAgreement` | same | `Spec => []LedgersAgree` |
| `HardStop` | same | `Spec => []OpenAttemptHoldsCase` |
| `SpentOnce` | same | `Spec => OneTimeAuthorization` |
| `SettlesOnce` | same | `Spec => ImplementsSettlement` (refinement of `OnceOnlySettlement`) |
| `OutcomeReported` | same | `GoldenSpec => []OutcomeIsTrue` (`GoldenRunner`) |
| `LogReplays` | same | `GoldenSpec => []ReplayAgrees` (`CaseAudit`, a part of `AuditAccepts`) |
| `AuditHoldsButOvertaken` | same | `GoldenSpec => [](ReplayAgrees /\ AcceptedBut(Overtaken))`, any number of calls |
| `AuditHolds` | same | with one call at a time, `GoldenSpec => []AuditAccepts` |
| `Invariance`, `TypeCorrect` | `NormalReceiptBillingProofs` | `Spec => []IInv`, `Spec => []TypeOK` |
| `InvoiceApproved` | same | `Spec => []InvoiceIsApproved` |
| `ConflictIsEdited` | same | `Spec => []ConflictMeansEdited` |
| `StopIsFinal` | same | `Spec => StoppedStaysStopped` |
| `Refinement` | same | `Spec => ImplementsPromise` (refinement of `OneInvoicePerBill`) |
| `ReadInvariance` | same | `ReadSpec => [](ReadTypeOK /\ ReadInv)` (`BillingSource`) |
| `ReadyIsClear` | same | `ReadSpec => []ReadyMeansClear` |
| `PreviewTellsAll` | same | `ReadSpec => []PreviewIsExact` |
| `Invariance`, `TypeCorrect` | `HandoffAndDistributorProofs` | `Spec => []IInv`, `Spec => []TypeOK` |
| `OneSend` | same | `Spec => []NeverSecondSend` |
| `ClosedLast` | same | `Spec => []ReviewClosesLast` |
| `PhotoInvariance` | same | `PhotoSpec => []PhotoInv` (`DistributorPhotos`) |
| `ChainHolds` | same | `PhotoSpec => []EvidenceChain` |
| `ApprovalIsTold` | same | `PhotoSpec => []ConfirmedIsTold` (a part of `BooksAgree`) |
| `Invariance`, `TypeCorrect` | `AutomaticInvestigationProofs` | `AutoSpec => []IInv`, `AutoSpec => []AutoTypeOK` |
| `ApprovalBinds` | same | `AutoSpec => []ApprovalBindsInvestigation` |
| `RecoveryHappensOnce` | same | `AutoSpec => []RecoveredOnce` |
| `SpendingIsPermitted` | same | `AutoSpec => []SpendsAsPermitted` |
| `Invariance`, `TypeCorrect` | `PhotoReceivingProofs` | `Spec => []IInv`, `Spec => []TypeOK` |
| `OneReceipt` | same | `Spec => []OneReceiptPerPhoto` |
| `ConfirmedAsSeen` | same | `Spec => []ConfirmedWhatWasSeen` |
| `Invariance` | `AgentHarnessProofs` | `ProofSpec => []IInv` |
| `PromotionFromOneAttempt` | same | `ProofSpec => []PromotionIsOneAttempt` |
| `RecommendationGrounded` | same | `ProofSpec => []ActionIsGrounded` |
| `BudgetKept` | same | `ProofSpec => []BudgetHolds` |
| `Invariance` | `ExperimentSessionProofs` | `Spec => []IInv` |
| `Durable` | same | `Spec => []PublishedIsDurable` |
| `ConsoleIsBacked` | same | `Spec => []ConsoleAgrees` |
| `Caused` | same | `Spec => NothingWithoutCause` |
| `Invariance` | `AmbiguousCaseProofs` | `Spec => []IInv` |
| `PlanWarranted` | same | `Spec => []PlanIsWarranted` |
| `RefusalRemembered` | same | `Spec => []RefusalHonoured` |
| `TeamSettled` | same | `Spec => []AnswerHasSettledTeam` |

They rest on the named assumptions of the modules and on nothing else.
`QuantityAssumption`, `NamespaceAssumption` (the ids of external effects are no
execution ids and no keys of the executor), `RequestAssumption`, `RoleAssumption`
and `BoundAssumption` for the core; `ManifestAssumption` and `RunnerAssumption` (the
runner's two actions have ids of their own, as in every manifest of `golden/cases`) for
the golden runner; `ManagerAssumption`, `JournalBoundAssumption`
and `BillingBoundAssumption` for the bill; `ReadBoundsAssumption` (names are finitely
many numbers, in the order the ERP sorts them), `NoneAssumption`, `DocumentsAssumption`
and `ModesAssumption` (what the journal froze holds nothing that concerns the bill,
which is what `Prepare` leaves behind, and is older than what others add during the
read: the frozen digest covers each document with its timestamp) for the read;
`HandoffBoundAssumption` and
`HandoffKeysAssumption` (one worker thread, and exactly the keys of the configured
destinations and of the review) for the hand-off; `PhotoAssumption` (an id is not
NULL, and an attached image has a digest) for the distributor; `ExecutorAssumption`,
`PlatformAssumption` and `BudgetAssumption` for the console; `CapturesAssumption`,
`NoneAssumption` (the absent value is no value) and `ModesAssumption` (the shape of
a configuration) for photo receiving; `ConfigurationsAssumption` (the shape of a
configuration; a smoke has profiles), `NoDecisionAssumption`, `NoClaimAssumption` and
`NoReservationAssumption` (the absent value is no decision, claim or reservation) and
`PricesAssumption` (a token has a positive price, as `AgentBudget` demands) for the
harness;
`ConfigurationsAssumption` (the shape of a configuration) and `AbsentAssumption` (the
absent value is no number, truth value, dialogue or advisory) for the ambiguous case;
`DirectoryAssumption` (each principal has one of the two roles) and `AbsentAssumption`
(the absent value is no case row) for the session.
Each says that a bound is a number or that a set has the shape of the code's; TLC
evaluates each in every run of these modules.

**Core.**  None of the properties is inductive alone.  `TypeOK` needs that a call
past `getGrant` works on an existing grant row, and that an existing row holds a
grant (`TypeInv`).  The inductive invariant is

    IInv == TypeInv /\ LedgerInv /\ CallInv /\ EffectInv

`LedgerInv` says that a stored attempt is of a request with its own execution id,
that it has a receipt exactly when it has ended, that the three ledgers agree and
that an open attempt holds the case.  `CallInv` says what a call knows: past its
reservation its execution id has an attempt whose command is its own request,
and about to mutate it is either in time or already has its effect.  `EffectInv`
says that effects are unique per source record, belong to an authorised attempt,
and block the preconditions of the next mutation: once the message is CONSUMED,
or the receipt-mismatch hold is gone, it never becomes eligible again, whatever
a competitor does.  That last conjunct is why two calls that both passed their
look-up cannot both post.

The refinement adds `SettledInv`: which attempts the status of the case allows to
exist (`ProgressOK`), that a successful receipt has its effect (`SuccessOK`), that
a consumed message has one (`ConsumedOK`), and that a call which is about to
complete as verified saw what it claims (`VerdictOK`).  Each action then maps to a
step of the promise or to a stutter.

**Golden runner.**  `GoldenSpec` runs the core one script at a time, so its invariant
says what the script has established at each of its positions (`Positions`): nothing
is signed (`EarlyInv`), the receipt is signed and untried (`SignedInv`), a call is at a
control point and the case database holds what that point presupposes (`CallingInv`),
the receipt is done and a replay only looks (`ReusingInv`), the receipt holds and the
invoice is untried (`LateInv`).  `Standing` is what holds throughout: effects are the
outside receipt or carry the runner's own ids.  The outcome then follows from what
stood where the script ended.  The proof needed more than the report reads: that a
successful call leaves the enterprise as its verifier saw it, because nothing else moves
in a scripted run between the verification and the report, and that a crashed call
leaves its attempt to the second one (`Held`), which finds it instead of reserving again.
The proof covers every manifest; TLC checks every one within two fields of the main one.

**Audit.**  The replay of a log of any length is a recursive function, and the log grows
by one event per step, so the invariant need not speak of the recursion: the replay of
the longer log is one `ReplayEvent` applied to that of the shorter (`ReplayInv`).  The
event in the log is the one the step made, because the table has at most one event
between two statuses.  The one thing the replay reads besides the log is the evidence
table of today, which may hold items that were not there when the event was written;
hence `ReplaysTo` carries the table as a parameter, and evidence that is only added
changes nothing of an item admitted once.  That is where an item admitted twice has to
be excepted.

The ledger checks are an invariant about two databases (`AuditInv`): a grant is of the
role its tool asks for; an attempt carries what was signed and was allowed; an ended one
has a receipt; an effect belongs to an attempt of its key and tool, or was done outside;
document, consumption and release name the one effect of their source record
(`WorldRight`).  A call must know before its next write that what it carries was signed
(`Binds`), that its attempt is its own, and, for a no-op, which effect backs it
(`NoopBacked`).  Rows are only added and never rewritten (`Growth`), so what was right
stays right, and each action only has to account for the row it adds.  The theorem needs
nothing of the number of callers: it covers any number of overlapping calls, with one
execution or several, while the run has one caller who retries.

**Supplier bill.**  The argument follows the one insert.  The marker `row.insert`
is written once; from then on the insert is in exactly one place: a request that is
about to post it, a message on the wire, or the one document.  Whatever a later
request holds (draft name, revision, submit marker) was read from that document and
stays true of it.  `RowInv` says that the columns of the row presuppose each other,
`DocInv` that there is at most one document and the row's knowledge of it is true,
`CallOK` what each request in progress knows.

The read is an argument about pages.  Pages are cut by rank among the names that exist
at that moment, and rank is onto (`RankOnto`, by counting), so a page that is not full
reaches the end (`LastPageReaches`).  A document that concerned the bill from the start
is listed, or comes after every listed name (`After`), or slid into the place of a
listed name that is lost (`SomeLost`): `InvoicePagesInv`.  A lost name is gone, and then
its own request fails the read, or was given to another document, and then what the
journal froze holds the older one (`Regiven`).  The receipts are not deleted, so they
need only the first two (`ReceiptPagesInv`).

**Hand-off.**  A status is read outside the lock and written back after a failure.
With one thread what was read is still true (`DeliveryInv`); with two it is not
(`second_send`).  `SentInv` follows: a send leaves a claimed row behind and a claimed
row is never sent again.  `JobInv` is the order of the stages of a tick: past a stage,
what it waited for is verified, and verified rows stay verified, also when the tick's
own snapshot is old.

**Console.**  Executor and console share no variable but the executor's, so each half
of the invariant is preserved by what a step may do to its half (`StepFrame`).
`ErpInv`: entries have numbers of their own; while no delayed insert has landed there
is at most one, none when the call inserts, and the call deletes or submits a draft.
`ControlInv`: a plan is of the run that validated it, a stopped run is over, an
approval binds.  `OwnerInv`, `BudgetInv` and `AttemptInv` follow the automation: the
budget's remainder plus what was paid, plus a claimed run not yet paid, stays within
`Budget`; a digest has at most as many attempts as the operator enabled it, the
pending retry counted.

**Distributor.**  One method at a time holds the lock (`MethodInv`): it is idle, under
way, about to close its approval, or about to bind a photo.  Every step of a method
under way leaves the rows their numbers, events and results (`RowsKept`), so an event
has no result until its own method stores one, and what an approval reports is what
the row holds; after a crash only the row is left, and the recovered approval answers
UNKNOWN_OUTCOME.  The latest state is a choice among the rows, which needs their
insertion numbers to have a greatest one (`TopInv`).  For the photos, the walk of
`_validate_photo_supersession` meets a set closed under replacement (`Lineage`): were a
new analysis to close a circle through its photo, the part of the circle in the
lineage of the photo replaced would be a circle without it, which there was none before
(`NoCircle`).  A photo that is named but not bound is the one of the method in progress,
as long as nothing was lost to a crash (`NamedInv`).

**Photo receiving.**  Instances write from their own copy of a capture, fenced only by
its version.  A copy whose version is still the stored one agrees with the store on
photo, image, claims and confirmation (`Agree`), and a version that moved never comes
back, so each write continues the stored capture (`Kept`): a claim and a confirmation
are for good.  The right to create the draft is a token (`TokenInv`): it is with the
one instance that won the claim, in a late request, or used up, so `docs` never has
two drafts of one capture (`DocInv`).  A claimed capture is the first owner of its
photo (`Owned`), which is unique because the rows of `capture_images` are only
appended; hence no photo is behind two receipts.  `SeenInv` ties what an operator was
shown to the version it was shown at.

**Harness and provider proof.**  `LoopOK` ties each loop to what it emitted: at work
it has read what the events of its current attempt say, events of an attempt it has
not reached do not exist, and it has handed off exactly when it is done.  Later stages
start only when all investigators are done, and a done loop moves no more, so a
recommendation made at the end still speaks of what was read (`StageInv`, `RunInv`).
Every harness step moves one loop (`Moves`) or cancels all.  `ProofInv` follows the
claim file: from before it is durable until the last record is written only its holder
works, so the caller, the attempt and the author of every record are one launch.  A
claim that a loss of power may still take was not followed by a request or a record.
`BudgetInv` follows the ledger: a loop holds a reservation only while its stream is
open, so the reserved tokens are the sum over the five loops (`ReserveMoves`), and
every way a stream ends takes out what that loop put in.  What is charged never exceeds
what was reserved, except in an overrun, which adds one token and uses up one fault
(`WithinShrinks`).  The smoke runs its profiles on one ledger, so an assessment must
leave nothing reserved (`AllReleased`), and that is why the evaluator's wait for the
synthesis is part of the invariant (`InOrder`).

**Session.**  No lock covers the four stores, so each thread is followed through its
own steps (`ThreadOK`): past the binding its action has one, past the post its effect
exists, past the completion its attempt is completed, past the consumption its intent
is consumed.  None of it is taken back by a step of another thread (`Grows`,
`KeepsIntents`): the ledger, the effects and the bindings only grow, and a granted
intent can only become consumed.  `IntentOK` counts the signatures: nobody has signed
an open intent, one person a pending one, and the second signature is of the other
role, so an intent in force carries both.  `StoreInv` is what the case may say of the
effects.  A step that writes the ledger is reduced to `Appended` or `Dropped`, so each
event needs only its own explanation (`Explains`).  The proof attempt showed where the
durability of a consumption ends (section 7, `mark_consumed`); `Unraced` in
`PublishedIsDurable` is that case.

**Ambiguous case.**  The argument follows the current run.  Run identifiers are fresh
(`FreshInv`), so while the thread of the current run is under way nobody else releases
a plan, and the decision withheld in `policy` is the one for the facts the run was
claimed for (`CurrentOK`); a failure without a run identifier can only block.  `CaseOK`
keeps what then follows: only the primary counterfactual has a plan (`OnlyPrimary`),
and a recovered case has none (`RecoveredIsDone`).  `DeskInv` says what a command that
has passed its tests may still rely on when it writes.  With no reset under a command,
the case is still the primary one.  With no second command either, nothing has been
executed under an execution.  With nothing crossed, nothing has been approved under a
refusal, nothing refused under an approval, and no run is under way under a refusal.
Two commands in flight have always crossed.  Those conditions are the exceptions of
`PlanIsWarranted`; that a plan is released only by its own run's advice needs none of
them.  TLC finds a behaviour for each exception when it is taken out.  That the policy over the joined records agrees is computed by
`JoinReleases`, record by record.  A conversation belongs to one opening of the case
(`TurnOK`), and the dialogue carries the refusal (`DialogueOK`).  A scope of the
journal has one thread at a time, so the rows a run claimed stay its own (`TeamOK`).

**Only model-checked.**  Liveness under fairness (`EffectReceipted`,
`EffectIsLearned`, `EvidenceIsAttended`, `CommittedIsDetected`,
`InvestigationSettles`, `EffectsAreLearned`) and anything about ENABLED are out of
this prover's reach.
`ScriptedRunAssesses` is about configurations without faults that give the
agents the turns they need, and a case analysis over what records may hold, which TLC
enumerates.  What the
distributor retains against the documents (`RetainedIsBacked`, `SuccessIsExact`,
`DocumentsAreWarranted`) compares sums over documents and allocations folded over the
orders, and what a fold computes for every input is an induction over data.

## 7. Where code and documents disagree

Shown by a run:

* `second_send` (`adapters/receiving_handoff.py:242`).  The status a slow call read is
  written back after another call claimed the effect: UNKNOWN returns to PENDING
  and the effect is sent twice, against "lookup only, never a second send".  The
  worker, a single thread, is not affected (`handoff_worker`, `OneSend`).

Observations made while modelling.  The models behave as described here; where a
property needs an exception for one of them, its comment says so.

**Core.**
* `application/executor.py:169`: the version for the started transition is read after
  the policy decision.  Evidence and a new approval in between bring the case back to
  the authorised status, and the call posts under the grant of the older version.
* `application/executor.py:240`: two calls resume one reserved attempt; the first fails
  it and consumes the grant; the second is past its look-up and posts the effect.  The
  FAILED receipt then lists no document beside an effect that has one, and
  `_local_effect_is_bound` (`evaluation/invariants.py:157`) refuses the row: `Overtaken`
  in `CaseAudit`, the one exception of `AuditHoldsButOvertaken`.  `AuditAccepts` is
  checked and proved for one call at a time, which is how the runner works.
* `application/executor.py:107`: the clock is read once and compared with the expiry at
  :241, so a call that stalls commits after it.  `EffectAuthorized` speaks of the
  effect's own date.
* `application/executor.py:321`: the denial and the failed receipt are two transactions;
  after a crash between them the attempt never ends.
* `adapters/sqlite_case_store.py:386`: evidence that is admitted twice makes
  `replay_case` raise.  `AuditAccepts` excepts such a case.
* `evaluation/invariants.py`: the invoice half of the ledger check only knows the result
  EXECUTED, so it rejects a release whose receipt is the no-op of a recovered call.
  `AuditAccepts` excepts that row, a release put back on hold by a later source change,
  and a release whose receipt misses a document that was posted after it (`Exempt`).

**Supplier bill.**
* `adapters/normal_receipt_billing_source.py:345`: paging by offset skips a document when
  an earlier one is deleted between two pages.  The deleted one was listed, so its own
  request fails the read, unless its name was given to another document in between.
  Then the comparison of the insert's own read with the frozen source is the second
  line of defence; a first preparation has none, and `ReadyMeansClear` excepts it when
  a listed name was given again (`reused`).
* Any new document of the supplier between preparation and submission changes the
  related-documents revision; the bill then stops for good, and after an insert
  attempt it can be neither submitted nor prepared again.
* `last_readback_kind` may go back to UNKNOWN after the submitted readback
  (`adapters/normal_receipt_billing_journal.py:1286`); it is displayed only.

**Console.**
* A stock entry inserted after its caller timed out is the one modified last and
  hides the submitted transfer (`adapters/demo_executor.py:172`); the next call
  submits another.  `RecoveredOnce` excepts this case.
* A claim that loses its race is refunded, but the retry it had consumed is not
  restored (`adapters/automatic_investigation.py:205`): the operator has to enable
  it again.
* `close()` cancels without the control lock
  (`adapters/automatic_investigation.py:257`): a run claimed just after it is not
  cancelled.

**Distributor.**
* `adapters/distributor_erp.py`, "A permission refusal is definitive and happens before a
  document insert": a 401 or 403 may also answer a later submit or readback.
* A FAIL inspection recorded after the release leaves the lot unavailable for good.
* A crash after the native receipt leaves the event row pending; nothing reconciles it
  (`adapters/distributor_operations.py:550`).
* A proposal's INSERT and the binding of its photo are two statements: after a crash
  between them a second proposal names the same photo.  An approval recovered after a
  crash (:921) never binds the photo to its event.
* A reconciliation writes the arrival's row (:1296), which is not read when an
  allocation retry is newer.
* "Keep one same-lot evidence chain" (:5247): a photo analysed again under another lot
  stays replaced by the photo of its old lot, and when a replacement's new reading
  fails the photo it had replaced counts again.

**Session and Authority B.**
* A closed run cannot be opened again (`experiment/session.py:826`), against "A
  previously allocated run remains a valid deep-link target after a process restart".
* A `prepare release_invoice` that is repeated or comes early refreshes the evidence
  before it finds the intent (:1694); the signed grant then never binds.
* Two concurrent refreshes take the same stamp (:1518); the worker's exception is
  swallowed.
* After a failed append INVESTIGATION_STARTED may precede INCIDENT_DETECTED (:818).
* A crash between `mark_consumed` and EXECUTION_COMPLETED leaves the execution
  unpublished; an expiry between execution and replay publishes a blocked event on a
  recovered case; a failed write in `attest` leaves memory granted and disk pending
  (`authority_b/quorum.py:377`).
* `mark_consumed` changes the intent in memory before the file
  (`authority_b/quorum.py:463`).  When the write fails, its thread reports a blocked
  execution, but a second thread that already executes the same action finds its own
  consumption in memory and publishes EXECUTION_COMPLETED over a file that still says
  GRANTED.  The attempt is completed by then, so a later process posts nothing again.
  `PublishedIsDurable` excepts this case.

**Advisory.**
* A failed advisory carries no run id, so that of a superseded run blocks the current
  one and clears its approval (`adapters/ambiguous_case_platform.py:1476`).
* A second approval after execution lets the verified packet report zero (:1539, :1546);
  the comment at :68 says it cannot.
* `approve`, `reject_plan`, `execute` and `verify` test and write without `_run_lock`
  (:1539-1650, :1758), in the threads of a `ThreadingHTTPServer`.  `PlanIsWarranted`
  excepts what follows, each case by its cause:
  - `approve` and `reject_plan` may both pass their tests.  The plan is then refused and
    approved, and `execute` accepts it, because it looks at the approval and of the
    agent's state only at STOPPED.
  - A reset between the tests of `approve` and its binding puts an approval on the
    fresh case, before any diagnosis; between binding and write it leaves the old
    binding there.  The digest does not cover the variant, so `execute` may then
    recover a case whose own diagnosis would block it.
  - `execute` or `verify` overtaken by a reset recovers the fresh case or marks it
    VERIFIED.
  - Two executions may both find nothing executed.  The second records the scope the
    first has left, zero and zero, and raises the version once more.
  - A refusal overtaken by a new claim (after a stop) is written over the newer run.
* `stop()` after an execution writes "no effect was issued".
* A crash in an investigation leaves the case ACTIVE until it is stopped or reset.
* For a physical shortage the packet's label is DENY, the policy's NEEDS_EVIDENCE.

**Photo receiving.**
* Two captures with one photo may each refer the operator to the other
  (`adapters/photo_receiving.py:1127`).
* A failed read after DRAFT_VERIFIED ends in NEEDS_REVIEW with no way out; a lost draft
  POST that never arrives stays DRAFT_UNKNOWN for ever.
* A scan during an analysis loses the model's result until the lease ends.

**Harness and provider proof.**
* A stream that is cut off is settled with zero usage, so the real input may exceed
  `max_input_tokens_per_run` (`ports/agent_model.py:281`), "Hard per-run limits; the
  model layer may never exceed these values" (:74).  `BudgetHolds` is about the ledger.
* A REJECT with an incomplete closure is "intentionally permitted", and yet may raise;
  an unavailable source with claims on every admitted record raises.
* A partial advisory is recorded as a provider failure and promoted
  (`authority_b/advisory.py:121`); a smoke that needs one stage retry can never pass; a
  profile that fails without raising leaves neither failure manifest nor artifact.

## 8. What is left out

* Core: the audit row of a refused `approve()` and receipt digests.  `crash_recovery`
  has one execution id, so two attempts on one authorization are covered by the
  theorems (every number of executions) and, one after the other, by `golden`.  A replayed
  command is a stuttering step.  `approve()` and the lifecycle commands are single
  steps because they are fenced by the version they read.
* Supplier bill: one intent (no line conflict between intents), no event history, no
  digests; the reads that precede a claim are one step here and request by request in
  `BillingSource`; the ERP submits the document it was sent or nothing; other users
  edit and delete but do not submit.
* Hand-off: one payload per key; a lookup that finds the effect and the transition
  that records it are one step; one capture.
* Console: one case, no conversation or display state; what an approval binds is the
  evidence facts, without the sources' sequence numbers; a crash inside a handler
  other than `execute()` is the crash before or after it; only inserts, not
  submissions, take effect late.
* Distributor: how a model words or ranks (its choice is arbitrary), the economic
  figures, the page's projections; an analysis of a photo is one step because the
  reader runs under the lock.  A resumed shipment is kept apart from the operations of
  the event that resumes it (`adapters/distributor_operations.py:4554`), where the code
  also takes its failure for a blocked shipment of that event.  No configuration has
  two arrivals for one lot or two picks for one tranche.
* Session: display-only events, telemetry, the standalone two-signer console.  The
  second of two workers that complete one attempt succeeds here; the code answers it
  with WORKFLOW_BLOCKED (`adapters/sqlite_case_store.py:1029`).  The expiry test of the
  grant right before the post (`application/executor.py:241`) is left out, so more posts
  happen here than in the code.  A worker's `finally` may remove the entry of another
  worker (`experiment/session.py:2081`); the entries are separate here.
* Advisory: the prose rules of an answer are one flag; no history store and no
  source-change watcher.  The writes of an unlocked command are one step after its
  tests: a reset or another command is not let in between two assignments of one
  command, nor between its assignments and the save, and what a crash would find in
  such a half-written case is not modelled.
* Photo: the advisory texts about a capture; an image is a name, a reading one of a
  few kinds.
* Harness: prompts, traces and the schema of every field; the agent loop of the SDK is
  external; `aws_proof.py` only reads an account.  An overrun exceeds its reservation
  by one input token; the code admits any excess (`ports/agent_model.py:304`).  An
  interrupt after the assessment, which records the run as degraded
  (`evaluation/agent_golden_runner.py:723`), is left out, and the records of a launch that
  has ended survive a loss of power although `_atomic_json` (:124) does not sync them.
* Not modelled: source readers and dialogue wording, competition package and matrix,
  HTTP routing and pages.  They keep no state that another part depends on.
