--------------------------- MODULE ControlledRecovery ---------------------------
(***************************************************************************)
(* The human-authorised recovery of one case: case_service.py and          *)
(* authorization_service.py issue grants, ControlledExecutor.execute       *)
(* (application/executor.py) spends them.  The case database               *)
(* (adapters/sqlite_case_store.py) and the enterprise database are two     *)
(* SQLite files: an action is ONE transaction on ONE of them (or one       *)
(* read), because a call may be preempted, or its process may die, between *)
(* any two.  Workers are concurrent execute() calls: threads, processes,   *)
(* or the retry of a call that crashed.                                    *)
(*                                                                         *)
(* Lifecycle commands and approve() are single steps: they are fenced by   *)
(* the version they read, so a stale one is refused and changes nothing.   *)
(* A replayed command (same idempotency key) returns the stored event and  *)
(* is a stuttering step.                                                   *)
(***************************************************************************)
EXTENDS EnterpriseLedger

CONSTANTS
  Workers,           \* concurrent execute() calls
  Auths,             \* authorization ids, the primary key of grants
  Principals,        \* human principals
  RoleOf,            \* TrustedIdentities: principal -> role
  Requests,          \* execute() requests callers may issue
  DetectorEvidence,  \* evidence ids the detector admits with the case
  LateEvidence,      \* evidence ids admitted afterwards
  GrantTtl,          \* grant_ttl
  RetryChoices,      \* retry eligibility of the message in the fixture
  WarehouseChoices,  \* physically received quantities in the fixture
  OtherHoldChoices,  \* whether the fixture's invoice has another hold
  DriftQuantities,   \* quantities set_erp_receipt_quantity may write
  MaxTime,           \* bound on the trusted clock
  MaxRevision,       \* bound on source revisions
  MaxVersion,        \* bound on lifecycle commands
  MaxCrashes         \* bound on process crashes

Params == [tool : Tools, revision : 1..MaxRevision]
RequestType ==
  [auth : Auths, exec : Execs, key : Keys, principal : Principals, params : Params]

ASSUME RequestAssumption == Requests \subseteq RequestType
ASSUME RoleAssumption ==
  RoleOf \in [Principals -> {"INTEGRATION_OPERATOR", "AP_APPROVER"}]
ASSUME BoundAssumption ==
  /\ {GrantTtl, MaxTime, MaxRevision, MaxVersion, MaxCrashes} \subseteq Nat
  /\ DriftQuantities \subseteq Nat /\ WarehouseChoices \subseteq Nat
  /\ RetryChoices \subseteq BOOLEAN /\ OtherHoldChoices \subseteq BOOLEAN

VARIABLES
  case,         \* case_projection: status, version, evidenceRevision, updatedAt
  evidence,     \* ids in the evidence table
  grant,        \* grants: what the human signed, per authorization id
  grantStatus,  \* grants.status: NONE when there is no row
  decisions,    \* primary keys in policy_decisions: <<kind, execution id>>
  attempt,      \* execution_attempts: the command (its digest) and its status
  receipt,      \* execution_receipts
  ent,          \* the enterprise database
  pending,      \* external mutations committed but not yet relabelled
  now,          \* the trusted clock
  pc, call,     \* control point and locals of each execute() call
  crashes       \* crashes so far

caseDb == <<case, evidence, grant, grantStatus, decisions, attempt, receipt>>
vars == <<caseDb, ent, pending, now, pc, call, crashes>>

NoGrant == [version |-> 0]
NoCommand == [auth |-> NoOne]
NoAttempt == [command |-> NoCommand, status |-> "NONE"]
\* A receipt lists the documents of the snapshot it was written from, and
\* whether all its postconditions held in it.
NoReceipt == [result |-> "NONE", at |-> 0, docs |-> {}, holds |-> FALSE]
NoEffect == [type |-> "NONE"]
NoCall == [req |-> NoCommand, at |-> 0, seenGrant |-> "NONE", seenAttempt |-> "NONE",
           version |-> 0, effect |-> NoEffect, outcome |-> "NONE",
           docs |-> {}, verified |-> FALSE, closes |-> FALSE, denial |-> "NONE"]

Grants == [version : Nat, tool : Tools, principal : Principals, params : Params,
           evidence : SUBSET (DetectorEvidence \union LateEvidence), expires : Nat]
GrantStatuses == {"NONE", "ISSUED", "RESERVED", "CONSUMED"}
AttemptStatuses == {"NONE", "RESERVED", "COMPLETED", "VERIFICATION_FAILED"}
DenialKinds == {"execution", "unavailable", "recovery", "expired", "precondition"}
ControlPoints ==
  {"idle", "getGrant", "getAttempt", "evaluate", "deny", "getCase", "reserve",
   "recover", "lookup", "mutate", "readState", "denyPrecondition", "failAttempt",
   "verify", "getCaseAgain", "complete"}

Cases == [status : CaseStatus, version : Nat, evidenceRevision : Nat, updatedAt : Nat]
Attempts == [command : Requests \union {NoCommand}, status : AttemptStatuses]
Receipts == [result : {"NONE", "EXECUTED", "SAFE_NOOP", "FAILED"}, at : Nat,
             docs : SUBSET Documents, holds : BOOLEAN]
Calls ==
  [ req : Requests \union {NoCommand}, at : Nat,
    seenGrant : GrantStatuses, seenAttempt : AttemptStatuses, version : Nat,
    effect : Effects \union {NoEffect},
    outcome : {"NONE", "EXECUTED", "SAFE_NOOP"}, docs : SUBSET Documents,
    verified : BOOLEAN, closes : BOOLEAN, denial : DenialKinds \union {"NONE"} ]

TypeOK ==
  /\ case \in Cases
  /\ evidence \subseteq DetectorEvidence \union LateEvidence
  /\ grant \in [Auths -> Grants \union {NoGrant}]
  /\ grantStatus \in [Auths -> GrantStatuses]
  /\ decisions \subseteq DenialKinds \X Execs
  /\ attempt \in [Execs -> Attempts]
  /\ receipt \in [Execs -> Receipts]
  /\ ent \in Enterprises
  /\ pending \subseteq Tools
  /\ now \in Nat
  /\ pc \in [Workers -> ControlPoints]
  /\ call \in [Workers -> Calls]
  /\ crashes \in Nat

Init ==
  /\ case = [status |-> "OPEN", version |-> 0, evidenceRevision |-> 0, updatedAt |-> 0]
  /\ evidence = {}
  /\ grant = [a \in Auths |-> NoGrant]
  /\ grantStatus = [a \in Auths |-> "NONE"]
  /\ decisions = {}
  /\ attempt = [e \in Execs |-> NoAttempt]
  /\ receipt = [e \in Execs |-> NoReceipt]
  /\ \E r \in RetryChoices, q \in WarehouseChoices, h \in OtherHoldChoices :
       ent = SeededEnterprise(r, q, h)
  /\ pending = {}
  /\ now = 0
  /\ pc = [w \in Workers |-> "idle"]
  /\ call = [w \in Workers |-> NoCall]
  /\ crashes = 0

-----------------------------------------------------------------------------
(* Lifecycle commands (case_service.py, detector.py): one transaction each. *)

\* apply_transition of a command that carries the current version.
Lifecycle(event) ==
  /\ case.version < MaxVersion
  /\ CanAdvance(case, event, case.version, now)
  /\ case' = Advanced(case, event, now)

\* DiscrepancyDetector.detect: genesis, evidence and first transition.
Detect ==
  /\ Lifecycle("INVESTIGATION_STARTED")
  /\ evidence' = evidence \union DetectorEvidence
  /\ UNCHANGED <<grant, grantStatus, decisions, attempt, receipt, ent, pending,
                 now, pc, call, crashes>>

\* record_investigation_outcome / recommend_receipt_restart.  Which decision
\* the diagnosis supports is data of the assessment; all five are possible.
RecordInvestigationOutcome(event) ==
  /\ Lifecycle(event)
  /\ UNCHANGED <<evidence, grant, grantStatus, decisions, attempt, receipt, ent,
                 pending, now, pc, call, crashes>>

RequestApproval(tool) ==
  /\ Lifecycle(IF tool = Receipt THEN "RECEIPT_APPROVAL_REQUESTED"
                                 ELSE "INVOICE_APPROVAL_REQUESTED")
  /\ UNCHANGED <<evidence, grant, grantStatus, decisions, attempt, receipt, ent,
                 pending, now, pc, call, crashes>>

\* admit_evidence_with_transition: an item already stored is admitted again
\* without a second row, and still advances the case.
AdmitEvidence(item) ==
  /\ Lifecycle("EVIDENCE_ADMITTED")
  /\ evidence' = evidence \union {item}
  /\ UNCHANGED <<grant, grantStatus, decisions, attempt, receipt, ent, pending,
                 now, pc, call, crashes>>

\* AuthorizationService.approve, accepted: transition, approval and grant in
\* one transaction.  The grant binds the version the transition creates.
Approve(a, principal, params) ==
  /\ grantStatus[a] = "NONE"
  /\ RoleOf[principal] = RequiredRole(params.tool)
  /\ case.status = AwaitingStatus(params.tool)
  /\ Lifecycle(AcceptedEvent(params.tool))
  /\ grant' = [grant EXCEPT ![a] =
       [version |-> case.version + 1, tool |-> params.tool, principal |-> principal,
        params |-> params, evidence |-> evidence, expires |-> now + GrantTtl]]
  /\ grantStatus' = [grantStatus EXCEPT ![a] = "ISSUED"]
  /\ UNCHANGED <<evidence, decisions, attempt, receipt, ent, pending, now, pc,
                 call, crashes>>

-----------------------------------------------------------------------------
(* The enterprise around the executor, and the clock. *)

\* First transaction of simulate_external_receipt / _invoice_release.
ExternalCommit(tool) ==
  /\ EffectsWithKey(ent, ExternalId(tool)) = {}
  /\ Preconditions(ent, tool, SourceRevision(ent, tool))
  /\ ent' = Posted(ent, tool, ExternalId(tool), ExternalId(tool), now)
  /\ pending' = pending \union {tool}
  /\ UNCHANGED <<caseDb, now, pc, call, crashes>>

\* Second transaction: the effect becomes EXTERNAL_*.
ExternalRetag(tool) ==
  /\ tool \in pending
  /\ ent' = Retagged(ent, tool)
  /\ pending' = pending \ {tool}
  /\ UNCHANGED <<caseDb, now, pc, call, crashes>>

AdvanceFailedMessageRevision ==
  /\ ent.message.revision < MaxRevision
  /\ ent' = MessageRevisionAdvanced(ent)
  /\ UNCHANGED <<caseDb, pending, now, pc, call, crashes>>

SetErpReceiptQuantity(q) ==
  /\ ent.erp # q
  /\ ent' = ErpReceiptQuantitySet(ent, q)
  /\ UNCHANGED <<caseDb, pending, now, pc, call, crashes>>

SetInvoiceHold ==
  /\ ent.invoice.revision < MaxRevision
  /\ ent' = InvoiceHoldSet(ent)
  /\ UNCHANGED <<caseDb, pending, now, pc, call, crashes>>

Tick ==
  /\ now < MaxTime
  /\ now' = now + 1
  /\ UNCHANGED <<caseDb, ent, pending, pc, call, crashes>>

-----------------------------------------------------------------------------
(* ControlledExecutor.execute, one step per transaction or read.           *)

Goto(w, point) == pc' = [pc EXCEPT ![w] = point]
\* The call returns or raises: its locals are gone.
Return(w) == Goto(w, "idle") /\ call' = [call EXCEPT ![w] = NoCall]
Deny(w, kind) == Goto(w, "deny") /\ call' = [call EXCEPT ![w].denial = kind]

\* occurred_at is read from the clock before anything else.
Begin(w, req) ==
  /\ pc[w] = "idle"
  /\ Goto(w, "getGrant")
  /\ call' = [call EXCEPT ![w] = [NoCall EXCEPT !.req = req, !.at = now]]
  /\ UNCHANGED <<caseDb, ent, pending, now, crashes>>

\* store.get_grant: an unknown authorization raises LookupError.
GetGrant(w) ==
  /\ pc[w] = "getGrant"
  /\ LET status == grantStatus[call[w].req.auth] IN
       IF status = "NONE" THEN Return(w)
       ELSE /\ Goto(w, "getAttempt")
            /\ call' = [call EXCEPT ![w].seenGrant = status]
  /\ UNCHANGED <<caseDb, ent, pending, now, crashes>>

\* Mutant of GetAttempt: the grant is checked first, so that a reservation is
\* never resumed.
GetAttemptUnresumed(w) ==
  /\ pc[w] = "getAttempt"
  /\ IF call[w].seenGrant = "ISSUED" /\ attempt[call[w].req.exec].status = "NONE"
     THEN Goto(w, "evaluate") /\ UNCHANGED call
     ELSE Deny(w, "unavailable")
  /\ UNCHANGED <<caseDb, ent, pending, now, crashes>>

\* store.get_attempt: a known execution is recovered, a new one needs an
\* ISSUED grant.
GetAttempt(w) ==
  /\ pc[w] = "getAttempt"
  /\ LET status == attempt[call[w].req.exec].status IN
       IF status = "NONE"
       THEN IF call[w].seenGrant = "ISSUED"
            THEN Goto(w, "evaluate") /\ UNCHANGED call
            ELSE Deny(w, "unavailable")
       ELSE /\ Goto(w, "recover")
            /\ call' = [call EXCEPT ![w].seenAttempt = status]
  /\ UNCHANGED <<caseDb, ent, pending, now, crashes>>

\* Identity, parameters, evidence and action digests of a request match its
\* grant (the common part of evaluate_execution and validate_reserved_recovery).
BindingMatches(req) ==
  LET g == grant[req.auth] IN
  /\ req.principal = g.principal
  /\ req.params = g.params
  /\ evidence = g.evidence

\* LocalPolicy.evaluate_execution, outcome ALLOW.
PolicyAllows(req) ==
  LET g == grant[req.auth] IN
  /\ BindingMatches(req)
  /\ case.version = g.version
  /\ case.status = AuthorizedStatus(g.tool)
  /\ now <= g.expires

Evaluate(w) ==
  /\ pc[w] = "evaluate"
  /\ IF PolicyAllows(call[w].req)
     THEN Goto(w, "getCase") /\ UNCHANGED call
     ELSE Deny(w, "execution")
  /\ UNCHANGED <<caseDb, ent, pending, now, crashes>>

\* save_policy_decision, then AuthorizationDenied.  A decision id that is
\* already stored makes the insert, and so the call, fail: same state.
SaveDenial(w) ==
  /\ pc[w] = "deny"
  /\ decisions' = decisions \union {<<call[w].denial, call[w].req.exec>>}
  /\ Return(w)
  /\ UNCHANGED <<case, evidence, grant, grantStatus, attempt, receipt, ent,
                 pending, now, crashes>>

\* store.get_case, for the expected version of the started transition.
GetCase(w) ==
  /\ pc[w] = "getCase"
  /\ Goto(w, "reserve")
  /\ call' = [call EXCEPT ![w].version = case.version]
  /\ UNCHANGED <<caseDb, ent, pending, now, crashes>>

HasAttempt(a) == \E e \in Execs : attempt[e].status # "NONE" /\ attempt[e].command.auth = a
AttemptExists(e) == attempt[e].status # "NONE"

\* reserve_attempt on an authorization already reserved: the same command
\* gets the stored attempt back, another one an IdempotencyConflict.
ReserveAgain(w) ==
  /\ pc[w] = "reserve"
  /\ HasAttempt(call[w].req.auth)
  /\ IF \E e \in Execs : attempt[e].command = call[w].req
     THEN Goto(w, "lookup") /\ UNCHANGED call
     ELSE Return(w)
  /\ UNCHANGED <<caseDb, ent, pending, now, crashes>>

\* What the reservation transaction requires: an ISSUED grant, the started
\* transition, and unused primary and unique keys.
CanReserve(w) ==
  LET req == call[w].req IN
  /\ grantStatus[req.auth] = "ISSUED"
  /\ CanAdvance(case, StartedEvent(grant[req.auth].tool), call[w].version, call[w].at)
  /\ <<"execution", req.exec>> \notin decisions
  /\ ~AttemptExists(req.exec)
  /\ \A e \in Execs : AttemptExists(e) => attempt[e].command.key # req.key

\* Mutant of ReserveNew: the grant row keeps its status.
ReserveNewKeepingGrant(w) ==
  LET req == call[w].req IN
  /\ pc[w] = "reserve"
  /\ ~HasAttempt(req.auth)
  /\ CanReserve(w)
  /\ case' = Advanced(case, StartedEvent(grant[req.auth].tool), call[w].at)
  /\ decisions' = decisions \union {<<"execution", req.exec>>}
  /\ attempt' = [attempt EXCEPT ![req.exec] = [command |-> req, status |-> "RESERVED"]]
  /\ Goto(w, "lookup")
  /\ UNCHANGED <<evidence, grant, grantStatus, receipt, ent, pending, now, call, crashes>>

ReserveNew(w) ==
  LET req == call[w].req IN
  /\ pc[w] = "reserve"
  /\ ~HasAttempt(req.auth)
  /\ CanReserve(w)
  /\ case' = Advanced(case, StartedEvent(grant[req.auth].tool), call[w].at)
  /\ decisions' = decisions \union {<<"execution", req.exec>>}
  /\ attempt' = [attempt EXCEPT ![req.exec] = [command |-> req, status |-> "RESERVED"]]
  /\ grantStatus' = [grantStatus EXCEPT ![req.auth] = "RESERVED"]
  /\ Goto(w, "lookup")
  /\ UNCHANGED <<evidence, grant, receipt, ent, pending, now, call, crashes>>

ReserveRefused(w) ==
  /\ pc[w] = "reserve"
  /\ ~HasAttempt(call[w].req.auth)
  /\ ~CanReserve(w)
  /\ Return(w)
  /\ UNCHANGED <<caseDb, ent, pending, now, crashes>>

\* validate_reserved_recovery and the checks after it.  A completed attempt
\* returns its stored receipt; a mismatch raises; otherwise the call goes on.
Recover(w) ==
  LET req == call[w].req
      command == attempt[req.exec].command IN
  /\ pc[w] = "recover"
  /\ IF ~BindingMatches(req) \/ command.auth # req.auth \/ command.params # req.params
     THEN Deny(w, "recovery")
     ELSE IF /\ command = req
             /\ call[w].seenAttempt = "RESERVED"
             /\ call[w].seenGrant = "RESERVED"
     THEN Goto(w, "lookup") /\ UNCHANGED call
     ELSE Return(w)
  /\ UNCHANGED <<caseDb, ent, pending, now, crashes>>

\* Mutant of LookupEffect: a reserved grant never expires.
LookupEffectUnchecked(w) ==
  /\ pc[w] = "lookup"
  /\ Goto(w, "mutate")
  /\ UNCHANGED <<caseDb, ent, pending, now, call, crashes>>

\* get_business_effect, and the expiry rule of a reserved grant.
LookupEffect(w) ==
  LET req == call[w].req IN
  /\ pc[w] = "lookup"
  /\ IF call[w].at > grant[req.auth].expires /\ EffectsWithKey(ent, req.key) = {}
     THEN Deny(w, "expired")
     ELSE Goto(w, "mutate") /\ UNCHANGED call
  /\ UNCHANGED <<caseDb, ent, pending, now, crashes>>

MutatedTo(w, f, outcome) ==
  /\ Goto(w, "verify")
  /\ call' = [call EXCEPT ![w].effect = f, ![w].outcome = outcome]

\* The key is already in the effect ledger: this execution's own effect is a
\* safe no-op, another execution's is a failed precondition.
MutateKnownKey(w) ==
  /\ pc[w] = "mutate"
  /\ \E f \in EffectsWithKey(ent, call[w].req.key) :
       IF f.exec = call[w].req.exec THEN MutatedTo(w, f, "SAFE_NOOP")
       ELSE Goto(w, "readState") /\ UNCHANGED call
  /\ UNCHANGED <<caseDb, ent, pending, now, crashes>>

\* An external process did the same work: no enterprise write.
MutateExternallyDone(w) ==
  LET req == call[w].req IN
  /\ pc[w] = "mutate"
  /\ EffectsWithKey(ent, req.key) = {}
  /\ \E f \in ent.effects :
       /\ ExternallyCompletedBy(ent, grant[req.auth].tool, f)
       /\ MutatedTo(w, f, "SAFE_NOOP")
  /\ UNCHANGED <<caseDb, ent, pending, now, crashes>>

\* The enterprise transaction.  committed_at is the time the call began.
MutatePost(w) ==
  LET req == call[w].req
      tool == grant[req.auth].tool IN
  /\ pc[w] = "mutate"
  /\ EffectsWithKey(ent, req.key) = {}
  /\ \A f \in ent.effects : ~ExternallyCompletedBy(ent, tool, f)
  /\ Preconditions(ent, tool, req.params.revision)
  /\ ent' = Posted(ent, tool, req.exec, req.key, call[w].at)
  /\ MutatedTo(w, NewEffect(tool, req.exec, req.key, call[w].at), "EXECUTED")
  /\ UNCHANGED <<caseDb, pending, now, crashes>>

MutateRefused(w) ==
  LET req == call[w].req
      tool == grant[req.auth].tool IN
  /\ pc[w] = "mutate"
  /\ EffectsWithKey(ent, req.key) = {}
  /\ \A f \in ent.effects : ~ExternallyCompletedBy(ent, tool, f)
  /\ ~Preconditions(ent, tool, req.params.revision)
  /\ Goto(w, "readState")
  /\ UNCHANGED <<caseDb, ent, pending, now, call, crashes>>

\* The snapshot the failed receipt is written from is read after the
\* transaction that refused, and before the denial is saved.
ReadState(w) ==
  /\ pc[w] = "readState"
  /\ Goto(w, "denyPrecondition")
  /\ call' = [call EXCEPT ![w].docs = ent.docs]
  /\ UNCHANGED <<caseDb, ent, pending, now, crashes>>

\* The precondition denial is saved in a transaction of its own; its fixed
\* decision id makes a second save raise before the attempt is completed.
DenyPrecondition(w) ==
  LET id == <<"precondition", call[w].req.exec>> IN
  /\ pc[w] = "denyPrecondition"
  /\ IF id \in decisions THEN Return(w) ELSE Goto(w, "failAttempt") /\ UNCHANGED call
  /\ decisions' = decisions \union {id}
  /\ UNCHANGED <<case, evidence, grant, grantStatus, attempt, receipt, ent,
                 pending, now, crashes>>

\* The receipt of a call, from the snapshot it read.
ReceiptOf(w, result) ==
  [result |-> result, at |-> call[w].at, docs |-> call[w].docs, holds |-> call[w].verified]

\* Mutant of CompleteAttempt: an attempt that has ended is completed again.
CompleteAttemptAgain(w, result, status) ==
  LET req == call[w].req IN
  /\ receipt' = [receipt EXCEPT ![req.exec] = ReceiptOf(w, result)]
  /\ attempt' = [attempt EXCEPT ![req.exec].status = status]
  /\ grantStatus' = [grantStatus EXCEPT ![req.auth] = "CONSUMED"]

\* complete_attempt writes the receipt, ends the attempt and consumes the
\* grant, unless the attempt has already ended.
CompleteAttempt(w, result, status) ==
  LET req == call[w].req IN
  IF attempt[req.exec].status = "RESERVED"
  THEN /\ receipt' = [receipt EXCEPT ![req.exec] = ReceiptOf(w, result)]
       /\ attempt' = [attempt EXCEPT ![req.exec].status = status]
       /\ grantStatus' = [grantStatus EXCEPT ![req.auth] = "CONSUMED"]
  ELSE UNCHANGED <<receipt, attempt, grantStatus>>

\* Mutant of FailAttempt: a failed precondition still advances the case.
FailAttemptAdvancing(w) ==
  /\ pc[w] = "failAttempt"
  /\ CompleteAttempt(w, "FAILED", "VERIFICATION_FAILED")
  /\ case' = Advanced(case, VerifiedEvent(grant[call[w].req.auth].tool), call[w].at)
  /\ Return(w)
  /\ UNCHANGED <<evidence, grant, decisions, ent, pending, now, crashes>>

\* Mutant of FailAttempt: a failed precondition is recorded as a safe no-op.
FailAttemptAsNoop(w) ==
  /\ pc[w] = "failAttempt"
  /\ CompleteAttempt(w, "SAFE_NOOP", "COMPLETED")
  /\ Return(w)
  /\ UNCHANGED <<case, evidence, grant, decisions, ent, pending, now, crashes>>

FailAttempt(w) ==
  /\ pc[w] = "failAttempt"
  /\ CompleteAttempt(w, "FAILED", "VERIFICATION_FAILED")
  /\ Return(w)
  /\ UNCHANGED <<case, evidence, grant, decisions, ent, pending, now, crashes>>

\* read_snapshot, the verifier, and the closure facts of that snapshot.
Verify(w) ==
  LET req == call[w].req
      ok  == Verified(ent, grant[req.auth].tool, req.exec, req.key,
                      req.params.revision, call[w].effect, call[w].outcome) IN
  /\ pc[w] = "verify"
  /\ Goto(w, IF ok THEN "getCaseAgain" ELSE "complete")
  /\ call' = [call EXCEPT ![w].docs = ent.docs, ![w].verified = ok,
                              ![w].closes = SatisfiesClosure(ent)]
  /\ UNCHANGED <<caseDb, ent, pending, now, crashes>>

GetCaseAgain(w) ==
  /\ pc[w] = "getCaseAgain"
  /\ Goto(w, "complete")
  /\ call' = [call EXCEPT ![w].version = case.version]
  /\ UNCHANGED <<caseDb, ent, pending, now, crashes>>

\* The verified transition of a successful call would be accepted.
CanClose(w) ==
  LET tool == grant[call[w].req.auth].tool IN
  /\ CanAdvance(case, VerifiedEvent(tool), call[w].version, call[w].at)
  /\ tool = Invoice => call[w].closes

\* complete_attempt of a verified call: receipt, attempt, grant and verified
\* transition in one transaction, or, when the transition is refused, nothing.
CompleteVerified(w) ==
  LET req == call[w].req IN
  /\ pc[w] = "complete"
  /\ call[w].verified
  /\ IF attempt[req.exec].status = "RESERVED" /\ CanClose(w)
     THEN /\ CompleteAttempt(w, call[w].outcome, "COMPLETED")
          /\ case' = Advanced(case, VerifiedEvent(grant[req.auth].tool), call[w].at)
     ELSE UNCHANGED <<case, receipt, attempt, grantStatus>>
  /\ Return(w)
  /\ UNCHANGED <<evidence, grant, decisions, ent, pending, now, crashes>>

\* complete_attempt of a call whose postconditions failed.
CompleteUnverified(w) ==
  /\ pc[w] = "complete"
  /\ ~call[w].verified
  /\ CompleteAttempt(w, "FAILED", "VERIFICATION_FAILED")
  /\ Return(w)
  /\ UNCHANGED <<case, evidence, grant, decisions, ent, pending, now, crashes>>

\* The process dies between two transactions (also the injected faults
\* fail_after_reservation and fail_after_enterprise_commit).
Crash(w) ==
  /\ pc[w] # "idle"
  /\ crashes < MaxCrashes
  /\ crashes' = crashes + 1
  /\ Return(w)
  /\ UNCHANGED <<caseDb, ent, pending, now>>

-----------------------------------------------------------------------------
\* One step of execute() after its first line.
Step(w) ==
  \/ GetGrant(w) \/ GetAttempt(w) \/ Evaluate(w) \/ SaveDenial(w)
  \/ GetCase(w) \/ ReserveAgain(w) \/ ReserveNew(w) \/ ReserveRefused(w)
  \/ Recover(w) \/ LookupEffect(w)
  \/ MutateKnownKey(w) \/ MutateExternallyDone(w) \/ MutatePost(w) \/ MutateRefused(w)
  \/ ReadState(w) \/ DenyPrecondition(w) \/ FailAttempt(w)
  \/ Verify(w) \/ GetCaseAgain(w) \/ CompleteVerified(w) \/ CompleteUnverified(w)

CaseCommand ==
  \/ Detect
  \/ \E event \in DecisionEvents : RecordInvestigationOutcome(event)
  \/ \E tool \in Tools : RequestApproval(tool)
  \/ \E item \in LateEvidence : AdmitEvidence(item)
  \/ \E a \in Auths, p \in Principals, params \in Params : Approve(a, p, params)

Environment ==
  \/ \E tool \in Tools : ExternalCommit(tool) \/ ExternalRetag(tool)
  \/ AdvanceFailedMessageRevision
  \/ \E q \in DriftQuantities : SetErpReceiptQuantity(q)
  \/ SetInvoiceHold
  \/ Tick

Next ==
  \/ CaseCommand
  \/ Environment
  \/ \E w \in Workers : (\E req \in Requests : Begin(w, req)) \/ Step(w) \/ Crash(w)

Spec == Init /\ [][Next]_vars


-----------------------------------------------------------------------------
(* Safety. *)

ToolOf(e) == grant[attempt[e].command.auth].tool

\* However calls interleave, crash and are retried, and whatever an external
\* process posts, a source record (the failed message, the invoice) gets at
\* most one business effect: restart_receipt_message / release_invoice never
\* post twice.
AtMostOneEffect ==
  \A f, g \in ent.effects : f.tool = g.tool => f = g

\* Every effect the executor posted belongs to a reserved or finished attempt
\* of the same key, under a grant for that very action, and is dated before
\* the grant expired.
EffectAuthorized ==
  \A f \in ent.effects : f.exec \in Execs =>
    /\ AttemptExists(f.exec)
    /\ attempt[f.exec].command.key = f.key
    /\ ToolOf(f.exec) = f.tool
    /\ f.at <= grant[attempt[f.exec].command.auth].expires

\* The three tables that record a spent authorization agree after every
\* transaction: a grant is RESERVED exactly while its one attempt is, and
\* CONSUMED exactly when that attempt has ended with a receipt.
LedgersAgree ==
  /\ \A e, d \in Execs :
       AttemptExists(e) /\ AttemptExists(d)
         /\ attempt[e].command.auth = attempt[d].command.auth => e = d
  /\ \A a \in Auths :
       grantStatus[a] \in {"RESERVED", "CONSUMED"} <=> HasAttempt(a)
  /\ \A e \in Execs : AttemptExists(e) =>
       /\ grantStatus[attempt[e].command.auth] = "RESERVED"
            <=> attempt[e].status = "RESERVED"
       /\ receipt[e].result = "NONE" <=> attempt[e].status = "RESERVED"

\* An attempt that is in flight, or that failed, holds the case in the
\* executing status of its tool, alone: nothing else can be authorised or run
\* (the hard stop after a failed verification).
OpenAttemptHoldsCase ==
  /\ \A e \in Execs :
       attempt[e].status \in {"RESERVED", "VERIFICATION_FAILED"} =>
         case.status = ExecutingStatus(ToolOf(e))
  /\ \A e, d \in Execs :
       /\ attempt[e].status \in {"RESERVED", "VERIFICATION_FAILED"}
       /\ attempt[d].status \in {"RESERVED", "VERIFICATION_FAILED"}
       => e = d

OneTimeStep ==
  /\ \A a \in Auths :
       /\ grantStatus[a] # "NONE" => grant'[a] = grant[a]
       /\ <<grantStatus[a], grantStatus'[a]>> \notin
            {<<"CONSUMED", "RESERVED">>, <<"CONSUMED", "ISSUED">>,
             <<"RESERVED", "ISSUED">>, <<"ISSUED", "CONSUMED">>}
  /\ \A e \in Execs : receipt[e].result # "NONE" => receipt'[e] = receipt[e]

\* An authorization is spent once: a grant row never changes what was signed,
\* never moves back, and a stored receipt is never rewritten.
OneTimeAuthorization == [][OneTimeStep]_vars

-----------------------------------------------------------------------------
(* Liveness: callers retry a reserved attempt, and a call that is not       *)
(* killed runs on.  Crashes are bounded by MaxCrashes.                      *)

RetryReserved ==
  \E w \in Workers, e \in Execs :
    attempt[e].status = "RESERVED" /\ Begin(w, attempt[e].command)

FairSpec ==
  /\ Spec
  /\ \A w \in Workers : WF_vars(Step(w))
  /\ SF_vars(RetryReserved)

\* An effect that reached the enterprise is eventually accounted for in the
\* case ledger: crash recovery by the same execution writes its receipt.
EffectReceipted ==
  \A e \in Execs :
    (\E f \in ent.effects : f.exec = e) ~> (receipt[e].result # "NONE")

-----------------------------------------------------------------------------
(* Refinement: the executor implements OnceOnlySettlement. *)

AttemptsOn(tool, statuses) ==
  { e \in Execs : attempt[e].status \in statuses /\ ToolOf(e) = tool }

PostedBy(tool) ==
  CASE SourceEffects(ent, tool) = {} -> "no"
    [] \E f \in SourceEffects(ent, tool) : f.exec \in Execs -> "local"
    [] OTHER -> "external"

OutcomeOf(tool) ==
  IF AttemptsOn(tool, {"RESERVED"}) # {} THEN "reserved"
  ELSE IF AttemptsOn(tool, {"VERIFICATION_FAILED"}) # {} THEN "failed"
  ELSE IF AttemptsOn(tool, {"COMPLETED"}) # {} THEN "success"
  ELSE "open"

Settlement == INSTANCE OnceOnlySettlement
  WITH posted  <- [t \in Tools |-> PostedBy(t)],
       outcome <- [t \in Tools |-> OutcomeOf(t)],
       closed  <- (case.status = "CLOSED")

\* Every step of the calls, the lifecycle and the outside world is a step of
\* the once-only contract or invisible to it.
ImplementsSettlement == Settlement!Spec

=============================================================================
