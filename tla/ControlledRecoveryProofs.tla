----------------------- MODULE ControlledRecoveryProofs -----------------------
(***************************************************************************)
(* Proofs about ControlledRecovery for every value of its constants: any   *)
(* number of concurrent calls, authorizations, executions and keys.        *)
(*                                                                         *)
(* TypeOK is inductive only together with CallsOK (a running call has a    *)
(* request, and after get_grant its grant exists).  The safety invariant   *)
(* has three more parts: what the tables of the case database say of each  *)
(* other (LedgerInv), what a running call knows of them (CallInv), and     *)
(* what the enterprise's effects say of both (EffectInv).  With SettledInv *)
(* (how far the case is, what a success and a verdict stand on) the        *)
(* specification implements OnceOnlySettlement.                            *)
(*                                                                         *)
(* Of the golden runner, GoldenInv says what its script has established at *)
(* each position (nothing signed, the receipt signed, the receipt in       *)
(* execution, the receipt done, the release in execution), and its outcome *)
(* follows from what stood where it ended.                                 *)
(*                                                                         *)
(* The audit comes last.  ReplayInv: the log replays to the projection,    *)
(* and each step appends the one event the table has between two statuses. *)
(* AuditInv: what grants, attempts, receipts, decisions and effects say of *)
(* each other, and what a call has to know before its next write; rows are *)
(* only added (Growth), so what was right stays right.  DocInv: which      *)
(* documents a call has read and a receipt lists, and, with one call at a  *)
(* time, that nothing is posted for an execution that already read and     *)
(* recorded that nothing was.                                              *)
(***************************************************************************)
EXTENDS GoldenRunner, FiniteSetTheorems, SequenceTheorems, TLAPS

-----------------------------------------------------------------------------
(* Facts about the transition table. *)

CaseRecords == [status : CaseStatus, version : Nat, evidenceRevision : Nat, updatedAt : Nat]

\* The table is a function of status and event: a triple in it names the
\* status NextStatus returns.
LEMMA NextStatusIs ==
  ASSUME NEW s, NEW e, NEW t \in CaseStatus, <<s, e, t>> \in TRANSITIONS
  PROVE  NextStatus(s, e) = t
<1>1. ASSUME NEW u \in CaseStatus, <<s, e, u>> \in TRANSITIONS
      PROVE  u = t
  BY <1>1 DEF TRANSITIONS
<1>2. QED
  BY <1>1 DEF NextStatus

\* An accepted event yields a well-formed case.
LEMMA AdvancedType ==
  ASSUME NEW c \in CaseRecords, NEW e, NEW v, NEW at \in Nat, CanAdvance(c, e, v, at)
  PROVE  Advanced(c, e, at) \in CaseRecords
<1>1. NextStatus(c.status, e) \in CaseStatus
  BY NextStatusIs DEF CanAdvance
<1>2. QED
  BY <1>1 DEF Advanced, CaseRecords

\* Execution starts from the authorised status of the tool and no other.
LEMMA StartsFromAuthorized ==
  ASSUME NEW c, NEW v, NEW at, NEW tool \in Tools,
         CanAdvance(c, StartedEvent(tool), v, at)
  PROVE  /\ c.status = AuthorizedStatus(tool)
         /\ Advanced(c, StartedEvent(tool), at).status = ExecutingStatus(tool)
<1>1. PICK s \in CaseStatus : <<c.status, StartedEvent(tool), s>> \in TRANSITIONS
  BY DEF CanAdvance
<1>2. c.status = AuthorizedStatus(tool) /\ s = ExecutingStatus(tool)
  BY <1>1 DEF TRANSITIONS, StartedEvent, AuthorizedStatus, ExecutingStatus, Tools
<1>3. QED
  BY <1>1, <1>2, NextStatusIs DEF Advanced

\* An executing case accepts the verified event of its tool and nothing else.
LEMMA ExecutingOnlyVerifies ==
  ASSUME NEW c, NEW e, NEW v, NEW at, NEW tool \in Tools,
         c.status = ExecutingStatus(tool), CanAdvance(c, e, v, at)
  PROVE  e = VerifiedEvent(tool)
<1>1. PICK s \in CaseStatus : <<c.status, e, s>> \in TRANSITIONS
  BY DEF CanAdvance
<1>2. QED
  BY <1>1 DEF TRANSITIONS, ExecutingStatus, VerifiedEvent, Tools

-----------------------------------------------------------------------------
(* The invariant. *)

\* Control points after get_grant found a grant.
Granted == ControlPoints \ {"idle", "getGrant"}
\* Control points that hold a reserved (or finished) attempt.
Reserved == {"lookup", "mutate", "readState", "denyPrecondition", "failAttempt", "verify",
             "getCaseAgain", "complete"}
\* Control points after the enterprise answered.
Answered == {"verify", "getCaseAgain", "complete"}

\* What a running call knows.
CallsOK ==
  \A w \in Workers :
    /\ pc[w] # "idle" => call[w].req \in Requests
    /\ pc[w] \in Granted => grantStatus[call[w].req.auth] # "NONE"
    /\ pc[w] = "deny" => call[w].denial \in DenialKinds
    /\ pc[w] \in Answered => call[w].effect \in Effects /\ call[w].outcome # "NONE"

\* A grant row holds a grant.
GrantsOK == \A a \in Auths : grantStatus[a] # "NONE" => grant[a] \in Grants

TypeInv == TypeOK /\ CallsOK /\ GrantsOK

-----------------------------------------------------------------------------
(* The operators of the enterprise preserve its type. *)

\* Ids and effect types of both actions are in their namespaces.
LEMMA ToolFacts ==
  ASSUME NEW tool \in Tools
  PROVE  /\ ExternalId(tool) \in ExternalIds
         /\ LocalType(tool) \in EffectTypes
         /\ ExternalType(tool) \in EffectTypes
BY DEF Tools, ExternalId, ExternalIds, LocalType, ExternalType, EffectTypes

\* A row of Enterprises, written out.
LEMMA EnterpriseFields ==
  ASSUME NEW e \in Enterprises
  PROVE  /\ e.message \in [revision : Nat, status : {"FAILED", "CONSUMED"},
                           retryable : BOOLEAN,
                           consumedBy : Execs \union ExternalIds \union {NoOne}]
         /\ e.erp \in Nat /\ e.warehouse \in Nat /\ e.queued \in Nat
         /\ e.docs \in SUBSET Documents
         /\ e.invoice \in [revision : Nat, state : {"HELD", "RELEASED"},
                           hold : {"RECEIPT_MISMATCH", "REVIEW_HOLD", "NONE"},
                           otherHolds : BOOLEAN,
                           releasedBy : Execs \union ExternalIds \union {NoOne}]
         /\ e.effects \in SUBSET Effects
BY DEF Enterprises

\* Posting an effect (restart_receipt_message, release_invoice) keeps the type.
LEMMA PostedType ==
  ASSUME NEW e \in Enterprises, NEW tool \in Tools,
         NEW x \in Execs \union ExternalIds, NEW k \in Keys \union ExternalIds,
         NEW at \in Nat
  PROVE  /\ Posted(e, tool, x, k, at) \in Enterprises
         /\ NewEffect(tool, x, k, at) \in Effects
<1>1. NewEffect(tool, x, k, at) \in Effects
  BY ToolFacts DEF NewEffect, Effects
<1>2. MissingQuantity \in Nat
  BY QuantityAssumption
<1>3. [exec |-> x, key |-> k, quantity |-> MissingQuantity] \in Documents
  BY <1>2 DEF Documents
<1>4. CASE tool = Receipt
  <2> DEFINE message == [revision |-> e.message.revision + 1, status |-> "CONSUMED",
                         retryable |-> e.message.retryable, consumedBy |-> x]
             docs == e.docs \union {[exec |-> x, key |-> k, quantity |-> MissingQuantity]}
             effects == e.effects \union {NewEffect(Receipt, x, k, at)}
  <2>1. message \in [revision : Nat, status : {"FAILED", "CONSUMED"},
                     retryable : BOOLEAN,
                     consumedBy : Execs \union ExternalIds \union {NoOne}]
    BY EnterpriseFields
  <2>2. docs \in SUBSET Documents /\ effects \in SUBSET Effects
    BY EnterpriseFields, <1>1, <1>3, <1>4
  <2>3. e.erp + MissingQuantity \in Nat
    BY EnterpriseFields, <1>2
  <2>4. Posted(e, tool, x, k, at) =
          [message |-> message, erp |-> e.erp + MissingQuantity,
           warehouse |-> e.warehouse, queued |-> 0, docs |-> docs,
           invoice |-> e.invoice, effects |-> effects]
    BY <1>4 DEF Posted, ReceiptPosted
  <2> HIDE DEF message, docs, effects
  <2>5. QED
    BY <1>1, <2>1, <2>2, <2>3, <2>4, EnterpriseFields DEF Enterprises
<1>5. CASE tool # Receipt
  <2> DEFINE invoice == [revision |-> e.invoice.revision + 1, state |-> "RELEASED",
                         hold |-> "NONE", otherHolds |-> e.invoice.otherHolds,
                         releasedBy |-> x]
             effects == e.effects \union {NewEffect(Invoice, x, k, at)}
  <2>1. invoice \in [revision : Nat, state : {"HELD", "RELEASED"},
                     hold : {"RECEIPT_MISMATCH", "REVIEW_HOLD", "NONE"},
                     otherHolds : BOOLEAN,
                     releasedBy : Execs \union ExternalIds \union {NoOne}]
    BY EnterpriseFields
  <2>2. effects \in SUBSET Effects
    BY EnterpriseFields, <1>1, <1>5 DEF Tools
  <2>3. Posted(e, tool, x, k, at) = [e EXCEPT !.invoice = invoice, !.effects = effects]
    BY <1>5 DEF Posted, InvoiceReleased
  <2> HIDE DEF invoice, effects
  <2>4. QED
    BY <1>1, <2>1, <2>2, <2>3 DEF Enterprises
<1>6. QED
  BY <1>4, <1>5

\* Relabelling an effect as external keeps the type.
LEMMA RetaggedType ==
  ASSUME NEW e \in Enterprises, NEW tool \in Tools
  PROVE  Retagged(e, tool) \in Enterprises
<1>1. \A f \in Effects : [f EXCEPT !.type = ExternalType(tool)] \in Effects
  BY ToolFacts DEF Effects
<1>2. e.effects \subseteq Effects
  BY DEF Enterprises
<1>3. { IF f.tool = tool /\ f.exec = ExternalId(tool)
        THEN [f EXCEPT !.type = ExternalType(tool)] ELSE f : f \in e.effects }
        \subseteq Effects
  BY <1>1, <1>2
<1>4. QED
  BY <1>3 DEF Retagged, Enterprises

\* Drift of a revision, a quantity or a hold keeps the type.
LEMMA DriftType ==
  ASSUME NEW e \in Enterprises
  PROVE  /\ MessageRevisionAdvanced(e) \in Enterprises
         /\ \A q \in Nat : ErpReceiptQuantitySet(e, q) \in Enterprises
         /\ InvoiceHoldSet(e) \in Enterprises
<1>1. MessageRevisionAdvanced(e) \in Enterprises
  <2> DEFINE message == [e.message EXCEPT !.revision = e.message.revision + 1]
  <2>1. message \in [revision : Nat, status : {"FAILED", "CONSUMED"},
                     retryable : BOOLEAN,
                     consumedBy : Execs \union ExternalIds \union {NoOne}]
    BY EnterpriseFields
  <2>2. MessageRevisionAdvanced(e) = [e EXCEPT !.message = message]
    BY DEF MessageRevisionAdvanced
  <2> HIDE DEF message
  <2>3. QED
    BY <2>1, <2>2 DEF Enterprises
<1>2. \A q \in Nat : ErpReceiptQuantitySet(e, q) \in Enterprises
  BY DEF ErpReceiptQuantitySet, Enterprises
<1>3. InvoiceHoldSet(e) \in Enterprises
  <2> DEFINE invoice == [revision |-> e.invoice.revision + 1, state |-> "HELD",
                         hold |-> "REVIEW_HOLD", otherHolds |-> e.invoice.otherHolds,
                         releasedBy |-> e.invoice.releasedBy]
  <2>1. invoice \in [revision : Nat, state : {"HELD", "RELEASED"},
                     hold : {"RECEIPT_MISMATCH", "REVIEW_HOLD", "NONE"},
                     otherHolds : BOOLEAN,
                     releasedBy : Execs \union ExternalIds \union {NoOne}]
    BY EnterpriseFields
  <2>2. InvoiceHoldSet(e) = [e EXCEPT !.invoice = invoice]
    BY DEF InvoiceHoldSet
  <2> HIDE DEF invoice
  <2>3. QED
    BY <2>1, <2>2 DEF Enterprises
<1>4. QED
  BY <1>1, <1>2, <1>3

-----------------------------------------------------------------------------
(* Type correctness: what the control operators do to pc and call. *)

CallType ==
  /\ pc \in [Workers -> ControlPoints]
  /\ call \in [Workers -> Calls]
  /\ CallsOK

\* No transaction removes a grant row.
GrantsKept == \A a \in Auths : grantStatus[a] # "NONE" => grantStatus'[a] # "NONE"

\* The components of a request, from RequestAssumption.
LEMMA RequestFields ==
  ASSUME NEW r \in Requests
  PROVE  /\ r.auth \in Auths /\ r.exec \in Execs /\ r.key \in Keys
         /\ r.principal \in Principals /\ r.params \in Params
BY RequestAssumption DEF RequestType

\* An idle worker's locals are well typed.
LEMMA NoCallType == NoCall \in Calls
BY DEF NoCall, Calls, GrantStatuses, AttemptStatuses

\* Steps that move no call keep the calls well typed.
LEMMA SamePc ==
  ASSUME CallType, UNCHANGED <<pc, call>>, GrantsKept
  PROVE  CallType'
BY RequestFields DEF CallType, CallsOK, GrantsKept, Granted

\* A call that returns forgets its locals.
LEMMA ReturnKeeps ==
  ASSUME CallType, NEW w \in Workers, Return(w), GrantsKept
  PROVE  CallType'
<1>1. pc' \in [Workers -> ControlPoints] /\ call' \in [Workers -> Calls]
  BY NoCallType DEF CallType, Return, Goto, ControlPoints
<1>2. CallsOK'
  <2> SUFFICES ASSUME NEW v \in Workers
               PROVE  /\ pc'[v] # "idle" => call'[v].req \in Requests
                      /\ pc'[v] \in Granted => grantStatus'[call'[v].req.auth] # "NONE"
                      /\ pc'[v] = "deny" => call'[v].denial \in DenialKinds
                      /\ pc'[v] \in Answered =>
                           call'[v].effect \in Effects /\ call'[v].outcome # "NONE"
    BY DEF CallsOK
  <2>1. CASE v = w
    BY <2>1 DEF CallType, Return, Goto, Granted, Answered
  <2>2. CASE v # w
    <3>1. pc'[v] = pc[v] /\ call'[v] = call[v]
      BY <2>2 DEF CallType, Return, Goto
    <3>2. QED
      BY <3>1, RequestFields DEF CallType, CallsOK, GrantsKept, Granted
  <2>3. QED
    BY <2>1, <2>2
<1>3. QED
  BY <1>1, <1>2 DEF CallType

\* A call that goes on, with new locals r.
LEMMA ProceedKeeps ==
  ASSUME CallType, NEW w \in Workers, NEW point \in ControlPoints, NEW r \in Calls,
         pc' = [pc EXCEPT ![w] = point], call' = [call EXCEPT ![w] = r], GrantsKept,
         r.req \in Requests,
         point \in Granted => grantStatus'[r.req.auth] # "NONE",
         point = "deny" => r.denial \in DenialKinds,
         point \in Answered => r.effect \in Effects /\ r.outcome # "NONE"
  PROVE  CallType'
<1>1. pc' \in [Workers -> ControlPoints] /\ call' \in [Workers -> Calls]
  BY DEF CallType
<1>2. CallsOK'
  <2> SUFFICES ASSUME NEW v \in Workers
               PROVE  /\ pc'[v] # "idle" => call'[v].req \in Requests
                      /\ pc'[v] \in Granted => grantStatus'[call'[v].req.auth] # "NONE"
                      /\ pc'[v] = "deny" => call'[v].denial \in DenialKinds
                      /\ pc'[v] \in Answered =>
                           call'[v].effect \in Effects /\ call'[v].outcome # "NONE"
    BY DEF CallsOK
  <2>1. CASE v = w
    BY <2>1 DEF CallType
  <2>2. CASE v # w
    <3>1. pc'[v] = pc[v] /\ call'[v] = call[v]
      BY <2>2 DEF CallType
    <3>2. QED
      BY <3>1, RequestFields DEF CallType, CallsOK, GrantsKept, Granted
  <2>3. QED
    BY <2>1, <2>2
<1>3. QED
  BY <1>1, <1>2 DEF CallType

\* A call that moves on from a running point with the locals it has.
LEMMA GotoKeeps ==
  ASSUME CallType, NEW w \in Workers, NEW point \in ControlPoints, Goto(w, point),
         UNCHANGED call, GrantsKept, pc[w] \in Granted, point # "deny",
         point \in Answered => pc[w] \in Answered
  PROVE  CallType'
<1>1. call' = [call EXCEPT ![w] = call[w]] /\ call[w] \in Calls
  BY DEF CallType
<1>2. call[w].req \in Requests /\ grantStatus[call[w].req.auth] # "NONE"
  BY DEF CallType, CallsOK, Granted
<1>3. grantStatus'[call[w].req.auth] # "NONE"
  BY <1>2, RequestFields DEF GrantsKept
<1>4. point \in Answered => call[w].effect \in Effects /\ call[w].outcome # "NONE"
  BY DEF CallType, CallsOK
<1>5. QED
  BY <1>1, <1>2, <1>3, <1>4, ProceedKeeps DEF Goto

\* A call that is denied goes on to save its denial.
LEMMA DenyKeeps ==
  ASSUME CallType, NEW w \in Workers, NEW kind \in DenialKinds, Deny(w, kind),
         GrantsKept, pc[w] \in Granted
  PROVE  CallType'
<1> DEFINE r == [call[w] EXCEPT !.denial = kind]
<1>1. call[w] \in Calls
  BY DEF CallType
<1>2. r \in Calls /\ r.req = call[w].req /\ r.denial = kind
  BY <1>1 DEF Calls
<1>3. call' = [call EXCEPT ![w] = r]
  BY DEF Deny, CallType
<1>4. call[w].req \in Requests /\ grantStatus[call[w].req.auth] # "NONE"
  BY DEF CallType, CallsOK, Granted
<1>5. grantStatus'[call[w].req.auth] # "NONE"
  BY <1>4, RequestFields DEF GrantsKept
<1>6. pc' = [pc EXCEPT ![w] = "deny"] /\ "deny" \in ControlPoints
  BY DEF Deny, Goto, ControlPoints
<1> HIDE DEF r
<1>7. QED
  BY <1>1, <1>2, <1>3, <1>4, <1>5, <1>6, ProceedKeeps DEF Answered

-----------------------------------------------------------------------------
(* Type correctness, group of actions by group of actions. *)

\* The part of TypeOK about the case database.
CaseDbType ==
  /\ case \in Cases
  /\ evidence \subseteq DetectorEvidence \union LateEvidence
  /\ grant \in [Auths -> Grants \union {NoGrant}]
  /\ grantStatus \in [Auths -> GrantStatuses]
  /\ decisions \subseteq DenialKinds \X Execs
  /\ attempt \in [Execs -> Attempts]
  /\ receipt \in [Execs -> Receipts]

WorldType == ent \in Enterprises /\ pending \subseteq Tools /\ now \in Nat /\ crashes \in Nat

\* The invariant, split by the database its parts describe.
LEMMA TypeInvParts ==
  TypeInv <=> CaseDbType /\ WorldType /\ CallType /\ GrantsOK
BY DEF TypeInv, TypeOK, CaseDbType, WorldType, CallType

\* The seeded state is well typed.
LEMMA InitType ==
  ASSUME Init
  PROVE  TypeInv
<1>1. CaseDbType
  BY DEF Init, CaseDbType, Cases, CaseStatus, NoGrant, GrantStatuses, NoAttempt, Attempts,
         AttemptStatuses, NoReceipt, Receipts
<1>2. ent \in Enterprises
  <2>1. PICK r \in RetryChoices, q \in WarehouseChoices, h \in OtherHoldChoices :
          ent = SeededEnterprise(r, q, h)
    BY DEF Init
  <2>2. r \in BOOLEAN /\ q \in Nat /\ h \in BOOLEAN
    BY BoundAssumption
  <2>3. OrderedQuantity - MissingQuantity \in Nat /\ MissingQuantity \in Nat
    BY QuantityAssumption
  <2> DEFINE message == [revision |-> 1, status |-> "FAILED", retryable |-> r,
                         consumedBy |-> NoOne]
             invoice == [revision |-> 1, state |-> "HELD", hold |-> "RECEIPT_MISMATCH",
                         otherHolds |-> h, releasedBy |-> NoOne]
  <2>4. message \in [revision : Nat, status : {"FAILED", "CONSUMED"},
                     retryable : BOOLEAN,
                     consumedBy : Execs \union ExternalIds \union {NoOne}]
    BY <2>2
  <2>5. invoice \in [revision : Nat, state : {"HELD", "RELEASED"},
                     hold : {"RECEIPT_MISMATCH", "REVIEW_HOLD", "NONE"},
                     otherHolds : BOOLEAN,
                     releasedBy : Execs \union ExternalIds \union {NoOne}]
    BY <2>2
  <2>6. SeededEnterprise(r, q, h) =
          [message |-> message, erp |-> OrderedQuantity - MissingQuantity,
           warehouse |-> q, queued |-> MissingQuantity, docs |-> {},
           invoice |-> invoice, effects |-> {}]
    BY DEF SeededEnterprise
  <2> HIDE DEF message, invoice
  <2>7. QED
    BY <2>1, <2>2, <2>3, <2>4, <2>5, <2>6 DEF Enterprises
<1>3. WorldType /\ GrantsOK
  BY <1>2 DEF Init, WorldType, GrantsOK
<1>4. CallType
  BY NoCallType DEF Init, CallType, CallsOK, ControlPoints, Granted, Answered
<1>5. QED
  BY <1>1, <1>3, <1>4, TypeInvParts

\* An accepted lifecycle event yields a well-formed case.
LEMMA LifecycleType ==
  ASSUME TypeInv, NEW event, Lifecycle(event)
  PROVE  case' \in Cases
BY AdvancedType DEF Lifecycle, TypeInv, TypeOK, Cases, CaseRecords

\* A step that leaves the calls and the grant rows alone, or only adds to them.
LEMMA SameCalls ==
  ASSUME TypeInv, CaseDbType', WorldType', GrantsOK', UNCHANGED <<pc, call>>, GrantsKept
  PROVE  TypeInv'
<1>1. CallType'
  BY SamePc, TypeInvParts
<1>2. QED
  BY <1>1 DEF TypeInv, TypeOK, CaseDbType, WorldType, CallType

\* A lifecycle command that issues no grant.
LEMMA CommandKeeps ==
  ASSUME TypeInv, case' \in Cases,
         evidence' \subseteq DetectorEvidence \union LateEvidence,
         UNCHANGED <<grant, grantStatus, decisions, attempt, receipt, ent, pending, now,
                     pc, call, crashes>>
  PROVE  TypeInv'
<1>1. CaseDbType' /\ WorldType' /\ GrantsOK'
  BY TypeInvParts DEF CaseDbType, WorldType, GrantsOK
<1>2. GrantsKept /\ UNCHANGED <<pc, call>>
  BY DEF GrantsKept
<1>3. QED
  BY <1>1, <1>2, SameCalls

\* A step of the outside world.
LEMMA WorldKeeps ==
  ASSUME TypeInv, WorldType', UNCHANGED caseDb, UNCHANGED <<pc, call>>
  PROVE  TypeInv'
<1>1. CaseDbType' /\ GrantsOK' /\ GrantsKept
  BY TypeInvParts DEF caseDb, CaseDbType, GrantsOK, GrantsKept
<1>2. QED
  BY <1>1, SameCalls

\* Commands of the case and authorization services keep the invariant.
LEMMA CaseCommandType ==
  ASSUME TypeInv, CaseCommand
  PROVE  TypeInv'
<1>0. CaseDbType /\ WorldType /\ GrantsOK
  BY TypeInvParts
<1>1. CASE Detect
  <2>1. case' \in Cases
    BY <1>1, LifecycleType DEF Detect
  <2>2. QED
    BY <1>0, <1>1, <2>1, CommandKeeps DEF Detect, CaseDbType
<1>2. ASSUME NEW event \in DecisionEvents, RecordInvestigationOutcome(event)
      PROVE  TypeInv'
  <2>1. case' \in Cases
    BY <1>2, LifecycleType DEF RecordInvestigationOutcome
  <2>2. QED
    BY <1>0, <1>2, <2>1, CommandKeeps DEF RecordInvestigationOutcome, CaseDbType
<1>3. ASSUME NEW tool \in Tools, RequestApproval(tool)
      PROVE  TypeInv'
  <2>1. case' \in Cases
    BY <1>3, LifecycleType DEF RequestApproval
  <2>2. QED
    BY <1>0, <1>3, <2>1, CommandKeeps DEF RequestApproval, CaseDbType
<1>4. ASSUME NEW item \in LateEvidence, AdmitEvidence(item)
      PROVE  TypeInv'
  <2>1. case' \in Cases
    BY <1>4, LifecycleType DEF AdmitEvidence
  <2>2. QED
    BY <1>0, <1>4, <2>1, CommandKeeps DEF AdmitEvidence, CaseDbType
<1>5. ASSUME NEW a \in Auths, NEW p \in Principals, NEW params \in Params,
             Approve(a, p, params)
      PROVE  TypeInv'
  <2> DEFINE g == [version |-> case.version + 1, tool |-> params.tool, principal |-> p,
                   params |-> params, evidence |-> evidence, expires |-> now + GrantTtl]
  <2>1. g \in Grants
    <3>1. case.version + 1 \in Nat /\ now + GrantTtl \in Nat /\ params.tool \in Tools
      BY <1>0, BoundAssumption DEF CaseDbType, WorldType, Cases, Params
    <3>2. QED
      BY <1>0, <3>1 DEF Grants, CaseDbType
  <2>2. case' \in Cases
    BY <1>5, LifecycleType DEF Approve
  <2>3. /\ grant' = [grant EXCEPT ![a] = g]
        /\ grantStatus' = [grantStatus EXCEPT ![a] = "ISSUED"]
        /\ UNCHANGED <<evidence, decisions, attempt, receipt, ent, pending, now, pc,
                       call, crashes>>
    BY <1>5 DEF Approve
  <2> HIDE DEF g
  <2>4. GrantsKept
    BY <1>0, <2>3 DEF GrantsKept, CaseDbType
  <2>5. CaseDbType'
    BY <1>0, <2>1, <2>2, <2>3 DEF CaseDbType, GrantStatuses
  <2>6. GrantsOK'
    BY <1>0, <2>1, <2>3 DEF GrantsOK, CaseDbType
  <2>7. WorldType'
    BY <1>0, <2>3 DEF WorldType
  <2>8. QED
    BY <2>3, <2>4, <2>5, <2>6, <2>7, SameCalls
<1>6. QED
  BY <1>1, <1>2, <1>3, <1>4, <1>5 DEF CaseCommand

\* External work, drift and time keep the invariant.
LEMMA EnvironmentType ==
  ASSUME TypeInv, Environment
  PROVE  TypeInv'
<1>0. WorldType
  BY TypeInvParts
<1>1. ASSUME NEW tool \in Tools, ExternalCommit(tool)
      PROVE  TypeInv'
  <2>1. Posted(ent, tool, ExternalId(tool), ExternalId(tool), now) \in Enterprises
    BY <1>0, ToolFacts, PostedType DEF WorldType
  <2>2. WorldType'
    BY <1>0, <1>1, <2>1 DEF ExternalCommit, WorldType
  <2>3. QED
    BY <1>1, <2>2, WorldKeeps DEF ExternalCommit
<1>2. ASSUME NEW tool \in Tools, ExternalRetag(tool)
      PROVE  TypeInv'
  <2>1. WorldType'
    BY <1>0, <1>2, RetaggedType DEF ExternalRetag, WorldType
  <2>2. QED
    BY <1>2, <2>1, WorldKeeps DEF ExternalRetag
<1>3. CASE AdvanceFailedMessageRevision
  <2>1. WorldType'
    BY <1>0, <1>3, DriftType DEF AdvanceFailedMessageRevision, WorldType
  <2>2. QED
    BY <1>3, <2>1, WorldKeeps DEF AdvanceFailedMessageRevision
<1>4. ASSUME NEW q \in DriftQuantities, SetErpReceiptQuantity(q)
      PROVE  TypeInv'
  <2>1. WorldType'
    BY <1>0, <1>4, DriftType, BoundAssumption DEF SetErpReceiptQuantity, WorldType
  <2>2. QED
    BY <1>4, <2>1, WorldKeeps DEF SetErpReceiptQuantity
<1>5. CASE SetInvoiceHold
  <2>1. WorldType'
    BY <1>0, <1>5, DriftType DEF SetInvoiceHold, WorldType
  <2>2. QED
    BY <1>5, <2>1, WorldKeeps DEF SetInvoiceHold
<1>6. CASE Tick
  <2>1. WorldType'
    BY <1>0, <1>6 DEF Tick, WorldType
  <2>2. QED
    BY <1>6, <2>1, WorldKeeps DEF Tick
<1>7. QED
  BY <1>1, <1>2, <1>3, <1>4, <1>5, <1>6 DEF Environment

\* A step of a call that writes neither database.
LEMMA ReadKeeps ==
  ASSUME TypeInv, CallType', UNCHANGED <<caseDb, ent, pending, now>>, crashes' \in Nat
  PROVE  TypeInv'
<1>1. CaseDbType' /\ GrantsOK' /\ WorldType'
  BY TypeInvParts DEF caseDb, CaseDbType, GrantsOK, WorldType
<1>2. QED
  BY <1>1 DEF TypeInv, TypeOK, CaseDbType, WorldType, CallType

\* A granted call that moves on with new locals for the same request.
LEMMA UpdateKeeps ==
  ASSUME CallType, NEW w \in Workers, NEW point \in ControlPoints, NEW r \in Calls,
         pc' = [pc EXCEPT ![w] = point], call' = [call EXCEPT ![w] = r], GrantsKept,
         pc[w] \in Granted, r.req = call[w].req, point # "deny",
         point \in Answered => r.effect \in Effects /\ r.outcome # "NONE"
  PROVE  CallType'
<1>1. call[w].req \in Requests /\ grantStatus[call[w].req.auth] # "NONE"
  BY DEF CallType, CallsOK, Granted
<1>2. grantStatus'[call[w].req.auth] # "NONE"
  BY <1>1, RequestFields DEF GrantsKept
<1>3. QED
  BY <1>1, <1>2, ProceedKeeps

\* The first line of execute() keeps the invariant.
LEMMA BeginType ==
  ASSUME TypeInv, NEW w \in Workers, NEW req \in Requests, Begin(w, req)
  PROVE  TypeInv'
<1> DEFINE r == [NoCall EXCEPT !.req = req, !.at = now]
<1>1. CallType /\ now \in Nat /\ crashes \in Nat
  BY TypeInvParts DEF WorldType
<1>2. r \in Calls /\ r.req = req
  BY <1>1, NoCallType DEF Calls
<1>3. pc' = [pc EXCEPT ![w] = "getGrant"] /\ call' = [call EXCEPT ![w] = r]
  BY DEF Begin, Goto
<1>4. GrantsKept
  BY DEF Begin, caseDb, GrantsKept
<1> HIDE DEF r
<1>5. CallType'
  BY <1>1, <1>2, <1>3, <1>4, ProceedKeeps DEF ControlPoints, Granted, Answered
<1>6. QED
  BY <1>1, <1>5, ReadKeeps DEF Begin

\* A process that dies keeps the invariant.
LEMMA CrashType ==
  ASSUME TypeInv, NEW w \in Workers, Crash(w)
  PROVE  TypeInv'
<1>1. CallType /\ crashes \in Nat
  BY TypeInvParts DEF WorldType
<1>2. GrantsKept
  BY DEF Crash, caseDb, GrantsKept
<1>3. CallType'
  BY <1>1, <1>2, ReturnKeeps DEF Crash
<1>4. QED
  BY <1>1, <1>3, ReadKeeps DEF Crash

\* The enterprise answered with effect f.
LEMMA MutatedKeeps ==
  ASSUME CallType, NEW w \in Workers, NEW f \in Effects,
         NEW outcome \in {"EXECUTED", "SAFE_NOOP"}, MutatedTo(w, f, outcome),
         GrantsKept, pc[w] \in Granted
  PROVE  CallType'
<1> DEFINE r == [call[w] EXCEPT !.effect = f, !.outcome = outcome]
<1>1. call[w] \in Calls
  BY DEF CallType
<1>2. /\ r \in Calls
      /\ r.req = call[w].req /\ r.effect = f /\ r.outcome = outcome
  BY <1>1 DEF Calls
<1>3. call' = [call EXCEPT ![w] = r] /\ pc' = [pc EXCEPT ![w] = "verify"]
  BY DEF MutatedTo, Goto, CallType
<1> HIDE DEF r
<1>4. QED
  BY <1>2, <1>3, UpdateKeeps DEF ControlPoints

\* The steps of a call that only read: get_grant, get_attempt, the policy,
\* get_case, refused or repeated reservations, recovery, look-up, no-ops.
ReadStep(w) ==
  \/ GetGrant(w) \/ GetAttempt(w) \/ Evaluate(w) \/ GetCase(w) \/ ReserveAgain(w)
  \/ ReserveRefused(w) \/ Recover(w) \/ LookupEffect(w) \/ MutateKnownKey(w)
  \/ MutateExternallyDone(w) \/ MutateRefused(w) \/ ReadState(w) \/ Verify(w)
  \/ GetCaseAgain(w)

\* The steps of execute() that only read keep the invariant.
LEMMA ReadStepType ==
  ASSUME TypeInv, NEW w \in Workers, ReadStep(w)
  PROVE  TypeInv'
<1>0. /\ CallType /\ WorldType /\ CaseDbType
      /\ call[w] \in Calls
      /\ pc[w] # "idle" => call[w].req \in Requests
  BY TypeInvParts DEF CallType, CallsOK
<1>1. UNCHANGED <<caseDb, ent, pending, now, crashes>>
  BY DEF ReadStep, GetGrant, GetAttempt, Evaluate, GetCase, ReserveAgain, ReserveRefused,
         Recover, LookupEffect, MutateKnownKey, MutateExternallyDone, MutateRefused,
         ReadState,
         Verify, GetCaseAgain
<1>2. GrantsKept
  BY <1>1 DEF caseDb, GrantsKept
<1>3. SUFFICES CallType'
  BY <1>0, <1>1, ReadKeeps DEF WorldType
<1>4. CASE GetGrant(w)
  <2>1. CASE grantStatus[call[w].req.auth] = "NONE"
    BY <1>0, <1>2, <1>4, <2>1, ReturnKeeps DEF GetGrant
  <2>2. CASE grantStatus[call[w].req.auth] # "NONE"
    <3> DEFINE r == [call[w] EXCEPT !.seenGrant = grantStatus[call[w].req.auth]]
    <3>1. call[w].req \in Requests /\ grantStatus[call[w].req.auth] \in GrantStatuses
      BY <1>0, <1>4, RequestFields DEF GetGrant, CaseDbType
    <3>2. r \in Calls /\ r.req = call[w].req
      BY <1>0, <3>1 DEF Calls
    <3>3. pc' = [pc EXCEPT ![w] = "getAttempt"] /\ call' = [call EXCEPT ![w] = r]
      BY <1>0, <1>4, <2>2 DEF GetGrant, Goto, CallType
    <3>4. grantStatus'[call[w].req.auth] # "NONE"
      BY <1>1, <2>2 DEF caseDb
    <3> HIDE DEF r
    <3>5. QED
      BY <1>0, <1>2, <3>1, <3>2, <3>3, <3>4, ProceedKeeps
         DEF ControlPoints, Granted, Answered
  <2>3. QED
    BY <2>1, <2>2
<1>5. CASE GetAttempt(w)
  <2>0. pc[w] \in Granted /\ call[w].req \in Requests
    BY <1>0, <1>5 DEF GetAttempt, Granted, ControlPoints
  <2>1. CASE attempt[call[w].req.exec].status = "NONE"
    <3>1. CASE call[w].seenGrant = "ISSUED"
      BY <1>0, <1>2, <1>5, <2>0, <2>1, <3>1, GotoKeeps DEF GetAttempt, ControlPoints, Answered
    <3>2. CASE call[w].seenGrant # "ISSUED"
      BY <1>0, <1>2, <1>5, <2>0, <2>1, <3>2, DenyKeeps DEF GetAttempt, DenialKinds
    <3>3. QED
      BY <3>1, <3>2
  <2>2. CASE attempt[call[w].req.exec].status # "NONE"
    <3> DEFINE r == [call[w] EXCEPT !.seenAttempt = attempt[call[w].req.exec].status]
    <3>1. attempt[call[w].req.exec].status \in AttemptStatuses
      BY <1>0, <2>0, RequestFields DEF CaseDbType, Attempts
    <3>2. r \in Calls /\ r.req = call[w].req
      BY <1>0, <3>1 DEF Calls
    <3>3. pc' = [pc EXCEPT ![w] = "recover"] /\ call' = [call EXCEPT ![w] = r]
      BY <1>0, <1>5, <2>2 DEF GetAttempt, Goto, CallType
    <3> HIDE DEF r
    <3>4. QED
      BY <1>0, <1>2, <2>0, <3>2, <3>3, UpdateKeeps DEF ControlPoints, Answered
  <2>3. QED
    BY <2>1, <2>2
<1>6. CASE Evaluate(w)
  <2>0. pc[w] \in Granted
    BY <1>6 DEF Evaluate, Granted, ControlPoints
  <2>1. CASE PolicyAllows(call[w].req)
    BY <1>0, <1>2, <1>6, <2>0, <2>1, GotoKeeps DEF Evaluate, ControlPoints, Answered
  <2>2. CASE ~PolicyAllows(call[w].req)
    BY <1>0, <1>2, <1>6, <2>0, <2>2, DenyKeeps DEF Evaluate, DenialKinds
  <2>3. QED
    BY <2>1, <2>2
<1>7. CASE GetCase(w) \/ GetCaseAgain(w)
  <2> DEFINE r == [call[w] EXCEPT !.version = case.version]
  <2>1. pc[w] \in Granted
    BY <1>7 DEF GetCase, GetCaseAgain, Granted, ControlPoints
  <2>2. case.version \in Nat
    BY <1>0 DEF CaseDbType, Cases
  <2>3. r \in Calls /\ r.req = call[w].req /\ r.effect = call[w].effect
        /\ r.outcome = call[w].outcome
    BY <1>0, <2>2 DEF Calls
  <2>4. call' = [call EXCEPT ![w] = r]
    BY <1>0, <1>7 DEF GetCase, GetCaseAgain, CallType
  <2> HIDE DEF r
  <2>5. CASE GetCase(w)
    BY <1>0, <1>2, <2>1, <2>3, <2>4, <2>5, UpdateKeeps
       DEF GetCase, Goto, ControlPoints, Answered
  <2>6. CASE GetCaseAgain(w)
    <3>1. call[w].effect \in Effects /\ call[w].outcome # "NONE"
      BY <1>0, <2>6 DEF GetCaseAgain, CallType, CallsOK, Answered
    <3>2. pc' = [pc EXCEPT ![w] = "complete"]
      BY <2>6 DEF GetCaseAgain, Goto
    <3>3. QED
      BY <1>0, <1>2, <2>1, <2>3, <2>4, <3>1, <3>2, UpdateKeeps DEF ControlPoints
  <2>7. QED
    BY <1>7, <2>5, <2>6
<1>8. CASE ReserveAgain(w) \/ ReserveRefused(w)
  <2>0. pc[w] \in Granted
    BY <1>8 DEF ReserveAgain, ReserveRefused, Granted, ControlPoints
  <2>1. CASE Return(w)
    BY <1>0, <1>2, <2>1, ReturnKeeps
  <2>2. CASE Goto(w, "lookup") /\ UNCHANGED call
    BY <1>0, <1>2, <2>0, <2>2, GotoKeeps DEF ControlPoints, Answered
  <2>3. QED
    BY <1>8, <2>1, <2>2 DEF ReserveAgain, ReserveRefused
<1>9. CASE Recover(w)
  <2>0. pc[w] \in Granted
    BY <1>9 DEF Recover, Granted, ControlPoints
  <2>1. CASE Deny(w, "recovery")
    BY <1>0, <1>2, <2>0, <2>1, DenyKeeps DEF DenialKinds
  <2>2. CASE Goto(w, "lookup") /\ UNCHANGED call
    BY <1>0, <1>2, <2>0, <2>2, GotoKeeps DEF ControlPoints, Answered
  <2>3. CASE Return(w)
    BY <1>0, <1>2, <2>3, ReturnKeeps
  <2>4. QED
    BY <1>9, <2>1, <2>2, <2>3 DEF Recover
<1>10. CASE LookupEffect(w)
  <2>0. pc[w] \in Granted
    BY <1>10 DEF LookupEffect, Granted, ControlPoints
  <2>1. CASE Deny(w, "expired")
    BY <1>0, <1>2, <2>0, <2>1, DenyKeeps DEF DenialKinds
  <2>2. CASE Goto(w, "mutate") /\ UNCHANGED call
    BY <1>0, <1>2, <2>0, <2>2, GotoKeeps DEF ControlPoints, Answered
  <2>3. QED
    BY <1>10, <2>1, <2>2 DEF LookupEffect
<1>11. CASE MutateKnownKey(w) \/ MutateExternallyDone(w) \/ MutateRefused(w)
  <2>0. pc[w] \in Granted
    BY <1>11 DEF MutateKnownKey, MutateExternallyDone, MutateRefused, ReadState, Granted, ControlPoints
  <2>1. CASE Goto(w, "readState") /\ UNCHANGED call
    BY <1>0, <1>2, <2>0, <2>1, GotoKeeps DEF ControlPoints, Answered
  <2>2. ASSUME NEW f \in ent.effects, MutatedTo(w, f, "SAFE_NOOP")
        PROVE  CallType'
    <3>1. f \in Effects
      BY <1>0, <2>2 DEF WorldType, Enterprises
    <3>2. QED
      BY <1>0, <1>2, <2>0, <2>2, <3>1, MutatedKeeps
  <2>3. QED
    BY <1>11, <2>1, <2>2 DEF MutateKnownKey, MutateExternallyDone, MutateRefused, ReadState, EffectsWithKey
<1>12. CASE Verify(w)
  <2> DEFINE ok == Verified(ent, grant[call[w].req.auth].tool, call[w].req.exec,
                            call[w].req.key, call[w].req.params.revision,
                            call[w].effect, call[w].outcome)
             r == [call[w] EXCEPT !.docs = ent.docs, !.verified = ok,
                                  !.closes = SatisfiesClosure(ent)]
  <2>0. pc[w] \in Granted /\ call[w].effect \in Effects /\ call[w].outcome # "NONE"
    BY <1>0, <1>12 DEF Verify, Granted, ControlPoints, CallType, CallsOK, Answered
  <2>1. ok \in BOOLEAN /\ SatisfiesClosure(ent) \in BOOLEAN /\ ent.docs \subseteq Documents
    BY <1>0, EnterpriseFields DEF WorldType, Verified, ReceiptVerified, InvoiceVerified, SatisfiesClosure
  <2>2. call' = [call EXCEPT ![w] = r]
    BY <1>0, <1>12 DEF Verify, CallType
  <2>3. pc' = [pc EXCEPT ![w] = "getCaseAgain"] \/ pc' = [pc EXCEPT ![w] = "complete"]
    BY <1>12 DEF Verify, Goto
  <2> HIDE DEF ok
  <2>4. r \in Calls /\ r.req = call[w].req /\ r.effect = call[w].effect
        /\ r.outcome = call[w].outcome
    BY <1>0, <2>1 DEF Calls
  <2> HIDE DEF r
  <2>5. CASE pc' = [pc EXCEPT ![w] = "getCaseAgain"]
    BY <1>0, <1>2, <2>0, <2>2, <2>4, <2>5, UpdateKeeps DEF ControlPoints
  <2>6. CASE pc' = [pc EXCEPT ![w] = "complete"]
    BY <1>0, <1>2, <2>0, <2>2, <2>4, <2>6, UpdateKeeps DEF ControlPoints
  <2>7. QED
    BY <2>3, <2>5, <2>6
<1>13. CASE ReadState(w)
  <2> DEFINE r == [call[w] EXCEPT !.docs = ent.docs]
  <2>1. ent.docs \subseteq Documents
    BY <1>0, EnterpriseFields DEF WorldType
  <2>2. r \in Calls /\ r.req = call[w].req
    BY <1>0, <2>1 DEF Calls
  <2>3. /\ pc[w] \in Granted /\ pc' = [pc EXCEPT ![w] = "denyPrecondition"]
        /\ call' = [call EXCEPT ![w] = r]
    BY <1>0, <1>13 DEF ReadState, Goto, Granted, ControlPoints, CallType
  <2> HIDE DEF r
  <2>4. QED
    BY <1>0, <1>2, <2>2, <2>3, UpdateKeeps DEF ControlPoints, Answered
<1>14. QED
  BY <1>4, <1>5, <1>6, <1>7, <1>8, <1>9, <1>10, <1>11, <1>12, <1>13 DEF ReadStep

\* complete_attempt keeps the rows well formed and removes none.
LEMMA CompleteAttemptType ==
  ASSUME CaseDbType, GrantsOK, NEW w \in Workers, call[w] \in Calls,
         call[w].req \in Requests,
         NEW result \in {"EXECUTED", "SAFE_NOOP", "FAILED"},
         NEW status \in {"COMPLETED", "VERIFICATION_FAILED"},
         CompleteAttempt(w, result, status), UNCHANGED grant
  PROVE  /\ grantStatus' \in [Auths -> GrantStatuses]
         /\ attempt' \in [Execs -> Attempts]
         /\ receipt' \in [Execs -> Receipts]
         /\ GrantsKept
         /\ grantStatus[call[w].req.auth] # "NONE" => GrantsOK'
<1> DEFINE e == call[w].req.exec
<1>1. CASE attempt[e].status = "RESERVED"
  <2>1. ReceiptOf(w, result) \in Receipts
    BY DEF ReceiptOf, Receipts, Calls
  <2>2. [attempt[e] EXCEPT !.status = status] \in Attempts
    <3>1. attempt[e] \in Attempts
      BY RequestFields DEF CaseDbType
    <3>2. QED
      BY <3>1 DEF Attempts, AttemptStatuses
  <2>3. /\ receipt' = [receipt EXCEPT ![e] = ReceiptOf(w, result)]
        /\ attempt' = [attempt EXCEPT ![e] = [attempt[e] EXCEPT !.status = status]]
        /\ grantStatus' = [grantStatus EXCEPT ![call[w].req.auth] = "CONSUMED"]
    BY <1>1, RequestFields DEF CompleteAttempt, CaseDbType
  <2>4. QED
    BY <2>1, <2>2, <2>3, RequestFields DEF CaseDbType, GrantStatuses, GrantsKept, GrantsOK
<1>2. CASE attempt[e].status # "RESERVED"
  BY <1>2 DEF CompleteAttempt, CaseDbType, GrantsKept, GrantsOK
<1>3. QED
  BY <1>1, <1>2

\* A writing step of a call whose parts keep their types.
LEMMA WriteKeeps ==
  ASSUME CaseDbType', GrantsOK', WorldType', CallType'
  PROVE  TypeInv'
BY DEF TypeInv, TypeOK, CaseDbType, WorldType, CallType

\* The transactions of execute() keep the invariant.
LEMMA WriteStepType ==
  ASSUME TypeInv, NEW w \in Workers,
         \/ SaveDenial(w) \/ ReserveNew(w) \/ MutatePost(w) \/ DenyPrecondition(w)
         \/ FailAttempt(w) \/ CompleteVerified(w) \/ CompleteUnverified(w)
  PROVE  TypeInv'
<1>0. /\ CallType /\ WorldType /\ CaseDbType /\ GrantsOK
      /\ call[w] \in Calls
      /\ pc[w] # "idle"
      /\ call[w].req \in Requests
  BY TypeInvParts DEF CallType, CallsOK, SaveDenial, ReserveNew, MutatePost,
     DenyPrecondition, FailAttempt, CompleteVerified, CompleteUnverified
<1>1. CASE SaveDenial(w)
  <2>1. <<call[w].denial, call[w].req.exec>> \in DenialKinds \X Execs
    BY <1>0, <1>1, RequestFields DEF SaveDenial, CallType, CallsOK
  <2>2. CaseDbType' /\ GrantsOK' /\ WorldType' /\ GrantsKept
    BY <1>0, <1>1, <2>1 DEF SaveDenial, CaseDbType, GrantsOK, WorldType, GrantsKept
  <2>3. CallType'
    BY <1>0, <1>1, <2>2, ReturnKeeps DEF SaveDenial
  <2>4. QED
    BY <2>2, <2>3, WriteKeeps
<1>2. CASE ReserveNew(w)
  <2>0. pc[w] \in Granted
    BY <1>2 DEF ReserveNew, Granted, ControlPoints
  <2>1. case' \in Cases
    <3>1. call[w].at \in Nat
      BY <1>0 DEF Calls
    <3>2. CanAdvance(case, StartedEvent(grant[call[w].req.auth].tool), call[w].version,
                     call[w].at)
      BY <1>2 DEF ReserveNew, CanReserve
    <3>3. QED
      BY <1>0, <1>2, <3>1, <3>2, AdvancedType DEF ReserveNew, CaseDbType, Cases, CaseRecords
  <2>2. [command |-> call[w].req, status |-> "RESERVED"] \in Attempts
    BY <1>0 DEF Attempts, AttemptStatuses
  <2>3. decisions' \subseteq DenialKinds \X Execs
    BY <1>0, <1>2, RequestFields DEF ReserveNew, CaseDbType, DenialKinds
  <2>4. /\ attempt' = [attempt EXCEPT ![call[w].req.exec] =
                         [command |-> call[w].req, status |-> "RESERVED"]]
        /\ grantStatus' = [grantStatus EXCEPT ![call[w].req.auth] = "RESERVED"]
        /\ grantStatus[call[w].req.auth] = "ISSUED"
        /\ UNCHANGED <<evidence, grant, receipt, ent, pending, now, call, crashes>>
        /\ Goto(w, "lookup")
    BY <1>2 DEF ReserveNew, CanReserve
  <2>5. CaseDbType' /\ GrantsKept
    BY <1>0, <2>1, <2>2, <2>3, <2>4, RequestFields DEF CaseDbType, GrantStatuses, GrantsKept
  <2>6. GrantsOK' /\ WorldType'
    BY <1>0, <2>4, RequestFields DEF GrantsOK, CaseDbType, WorldType
  <2>7. CallType'
    BY <1>0, <2>0, <2>4, <2>5, GotoKeeps DEF ControlPoints, Answered
  <2>8. QED
    BY <2>5, <2>6, <2>7, WriteKeeps
<1>3. CASE MutatePost(w)
  <2> DEFINE tool == grant[call[w].req.auth].tool
             f == NewEffect(tool, call[w].req.exec, call[w].req.key, call[w].at)
  <2>0. pc[w] \in Granted /\ grantStatus[call[w].req.auth] # "NONE"
    BY <1>0, <1>3 DEF MutatePost, Granted, ControlPoints, CallType, CallsOK
  <2>1. tool \in Tools
    <3>1. grant[call[w].req.auth] \in Grants
      BY <1>0, <2>0, RequestFields DEF GrantsOK
    <3>2. QED
      BY <3>1 DEF Grants
  <2>2. ent' \in Enterprises /\ f \in Effects
    <3>1. call[w].at \in Nat
      BY <1>0 DEF Calls
    <3>2. QED
      BY <1>0, <1>3, <2>1, <3>1, PostedType, RequestFields DEF MutatePost, WorldType
  <2>3. WorldType' /\ CaseDbType' /\ GrantsOK' /\ GrantsKept
    BY <1>0, <1>3, <2>2 DEF MutatePost, WorldType, caseDb, CaseDbType, GrantsOK, GrantsKept
  <2>4. MutatedTo(w, f, "EXECUTED")
    BY <1>3 DEF MutatePost
  <2> HIDE DEF f
  <2>5. CallType'
    BY <1>0, <2>0, <2>2, <2>3, <2>4, MutatedKeeps
  <2>6. QED
    BY <2>3, <2>5, WriteKeeps
<1>4. CASE DenyPrecondition(w)
  <2>0. pc[w] \in Granted
    BY <1>4 DEF DenyPrecondition, Granted, ControlPoints
  <2>1. decisions' \subseteq DenialKinds \X Execs
    BY <1>0, <1>4, RequestFields DEF DenyPrecondition, CaseDbType, DenialKinds
  <2>2. CaseDbType' /\ GrantsOK' /\ WorldType' /\ GrantsKept
    BY <1>0, <1>4, <2>1 DEF DenyPrecondition, CaseDbType, GrantsOK, WorldType, GrantsKept
  <2>3. CASE Return(w)
    BY <1>0, <2>2, <2>3, ReturnKeeps, WriteKeeps
  <2>4. CASE Goto(w, "failAttempt") /\ UNCHANGED call
    <3>1. CallType'
      BY <1>0, <2>0, <2>2, <2>4, GotoKeeps DEF ControlPoints, Answered
    <3>2. QED
      BY <2>2, <3>1, WriteKeeps
  <2>5. QED
    BY <1>4, <2>3, <2>4 DEF DenyPrecondition
<1>5. CASE FailAttempt(w) \/ CompleteUnverified(w)
  <2>0. grantStatus[call[w].req.auth] # "NONE"
    BY <1>0, <1>5 DEF FailAttempt, CompleteUnverified, Granted, ControlPoints, CallType, CallsOK
  <2>1. /\ CompleteAttempt(w, "FAILED", "VERIFICATION_FAILED") /\ Return(w)
        /\ UNCHANGED <<case, evidence, grant, decisions, ent, pending, now, crashes>>
    BY <1>5 DEF FailAttempt, CompleteUnverified
  <2>2. CaseDbType' /\ GrantsOK' /\ GrantsKept
    BY <1>0, <2>0, <2>1, CompleteAttemptType DEF CaseDbType
  <2>3. WorldType'
    BY <1>0, <2>1 DEF WorldType
  <2>4. CallType'
    BY <1>0, <2>1, <2>2, ReturnKeeps
  <2>5. QED
    BY <2>2, <2>3, <2>4, WriteKeeps
<1>6. CASE CompleteVerified(w)
  <2>0. /\ grantStatus[call[w].req.auth] # "NONE"
        /\ call[w].outcome \in {"EXECUTED", "SAFE_NOOP"}
        /\ call[w].at \in Nat
    BY <1>0, <1>6 DEF CompleteVerified, Granted, Answered, ControlPoints, CallType, CallsOK,
       Calls
  <2>1. Return(w) /\ UNCHANGED <<evidence, grant, decisions, ent, pending, now, crashes>>
    BY <1>6 DEF CompleteVerified
  <2>2. CaseDbType' /\ GrantsOK' /\ GrantsKept
    <3>1. CASE attempt[call[w].req.exec].status = "RESERVED" /\ CanClose(w)
      <4>1. /\ CompleteAttempt(w, call[w].outcome, "COMPLETED")
            /\ case' = Advanced(case, VerifiedEvent(grant[call[w].req.auth].tool), call[w].at)
            /\ CanAdvance(case, VerifiedEvent(grant[call[w].req.auth].tool),
                          call[w].version, call[w].at)
        BY <1>6, <3>1 DEF CompleteVerified, CanClose
      <4>2. case' \in Cases
        BY <1>0, <2>0, <4>1, AdvancedType DEF CaseDbType, Cases, CaseRecords
      <4>3. QED
        BY <1>0, <2>0, <2>1, <4>1, <4>2, CompleteAttemptType DEF CaseDbType
    <3>2. CASE UNCHANGED <<case, receipt, attempt, grantStatus>>
      BY <1>0, <2>1, <3>2 DEF CaseDbType, GrantsOK, GrantsKept
    <3>3. QED
      BY <1>6, <3>1, <3>2 DEF CompleteVerified
  <2>3. WorldType'
    BY <1>0, <2>1 DEF WorldType
  <2>4. CallType'
    BY <1>0, <2>1, <2>2, ReturnKeeps
  <2>5. QED
    BY <2>2, <2>3, <2>4, WriteKeeps
<1>7. QED
  BY <1>1, <1>2, <1>3, <1>4, <1>5, <1>6

\* Every step preserves the strengthened type invariant.
LEMMA NextType ==
  ASSUME TypeInv, [Next]_vars
  PROVE  TypeInv'
<1>1. CASE CaseCommand
  BY <1>1, CaseCommandType
<1>2. CASE Environment
  BY <1>2, EnvironmentType
<1>3. ASSUME NEW w \in Workers, NEW req \in Requests, Begin(w, req)
      PROVE  TypeInv'
  BY <1>3, BeginType
<1>4. ASSUME NEW w \in Workers, Step(w)
      PROVE  TypeInv'
  BY <1>4, ReadStepType, WriteStepType DEF Step, ReadStep
<1>5. ASSUME NEW w \in Workers, Crash(w)
      PROVE  TypeInv'
  BY <1>5, CrashType
<1>6. CASE UNCHANGED vars
  BY <1>6, TypeInvParts, ReadKeeps, SamePc DEF vars, caseDb, GrantsKept, WorldType
<1>7. QED
  BY <1>1, <1>2, <1>3, <1>4, <1>5, <1>6 DEF Next

\* Every reachable state is well typed, and a running call always refers to a
\* request and a grant that exist, for any number of concurrent calls,
\* authorizations and executions.
THEOREM TypeCorrect == Spec => []TypeOK
<1>1. Init => TypeInv
  BY InitType
<1>2. TypeInv /\ [Next]_vars => TypeInv'
  BY NextType
<1>3. TypeInv => TypeOK
  BY DEF TypeInv
<1>4. QED
  BY <1>1, <1>2, <1>3, PTL DEF Spec

-----------------------------------------------------------------------------
(* The safety invariants. *)

OpenStatuses == {"RESERVED", "VERIFICATION_FAILED"}

\* A stored attempt is one execution's own command; an absent one is blank.
AttemptsOK ==
  \A e \in Execs :
    /\ AttemptExists(e) => attempt[e].command \in Requests /\ attempt[e].command.exec = e
    /\ ~AttemptExists(e) => attempt[e] = NoAttempt
    /\ receipt[e].result = "NONE" <=> attempt[e].status \in {"NONE", "RESERVED"}

LedgerInv == AttemptsOK /\ LedgersAgree /\ OpenAttemptHoldsCase

\* A call past its reservation owns the attempt, and a call about to mutate is
\* in time or has its effect already.
CallOK(w) ==
  LET req == call[w].req IN
  /\ pc[w] = "recover" => AttemptExists(req.exec)
  /\ pc[w] \in Reserved => AttemptExists(req.exec) /\ attempt[req.exec].command = req
  /\ pc[w] = "mutate" =>
       call[w].at <= grant[req.auth].expires \/ EffectsWithKey(ent, req.key) # {}

CallInv == \A w \in Workers : CallOK(w)

\* A posted effect left its source record in a state that no precondition accepts.
EffectsBlock ==
  \A f \in ent.effects :
    /\ f.tool = Receipt => ent.message.status = "CONSUMED"
    /\ f.tool = Invoice => ent.invoice.state = "RELEASED" \/ ent.invoice.hold # "RECEIPT_MISMATCH"

EffectInv == AtMostOneEffect /\ EffectAuthorized /\ EffectsBlock

IInv == TypeInv /\ LedgerInv /\ CallInv /\ EffectInv

-----------------------------------------------------------------------------
(* Facts used throughout. *)

\* The blank command is not a request a caller can make.
LEMMA BlankCommand == NoCommand \notin Requests
<1>1. \A r \in RequestType : "exec" \in DOMAIN r
  BY DEF RequestType
<1>2. "exec" \notin DOMAIN NoCommand
  BY DEF NoCommand
<1>3. QED
  BY <1>1, <1>2, RequestAssumption

\* What never goes away: signed grants, stored commands, keys in the effect
\* ledger.
Grows ==
  /\ \A a \in Auths : grantStatus[a] # "NONE" => grant'[a] = grant[a]
  /\ \A e \in Execs : AttemptExists(e) =>
       attempt'[e].status # "NONE" /\ attempt'[e].command = attempt[e].command
  /\ \A k \in Keys : EffectsWithKey(ent, k) # {} => EffectsWithKey(ent', k) # {}

\* A running call past get_grant has a request and an existing grant.
LEMMA GrantedCall ==
  ASSUME TypeInv, NEW w \in Workers, pc[w] \in Granted
  PROVE  /\ call[w] \in Calls /\ call[w].req \in Requests
         /\ call[w].req.auth \in Auths /\ call[w].req.exec \in Execs
         /\ call[w].req.key \in Keys
         /\ grantStatus[call[w].req.auth] # "NONE"
         /\ grant[call[w].req.auth] \in Grants
<1>1. call[w] \in Calls /\ call[w].req \in Requests /\ grantStatus[call[w].req.auth] # "NONE"
  BY DEF TypeInv, TypeOK, CallsOK, Granted
<1>2. QED
  BY <1>1, RequestFields DEF TypeInv, GrantsOK

\* Calls that do not step keep what they know.
LEMMA OtherCall ==
  ASSUME TypeInv, CallInv, Grows, NEW v \in Workers, pc'[v] = pc[v], call'[v] = call[v]
  PROVE  CallOK(v)'
<1>1. CASE pc[v] \in Granted
  <2>1. /\ call[v].req.auth \in Auths /\ call[v].req.exec \in Execs
        /\ call[v].req.key \in Keys /\ grantStatus[call[v].req.auth] # "NONE"
    BY <1>1, GrantedCall
  <2>2. CallOK(v)
    BY DEF CallInv
  <2>3. QED
    BY <2>1, <2>2 DEF CallOK, Grows, AttemptExists
<1>2. CASE pc[v] \notin Granted
  <2>1. pc[v] \in {"idle", "getGrant"}
    BY <1>2 DEF Granted, TypeInv, TypeOK
  <2>2. QED
    BY <2>1 DEF CallOK, Reserved
<1>3. QED
  BY <1>1, <1>2

\* One call steps: it is enough to look at that call.
LEMMA OneCall ==
  ASSUME TypeInv, CallInv, Grows, NEW w \in Workers, CallOK(w)',
         \A v \in Workers \ {w} : pc'[v] = pc[v] /\ call'[v] = call[v]
  PROVE  CallInv'
BY OtherCall DEF CallInv

\* No call steps.
LEMMA NoCallSteps ==
  ASSUME TypeInv, CallInv, Grows, UNCHANGED <<pc, call>>
  PROVE  CallInv'
BY OtherCall DEF CallInv

\* A call that returns knows nothing.
LEMMA ReturnOK ==
  ASSUME TypeInv, NEW w \in Workers, Return(w)
  PROVE  CallOK(w)'
<1>1. pc'[w] = "idle"
  BY DEF Return, Goto, TypeInv, TypeOK
<1>2. QED
  BY <1>1 DEF CallOK, Reserved

\* A denied call holds no reservation.
LEMMA DenyOK ==
  ASSUME TypeInv, NEW w \in Workers, NEW kind, Deny(w, kind)
  PROVE  CallOK(w)'
<1>1. pc'[w] = "deny"
  BY DEF Deny, Goto, TypeInv, TypeOK
<1>2. QED
  BY <1>1 DEF CallOK, Reserved

\* A step that leaves the tables alone leaves what they say alone.
LEMMA SameLedgers ==
  ASSUME LedgerInv, UNCHANGED <<case, grant, grantStatus, attempt, receipt>>
  PROVE  LedgerInv'
BY DEF LedgerInv, AttemptsOK, LedgersAgree, OpenAttemptHoldsCase, AttemptExists,
       HasAttempt, ToolOf

\* A step that leaves grants, attempts and the enterprise alone keeps what is said of effects.
LEMMA SameEffects ==
  ASSUME EffectInv, UNCHANGED <<grant, attempt, ent>>
  PROVE  EffectInv'
BY DEF EffectInv, AtMostOneEffect, EffectAuthorized, EffectsBlock, AttemptExists, ToolOf

\* Unchanged tables have lost nothing.
LEMMA SameGrows ==
  ASSUME UNCHANGED <<grant, attempt, ent>>
  PROVE  Grows
BY DEF Grows, AttemptExists

-----------------------------------------------------------------------------
(* Initial states, and steps of a call that write neither ledger. *)

\* Nothing is reserved or posted at first.
LEMMA InitSafe ==
  ASSUME Init
  PROVE  IInv
<1>1. TypeInv
  BY InitType
<1>2. AttemptsOK
  BY DEF Init, AttemptsOK, AttemptExists, NoAttempt, NoReceipt
<1>3. LedgersAgree /\ OpenAttemptHoldsCase
  BY DEF Init, LedgersAgree, OpenAttemptHoldsCase, AttemptExists, HasAttempt, NoAttempt
<1>4. CallInv
  BY DEF Init, CallInv, CallOK, Reserved
<1>5. ent.effects = {}
  BY DEF Init, SeededEnterprise
<1>6. EffectInv
  BY <1>5 DEF EffectInv, AtMostOneEffect, EffectAuthorized, EffectsBlock
<1>7. QED
  BY <1>1, <1>2, <1>3, <1>4, <1>6 DEF IInv, LedgerInv

\* The calls' control flow: what the stepping call knows afterwards.
LEMMA ReadStepOK ==
  ASSUME IInv, NEW w \in Workers, ReadStep(w)
  PROVE  CallOK(w)'
<1>0. TypeInv /\ CallOK(w) /\ AttemptsOK /\ pc \in [Workers -> ControlPoints]
      /\ call \in [Workers -> Calls]
  BY DEF IInv, CallInv, LedgerInv, TypeInv, TypeOK
<1>1. UNCHANGED <<caseDb, ent>>
  BY DEF ReadStep, GetGrant, GetAttempt, Evaluate, GetCase, ReserveAgain, ReserveRefused,
         Recover, LookupEffect, MutateKnownKey, MutateExternallyDone, MutateRefused,
         ReadState,
         Verify, GetCaseAgain
<1>2. UNCHANGED <<grant, attempt, ent>>
  BY <1>1 DEF caseDb
<1>3. CASE Return(w) \/ \E kind \in DenialKinds : Deny(w, kind)
  BY <1>0, <1>3, ReturnOK, DenyOK
<1>4. CASE GetGrant(w) \/ Evaluate(w) \/ GetCase(w)
  <2>1. CASE pc'[w] \in {"getAttempt", "getCase", "reserve"}
    BY <2>1 DEF CallOK, Reserved
  <2>2. QED
    BY <1>0, <1>3, <1>4, <2>1 DEF GetGrant, Evaluate, GetCase, Goto, DenialKinds
<1>5. CASE GetAttempt(w)
  <2>1. CASE pc'[w] = "evaluate"
    BY <2>1 DEF CallOK, Reserved
  <2>2. CASE attempt[call[w].req.exec].status # "NONE"
    <3>1. pc'[w] = "recover" /\ call'[w].req = call[w].req
      BY <1>0, <1>5, <2>2 DEF GetAttempt, Goto, Calls
    <3>2. QED
      BY <1>2, <2>2, <3>1 DEF CallOK, Reserved, AttemptExists
  <2>3. QED
    BY <1>0, <1>3, <1>5, <2>1, <2>2 DEF GetAttempt, Goto, DenialKinds
<1>6. ASSUME pc'[w] \in Reserved \ {"mutate"}, call'[w].req = call[w].req,
             AttemptExists(call[w].req.exec),
             attempt[call[w].req.exec].command = call[w].req
      PROVE  CallOK(w)'
  BY <1>2, <1>6 DEF CallOK, Reserved, AttemptExists
<1>7. CASE ReserveAgain(w)
  <2>1. CASE \E e \in Execs : attempt[e].command = call[w].req
    <3>1. PICK e \in Execs : attempt[e].command = call[w].req
      BY <2>1
    <3>2. call[w].req \in Requests
      BY <1>0, <1>7, GrantedCall DEF ReserveAgain, Granted, ControlPoints
    <3>3. AttemptExists(e)
      BY <1>0, <3>1, <3>2, BlankCommand DEF AttemptsOK, NoAttempt
    <3>4. e = call[w].req.exec
      BY <1>0, <3>1, <3>3 DEF AttemptsOK
    <3>5. pc'[w] = "lookup" /\ call'[w] = call[w]
      BY <1>0, <1>7, <2>1 DEF ReserveAgain, Goto
    <3>6. QED
      BY <1>6, <3>1, <3>3, <3>4, <3>5 DEF Reserved
  <2>2. QED
    BY <1>3, <1>7, <2>1 DEF ReserveAgain
<1>8. CASE ReserveRefused(w)
  BY <1>3, <1>8 DEF ReserveRefused
<1>9. CASE Recover(w)
  <2>1. AttemptExists(call[w].req.exec)
    BY <1>0, <1>9 DEF Recover, CallOK
  <2>2. CASE attempt[call[w].req.exec].command = call[w].req /\ Goto(w, "lookup")
             /\ UNCHANGED call
    <3>1. pc'[w] = "lookup" /\ call'[w] = call[w]
      BY <1>0, <2>2 DEF Goto
    <3>2. QED
      BY <1>6, <2>1, <2>2, <3>1 DEF Reserved
  <2>3. QED
    BY <1>3, <1>9, <2>2 DEF Recover, DenialKinds
<1>10. ASSUME pc[w] \in Reserved
       PROVE  AttemptExists(call[w].req.exec) /\ attempt[call[w].req.exec].command = call[w].req
  BY <1>0, <1>10 DEF CallOK
<1>11. CASE LookupEffect(w)
  <2>1. CASE call[w].at > grant[call[w].req.auth].expires
             /\ EffectsWithKey(ent, call[w].req.key) = {}
    BY <1>3, <1>11, <2>1 DEF LookupEffect, DenialKinds
  <2>2. CASE ~(call[w].at > grant[call[w].req.auth].expires
               /\ EffectsWithKey(ent, call[w].req.key) = {})
    <3>1. pc'[w] = "mutate" /\ call'[w] = call[w] /\ pc[w] = "lookup"
      BY <1>0, <1>11, <2>2 DEF LookupEffect, Goto
    <3>2. call[w] \in Calls /\ grant[call[w].req.auth] \in Grants
      BY <1>0, <3>1, GrantedCall DEF Granted, ControlPoints
    <3>3. call[w].at \in Nat /\ grant[call[w].req.auth].expires \in Nat
      BY <3>2 DEF Calls, Grants
    <3>4. call[w].at <= grant[call[w].req.auth].expires
          \/ EffectsWithKey(ent, call[w].req.key) # {}
      BY <2>2, <3>3
    <3>5. AttemptExists(call[w].req.exec) /\ attempt[call[w].req.exec].command = call[w].req
      BY <1>10, <3>1 DEF Reserved
    <3>6. QED
      BY <1>2, <3>1, <3>4, <3>5 DEF CallOK, AttemptExists
  <2>3. QED
    BY <2>1, <2>2
<1>12. CASE \/ MutateKnownKey(w) \/ MutateExternallyDone(w) \/ MutateRefused(w)
            \/ ReadState(w) \/ Verify(w) \/ GetCaseAgain(w)
  <2>1. pc[w] \in Reserved
    BY <1>12 DEF MutateKnownKey, MutateExternallyDone, MutateRefused, ReadState, Verify, GetCaseAgain,
       Reserved
  <2>2. pc'[w] \in Reserved \ {"mutate"}
    BY <1>0, <1>12 DEF MutateKnownKey, MutateExternallyDone, MutateRefused, ReadState, Verify,
       GetCaseAgain, MutatedTo, Goto, Reserved
  <2>3. call'[w].req = call[w].req
    BY <1>0, <1>12 DEF MutateKnownKey, MutateExternallyDone, MutateRefused, ReadState, Verify,
       GetCaseAgain, MutatedTo, Calls
  <2>4. QED
    BY <1>6, <1>10, <2>1, <2>2, <2>3
<1>13. QED
  BY <1>4, <1>5, <1>7, <1>8, <1>9, <1>11, <1>12 DEF ReadStep

\* A step of one call leaves the others where they are.
LEMMA OthersStay ==
  ASSUME TypeInv, NEW w \in Workers,
         Step(w) \/ Crash(w) \/ \E req \in Requests : Begin(w, req)
  PROVE  \A v \in Workers \ {w} : pc'[v] = pc[v] /\ call'[v] = call[v]
<1>0. pc \in [Workers -> ControlPoints] /\ call \in [Workers -> Calls]
  BY DEF TypeInv, TypeOK
<1>1. ASSUME NEW point, Goto(w, point)
      PROVE  \A v \in Workers \ {w} : pc'[v] = pc[v]
  BY <1>0, <1>1 DEF Goto
<1>2. ASSUME UNCHANGED call \/ \E r : call' = [call EXCEPT ![w] = r]
      PROVE  \A v \in Workers \ {w} : call'[v] = call[v]
  BY <1>0, <1>2
<1>3. \E point : Goto(w, point)
  BY DEF Step, Crash, Begin, GetGrant, GetAttempt, Evaluate, SaveDenial, GetCase,
     ReserveAgain, ReserveNew, ReserveRefused, Recover, LookupEffect, MutateKnownKey,
     MutateExternallyDone, MutatePost, MutateRefused, ReadState, DenyPrecondition, FailAttempt,
     Verify, GetCaseAgain, CompleteVerified, CompleteUnverified, Return, Deny, MutatedTo
<1>4. UNCHANGED call \/ \E r : call' = [call EXCEPT ![w] = r]
  BY <1>0 DEF Step, Crash, Begin, GetGrant, GetAttempt, Evaluate, SaveDenial, GetCase,
     ReserveAgain, ReserveNew, ReserveRefused, Recover, LookupEffect, MutateKnownKey,
     MutateExternallyDone, MutatePost, MutateRefused, ReadState, DenyPrecondition, FailAttempt,
     Verify, GetCaseAgain, CompleteVerified, CompleteUnverified, Return, Deny, MutatedTo
<1>5. QED
  BY <1>1, <1>2, <1>3, <1>4

\* Steps of a call that write at most an audit row.
QuietStep(w) ==
  \/ ReadStep(w) \/ SaveDenial(w) \/ DenyPrecondition(w) \/ Crash(w)
  \/ \E req \in Requests : Begin(w, req)

\* Steps that write neither a grant, an attempt nor an effect are safe.
LEMMA QuietStepSafe ==
  ASSUME IInv, NEW w \in Workers, QuietStep(w)
  PROVE  LedgerInv' /\ CallInv' /\ EffectInv'
<1>0. TypeInv /\ LedgerInv /\ CallInv /\ EffectInv /\ CallOK(w)
  BY DEF IInv, CallInv
<1>1. UNCHANGED <<case, grant, grantStatus, attempt, receipt, ent>>
  BY DEF QuietStep, ReadStep, GetGrant, GetAttempt, Evaluate, GetCase, ReserveAgain,
     ReserveRefused, Recover, LookupEffect, MutateKnownKey, MutateExternallyDone,
     MutateRefused, ReadState, Verify, GetCaseAgain, SaveDenial, DenyPrecondition, Crash, Begin, caseDb
<1>2. Grows /\ LedgerInv' /\ EffectInv'
  BY <1>0, <1>1, SameGrows, SameLedgers, SameEffects
<1>3. CallOK(w)'
  <2>1. CASE ReadStep(w)
    BY <2>1, ReadStepOK
  <2>2. CASE SaveDenial(w) \/ Crash(w)
    BY <1>0, <2>2, ReturnOK DEF SaveDenial, Crash
  <2>3. CASE DenyPrecondition(w)
    <3>1. CASE Return(w)
      BY <1>0, <3>1, ReturnOK
    <3>2. CASE Goto(w, "failAttempt") /\ UNCHANGED call
      <4>1. pc'[w] = "failAttempt" /\ call'[w] = call[w] /\ pc[w] = "denyPrecondition"
        BY <1>0, <2>3, <3>2 DEF DenyPrecondition, Goto, TypeInv, TypeOK
      <4>2. QED
        BY <1>0, <1>1, <4>1 DEF CallOK, Reserved, AttemptExists
    <3>3. QED
      BY <2>3, <3>1, <3>2 DEF DenyPrecondition
  <2>4. ASSUME NEW req \in Requests, Begin(w, req)
        PROVE  CallOK(w)'
    <3>1. pc'[w] = "getGrant"
      BY <1>0, <2>4 DEF Begin, Goto, TypeInv, TypeOK
    <3>2. QED
      BY <3>1 DEF CallOK, Reserved
  <2>5. QED
    BY <2>1, <2>2, <2>3, <2>4 DEF QuietStep
<1>4. \A v \in Workers \ {w} : pc'[v] = pc[v] /\ call'[v] = call[v]
  BY <1>0, OthersStay DEF QuietStep, ReadStep, Step
<1>5. QED
  BY <1>0, <1>2, <1>3, <1>4, OneCall

-----------------------------------------------------------------------------
(* Lifecycle commands: possible only when no attempt is open. *)

\* The event of a lifecycle command, and which attempts are open before it.
LEMMA CommandNotWhileOpen ==
  ASSUME IInv, NEW event, Lifecycle(event),
         event \notin {VerifiedEvent(tool) : tool \in Tools}
  PROVE  \A e \in Execs : attempt[e].status \notin OpenStatuses
<1>1. SUFFICES ASSUME NEW e \in Execs, attempt[e].status \in OpenStatuses
               PROVE  FALSE
  OBVIOUS
<1>2. AttemptExists(e) /\ attempt[e].command \in Requests
  BY <1>1 DEF OpenStatuses, AttemptExists, IInv, LedgerInv, AttemptsOK
<1>3. HasAttempt(attempt[e].command.auth)
  BY <1>2 DEF HasAttempt, AttemptExists
<1>4. grantStatus[attempt[e].command.auth] # "NONE"
  BY <1>2, <1>3, RequestFields DEF IInv, LedgerInv, LedgersAgree
<1>5. ToolOf(e) \in Tools
  <2>1. grant[attempt[e].command.auth] \in Grants
    BY <1>2, <1>4, RequestFields DEF IInv, TypeInv, GrantsOK
  <2>2. QED
    BY <2>1 DEF ToolOf, Grants
<1>6. case.status = ExecutingStatus(ToolOf(e))
  BY <1>1 DEF IInv, LedgerInv, OpenAttemptHoldsCase, OpenStatuses
<1>7. event = VerifiedEvent(ToolOf(e))
  BY <1>5, <1>6, ExecutingOnlyVerifies DEF Lifecycle
<1>8. QED
  BY <1>5, <1>7

\* No lifecycle command emits the verified event of an action.
LEMMA CommandEventsDoNotVerify ==
  ASSUME NEW event,
         \/ event \in DecisionEvents \union {"INVESTIGATION_STARTED", "EVIDENCE_ADMITTED",
              "RECEIPT_APPROVAL_REQUESTED", "INVOICE_APPROVAL_REQUESTED"}
         \/ \E tool \in Tools : event = AcceptedEvent(tool)
  PROVE  event \notin {VerifiedEvent(tool) : tool \in Tools}
BY DEF DecisionEvents, AcceptedEvent, VerifiedEvent, Tools

\* With no open attempt, a new case status is nothing the ledgers depend on.
LEMMA CaseMoves ==
  ASSUME LedgerInv, \A e \in Execs : attempt[e].status \notin OpenStatuses,
         UNCHANGED <<grant, grantStatus, attempt, receipt>>
  PROVE  LedgerInv'
BY DEF LedgerInv, AttemptsOK, LedgersAgree, OpenAttemptHoldsCase, AttemptExists,
       HasAttempt, OpenStatuses

\* Commands of the case and authorization services are safe: no attempt is open.
LEMMA CaseCommandSafe ==
  ASSUME IInv, CaseCommand
  PROVE  LedgerInv' /\ CallInv' /\ EffectInv'
<1>0. TypeInv /\ LedgerInv /\ CallInv /\ EffectInv
  BY DEF IInv
<1>1. ASSUME NEW event, Lifecycle(event),
             event \notin {VerifiedEvent(tool) : tool \in Tools},
             UNCHANGED <<grant, grantStatus, attempt, receipt, ent, pc, call>>
      PROVE  LedgerInv' /\ CallInv' /\ EffectInv'
  <2>1. LedgerInv'
    BY <1>0, <1>1, CommandNotWhileOpen, CaseMoves
  <2>2. Grows /\ EffectInv'
    BY <1>0, <1>1, SameGrows, SameEffects
  <2>3. QED
    BY <1>0, <1>1, <2>1, <2>2, NoCallSteps
<1>2. CASE Detect
  BY <1>1, <1>2, CommandEventsDoNotVerify DEF Detect
<1>3. ASSUME NEW event \in DecisionEvents, RecordInvestigationOutcome(event)
      PROVE  LedgerInv' /\ CallInv' /\ EffectInv'
  BY <1>1, <1>3, CommandEventsDoNotVerify DEF RecordInvestigationOutcome
<1>4. ASSUME NEW tool \in Tools, RequestApproval(tool)
      PROVE  LedgerInv' /\ CallInv' /\ EffectInv'
  BY <1>1, <1>4, CommandEventsDoNotVerify DEF RequestApproval
<1>5. ASSUME NEW item \in LateEvidence, AdmitEvidence(item)
      PROVE  LedgerInv' /\ CallInv' /\ EffectInv'
  BY <1>1, <1>5, CommandEventsDoNotVerify DEF AdmitEvidence
<1>6. ASSUME NEW a \in Auths, NEW p \in Principals, NEW params \in Params,
             Approve(a, p, params)
      PROVE  LedgerInv' /\ CallInv' /\ EffectInv'
  <2>1. /\ grantStatus[a] = "NONE"
        /\ \A b \in Auths \ {a} : grant'[b] = grant[b] /\ grantStatus'[b] = grantStatus[b]
        /\ grantStatus'[a] = "ISSUED"
        /\ UNCHANGED <<attempt, receipt, ent, pc, call>>
    BY <1>0, <1>6 DEF Approve, TypeInv, TypeOK
  <2>2. \A e \in Execs : AttemptExists(e) =>
          attempt[e].command.auth \in Auths /\ attempt[e].command.auth # a
    <3>1. SUFFICES ASSUME NEW e \in Execs, AttemptExists(e)
                   PROVE  attempt[e].command.auth \in Auths /\ attempt[e].command.auth # a
      OBVIOUS
    <3>2. attempt[e].command.auth \in Auths
      BY <1>0, <3>1, RequestFields DEF LedgerInv, AttemptsOK
    <3>3. HasAttempt(attempt[e].command.auth)
      BY <3>1 DEF HasAttempt, AttemptExists
    <3>4. QED
      BY <1>0, <2>1, <3>2, <3>3 DEF LedgerInv, LedgersAgree
  <2>3. \A e \in Execs : attempt[e].status \notin OpenStatuses
    <3>1. params.tool \in Tools
      BY DEF Params
    <3>2. Lifecycle(AcceptedEvent(params.tool))
      BY <1>6 DEF Approve
    <3>3. QED
      BY <3>1, <3>2, CommandNotWhileOpen, CommandEventsDoNotVerify
  <2>4. LedgersAgree'
    BY <1>0, <2>1, <2>2 DEF LedgerInv, LedgersAgree, AttemptExists, HasAttempt
  <2>5. AttemptsOK' /\ OpenAttemptHoldsCase'
    BY <1>0, <2>1, <2>3 DEF LedgerInv, AttemptsOK, OpenAttemptHoldsCase, AttemptExists,
       OpenStatuses
  <2>6. Grows
    BY <2>1 DEF Grows, AttemptExists
  <2>7. EffectAuthorized'
    BY <1>0, <2>1, <2>2 DEF EffectInv, EffectAuthorized, AttemptExists, ToolOf
  <2>8. EffectInv'
    BY <1>0, <2>1, <2>7 DEF EffectInv, AtMostOneEffect, EffectsBlock
  <2>9. CallInv'
    BY <1>0, <2>1, <2>6, NoCallSteps
  <2>10. QED
    BY <2>4, <2>5, <2>8, <2>9 DEF LedgerInv
<1>7. QED
  BY <1>2, <1>3, <1>4, <1>5, <1>6 DEF CaseCommand

-----------------------------------------------------------------------------
(* Enterprise transactions. *)

\* What a posting does: one more effect, on a record that had none, which no
\* precondition accepts any more.
LEMMA PostedFacts ==
  ASSUME ent \in Enterprises, AtMostOneEffect, EffectsBlock,
         NEW tool \in Tools, NEW revision, Preconditions(ent, tool, revision),
         NEW x, NEW k, NEW at, ent' = Posted(ent, tool, x, k, at)
  PROVE  /\ ent'.effects = ent.effects \union {NewEffect(tool, x, k, at)}
         /\ AtMostOneEffect' /\ EffectsBlock'
<1>1. NewEffect(tool, x, k, at).tool = tool
  BY DEF NewEffect
<1>2. ent.effects \subseteq Effects
  BY DEF Enterprises
<1>3. CASE tool = Receipt
  <2>1. \A f \in ent.effects : f.tool # Receipt
    BY <1>3 DEF Preconditions, ReceiptPreconditions, EffectsBlock
  <2>2. /\ ent'.effects = ent.effects \union {NewEffect(tool, x, k, at)}
        /\ ent'.message.status = "CONSUMED"
        /\ ent'.invoice = ent.invoice
    BY <1>3 DEF Posted, ReceiptPosted
  <2>3. AtMostOneEffect'
    BY <1>1, <1>3, <2>1, <2>2 DEF AtMostOneEffect
  <2>4. EffectsBlock'
    BY <1>1, <1>3, <2>2 DEF EffectsBlock, Receipt, Invoice
  <2>5. QED
    BY <2>2, <2>3, <2>4
<1>4. CASE tool = Invoice
  <2>0. tool # Receipt
    BY <1>4 DEF Receipt, Invoice
  <2>1. \A f \in ent.effects : f.tool # Invoice
    BY <1>4, <2>0 DEF Preconditions, InvoicePreconditions, EffectsBlock
  <2>2. /\ ent'.effects = ent.effects \union {NewEffect(tool, x, k, at)}
        /\ ent'.message = ent.message
        /\ ent'.invoice.state = "RELEASED"
    BY <1>4, <2>0 DEF Posted, InvoiceReleased, Enterprises
  <2>3. AtMostOneEffect'
    BY <1>1, <1>4, <2>1, <2>2 DEF AtMostOneEffect
  <2>4. EffectsBlock'
    BY <1>1, <1>4, <2>0, <2>2 DEF EffectsBlock
  <2>5. QED
    BY <2>2, <2>3, <2>4
<1>5. QED
  BY <1>3, <1>4 DEF Tools

\* Relabelling keeps everything but an effect's type.
LEMMA RetaggedFacts ==
  ASSUME ent \in Enterprises, EffectInv, NEW tool \in Tools, ent' = Retagged(ent, tool),
         UNCHANGED <<grant, attempt>>
  PROVE  /\ EffectInv'
         /\ \A k \in Keys : EffectsWithKey(ent, k) # {} => EffectsWithKey(ent', k) # {}
<1> DEFINE R(f) == IF f.tool = tool /\ f.exec = ExternalId(tool)
                   THEN [f EXCEPT !.type = ExternalType(tool)] ELSE f
<1>1. /\ ent'.effects = {R(f) : f \in ent.effects}
      /\ ent'.message = ent.message /\ ent'.invoice = ent.invoice
  BY DEF Retagged, Enterprises
<1>2. \A f \in ent.effects : /\ R(f).exec = f.exec /\ R(f).key = f.key
                             /\ R(f).tool = f.tool /\ R(f).at = f.at
  <2>1. ent.effects \subseteq Effects
    BY DEF Enterprises
  <2>2. QED
    BY <2>1 DEF Effects
<1> HIDE DEF R
<1>3. AtMostOneEffect'
  <2>1. SUFFICES ASSUME NEW f \in ent.effects, NEW g \in ent.effects, R(f).tool = R(g).tool
                 PROVE  R(f) = R(g)
    BY <1>1 DEF AtMostOneEffect
  <2>2. f = g
    BY <1>2, <2>1 DEF EffectInv, AtMostOneEffect
  <2>3. QED
    BY <2>2
<1>4. EffectAuthorized'
  <2>1. SUFFICES ASSUME NEW f \in ent.effects, R(f).exec \in Execs
                 PROVE  /\ AttemptExists(R(f).exec)
                        /\ attempt[R(f).exec].command.key = R(f).key
                        /\ ToolOf(R(f).exec) = R(f).tool
                        /\ R(f).at <= grant[attempt[R(f).exec].command.auth].expires
    BY <1>1 DEF EffectAuthorized, AttemptExists, ToolOf
  <2>2. QED
    BY <1>2, <2>1 DEF EffectInv, EffectAuthorized
<1>5. EffectsBlock'
  BY <1>1, <1>2 DEF EffectInv, EffectsBlock
<1>6. \A k \in Keys : EffectsWithKey(ent, k) # {} => EffectsWithKey(ent', k) # {}
  <2>1. SUFFICES ASSUME NEW k \in Keys, NEW f \in ent.effects, f.key = k
                 PROVE  \E g \in ent'.effects : g.key = k
    BY DEF EffectsWithKey
  <2>2. R(f) \in ent'.effects /\ R(f).key = k
    BY <1>1, <1>2, <2>1
  <2>3. QED
    BY <2>2
<1>7. QED
  BY <1>3, <1>4, <1>5, <1>6 DEF EffectInv

\* Drift touches no effect, and no drift reopens a settled record.
LEMMA DriftFacts ==
  ASSUME ent \in Enterprises, EffectInv, UNCHANGED <<grant, attempt>>,
         \/ ent' = MessageRevisionAdvanced(ent)
         \/ \E q \in Nat : ent' = ErpReceiptQuantitySet(ent, q)
         \/ ent' = InvoiceHoldSet(ent)
         \/ ent' = ent
  PROVE  EffectInv' /\ ent'.effects = ent.effects
<1>1. /\ ent'.effects = ent.effects
      /\ ent'.message.status = ent.message.status
      /\ ent'.invoice = ent.invoice \/ ent'.invoice.hold = "REVIEW_HOLD"
  BY DEF MessageRevisionAdvanced, ErpReceiptQuantitySet, InvoiceHoldSet, Enterprises
<1>2. EffectsBlock'
  BY <1>1 DEF EffectInv, EffectsBlock
<1>3. EffectAuthorized' /\ AtMostOneEffect'
  BY <1>1 DEF EffectInv, EffectAuthorized, AtMostOneEffect, AttemptExists, ToolOf
<1>4. QED
  BY <1>1, <1>2, <1>3 DEF EffectInv

\* External work and drift are safe.
LEMMA EnvironmentSafe ==
  ASSUME IInv, Environment
  PROVE  LedgerInv' /\ CallInv' /\ EffectInv'
<1>0. TypeInv /\ LedgerInv /\ CallInv /\ EffectInv /\ ent \in Enterprises /\ now \in Nat
  BY DEF IInv, TypeInv, TypeOK
<1>1. UNCHANGED <<case, grant, grantStatus, attempt, receipt, pc, call>>
  BY DEF Environment, ExternalCommit, ExternalRetag, AdvanceFailedMessageRevision,
     SetErpReceiptQuantity, SetInvoiceHold, Tick, caseDb
<1>2. LedgerInv'
  BY <1>0, <1>1, SameLedgers
<1>3. EffectInv' /\ \A k \in Keys : EffectsWithKey(ent, k) # {} => EffectsWithKey(ent', k) # {}
  <2>1. ASSUME NEW tool \in Tools, ExternalCommit(tool)
        PROVE  EffectInv' /\ ent.effects \subseteq ent'.effects
    <3>1. /\ Preconditions(ent, tool, SourceRevision(ent, tool))
          /\ ent' = Posted(ent, tool, ExternalId(tool), ExternalId(tool), now)
      BY <2>1 DEF ExternalCommit
    <3>2. AtMostOneEffect /\ EffectsBlock
      BY <1>0 DEF EffectInv
    <3>3. /\ ent'.effects = ent.effects \union
                              {NewEffect(tool, ExternalId(tool), ExternalId(tool), now)}
          /\ AtMostOneEffect' /\ EffectsBlock'
      BY <1>0, <3>1, <3>2, PostedFacts
    <3>4. NewEffect(tool, ExternalId(tool), ExternalId(tool), now).exec \notin Execs
      BY ToolFacts, NamespaceAssumption DEF NewEffect
    <3>5. EffectAuthorized'
      BY <1>0, <1>1, <3>3, <3>4 DEF EffectInv, EffectAuthorized, AttemptExists, ToolOf
    <3>6. QED
      BY <3>3, <3>5 DEF EffectInv
  <2>2. ASSUME NEW tool \in Tools, ExternalRetag(tool)
        PROVE  /\ EffectInv'
               /\ \A k \in Keys : EffectsWithKey(ent, k) # {} => EffectsWithKey(ent', k) # {}
    BY <1>0, <1>1, <2>2, RetaggedFacts DEF ExternalRetag
  <2>3. CASE \/ AdvanceFailedMessageRevision \/ SetInvoiceHold \/ Tick
             \/ \E q \in DriftQuantities : SetErpReceiptQuantity(q)
    BY <1>0, <1>1, <2>3, DriftFacts, BoundAssumption
       DEF AdvanceFailedMessageRevision, SetInvoiceHold, Tick, SetErpReceiptQuantity,
           EffectsWithKey
  <2>4. QED
    BY <2>1, <2>2, <2>3 DEF Environment, EffectsWithKey
<1>4. Grows
  BY <1>1, <1>3 DEF Grows, AttemptExists
<1>5. QED
  BY <1>0, <1>1, <1>2, <1>3, <1>4, NoCallSteps

\* The executor's own posting.
LEMMA MutatePostSafe ==
  ASSUME IInv, NEW w \in Workers, MutatePost(w)
  PROVE  LedgerInv' /\ CallInv' /\ EffectInv'
<1> DEFINE req == call[w].req
           tool == grant[req.auth].tool
           f == NewEffect(tool, req.exec, req.key, call[w].at)
<1>0. TypeInv /\ LedgerInv /\ CallInv /\ EffectInv /\ ent \in Enterprises /\ CallOK(w)
  BY DEF IInv, TypeInv, TypeOK, CallInv
<1>1. /\ UNCHANGED <<case, grant, grantStatus, attempt, receipt>>
      /\ pc[w] = "mutate" /\ EffectsWithKey(ent, req.key) = {}
      /\ Preconditions(ent, tool, req.params.revision)
      /\ ent' = Posted(ent, tool, req.exec, req.key, call[w].at)
      /\ pc' = [pc EXCEPT ![w] = "verify"]
      /\ call' = [call EXCEPT ![w].effect = f, ![w].outcome = "EXECUTED"]
  BY DEF MutatePost, MutatedTo, Goto, caseDb
<1>2. call[w] \in Calls /\ req.exec \in Execs /\ grant[req.auth] \in Grants /\ req.key \in Keys
  BY <1>0, <1>1, GrantedCall DEF Granted, ControlPoints
<1>3. tool \in Tools
  BY <1>2 DEF Grants
<1>4. LedgerInv'
  BY <1>0, <1>1, SameLedgers
<1>5. AtMostOneEffect /\ EffectsBlock
  BY <1>0 DEF EffectInv
<1>6. /\ ent'.effects = ent.effects \union {f}
      /\ AtMostOneEffect' /\ EffectsBlock'
  BY <1>0, <1>1, <1>3, <1>5, PostedFacts
<1>7. f.exec = req.exec /\ f.key = req.key /\ f.tool = tool /\ f.at = call[w].at
  BY DEF NewEffect
<1>8. /\ AttemptExists(req.exec) /\ attempt[req.exec].command = req
      /\ call[w].at <= grant[req.auth].expires
  BY <1>0, <1>1 DEF CallOK, Reserved
<1>9. EffectAuthorized'
  <2>1. EffectAuthorized
    BY <1>0 DEF EffectInv
  <2> HIDE DEF f
  <2>2. QED
    BY <1>1, <1>6, <1>7, <1>8, <2>1 DEF EffectAuthorized, AttemptExists, ToolOf
<1>10. Grows
  BY <1>1, <1>6 DEF Grows, AttemptExists, EffectsWithKey
<1>11. CallOK(w)'
  <2>1. pc'[w] = "verify" /\ call'[w].req = req
    BY <1>0, <1>1, <1>2 DEF TypeInv, TypeOK, Calls
  <2>2. QED
    BY <1>1, <1>8, <2>1 DEF CallOK, AttemptExists
<1>12. \A v \in Workers \ {w} : pc'[v] = pc[v] /\ call'[v] = call[v]
  BY <1>0, OthersStay DEF Step
<1>13. CallInv'
  BY <1>0, <1>10, <1>11, <1>12, OneCall
<1>14. QED
  BY <1>4, <1>6, <1>9, <1>13 DEF EffectInv

-----------------------------------------------------------------------------
(* Reservation and completion. *)

\* reserve_attempt: the grant is taken and the case starts executing, at once.
LEMMA ReserveNewSafe ==
  ASSUME IInv, NEW w \in Workers, ReserveNew(w)
  PROVE  LedgerInv' /\ CallInv' /\ EffectInv'
<1> DEFINE req == call[w].req
           x == req.exec
           a == req.auth
<1>0. TypeInv /\ LedgerInv /\ CallInv /\ EffectInv /\ AttemptsOK /\ LedgersAgree
      /\ OpenAttemptHoldsCase
  BY DEF IInv, LedgerInv
<1>1. /\ pc[w] = "reserve" /\ ~HasAttempt(a) /\ ~AttemptExists(x)
      /\ grantStatus[a] = "ISSUED"
      /\ CanAdvance(case, StartedEvent(grant[a].tool), call[w].version, call[w].at)
      /\ case' = Advanced(case, StartedEvent(grant[a].tool), call[w].at)
      /\ attempt' = [attempt EXCEPT ![x] = [command |-> req, status |-> "RESERVED"]]
      /\ grantStatus' = [grantStatus EXCEPT ![a] = "RESERVED"]
      /\ pc' = [pc EXCEPT ![w] = "lookup"]
      /\ UNCHANGED <<grant, receipt, ent, call>>
  BY DEF ReserveNew, CanReserve, Goto
<1>2. req \in Requests /\ a \in Auths /\ x \in Execs /\ grant[a] \in Grants
  BY <1>0, <1>1, GrantedCall DEF Granted, ControlPoints
<1>3. grant[a].tool \in Tools
  BY <1>2 DEF Grants
<1>4. /\ attempt \in [Execs -> Attempts] /\ grantStatus \in [Auths -> GrantStatuses]
      /\ pc \in [Workers -> ControlPoints]
  BY <1>0 DEF TypeInv, TypeOK
<1>5. /\ attempt'[x] = [command |-> req, status |-> "RESERVED"]
      /\ \A e \in Execs \ {x} : attempt'[e] = attempt[e]
      /\ grantStatus'[a] = "RESERVED"
      /\ \A b \in Auths \ {a} : grantStatus'[b] = grantStatus[b]
  BY <1>1, <1>2, <1>4
<1>6. attempt'[x].command = req /\ attempt'[x].status = "RESERVED"
  BY <1>5
<1>7. \A e \in Execs : AttemptExists(e) => attempt[e].command.auth # a /\ e # x
  BY <1>1 DEF HasAttempt, AttemptExists
<1>8. AttemptsOK'
  <2>1. receipt[x].result = "NONE"
    BY <1>0, <1>1, <1>2 DEF AttemptsOK, AttemptExists
  <2>2. QED
    BY <1>0, <1>1, <1>2, <1>5, <1>6, <2>1 DEF AttemptsOK, AttemptExists
<1>9. LedgersAgree'
  <2>1. \A e, d \in Execs :
          attempt'[e].status # "NONE" /\ attempt'[d].status # "NONE"
            /\ attempt'[e].command.auth = attempt'[d].command.auth => e = d
    BY <1>0, <1>5, <1>6, <1>7 DEF LedgersAgree, AttemptExists
  <2>2. \A b \in Auths : grantStatus'[b] \in {"RESERVED", "CONSUMED"} <=>
          \E e \in Execs : attempt'[e].status # "NONE" /\ attempt'[e].command.auth = b
    <3>1. SUFFICES ASSUME NEW b \in Auths
                   PROVE  grantStatus'[b] \in {"RESERVED", "CONSUMED"} <=>
                     \E e \in Execs : attempt'[e].status # "NONE" /\ attempt'[e].command.auth = b
      OBVIOUS
    <3>2. CASE b = a
      BY <1>2, <1>5, <1>6, <3>2
    <3>3. CASE b # a
      <4>1. grantStatus'[b] \in {"RESERVED", "CONSUMED"} <=> HasAttempt(b)
        BY <1>0, <1>5, <3>3 DEF LedgersAgree
      <4>2. ASSUME NEW e \in Execs
            PROVE  (attempt'[e].status # "NONE" /\ attempt'[e].command.auth = b) <=>
                     (attempt[e].status # "NONE" /\ attempt[e].command.auth = b)
        BY <1>1, <1>5, <1>6, <3>3 DEF AttemptExists
      <4>3. QED
        BY <4>1, <4>2 DEF HasAttempt
    <3>4. QED
      BY <3>2, <3>3
  <2>3. \A e \in Execs : attempt'[e].status # "NONE" =>
          /\ grantStatus'[attempt'[e].command.auth] = "RESERVED"
               <=> attempt'[e].status = "RESERVED"
          /\ receipt[e].result = "NONE" <=> attempt'[e].status = "RESERVED"
    <3>1. SUFFICES ASSUME NEW e \in Execs, attempt'[e].status # "NONE"
                   PROVE  /\ grantStatus'[attempt'[e].command.auth] = "RESERVED"
                               <=> attempt'[e].status = "RESERVED"
                          /\ receipt[e].result = "NONE" <=> attempt'[e].status = "RESERVED"
      OBVIOUS
    <3>2. CASE e = x
      BY <1>0, <1>1, <1>2, <1>5, <1>6, <3>2 DEF AttemptsOK, AttemptExists
    <3>3. CASE e # x
      <4>1. AttemptExists(e) /\ attempt'[e] = attempt[e]
        BY <1>5, <3>1, <3>3 DEF AttemptExists
      <4>2. attempt[e].command.auth \in Auths \ {a}
        BY <1>0, <1>7, <4>1, RequestFields DEF AttemptsOK
      <4>3. QED
        BY <1>0, <1>5, <4>1, <4>2 DEF LedgersAgree
    <3>4. QED
      BY <3>2, <3>3
  <2>4. QED
    BY <1>1, <2>1, <2>2, <2>3 DEF LedgersAgree, AttemptExists, HasAttempt
<1>10. \A e \in Execs : attempt[e].status \notin OpenStatuses
  <2>1. SUFFICES ASSUME NEW e \in Execs, attempt[e].status \in OpenStatuses
                 PROVE  FALSE
    OBVIOUS
  <2>2. case.status = ExecutingStatus(ToolOf(e))
    BY <1>0, <2>1 DEF OpenAttemptHoldsCase, OpenStatuses
  <2>3. case.status = AuthorizedStatus(grant[a].tool)
    BY <1>1, <1>3, StartsFromAuthorized
  <2>4. QED
    BY <2>2, <2>3 DEF ExecutingStatus, AuthorizedStatus
<1>11. OpenAttemptHoldsCase'
  <2>1. case'.status = ExecutingStatus(grant[a].tool)
    BY <1>1, <1>3, StartsFromAuthorized
  <2>2. \A e \in Execs : attempt'[e].status \in OpenStatuses => e = x
    BY <1>5, <1>10
  <2>3. QED
    BY <1>1, <1>6, <2>1, <2>2 DEF OpenAttemptHoldsCase, ToolOf, OpenStatuses
<1>12. EffectAuthorized'
  <2>1. \A e \in Execs : AttemptExists(e) => attempt'[e] = attempt[e]
    BY <1>5, <1>7
  <2>2. EffectAuthorized
    BY <1>0 DEF EffectInv
  <2>3. QED
    BY <1>1, <2>1, <2>2 DEF EffectAuthorized, AttemptExists, ToolOf
<1>13. EffectInv'
  BY <1>0, <1>1, <1>12 DEF EffectInv, AtMostOneEffect, EffectsBlock
<1>14. Grows
  BY <1>1, <1>5, <1>7 DEF Grows, AttemptExists
<1>15. CallOK(w)'
  <2>1. pc'[w] = "lookup" /\ call'[w] = call[w]
    BY <1>1, <1>4
  <2>2. QED
    BY <1>6, <2>1 DEF CallOK, AttemptExists
<1>16. CallInv'
  <2>1. \A v \in Workers \ {w} : pc'[v] = pc[v] /\ call'[v] = call[v]
    BY <1>0, OthersStay DEF Step
  <2>2. QED
    BY <1>0, <1>14, <1>15, <2>1, OneCall
<1>17. QED
  BY <1>8, <1>9, <1>11, <1>13, <1>16 DEF LedgerInv

\* complete_attempt, whatever it records, keeps the tables in agreement.
LEMMA CompleteAttemptSafe ==
  ASSUME IInv, NEW w \in Workers, pc[w] \in Reserved,
         NEW result \in {"EXECUTED", "SAFE_NOOP", "FAILED"},
         NEW status \in {"COMPLETED", "VERIFICATION_FAILED"},
         CompleteAttempt(w, result, status), UNCHANGED <<grant, ent>>
  PROVE  /\ AttemptsOK' /\ LedgersAgree' /\ EffectInv' /\ Grows
         /\ \A e \in Execs \ {call[w].req.exec} : attempt'[e] = attempt[e]
         /\ attempt[call[w].req.exec].status = "RESERVED" =>
              attempt'[call[w].req.exec].status = status
<1> DEFINE req == call[w].req
           x == req.exec
           a == req.auth
<1>0. TypeInv /\ AttemptsOK /\ LedgersAgree /\ EffectInv /\ CallOK(w)
  BY DEF IInv, LedgerInv, CallInv
<1>1. req \in Requests /\ a \in Auths /\ x \in Execs
  BY <1>0, GrantedCall DEF Reserved, Granted, ControlPoints
<1>2. AttemptExists(x) /\ attempt[x].command = req
  BY <1>0 DEF CallOK
<1>3. /\ attempt \in [Execs -> Attempts] /\ grantStatus \in [Auths -> GrantStatuses]
      /\ receipt \in [Execs -> Receipts]
  BY <1>0 DEF TypeInv, TypeOK
<1>4. CASE attempt[x].status # "RESERVED"
  <2>1. UNCHANGED <<receipt, attempt, grantStatus>>
    BY <1>4 DEF CompleteAttempt
  <2>2. AttemptsOK' /\ LedgersAgree'
    BY <1>0, <2>1 DEF AttemptsOK, LedgersAgree, AttemptExists, HasAttempt
  <2>3. EffectInv' /\ Grows
    BY <1>0, <2>1, SameEffects, SameGrows
  <2>4. QED
    BY <1>4, <2>1, <2>2, <2>3
<1>5. CASE attempt[x].status = "RESERVED"
  <2>1. /\ receipt' = [receipt EXCEPT ![x] = ReceiptOf(w, result)]
        /\ attempt' = [attempt EXCEPT ![x].status = status]
        /\ grantStatus' = [grantStatus EXCEPT ![a] = "CONSUMED"]
    BY <1>5 DEF CompleteAttempt
  <2>2. /\ receipt'[x].result = result
        /\ \A e \in Execs \ {x} : receipt'[e] = receipt[e]
        /\ grantStatus'[a] = "CONSUMED"
        /\ \A b \in Auths \ {a} : grantStatus'[b] = grantStatus[b]
        /\ \A e \in Execs \ {x} : attempt'[e] = attempt[e]
    BY <1>1, <1>3, <2>1 DEF ReceiptOf
  <2>3. attempt'[x].status = status /\ attempt'[x].command = req
    BY <1>1, <1>2, <1>3, <2>1 DEF Attempts
  <2>4. \A e \in Execs :
          /\ attempt'[e].command = attempt[e].command
          /\ attempt'[e].status # "NONE" <=> AttemptExists(e)
    BY <1>2, <2>2, <2>3 DEF AttemptExists
  <2>5. AttemptsOK'
    BY <1>0, <1>1, <2>2, <2>3 DEF AttemptsOK, AttemptExists
  <2>6. \A e \in Execs : AttemptExists(e) /\ e # x => attempt[e].command.auth \in Auths \ {a}
    BY <1>0, <1>1, <1>2, RequestFields DEF AttemptsOK, LedgersAgree
  <2>7. LedgersAgree'
    <3>1. \A b \in Auths : HasAttempt(b)' <=> HasAttempt(b)
      BY <2>4 DEF HasAttempt, AttemptExists
    <3>2. HasAttempt(a)
      BY <1>1, <1>2 DEF HasAttempt, AttemptExists
    <3>3. \A b \in Auths : grantStatus'[b] \in {"RESERVED", "CONSUMED"} <=> HasAttempt(b)'
      BY <1>0, <1>1, <2>2, <3>1, <3>2 DEF LedgersAgree
    <3>4. \A e \in Execs : AttemptExists(e)' =>
            /\ grantStatus'[attempt'[e].command.auth] = "RESERVED"
                 <=> attempt'[e].status = "RESERVED"
            /\ receipt'[e].result = "NONE" <=> attempt'[e].status = "RESERVED"
      <4>1. SUFFICES ASSUME NEW e \in Execs, AttemptExists(e)'
                     PROVE  /\ grantStatus'[attempt'[e].command.auth] = "RESERVED"
                                 <=> attempt'[e].status = "RESERVED"
                            /\ receipt'[e].result = "NONE" <=> attempt'[e].status = "RESERVED"
        OBVIOUS
      <4>2. CASE e = x
        BY <2>2, <2>3, <4>2
      <4>3. CASE e # x
        BY <1>0, <2>2, <2>4, <2>6, <4>1, <4>3 DEF LedgersAgree, AttemptExists
      <4>4. QED
        BY <4>2, <4>3
    <3>5. \A e, d \in Execs : AttemptExists(e)' /\ AttemptExists(d)'
            /\ attempt'[e].command.auth = attempt'[d].command.auth => e = d
      BY <1>0, <2>4 DEF LedgersAgree, AttemptExists
    <3>6. QED
      BY <3>3, <3>4, <3>5 DEF LedgersAgree
  <2>8. EffectInv'
    BY <1>0, <2>4 DEF EffectInv, AtMostOneEffect, EffectAuthorized, EffectsBlock,
       AttemptExists, ToolOf
  <2>9. Grows
    BY <2>4 DEF Grows, AttemptExists
  <2>10. QED
    BY <2>2, <2>3, <2>5, <2>7, <2>8, <2>9
<1>6. QED
  BY <1>4, <1>5

\* The three ways complete_attempt is called are safe.
LEMMA CompletionSafe ==
  ASSUME IInv, NEW w \in Workers,
         FailAttempt(w) \/ CompleteUnverified(w) \/ CompleteVerified(w)
  PROVE  LedgerInv' /\ CallInv' /\ EffectInv'
<1> DEFINE x == call[w].req.exec
<1>0. TypeInv /\ LedgerInv /\ CallInv /\ EffectInv /\ OpenAttemptHoldsCase
  BY DEF IInv, LedgerInv
<1>1. pc[w] \in Reserved /\ Return(w) /\ UNCHANGED <<grant, ent>>
  BY DEF FailAttempt, CompleteUnverified, CompleteVerified, Reserved
<1>2. ASSUME Grows
      PROVE  CallInv'
  <2>1. \A v \in Workers \ {w} : pc'[v] = pc[v] /\ call'[v] = call[v]
    BY <1>0, OthersStay DEF Step
  <2>2. CallOK(w)'
    BY <1>0, <1>1, ReturnOK
  <2>3. QED
    BY <1>0, <1>2, <2>1, <2>2, OneCall
<1>3. \A e \in Execs : ToolOf(e) = grant[attempt[e].command.auth].tool
  BY DEF ToolOf
<1>4. CASE FailAttempt(w) \/ CompleteUnverified(w)
  <2>1. CompleteAttempt(w, "FAILED", "VERIFICATION_FAILED") /\ UNCHANGED case
    BY <1>4 DEF FailAttempt, CompleteUnverified
  <2>2. /\ AttemptsOK' /\ LedgersAgree' /\ EffectInv' /\ Grows
        /\ \A e \in Execs \ {x} : attempt'[e] = attempt[e]
        /\ attempt[x].status = "RESERVED" => attempt'[x].status = "VERIFICATION_FAILED"
    BY <1>1, <2>1, CompleteAttemptSafe
  <2>3. attempt[x].status # "RESERVED" => attempt' = attempt
    BY <2>1 DEF CompleteAttempt
  <2>4. \A e \in Execs : attempt'[e].status \in OpenStatuses =>
          attempt[e].status \in OpenStatuses
    BY <2>2, <2>3 DEF OpenStatuses
  <2>5. \A e \in Execs : AttemptExists(e) => attempt'[e].command = attempt[e].command
    BY <2>2 DEF Grows
  <2>6. OpenAttemptHoldsCase'
    BY <1>0, <1>1, <2>1, <2>4, <2>5 DEF OpenAttemptHoldsCase, OpenStatuses, AttemptExists, ToolOf
  <2>7. QED
    BY <1>2, <2>2, <2>6 DEF LedgerInv
<1>5. CASE CompleteVerified(w)
  <2>1. CASE attempt[x].status = "RESERVED" /\ CanClose(w)
    <3>1. CompleteAttempt(w, call[w].outcome, "COMPLETED")
      BY <1>5, <2>1 DEF CompleteVerified
    <3>2. call[w].outcome \in {"EXECUTED", "SAFE_NOOP", "FAILED"}
      BY <1>0, <1>5 DEF CompleteVerified, TypeInv, TypeOK, CallsOK, Answered, Calls
    <3>3. /\ AttemptsOK' /\ LedgersAgree' /\ EffectInv' /\ Grows
          /\ \A e \in Execs \ {x} : attempt'[e] = attempt[e]
          /\ attempt'[x].status = "COMPLETED"
      BY <1>1, <2>1, <3>1, <3>2, CompleteAttemptSafe
    <3>4. x \in Execs
      BY <1>0, <1>1, GrantedCall DEF Reserved, Granted, ControlPoints
    <3>5. \A e \in Execs : attempt'[e].status \notin OpenStatuses
      BY <1>0, <2>1, <3>3, <3>4 DEF OpenAttemptHoldsCase, OpenStatuses
    <3>6. OpenAttemptHoldsCase'
      BY <3>5 DEF OpenAttemptHoldsCase, OpenStatuses
    <3>7. QED
      BY <1>2, <3>3, <3>6 DEF LedgerInv
  <2>2. CASE UNCHANGED <<case, receipt, attempt, grantStatus>>
    BY <1>0, <1>1, <1>2, <2>2, SameLedgers, SameEffects, SameGrows
  <2>3. QED
    BY <1>5, <2>1, <2>2 DEF CompleteVerified
<1>6. QED
  BY <1>4, <1>5

-----------------------------------------------------------------------------
(* The inductive invariant, and what follows from it. *)

\* Every step preserves the inductive invariant.
LEMMA NextSafe ==
  ASSUME IInv, [Next]_vars
  PROVE  IInv'
<1>1. TypeInv'
  BY NextType DEF IInv
<1>2. CASE CaseCommand
  BY <1>1, <1>2, CaseCommandSafe DEF IInv
<1>3. CASE Environment
  BY <1>1, <1>3, EnvironmentSafe DEF IInv
<1>4. ASSUME NEW w \in Workers, QuietStep(w)
      PROVE  IInv'
  BY <1>1, <1>4, QuietStepSafe DEF IInv
<1>5. ASSUME NEW w \in Workers, ReserveNew(w) \/ MutatePost(w)
      PROVE  IInv'
  BY <1>1, <1>5, ReserveNewSafe, MutatePostSafe DEF IInv
<1>6. ASSUME NEW w \in Workers, FailAttempt(w) \/ CompleteUnverified(w) \/ CompleteVerified(w)
      PROVE  IInv'
  BY <1>1, <1>6, CompletionSafe DEF IInv
<1>7. CASE UNCHANGED vars
  BY <1>1, <1>7, SameLedgers, SameEffects, SameGrows, NoCallSteps DEF IInv, vars, caseDb
<1>8. QED
  BY <1>2, <1>3, <1>4, <1>5, <1>6, <1>7 DEF Next, Step, QuietStep, ReadStep

\* IInv holds in every reachable state.
THEOREM Inductive == Spec => []IInv
<1>1. Init => IInv
  BY InitSafe
<1>2. IInv /\ [Next]_vars => IInv'
  BY NextSafe
<1>3. QED
  BY <1>1, <1>2, PTL DEF Spec

\* A source record gets at most one business effect, however many calls,
\* retries, crashes and external processes compete for it
\* (restart_receipt_message, release_invoice).
THEOREM OnePosting == Spec => []AtMostOneEffect
<1>1. IInv => AtMostOneEffect
  BY DEF IInv, EffectInv
<1>2. QED
  BY <1>1, Inductive, PTL

\* An effect of the executor belongs to an attempt of its own key, under a
\* grant for that action that had not expired when the call began.
THEOREM PostingAuthorized == Spec => []EffectAuthorized
<1>1. IInv => EffectAuthorized
  BY DEF IInv, EffectInv
<1>2. QED
  BY <1>1, Inductive, PTL

\* Grants, attempts and receipts agree after every transaction of
\* reserve_attempt and complete_attempt.
THEOREM LedgerAgreement == Spec => []LedgersAgree
<1>1. IInv => LedgersAgree
  BY DEF IInv, LedgerInv
<1>2. QED
  BY <1>1, Inductive, PTL

\* An attempt in flight or failed holds the case, alone.
THEOREM HardStop == Spec => []OpenAttemptHoldsCase
<1>1. IInv => OpenAttemptHoldsCase
  BY DEF IInv, LedgerInv
<1>2. QED
  BY <1>1, Inductive, PTL

-----------------------------------------------------------------------------
(* Authorizations are spent once. *)

\* complete_attempt writes a receipt only where there is none, and moves only
\* a RESERVED grant to CONSUMED.
LEMMA CompleteAttemptOnce ==
  ASSUME IInv, NEW w \in Workers, pc[w] \in Reserved,
         NEW result, NEW status, CompleteAttempt(w, result, status), UNCHANGED grant
  PROVE  OneTimeStep
<1> DEFINE x == call[w].req.exec
           a == call[w].req.auth
<1>0. TypeInv /\ AttemptsOK /\ LedgersAgree /\ CallOK(w)
  BY DEF IInv, LedgerInv, CallInv
<1>1. a \in Auths /\ x \in Execs
  BY <1>0, GrantedCall DEF Reserved, Granted, ControlPoints
<1>2. AttemptExists(x) /\ attempt[x].command.auth = a
  BY <1>0 DEF CallOK
<1>3. grantStatus \in [Auths -> GrantStatuses] /\ receipt \in [Execs -> Receipts]
  BY <1>0 DEF TypeInv, TypeOK
<1>4. CASE attempt[x].status # "RESERVED"
  BY <1>4 DEF CompleteAttempt, OneTimeStep
<1>5. CASE attempt[x].status = "RESERVED"
  <2>1. grantStatus[a] = "RESERVED" /\ receipt[x].result = "NONE"
    BY <1>0, <1>1, <1>2, <1>5 DEF LedgersAgree
  <2>2. /\ receipt' = [receipt EXCEPT ![x] = ReceiptOf(w, result)]
        /\ grantStatus' = [grantStatus EXCEPT ![a] = "CONSUMED"]
    BY <1>5 DEF CompleteAttempt
  <2>3. QED
    BY <1>1, <1>3, <2>1, <2>2 DEF OneTimeStep
<1>6. QED
  BY <1>4, <1>5

\* Every step spends an authorization at most once.
LEMMA NextSpendsOnce ==
  ASSUME IInv, [Next]_vars
  PROVE  OneTimeStep
<1>0. /\ grantStatus \in [Auths -> GrantStatuses] /\ receipt \in [Execs -> Receipts]
      /\ TypeInv
  BY DEF IInv, TypeInv, TypeOK
<1>1. ASSUME UNCHANGED <<grant, grantStatus, receipt>>
      PROVE  OneTimeStep
  BY <1>1 DEF OneTimeStep
<1>2. ASSUME NEW a \in Auths, NEW p \in Principals, NEW params \in Params,
             Approve(a, p, params)
      PROVE  OneTimeStep
  <2>1. /\ grantStatus[a] = "NONE"
        /\ \A b \in Auths \ {a} : grant'[b] = grant[b] /\ grantStatus'[b] = grantStatus[b]
        /\ UNCHANGED receipt
    BY <1>0, <1>2 DEF Approve, TypeInv, TypeOK
  <2>2. QED
    BY <2>1 DEF OneTimeStep
<1>3. CASE CaseCommand
  BY <1>1, <1>2, <1>3 DEF CaseCommand, Detect, RecordInvestigationOutcome, RequestApproval,
     AdmitEvidence
<1>4. CASE Environment
  BY <1>1, <1>4 DEF Environment, ExternalCommit, ExternalRetag,
     AdvanceFailedMessageRevision, SetErpReceiptQuantity, SetInvoiceHold, Tick, caseDb
<1>5. ASSUME NEW w \in Workers, QuietStep(w) \/ MutatePost(w)
      PROVE  OneTimeStep
  BY <1>1, <1>5 DEF QuietStep, ReadStep, GetGrant, GetAttempt, Evaluate, GetCase,
     ReserveAgain, ReserveRefused, Recover, LookupEffect, MutateKnownKey,
     MutateExternallyDone, MutateRefused, ReadState, Verify, GetCaseAgain, SaveDenial,
     DenyPrecondition, Crash, Begin, MutatePost, caseDb
<1>6. ASSUME NEW w \in Workers, ReserveNew(w)
      PROVE  OneTimeStep
  <2>1. /\ grantStatus[call[w].req.auth] = "ISSUED"
        /\ grantStatus' = [grantStatus EXCEPT ![call[w].req.auth] = "RESERVED"]
        /\ UNCHANGED <<grant, receipt>>
    BY <1>6 DEF ReserveNew, CanReserve
  <2>2. QED
    BY <1>0, <2>1 DEF OneTimeStep
<1>7. ASSUME NEW w \in Workers, FailAttempt(w) \/ CompleteUnverified(w)
      PROVE  OneTimeStep
  <2>1. /\ pc[w] \in Reserved /\ CompleteAttempt(w, "FAILED", "VERIFICATION_FAILED")
        /\ UNCHANGED grant
    BY <1>7 DEF FailAttempt, CompleteUnverified, Reserved
  <2>2. QED
    BY <2>1, CompleteAttemptOnce
<1>8. ASSUME NEW w \in Workers, CompleteVerified(w)
      PROVE  OneTimeStep
  <2>1. pc[w] \in Reserved /\ UNCHANGED grant
    BY <1>8 DEF CompleteVerified, Reserved
  <2>2. CASE CompleteAttempt(w, call[w].outcome, "COMPLETED")
    BY <2>1, <2>2, CompleteAttemptOnce
  <2>3. QED
    BY <1>1, <1>8, <2>1, <2>2 DEF CompleteVerified
<1>9. CASE UNCHANGED vars
  BY <1>1, <1>9 DEF vars, caseDb
<1>10. QED
  BY <1>3, <1>4, <1>5, <1>6, <1>7, <1>8, <1>9 DEF Next, Step, QuietStep, ReadStep

\* An authorization is spent once: no transaction changes what was signed,
\* moves a grant back, or rewrites a receipt.
THEOREM SpentOnce == Spec => OneTimeAuthorization
<1>1. IInv /\ [Next]_vars => [OneTimeStep]_vars
  BY NextSpendsOnce
<1>2. QED
  BY <1>1, Inductive, PTL DEF Spec, OneTimeAuthorization

-----------------------------------------------------------------------------
(* The once-only contract. *)

EffectOn(tool) == \E f \in ent.effects : f.tool = tool
LocalOn(tool) == \E f \in ent.effects : f.tool = tool /\ f.exec \in Execs

\* Where the case can be once an attempt of the tool exists.
Reached(tool) ==
  IF tool = Receipt
  THEN {"RECEIPT_EXECUTING", "RECEIPT_VERIFIED", "AWAITING_INVOICE_APPROVAL",
        "INVOICE_ACTION_AUTHORIZED", "INVOICE_EXECUTING", "CLOSED"}
  ELSE {"INVOICE_EXECUTING", "CLOSED"}

\* The lifecycle never goes back past an attempt.
ProgressOK == \A e \in Execs : AttemptExists(e) => case.status \in Reached(ToolOf(e))

\* A successful attempt has its effect.
SuccessOK == \A e \in Execs : attempt[e].status = "COMPLETED" => EffectOn(ToolOf(e))

\* Only a posting consumes the message.
ConsumedOK == ent.message.status = "CONSUMED" => EffectOn(Receipt)

\* What the verifier saw is still there when the call completes.
VerdictOK(w) ==
  pc[w] \in {"getCaseAgain", "complete"} /\ call[w].verified =>
    /\ EffectOn(grant[call[w].req.auth].tool)
    /\ call[w].closes => EffectOn(Receipt)

SettledInv ==
  ProgressOK /\ SuccessOK /\ ConsumedOK /\ \A w \in Workers : VerdictOK(w)

-----------------------------------------------------------------------------

\* Steps that keep signed grants, stored attempts' commands and effects.
Stays ==
  /\ \A a \in Auths : grantStatus[a] # "NONE" => grant'[a] = grant[a]
  /\ \A t \in Tools : EffectOn(t) => EffectOn(t)'

\* An attempt's grant exists, is typed, and names the attempt's tool.
LEMMA AttemptTool ==
  ASSUME IInv, NEW e \in Execs, AttemptExists(e)
  PROVE  /\ attempt[e].command.auth \in Auths
         /\ grantStatus[attempt[e].command.auth] # "NONE"
         /\ ToolOf(e) \in Tools
<1>1. attempt[e].command \in Requests
  BY DEF IInv, LedgerInv, AttemptsOK
<1>2. attempt[e].command.auth \in Auths
  BY <1>1, RequestFields
<1>3. HasAttempt(attempt[e].command.auth)
  BY DEF HasAttempt, AttemptExists
<1>4. grantStatus[attempt[e].command.auth] # "NONE"
  BY <1>2, <1>3 DEF IInv, LedgerInv, LedgersAgree
<1>5. grant[attempt[e].command.auth] \in Grants
  BY <1>2, <1>4 DEF IInv, TypeInv, GrantsOK
<1>6. QED
  BY <1>2, <1>4, <1>5 DEF ToolOf, Grants

\* A call that does not step keeps its verdict.
LEMMA OtherVerdict ==
  ASSUME TypeInv, Stays, NEW v \in Workers, VerdictOK(v),
         pc'[v] = pc[v], call'[v] = call[v]
  PROVE  VerdictOK(v)'
<1>1. CASE pc[v] \in {"getCaseAgain", "complete"}
  <2>1. /\ call[v].req.auth \in Auths /\ grantStatus[call[v].req.auth] # "NONE"
        /\ grant[call[v].req.auth] \in Grants
    BY <1>1, GrantedCall DEF Granted, ControlPoints
  <2>2. grant'[call[v].req.auth] = grant[call[v].req.auth]
        /\ grant[call[v].req.auth].tool \in Tools
    BY <2>1 DEF Stays, Grants
  <2>3. Receipt \in Tools
    BY DEF Tools
  <2>4. QED
    BY <2>2, <2>3 DEF VerdictOK, Stays
<1>2. CASE pc[v] \notin {"getCaseAgain", "complete"}
  BY <1>2 DEF VerdictOK
<1>3. QED
  BY <1>1, <1>2

\* A call that returns has no verdict.
LEMMA ReturnVerdict ==
  ASSUME TypeInv, NEW w \in Workers, Return(w)
  PROVE  VerdictOK(w)'
<1>1. pc'[w] = "idle"
  BY DEF Return, Goto, TypeInv, TypeOK
<1>2. QED
  BY <1>1 DEF VerdictOK

\* The abstract outcomes depend on attempts and on their tools only.
LEMMA OutcomesStay ==
  ASSUME IInv, Stays, UNCHANGED attempt
  PROVE  /\ \A e \in Execs : AttemptExists(e) => ToolOf(e)' = ToolOf(e)
         /\ \A t \in Tools : OutcomeOf(t)' = OutcomeOf(t)
<1>1. \A e \in Execs : AttemptExists(e) => ToolOf(e)' = ToolOf(e)
  <2>1. SUFFICES ASSUME NEW e \in Execs, AttemptExists(e)
                 PROVE  ToolOf(e)' = ToolOf(e)
    OBVIOUS
  <2>2. QED
    BY <2>1, AttemptTool DEF ToolOf, Stays
<1>2. ASSUME NEW t \in Tools, NEW S, "NONE" \notin S
      PROVE  AttemptsOn(t, S)' = AttemptsOn(t, S)
  BY <1>1, <1>2 DEF AttemptsOn, AttemptExists
<1>3. ASSUME NEW t \in Tools
      PROVE  OutcomeOf(t)' = OutcomeOf(t)
  <2>1. /\ AttemptsOn(t, {"RESERVED"})' = AttemptsOn(t, {"RESERVED"})
        /\ AttemptsOn(t, {"VERIFICATION_FAILED"})' = AttemptsOn(t, {"VERIFICATION_FAILED"})
        /\ AttemptsOn(t, {"COMPLETED"})' = AttemptsOn(t, {"COMPLETED"})
    BY <1>2, <1>3
  <2>2. QED
    BY <2>1 DEF OutcomeOf
<1>4. QED
  BY <1>1, <1>3

\* The abstract postings depend on the effects' tools and owners only.
LEMMA PostingsStay ==
  ASSUME NEW t, EffectOn(t)' <=> EffectOn(t), LocalOn(t)' <=> LocalOn(t)
  PROVE  PostedBy(t)' = PostedBy(t)
<1>1. /\ SourceEffects(ent, t) = {} <=> ~EffectOn(t)
      /\ SourceEffects(ent', t) = {} <=> ~EffectOn(t)'
  BY DEF SourceEffects, EffectOn
<1>2. /\ (\E f \in SourceEffects(ent, t) : f.exec \in Execs) <=> LocalOn(t)
      /\ (\E f \in SourceEffects(ent', t) : f.exec \in Execs) <=> LocalOn(t)'
  BY DEF SourceEffects, LocalOn
<1>3. QED
  BY <1>1, <1>2 DEF PostedBy

\* Nothing the contract sees changes.
LEMMA Invisible ==
  ASSUME \A t \in Tools : OutcomeOf(t)' = OutcomeOf(t),
         \A t \in Tools : PostedBy(t)' = PostedBy(t),
         case'.status = "CLOSED" <=> case.status = "CLOSED"
  PROVE  UNCHANGED Settlement!settled
<1>1. [t \in Tools |-> OutcomeOf(t)]' = [t \in Tools |-> OutcomeOf(t)]
  OBVIOUS
<1>2. [t \in Tools |-> PostedBy(t)]' = [t \in Tools |-> PostedBy(t)]
  OBVIOUS
<1>3. (case.status = "CLOSED")' = (case.status = "CLOSED")
  OBVIOUS
<1>4. QED
  BY <1>1, <1>2, <1>3 DEF Settlement!settled

\* Steps that leave the case database's rows and the enterprise alone.
LEMMA QuietStepSettles ==
  ASSUME IInv, SettledInv, NEW w \in Workers, QuietStep(w)
  PROVE  SettledInv' /\ UNCHANGED Settlement!settled
<1>0. /\ TypeInv /\ VerdictOK(w) /\ ConsumedOK
      /\ pc \in [Workers -> ControlPoints] /\ call \in [Workers -> Calls]
  BY DEF IInv, SettledInv, TypeInv, TypeOK
<1>1. UNCHANGED <<case, grant, grantStatus, attempt, receipt, ent>>
  BY DEF QuietStep, ReadStep, GetGrant, GetAttempt, Evaluate, GetCase, ReserveAgain,
     ReserveRefused, Recover, LookupEffect, MutateKnownKey, MutateExternallyDone,
     MutateRefused, ReadState, Verify, GetCaseAgain, SaveDenial, DenyPrecondition, Crash, Begin, caseDb
<1>2. Stays /\ \A t : EffectOn(t)' <=> EffectOn(t)
  BY <1>1 DEF Stays, EffectOn
<1>3. UNCHANGED Settlement!settled
  <2>1. \A t \in Tools : OutcomeOf(t)' = OutcomeOf(t)
    BY <1>1, <1>2, OutcomesStay
  <2>2. \A t \in Tools : PostedBy(t)' = PostedBy(t)
    BY <1>1, PostingsStay DEF EffectOn, LocalOn
  <2>3. QED
    BY <1>1, <2>1, <2>2, Invisible
<1>4. ProgressOK' /\ SuccessOK' /\ ConsumedOK'
  BY <1>1, <1>2 DEF SettledInv, ProgressOK, SuccessOK, ConsumedOK, AttemptExists, ToolOf
<1>5. VerdictOK(w)'
  <2>1. CASE Verify(w)
    <3> DEFINE req == call[w].req
               tool == grant[req.auth].tool
               ok == Verified(ent, tool, req.exec, req.key, req.params.revision,
                              call[w].effect, call[w].outcome)
    <3>1. call'[w].verified = ok /\ call'[w].closes = SatisfiesClosure(ent)
          /\ call'[w].req = req
      <4>1. /\ call[w] \in Calls
            /\ call' = [call EXCEPT ![w].docs = ent.docs, ![w].verified = ok,
                                    ![w].closes = SatisfiesClosure(ent)]
        BY <1>0, <2>1 DEF Verify
      <4> HIDE DEF ok
      <4>2. QED
        BY <1>0, <4>1 DEF Calls
    <3>2. ok => EffectOn(tool)
      <4>1. SUFFICES ASSUME ok PROVE EffectOn(tool)
        OBVIOUS
      <4>2. tool \in Tools
        BY <1>0, <2>1, GrantedCall DEF Verify, Granted, ControlPoints, Grants
      <4>3. EffectVerified(ent, tool, req.exec, req.key, call[w].effect, call[w].outcome)
        BY <4>1, <4>2 DEF Verified, ReceiptVerified, InvoiceVerified, Tools
      <4>4. QED
        <5>1. PICK g \in ent.effects : SourceEffects(ent, tool) = {g}
          BY <4>3 DEF EffectVerified
        <5>2. g.tool = tool
          BY <5>1 DEF SourceEffects
        <5>3. QED
          BY <5>2 DEF EffectOn
    <3>3. SatisfiesClosure(ent) => EffectOn(Receipt)
      BY <1>0 DEF SatisfiesClosure, ConsumedOK
    <3> HIDE DEF tool, ok
    <3>4. grant'[call'[w].req.auth].tool = tool
      BY <1>1, <3>1 DEF tool
    <3>5. QED
      BY <1>2, <3>1, <3>2, <3>3, <3>4 DEF VerdictOK
  <2>2. CASE GetCaseAgain(w)
    <3>1. /\ pc[w] = "getCaseAgain"
          /\ call'[w].req = call[w].req /\ call'[w].verified = call[w].verified
          /\ call'[w].closes = call[w].closes
      BY <1>0, <2>2 DEF GetCaseAgain, Calls
    <3>2. QED
      BY <1>0, <1>1, <1>2, <3>1 DEF VerdictOK
  <2>3. CASE ~Verify(w) /\ ~GetCaseAgain(w)
    <3>1. pc'[w] \notin {"getCaseAgain", "complete"}
      BY <1>0, <2>3 DEF QuietStep, ReadStep, GetGrant, GetAttempt, Evaluate, GetCase,
         ReserveAgain, ReserveRefused, Recover, LookupEffect, MutateKnownKey,
         MutateExternallyDone, MutateRefused, ReadState, SaveDenial, DenyPrecondition, Crash, Begin,
         Return, Deny, Goto, MutatedTo
    <3>2. QED
      BY <3>1 DEF VerdictOK
  <2>4. QED
    BY <2>1, <2>2, <2>3
<1>6. \A v \in Workers \ {w} : pc'[v] = pc[v] /\ call'[v] = call[v]
  BY <1>0, OthersStay DEF QuietStep, ReadStep, Step
<1>7. \A v \in Workers : VerdictOK(v)'
  BY <1>0, <1>2, <1>5, <1>6, OtherVerdict DEF SettledInv
<1>8. QED
  BY <1>3, <1>4, <1>7 DEF SettledInv

\* Commands of the two services move the case forward, or back only before
\* any attempt.
LEMMA CommandProgress ==
  ASSUME NEW c \in CaseRecords, NEW event, NEW v, NEW at, CanAdvance(c, event, v, at),
         event \notin {VerifiedEvent(tool) : tool \in Tools}
  PROVE  /\ c.status # "CLOSED" /\ Advanced(c, event, at).status # "CLOSED"
         /\ \A tool \in Tools : c.status \in Reached(tool) =>
              Advanced(c, event, at).status \in Reached(tool)
<1>1. PICK s \in CaseStatus : <<c.status, event, s>> \in TRANSITIONS
  BY DEF CanAdvance
<1>2. Advanced(c, event, at).status = s
  BY <1>1, NextStatusIs DEF Advanced
<1>0. event # VerifiedEvent(Invoice) /\ VerifiedEvent(Invoice) = "INVOICE_POSTCONDITIONS_VERIFIED"
  BY DEF Tools, VerifiedEvent, Receipt, Invoice
<1>3. c.status # "CLOSED" /\ s # "CLOSED"
  BY <1>0, <1>1 DEF TRANSITIONS
<1>4. \A tool \in Tools : c.status \in Reached(tool) => s \in Reached(tool)
  BY <1>1 DEF TRANSITIONS, Reached, Tools
<1>5. QED
  BY <1>2, <1>3, <1>4

\* A lifecycle command is invisible to the contract.
LEMMA CommandSettles ==
  ASSUME IInv, SettledInv, NEW event, Lifecycle(event),
         event \notin {VerifiedEvent(tool) : tool \in Tools},
         UNCHANGED <<attempt, ent, pc, call>>,
         \A a \in Auths : grantStatus[a] # "NONE" => grant'[a] = grant[a]
  PROVE  SettledInv' /\ UNCHANGED Settlement!settled
<1>0. TypeInv /\ case \in CaseRecords
  BY DEF IInv, TypeInv, TypeOK, Cases, CaseRecords
<1>1. Stays /\ \A t : EffectOn(t)' <=> EffectOn(t)
  BY DEF Stays, EffectOn
<1>2. /\ \A e \in Execs : AttemptExists(e) => ToolOf(e)' = ToolOf(e)
      /\ \A t \in Tools : OutcomeOf(t)' = OutcomeOf(t)
  BY <1>1, OutcomesStay
<1>3. /\ case.status # "CLOSED" /\ case'.status # "CLOSED"
      /\ \A tool \in Tools : case.status \in Reached(tool) => case'.status \in Reached(tool)
  BY <1>0, CommandProgress DEF Lifecycle
<1>4. UNCHANGED Settlement!settled
  <2>1. \A t \in Tools : PostedBy(t)' = PostedBy(t)
    BY PostingsStay DEF EffectOn, LocalOn
  <2>2. QED
    BY <1>2, <1>3, <2>1, Invisible
<1>5. \A e \in Execs : AttemptExists(e) => ToolOf(e) \in Tools
  BY AttemptTool
<1>6. ProgressOK'
  BY <1>2, <1>3, <1>5 DEF SettledInv, ProgressOK, AttemptExists
<1>7. SuccessOK' /\ ConsumedOK'
  BY <1>1, <1>2 DEF SettledInv, SuccessOK, ConsumedOK, AttemptExists
<1>8. \A v \in Workers : VerdictOK(v)'
  BY <1>0, <1>1, OtherVerdict DEF SettledInv
<1>9. QED
  BY <1>4, <1>6, <1>7, <1>8 DEF SettledInv

\* Commands of the case and authorization services.
LEMMA CaseCommandSettles ==
  ASSUME IInv, SettledInv, CaseCommand
  PROVE  SettledInv' /\ UNCHANGED Settlement!settled
<1>1. CASE Detect
  BY <1>1, CommandSettles, CommandEventsDoNotVerify DEF Detect
<1>2. ASSUME NEW event \in DecisionEvents, RecordInvestigationOutcome(event)
      PROVE  SettledInv' /\ UNCHANGED Settlement!settled
  BY <1>2, CommandSettles, CommandEventsDoNotVerify DEF RecordInvestigationOutcome
<1>3. ASSUME NEW tool \in Tools, RequestApproval(tool)
      PROVE  SettledInv' /\ UNCHANGED Settlement!settled
  BY <1>3, CommandSettles, CommandEventsDoNotVerify DEF RequestApproval
<1>4. ASSUME NEW item \in LateEvidence, AdmitEvidence(item)
      PROVE  SettledInv' /\ UNCHANGED Settlement!settled
  BY <1>4, CommandSettles, CommandEventsDoNotVerify DEF AdmitEvidence
<1>5. ASSUME NEW a \in Auths, NEW p \in Principals, NEW params \in Params,
             Approve(a, p, params)
      PROVE  SettledInv' /\ UNCHANGED Settlement!settled
  <2>1. params.tool \in Tools
    BY DEF Params
  <2>2. /\ Lifecycle(AcceptedEvent(params.tool)) /\ UNCHANGED <<attempt, ent, pc, call>>
        /\ grantStatus[a] = "NONE"
        /\ \A b \in Auths \ {a} : grant'[b] = grant[b]
    BY <1>5 DEF Approve, IInv, TypeInv, TypeOK
  <2>3. QED
    BY <2>1, <2>2, CommandSettles, CommandEventsDoNotVerify
<1>6. QED
  BY <1>1, <1>2, <1>3, <1>4, <1>5 DEF CaseCommand

\* What one posting is to the contract, and that it keeps the invariant.
LEMMA PostingSettles ==
  ASSUME IInv, SettledInv, NEW tool \in Tools, NEW revision, Preconditions(ent, tool, revision),
         NEW x, NEW k, NEW at, ent' = Posted(ent, tool, x, k, at),
         UNCHANGED <<case, grant, grantStatus, attempt>>
  PROVE  /\ Stays /\ ProgressOK' /\ SuccessOK' /\ ConsumedOK'
         /\ ~EffectOn(tool)
         /\ PostedBy(tool) = "no"
         /\ PostedBy(tool)' = IF x \in Execs THEN "local" ELSE "external"
         /\ \A u \in Tools \ {tool} : PostedBy(u)' = PostedBy(u)
         /\ \A t \in Tools : OutcomeOf(t)' = OutcomeOf(t)
<1> DEFINE f == NewEffect(tool, x, k, at)
<1>0. ent \in Enterprises /\ AtMostOneEffect /\ EffectsBlock
  BY DEF IInv, TypeInv, TypeOK, EffectInv
<1>1. ent'.effects = ent.effects \union {f}
  BY <1>0, PostedFacts
<1>2. f.tool = tool /\ f.exec = x
  BY DEF NewEffect
<1>3. ~EffectOn(tool)
  <2>1. tool = Receipt => ent.message.status = "FAILED"
    BY DEF Preconditions, ReceiptPreconditions
  <2>2. tool = Invoice => ent.invoice.state = "HELD" /\ ent.invoice.hold = "RECEIPT_MISMATCH"
    BY DEF Preconditions, InvoicePreconditions, Receipt, Invoice
  <2>3. QED
    BY <1>0, <2>1, <2>2 DEF EffectOn, EffectsBlock, Tools
<1>4. tool = Receipt \/ ent'.message = ent.message
  BY <1>0 DEF Posted, InvoiceReleased, Enterprises
<1> HIDE DEF f
<1>5. EffectOn(tool)' /\ \A u : EffectOn(u) => EffectOn(u)'
  BY <1>1, <1>2 DEF EffectOn
<1>6. \A u \in Tools \ {tool} : PostedBy(u)' = PostedBy(u)
  <2>1. ASSUME NEW u \in Tools \ {tool}
        PROVE  (EffectOn(u)' <=> EffectOn(u)) /\ (LocalOn(u)' <=> LocalOn(u))
    BY <1>1, <1>2 DEF EffectOn, LocalOn
  <2>2. QED
    BY <2>1, PostingsStay
<1>7. PostedBy(tool) = "no"
  <2>1. SourceEffects(ent, tool) = {}
    BY <1>3 DEF SourceEffects, EffectOn
  <2>2. QED
    BY <2>1 DEF PostedBy
<1>8. PostedBy(tool)' = IF x \in Execs THEN "local" ELSE "external"
  <2>1. SourceEffects(ent', tool) = {f}
    BY <1>1, <1>2, <1>3 DEF SourceEffects, EffectOn
  <2>2. QED
    BY <1>2, <2>1 DEF PostedBy
<1>9. Stays
  BY <1>5 DEF Stays
<1>10. /\ \A e \in Execs : AttemptExists(e) => ToolOf(e)' = ToolOf(e)
       /\ \A t \in Tools : OutcomeOf(t)' = OutcomeOf(t)
  BY <1>9, OutcomesStay
<1>11. ProgressOK' /\ SuccessOK'
  BY <1>5 DEF SettledInv, ProgressOK, SuccessOK, AttemptExists, ToolOf
<1>12. ConsumedOK'
  BY <1>4, <1>5 DEF SettledInv, ConsumedOK
<1>13. QED
  BY <1>3, <1>6, <1>7, <1>8, <1>9, <1>10, <1>11, <1>12

\* Relabelling and drift are invisible.
LEMMA DriftSettles ==
  ASSUME IInv, SettledInv, UNCHANGED <<case, grant, grantStatus, attempt, pc, call>>,
         ent'.message.status = ent.message.status,
         \A t : (EffectOn(t)' <=> EffectOn(t)) /\ (LocalOn(t)' <=> LocalOn(t))
  PROVE  SettledInv' /\ UNCHANGED Settlement!settled
<1>1. TypeInv /\ Stays
  BY DEF Stays, IInv
<1>2. /\ \A t \in Tools : OutcomeOf(t)' = OutcomeOf(t)
      /\ \A t \in Tools : PostedBy(t)' = PostedBy(t)
  BY <1>1, OutcomesStay, PostingsStay
<1>3. UNCHANGED Settlement!settled
  BY <1>2, Invisible
<1>4. ProgressOK' /\ SuccessOK' /\ ConsumedOK'
  BY DEF SettledInv, ProgressOK, SuccessOK, ConsumedOK, AttemptExists, ToolOf
<1>5. \A v \in Workers : VerdictOK(v)'
  BY <1>1, OtherVerdict DEF SettledInv
<1>6. QED
  BY <1>3, <1>4, <1>5 DEF SettledInv

\* External work is an external posting; drift is invisible.
LEMMA EnvironmentSettles ==
  ASSUME IInv, SettledInv, Environment
  PROVE  SettledInv' /\ [Settlement!Next]_(Settlement!settled)
<1>0. TypeInv /\ ent \in Enterprises
  BY DEF IInv, TypeInv, TypeOK
<1>1. UNCHANGED <<case, grant, grantStatus, attempt, receipt, pc, call>>
  BY DEF Environment, ExternalCommit, ExternalRetag, AdvanceFailedMessageRevision,
     SetErpReceiptQuantity, SetInvoiceHold, Tick, caseDb
<1>2. ASSUME NEW tool \in Tools, ExternalCommit(tool)
      PROVE  SettledInv' /\ [Settlement!Next]_(Settlement!settled)
  <2>1. /\ Preconditions(ent, tool, SourceRevision(ent, tool))
        /\ ent' = Posted(ent, tool, ExternalId(tool), ExternalId(tool), now)
    BY <1>2 DEF ExternalCommit
  <2>2. ExternalId(tool) \notin Execs
    BY ToolFacts, NamespaceAssumption
  <2>3. /\ Stays /\ ProgressOK' /\ SuccessOK' /\ ConsumedOK'
        /\ PostedBy(tool) = "no" /\ PostedBy(tool)' = "external"
        /\ \A u \in Tools \ {tool} : PostedBy(u)' = PostedBy(u)
        /\ \A t \in Tools : OutcomeOf(t)' = OutcomeOf(t)
    BY <1>1, <2>1, <2>2, PostingSettles
  <2>4. Settlement!PostExternal(tool)
    BY <1>1, <2>3 DEF Settlement!PostExternal
  <2>5. \A v \in Workers : VerdictOK(v)'
    BY <1>0, <1>1, <2>3, OtherVerdict DEF SettledInv
  <2>6. QED
    BY <2>3, <2>4, <2>5 DEF SettledInv, Settlement!Next, Settlement!Tools,
       Settlement!Receipt, Settlement!Invoice, Tools, Receipt, Invoice
<1>3. ASSUME NEW tool \in Tools, ExternalRetag(tool)
      PROVE  SettledInv' /\ UNCHANGED Settlement!settled
  <2> DEFINE R(f) == IF f.tool = tool /\ f.exec = ExternalId(tool)
                     THEN [f EXCEPT !.type = ExternalType(tool)] ELSE f
  <2>1. ent'.effects = {R(f) : f \in ent.effects} /\ ent'.message = ent.message
    BY <1>0, <1>3 DEF ExternalRetag, Retagged, Enterprises
  <2>2. \A f \in ent.effects : R(f).exec = f.exec /\ R(f).tool = f.tool
    <3>1. ent.effects \subseteq Effects
      BY <1>0 DEF Enterprises
    <3>2. QED
      BY <3>1 DEF Effects
  <2> HIDE DEF R
  <2>3. \A t : (EffectOn(t)' <=> EffectOn(t)) /\ (LocalOn(t)' <=> LocalOn(t))
    BY <2>1, <2>2 DEF EffectOn, LocalOn
  <2>4. QED
    BY <1>1, <2>1, <2>3, DriftSettles
<1>4. CASE \/ AdvanceFailedMessageRevision \/ SetInvoiceHold \/ Tick
           \/ \E q \in DriftQuantities : SetErpReceiptQuantity(q)
  <2>1. ent'.effects = ent.effects /\ ent'.message.status = ent.message.status
    BY <1>0, <1>4 DEF AdvanceFailedMessageRevision, SetInvoiceHold, Tick,
       SetErpReceiptQuantity, MessageRevisionAdvanced, ErpReceiptQuantitySet,
       InvoiceHoldSet, Enterprises
  <2>2. \A t : (EffectOn(t)' <=> EffectOn(t)) /\ (LocalOn(t)' <=> LocalOn(t))
    BY <2>1 DEF EffectOn, LocalOn
  <2>3. QED
    BY <1>1, <2>1, <2>2, DriftSettles
<1>5. QED
  BY <1>2, <1>3, <1>4 DEF Environment

\* While an attempt of the tool is open, the contract sees it.
LEMMA OpenOutcome ==
  ASSUME NEW e \in Execs, attempt[e].status \in OpenStatuses
  PROVE  OutcomeOf(ToolOf(e)) \in {"reserved", "failed"}
<1>1. e \in AttemptsOn(ToolOf(e), {"RESERVED"}) \/ e \in AttemptsOn(ToolOf(e), {"VERIFICATION_FAILED"})
  BY DEF AttemptsOn, OpenStatuses
<1>2. QED
  BY <1>1 DEF OutcomeOf

\* The executor's posting is a local posting of a reserved or failed action.
LEMMA MutatePostSettles ==
  ASSUME IInv, SettledInv, NEW w \in Workers, MutatePost(w)
  PROVE  SettledInv' /\ [Settlement!Next]_(Settlement!settled)
<1>0. TypeInv /\ CallOK(w) /\ pc \in [Workers -> ControlPoints]
  BY DEF IInv, TypeInv, TypeOK, CallInv
<1>1. /\ UNCHANGED <<case, grant, grantStatus, attempt, receipt>>
      /\ pc[w] = "mutate" /\ pc' = [pc EXCEPT ![w] = "verify"]
  BY DEF MutatePost, MutatedTo, Goto, caseDb
<1>2. call[w].req.exec \in Execs /\ grant[call[w].req.auth] \in Grants
  BY <1>0, <1>1, GrantedCall DEF Granted, ControlPoints
<1>3. PICK tool \in Tools, x \in Execs :
         tool = grant[call[w].req.auth].tool /\ x = call[w].req.exec
  BY <1>2 DEF Grants
<1>4. /\ Preconditions(ent, tool, call[w].req.params.revision)
      /\ ent' = Posted(ent, tool, x, call[w].req.key, call[w].at)
  BY <1>3 DEF MutatePost
<1>5. AttemptExists(x) /\ ToolOf(x) = tool
  BY <1>0, <1>1, <1>3 DEF CallOK, Reserved, ToolOf
<1>6. /\ Stays /\ ProgressOK' /\ SuccessOK' /\ ConsumedOK' /\ ~EffectOn(tool)
      /\ PostedBy(tool) = "no" /\ PostedBy(tool)' = "local"
      /\ \A u \in Tools \ {tool} : PostedBy(u)' = PostedBy(u)
      /\ \A t \in Tools : OutcomeOf(t)' = OutcomeOf(t)
  BY <1>1, <1>4, PostingSettles
<1>7. attempt[x].status \in OpenStatuses
  <2>1. attempt[x] \in Attempts
    BY <1>0 DEF TypeInv, TypeOK
  <2>2. attempt[x].status # "COMPLETED"
    BY <1>5, <1>6 DEF SettledInv, SuccessOK
  <2>3. QED
    BY <1>5, <2>1, <2>2 DEF Attempts, AttemptStatuses, OpenStatuses, AttemptExists
<1>8. OutcomeOf(tool) \in {"reserved", "failed"}
  BY <1>5, <1>7, OpenOutcome
<1>9. Settlement!PostLocal(tool)
  BY <1>1, <1>3, <1>6, <1>8 DEF Settlement!PostLocal
<1>10. \A v \in Workers \ {w} : pc'[v] = pc[v] /\ call'[v] = call[v]
  BY <1>0, OthersStay DEF Step
<1>11. VerdictOK(w)'
  BY <1>0, <1>1 DEF VerdictOK
<1>12. \A v \in Workers : VerdictOK(v)'
  BY <1>0, <1>6, <1>10, <1>11, OtherVerdict DEF SettledInv
<1>13. QED
  BY <1>3, <1>6, <1>9, <1>12 DEF SettledInv, Settlement!Next, Settlement!Tools,
       Settlement!Receipt, Settlement!Invoice, Tools, Receipt, Invoice

\* One attempt changes its status, no other one is open: the outcome of its
\* tool changes with it, and no other outcome.
LEMMA OutcomeMoves ==
  ASSUME NEW x \in Execs, NEW tool \in Tools, UNCHANGED grant,
         \A e \in Execs \ {x} : attempt'[e] = attempt[e],
         \A e \in Execs \ {x} : attempt[e].status \notin OpenStatuses,
         AttemptExists(x) => ToolOf(x) = tool, ToolOf(x)' = tool,
         attempt'[x].status # "NONE"
  PROVE  /\ attempt'[x].status = "RESERVED" => OutcomeOf(tool)' = "reserved"
         /\ attempt'[x].status = "VERIFICATION_FAILED" => OutcomeOf(tool)' = "failed"
         /\ attempt'[x].status = "COMPLETED" => OutcomeOf(tool)' = "success"
         /\ \A u \in Tools \ {tool} : OutcomeOf(u)' = OutcomeOf(u)
<1>1. \A e \in Execs \ {x} : ToolOf(e)' = ToolOf(e)
  BY DEF ToolOf
<1>2. ASSUME NEW u \in Tools \ {tool}
      PROVE  OutcomeOf(u)' = OutcomeOf(u)
  <2>1. ASSUME NEW S, "NONE" \notin S
        PROVE  AttemptsOn(u, S)' = AttemptsOn(u, S)
    BY <1>1, <1>2, <2>1 DEF AttemptsOn, AttemptExists
  <2>2. /\ AttemptsOn(u, {"RESERVED"})' = AttemptsOn(u, {"RESERVED"})
        /\ AttemptsOn(u, {"VERIFICATION_FAILED"})' = AttemptsOn(u, {"VERIFICATION_FAILED"})
        /\ AttemptsOn(u, {"COMPLETED"})' = AttemptsOn(u, {"COMPLETED"})
    BY <2>1
  <2>3. QED
    BY <2>2 DEF OutcomeOf
<1>3. \A S : attempt'[x].status \in S => x \in AttemptsOn(tool, S)'
  BY DEF AttemptsOn
<1>4. \A e \in Execs \ {x} : attempt'[e].status \notin {"RESERVED", "VERIFICATION_FAILED"}
  BY DEF OpenStatuses
<1>5. CASE attempt'[x].status = "RESERVED"
  <2>1. AttemptsOn(tool, {"RESERVED"})' # {}
    BY <1>3, <1>5
  <2>2. QED
    BY <1>2, <1>5, <2>1 DEF OutcomeOf
<1>6. CASE attempt'[x].status = "VERIFICATION_FAILED"
  <2>1. AttemptsOn(tool, {"RESERVED"})' = {}
    BY <1>4, <1>6 DEF AttemptsOn
  <2>2. AttemptsOn(tool, {"VERIFICATION_FAILED"})' # {}
    BY <1>3, <1>6
  <2>3. QED
    BY <1>2, <1>6, <2>1, <2>2 DEF OutcomeOf
<1>7. CASE attempt'[x].status = "COMPLETED"
  <2>1. AttemptsOn(tool, {"RESERVED"})' = {} /\ AttemptsOn(tool, {"VERIFICATION_FAILED"})' = {}
    BY <1>4, <1>7 DEF AttemptsOn
  <2>2. AttemptsOn(tool, {"COMPLETED"})' # {}
    BY <1>3, <1>7
  <2>3. QED
    BY <1>2, <1>7, <2>1, <2>2 DEF OutcomeOf
<1>8. QED
  BY <1>2, <1>5, <1>6, <1>7

\* A tool nothing was tried on is open.
LEMMA UntriedIsOpen ==
  ASSUME NEW t \in Tools, \A e \in Execs : AttemptExists(e) => ToolOf(e) # t
  PROVE  OutcomeOf(t) = "open"
<1>1. \A S : "NONE" \notin S => AttemptsOn(t, S) = {}
  BY DEF AttemptsOn, AttemptExists
<1>2. /\ AttemptsOn(t, {"RESERVED"}) = {} /\ AttemptsOn(t, {"VERIFICATION_FAILED"}) = {}
      /\ AttemptsOn(t, {"COMPLETED"}) = {}
  BY <1>1
<1>3. QED
  BY <1>2 DEF OutcomeOf

\* With no open attempt no outcome is reserved or failed.
LEMMA NothingOpen ==
  ASSUME NEW t \in Tools, \A e \in Execs : attempt[e].status \notin OpenStatuses
  PROVE  OutcomeOf(t) \notin {"reserved", "failed"}
<1>1. AttemptsOn(t, {"RESERVED"}) = {} /\ AttemptsOn(t, {"VERIFICATION_FAILED"}) = {}
  BY DEF AttemptsOn, OpenStatuses
<1>2. QED
  BY <1>1 DEF OutcomeOf

\* reserve_attempt is the contract's reservation.
LEMMA ReserveNewSettles ==
  ASSUME IInv, SettledInv, NEW w \in Workers, ReserveNew(w)
  PROVE  SettledInv' /\ [Settlement!Next]_(Settlement!settled)
<1>0. /\ TypeInv /\ OpenAttemptHoldsCase /\ pc \in [Workers -> ControlPoints]
      /\ attempt \in [Execs -> Attempts]
  BY DEF IInv, LedgerInv, TypeInv, TypeOK
<1>1. pc[w] = "reserve"
  BY DEF ReserveNew
<1>2. /\ call[w].req \in Requests /\ call[w].req.auth \in Auths
      /\ call[w].req.exec \in Execs /\ grant[call[w].req.auth] \in Grants
  BY <1>0, <1>1, GrantedCall DEF Granted, ControlPoints
<1>3. PICK tool \in Tools, x \in Execs, req \in Requests :
         tool = grant[req.auth].tool /\ x = req.exec /\ req = call[w].req
  BY <1>2 DEF Grants
<1>4. /\ ~AttemptExists(x)
      /\ CanAdvance(case, StartedEvent(tool), call[w].version, call[w].at)
      /\ case' = Advanced(case, StartedEvent(tool), call[w].at)
      /\ attempt' = [attempt EXCEPT ![x] = [command |-> req, status |-> "RESERVED"]]
      /\ pc' = [pc EXCEPT ![w] = "lookup"]
      /\ UNCHANGED <<grant, ent, call>>
  BY <1>3 DEF ReserveNew, CanReserve, Goto
<1>5. case.status = AuthorizedStatus(tool) /\ case'.status = ExecutingStatus(tool)
  BY <1>4, StartsFromAuthorized
<1>6. /\ attempt'[x].command = req /\ attempt'[x].status = "RESERVED"
      /\ \A e \in Execs \ {x} : attempt'[e] = attempt[e]
  BY <1>0, <1>4
<1>7. ToolOf(x)' = tool /\ \A e \in Execs \ {x} : ToolOf(e)' = ToolOf(e)
  BY <1>3, <1>4, <1>6 DEF ToolOf
<1>8. \A e \in Execs : AttemptExists(e) => ToolOf(e) \in Tools
  BY AttemptTool
<1>9. \A e \in Execs : AttemptExists(e) => ToolOf(e) # tool /\ (tool = Receipt => ToolOf(e) # Invoice)
  <2>1. SUFFICES ASSUME NEW e \in Execs, AttemptExists(e)
                 PROVE  ToolOf(e) # tool /\ (tool = Receipt => ToolOf(e) # Invoice)
    OBVIOUS
  <2>2. case.status \in Reached(ToolOf(e))
    BY <2>1 DEF SettledInv, ProgressOK
  <2>3. QED
    BY <1>5, <2>2 DEF Reached, AuthorizedStatus, Receipt, Invoice, Tools
<1>10. \A e \in Execs : attempt[e].status \notin OpenStatuses
  <2>1. SUFFICES ASSUME NEW e \in Execs, attempt[e].status \in OpenStatuses PROVE FALSE
    OBVIOUS
  <2>2. case.status = ExecutingStatus(ToolOf(e)) /\ AttemptExists(e)
    BY <1>0, <2>1 DEF OpenAttemptHoldsCase, OpenStatuses, AttemptExists
  <2>3. QED
    BY <1>5, <1>8, <2>2 DEF AuthorizedStatus, ExecutingStatus, Tools, Receipt, Invoice
<1>11. /\ OutcomeOf(tool)' = "reserved"
       /\ \A u \in Tools \ {tool} : OutcomeOf(u)' = OutcomeOf(u)
  BY <1>4, <1>6, <1>7, <1>10, OutcomeMoves
<1>12. /\ OutcomeOf(tool) = "open"
       /\ tool = Receipt => OutcomeOf(Invoice) = "open"
       /\ \A u \in Tools : OutcomeOf(u) \notin {"reserved", "failed"}
  BY <1>9, <1>10, UntriedIsOpen, NothingOpen DEF Tools
<1>13. /\ \A t \in Tools : PostedBy(t)' = PostedBy(t)
       /\ \A t : EffectOn(t)' <=> EffectOn(t)
  BY <1>4, PostingsStay DEF EffectOn, LocalOn
<1>14. case.status # "CLOSED" /\ case'.status # "CLOSED"
  BY <1>5 DEF AuthorizedStatus, ExecutingStatus
<1>15. Settlement!Reserve(tool)
  <2>1. UNCHANGED <<[t \in Tools |-> PostedBy(t)], case.status = "CLOSED">>
    BY <1>13, <1>14
  <2>2. [t \in Tools |-> OutcomeOf(t)]' = [[t \in Tools |-> OutcomeOf(t)] EXCEPT ![tool] = "reserved"]
    BY <1>11
  <2>3. QED
    BY <1>12, <2>1, <2>2 DEF Settlement!Reserve, Settlement!Tools, Settlement!Receipt,
       Settlement!Invoice, Tools, Receipt, Invoice
<1>16. Stays
  BY <1>4, <1>13 DEF Stays
<1>17. ProgressOK'
  <2>1. case'.status \in Reached(tool)
    BY <1>5 DEF Reached, ExecutingStatus, Tools
  <2>2. \A e \in Execs \ {x} : AttemptExists(e) => case'.status \in Reached(ToolOf(e))
    <3>1. SUFFICES ASSUME NEW e \in Execs \ {x}, AttemptExists(e)
                   PROVE  case'.status \in Reached(ToolOf(e))
      OBVIOUS
    <3>2. ToolOf(e) = Receipt /\ tool = Invoice
      BY <1>8, <1>9, <3>1 DEF Tools
    <3>3. QED
      BY <1>5, <3>2 DEF Reached, ExecutingStatus, Receipt, Invoice
  <2>3. QED
    BY <1>6, <1>7, <2>1, <2>2 DEF ProgressOK, AttemptExists
<1>18. SuccessOK'
  BY <1>6, <1>7, <1>13 DEF SettledInv, SuccessOK
<1>19. ConsumedOK'
  BY <1>4, <1>13 DEF SettledInv, ConsumedOK
<1>20. VerdictOK(w)'
  BY <1>0, <1>4 DEF VerdictOK
<1>21. \A v \in Workers \ {w} : pc'[v] = pc[v] /\ call'[v] = call[v]
  BY <1>0, OthersStay DEF Step
<1>22. \A v \in Workers : VerdictOK(v)'
  BY <1>0, <1>16, <1>20, <1>21, OtherVerdict DEF SettledInv
<1>23. QED
  BY <1>15, <1>17, <1>18, <1>19, <1>22 DEF SettledInv, Settlement!Next, Settlement!Tools,
     Settlement!Receipt, Settlement!Invoice, Tools, Receipt, Invoice

\* The verified event takes the executing case to the tool's final status.
LEMMA VerifiesFromExecuting ==
  ASSUME NEW c, NEW v, NEW at, NEW tool \in Tools,
         CanAdvance(c, VerifiedEvent(tool), v, at)
  PROVE  /\ c.status = ExecutingStatus(tool)
         /\ Advanced(c, VerifiedEvent(tool), at).status =
              IF tool = Receipt THEN "RECEIPT_VERIFIED" ELSE "CLOSED"
<1>1. PICK s \in CaseStatus : <<c.status, VerifiedEvent(tool), s>> \in TRANSITIONS
  BY DEF CanAdvance
<1>2. /\ c.status = ExecutingStatus(tool)
      /\ s = IF tool = Receipt THEN "RECEIPT_VERIFIED" ELSE "CLOSED"
  BY <1>1 DEF TRANSITIONS, VerifiedEvent, ExecutingStatus, Tools
<1>3. QED
  BY <1>1, <1>2, NextStatusIs DEF Advanced

\* complete_attempt on a reserved attempt ends it with the status it is given;
\* the contract sees that tool's outcome change and nothing else.
LEMMA EndsReserved ==
  ASSUME IInv, SettledInv, NEW w \in Workers, pc[w] \in Reserved,
         NEW result \in {"EXECUTED", "SAFE_NOOP", "FAILED"},
         NEW status \in {"COMPLETED", "VERIFICATION_FAILED"},
         CompleteAttempt(w, result, status), UNCHANGED <<grant, ent>>,
         NEW x \in Execs, x = call[w].req.exec, attempt[x].status = "RESERVED",
         NEW tool \in Tools, tool = grant[call[w].req.auth].tool
  PROVE  /\ ToolOf(x) = tool /\ OutcomeOf(tool) = "reserved"
         /\ status = "VERIFICATION_FAILED" => OutcomeOf(tool)' = "failed"
         /\ status = "COMPLETED" => OutcomeOf(tool)' = "success"
         /\ \A u \in Tools \ {tool} : OutcomeOf(u)' = OutcomeOf(u)
         /\ \A e \in Execs : ToolOf(e)' = ToolOf(e)
         /\ \A e \in Execs : AttemptExists(e)' => AttemptExists(e)
         /\ attempt'[x].status = status
         /\ \A e \in Execs \ {x} : attempt'[e] = attempt[e]
<1>0. CallOK(w) /\ OpenAttemptHoldsCase
  BY DEF IInv, CallInv, LedgerInv
<1>1. AttemptExists(x) /\ attempt[x].command = call[w].req
  BY <1>0 DEF CallOK
<1>2. ToolOf(x) = tool
  BY <1>1 DEF ToolOf
<1>3. /\ Grows /\ \A e \in Execs \ {x} : attempt'[e] = attempt[e]
      /\ attempt'[x].status = status
  BY CompleteAttemptSafe
<1>4. \A e \in Execs \ {x} : ToolOf(e)' = ToolOf(e)
  BY <1>3 DEF ToolOf
<1>5. attempt'[x].command = attempt[x].command
  BY <1>1, <1>3 DEF Grows
<1>6. ToolOf(x)' = ToolOf(x)
  BY <1>5 DEF ToolOf
<1>7. \A e \in Execs \ {x} : attempt[e].status \notin OpenStatuses
  BY <1>0 DEF OpenAttemptHoldsCase, OpenStatuses
<1>8. /\ status = "VERIFICATION_FAILED" => OutcomeOf(tool)' = "failed"
      /\ status = "COMPLETED" => OutcomeOf(tool)' = "success"
      /\ \A u \in Tools \ {tool} : OutcomeOf(u)' = OutcomeOf(u)
  BY <1>2, <1>3, <1>6, <1>7, OutcomeMoves
<1>9. OutcomeOf(tool) = "reserved"
  <2>1. x \in AttemptsOn(tool, {"RESERVED"})
    BY <1>2 DEF AttemptsOn
  <2>2. QED
    BY <2>1 DEF OutcomeOf
<1>10. \A e \in Execs : AttemptExists(e)' => AttemptExists(e)
  BY <1>1, <1>3 DEF AttemptExists
<1>11. QED
  BY <1>2, <1>3, <1>4, <1>6, <1>8, <1>9, <1>10

\* The three ways an attempt ends are the contract's success, its failure, or
\* invisible.
LEMMA CompletionSettles ==
  ASSUME IInv, SettledInv, NEW w \in Workers,
         FailAttempt(w) \/ CompleteUnverified(w) \/ CompleteVerified(w)
  PROVE  SettledInv' /\ [Settlement!Next]_(Settlement!settled)
<1>0. TypeInv /\ VerdictOK(w)
  BY DEF IInv, SettledInv
<1>1. pc[w] \in Reserved /\ Return(w) /\ UNCHANGED <<grant, ent>>
  BY DEF FailAttempt, CompleteUnverified, CompleteVerified, Reserved
<1>2. call[w].req.exec \in Execs /\ grant[call[w].req.auth] \in Grants
  BY <1>0, <1>1, GrantedCall DEF Reserved, Granted, ControlPoints
<1>3. PICK tool \in Tools, x \in Execs :
         tool = grant[call[w].req.auth].tool /\ x = call[w].req.exec
  BY <1>2 DEF Grants
<1>4. /\ \A t \in Tools : PostedBy(t)' = PostedBy(t)
      /\ \A t : EffectOn(t)' <=> EffectOn(t)
  BY <1>1, PostingsStay DEF EffectOn, LocalOn
<1>5. Stays /\ ConsumedOK'
  BY <1>1, <1>4 DEF Stays, SettledInv, ConsumedOK
<1>6. \A v \in Workers : VerdictOK(v)'
  <2>1. \A v \in Workers \ {w} : pc'[v] = pc[v] /\ call'[v] = call[v]
    BY <1>0, OthersStay DEF Step
  <2>2. QED
    BY <1>0, <1>1, <1>5, <2>1, OtherVerdict, ReturnVerdict DEF SettledInv
<1>7. ASSUME UNCHANGED <<case, attempt>>
      PROVE  SettledInv' /\ UNCHANGED Settlement!settled
  <2>1. /\ \A e \in Execs : AttemptExists(e) => ToolOf(e)' = ToolOf(e)
        /\ \A t \in Tools : OutcomeOf(t)' = OutcomeOf(t)
    BY <1>5, <1>7, OutcomesStay
  <2>2. UNCHANGED Settlement!settled
    BY <1>4, <1>7, <2>1, Invisible
  <2>3. ProgressOK' /\ SuccessOK'
    BY <1>1, <1>4, <1>7 DEF SettledInv, ProgressOK, SuccessOK, AttemptExists, ToolOf
  <2>4. QED
    BY <1>5, <1>6, <2>2, <2>3 DEF SettledInv
<1>8. CASE attempt[x].status = "RESERVED" /\ (FailAttempt(w) \/ CompleteUnverified(w))
  <2>1. CompleteAttempt(w, "FAILED", "VERIFICATION_FAILED") /\ UNCHANGED case
    BY <1>8 DEF FailAttempt, CompleteUnverified
  <2>2. /\ OutcomeOf(tool) = "reserved" /\ OutcomeOf(tool)' = "failed"
        /\ \A u \in Tools \ {tool} : OutcomeOf(u)' = OutcomeOf(u)
        /\ \A e \in Execs : ToolOf(e)' = ToolOf(e)
        /\ \A e \in Execs : AttemptExists(e)' => AttemptExists(e)
        /\ attempt'[x].status = "VERIFICATION_FAILED"
        /\ \A e \in Execs \ {x} : attempt'[e] = attempt[e]
    BY <1>1, <1>3, <1>8, <2>1, EndsReserved
  <2>3. Settlement!Fail(tool)
    <3>1. UNCHANGED <<[t \in Tools |-> PostedBy(t)], case.status = "CLOSED">>
      BY <1>4, <2>1
    <3>2. [t \in Tools |-> OutcomeOf(t)]' = [[t \in Tools |-> OutcomeOf(t)] EXCEPT ![tool] = "failed"]
      BY <2>2
    <3>3. QED
      BY <2>2, <3>1, <3>2 DEF Settlement!Fail
  <2>4. ProgressOK' /\ SuccessOK'
    BY <1>4, <2>1, <2>2 DEF SettledInv, ProgressOK, SuccessOK
  <2>5. QED
    BY <1>5, <1>6, <2>3, <2>4 DEF SettledInv, Settlement!Next, Settlement!Tools,
       Settlement!Receipt, Settlement!Invoice, Tools, Receipt, Invoice
<1>9. CASE attempt[x].status = "RESERVED" /\ CompleteVerified(w) /\ CanClose(w)
  <2>1. /\ CompleteAttempt(w, call[w].outcome, "COMPLETED")
        /\ CanAdvance(case, VerifiedEvent(tool), call[w].version, call[w].at)
        /\ case' = Advanced(case, VerifiedEvent(tool), call[w].at)
        /\ tool = Invoice => call[w].closes
        /\ call[w].verified /\ pc[w] = "complete"
    BY <1>3, <1>9 DEF CompleteVerified, CanClose
  <2>2. call[w].outcome \in {"EXECUTED", "SAFE_NOOP", "FAILED"}
    BY <1>0, <2>1 DEF TypeInv, TypeOK, CallsOK, Answered, Calls
  <2>3. /\ ToolOf(x) = tool /\ OutcomeOf(tool) = "reserved" /\ OutcomeOf(tool)' = "success"
        /\ \A u \in Tools \ {tool} : OutcomeOf(u)' = OutcomeOf(u)
        /\ \A e \in Execs : ToolOf(e)' = ToolOf(e)
        /\ \A e \in Execs : AttemptExists(e)' => AttemptExists(e)
        /\ \A e \in Execs \ {x} : attempt'[e] = attempt[e]
    BY <1>1, <1>3, <1>9, <2>1, <2>2, EndsReserved
  <2>4. EffectOn(tool) /\ (tool = Invoice => EffectOn(Receipt))
    BY <1>0, <1>3, <2>1 DEF VerdictOK
  <2>5. \A t : EffectOn(t) => PostedBy(t) # "no"
    BY DEF EffectOn, PostedBy, SourceEffects
  <2>6. /\ case.status = ExecutingStatus(tool)
        /\ case'.status = IF tool = Receipt THEN "RECEIPT_VERIFIED" ELSE "CLOSED"
    BY <2>1, VerifiesFromExecuting
  <2>7. (case.status = "CLOSED")' = (tool = Invoice)
    BY <2>6 DEF Tools, Receipt, Invoice
  <2>8. Settlement!Succeed(tool)
    <3>1. UNCHANGED [t \in Tools |-> PostedBy(t)]
      BY <1>4
    <3>2. [t \in Tools |-> OutcomeOf(t)]' = [[t \in Tools |-> OutcomeOf(t)] EXCEPT ![tool] = "success"]
      BY <2>3
    <3>3. tool = Invoice => [t \in Tools |-> PostedBy(t)][Receipt] # "no"
      BY <2>4, <2>5 DEF Tools
    <3>4. [t \in Tools |-> PostedBy(t)][tool] # "no" /\ [t \in Tools |-> OutcomeOf(t)][tool] = "reserved"
      BY <2>3, <2>4, <2>5
    <3>5. QED
      BY <2>7, <3>1, <3>2, <3>3, <3>4 DEF Settlement!Succeed, Settlement!Receipt,
         Settlement!Invoice, Receipt, Invoice
  <2>9. ProgressOK'
    <3>1. SUFFICES ASSUME NEW e \in Execs, AttemptExists(e)
                   PROVE  case'.status \in Reached(ToolOf(e))
      BY <2>3 DEF ProgressOK
    <3>2. case.status \in Reached(ToolOf(e)) /\ ToolOf(e) \in Tools
      BY <3>1, AttemptTool DEF SettledInv, ProgressOK
    <3>3. QED
      BY <2>6, <3>2 DEF Reached, ExecutingStatus, Tools, Receipt, Invoice
  <2>10. SuccessOK'
    BY <1>4, <2>3, <2>4 DEF SettledInv, SuccessOK
  <2>11. QED
    BY <1>5, <1>6, <2>8, <2>9, <2>10 DEF SettledInv, Settlement!Next, Settlement!Tools,
       Settlement!Receipt, Settlement!Invoice, Tools, Receipt, Invoice
<1>10. QED
  <2>1. CASE attempt[x].status # "RESERVED"
    BY <1>3, <1>7, <2>1 DEF FailAttempt, CompleteUnverified, CompleteVerified, CompleteAttempt
  <2>2. CASE CompleteVerified(w) /\ ~CanClose(w)
    BY <1>7, <2>2 DEF CompleteVerified
  <2>3. QED
    BY <1>8, <1>9, <2>1, <2>2

-----------------------------------------------------------------------------

\* Nothing is tried or posted at first.
LEMMA SettledAtFirst ==
  ASSUME Init
  PROVE  SettledInv /\ Settlement!Init
<1>1. /\ ent.effects = {} /\ ent.message.status = "FAILED" /\ case.status = "OPEN"
      /\ attempt = [e \in Execs |-> NoAttempt] /\ pc = [w \in Workers |-> "idle"]
  BY DEF Init, SeededEnterprise
<1>2. \A e \in Execs : ~AttemptExists(e) /\ attempt[e].status = "NONE"
  BY <1>1 DEF AttemptExists, NoAttempt
<1>3. SettledInv
  BY <1>1, <1>2 DEF SettledInv, ProgressOK, SuccessOK, ConsumedOK, VerdictOK
<1>4. \A t \in Tools : OutcomeOf(t) = "open" /\ PostedBy(t) = "no"
  BY <1>1, <1>2, UntriedIsOpen DEF PostedBy, SourceEffects
<1>5. QED
  BY <1>1, <1>3, <1>4 DEF Settlement!Init, Settlement!Tools, Settlement!Receipt,
     Settlement!Invoice, Tools, Receipt, Invoice

\* Every step keeps the invariant and is a step of the contract or invisible.
LEMMA NextSettles ==
  ASSUME IInv, SettledInv, [Next]_vars
  PROVE  SettledInv' /\ [Settlement!Next]_(Settlement!settled)
<1>1. CASE CaseCommand
  BY <1>1, CaseCommandSettles
<1>2. CASE Environment
  BY <1>2, EnvironmentSettles
<1>3. ASSUME NEW w \in Workers, QuietStep(w)
      PROVE  SettledInv' /\ [Settlement!Next]_(Settlement!settled)
  BY <1>3, QuietStepSettles
<1>4. ASSUME NEW w \in Workers, ReserveNew(w) \/ MutatePost(w)
      PROVE  SettledInv' /\ [Settlement!Next]_(Settlement!settled)
  BY <1>4, ReserveNewSettles, MutatePostSettles
<1>5. ASSUME NEW w \in Workers, FailAttempt(w) \/ CompleteUnverified(w) \/ CompleteVerified(w)
      PROVE  SettledInv' /\ [Settlement!Next]_(Settlement!settled)
  BY <1>5, CompletionSettles
<1>6. CASE UNCHANGED vars
  <2>1. UNCHANGED <<case, grant, grantStatus, attempt, ent, pc, call>>
    BY <1>6 DEF vars, caseDb
  <2>2. \A t : (EffectOn(t)' <=> EffectOn(t)) /\ (LocalOn(t)' <=> LocalOn(t))
    BY <2>1 DEF EffectOn, LocalOn
  <2>3. QED
    BY <2>1, <2>2, DriftSettles
<1>7. QED
  BY <1>1, <1>2, <1>3, <1>4, <1>5, <1>6 DEF Next, Step, QuietStep, ReadStep

\* The executor keeps the once-only contract, whatever calls, crashes, retries
\* and external processes do: each action is tried at most once per case and
\* posted at most once, is reported successful only when it was posted, the
\* receipt is never tried after the invoice, and the case closes exactly with
\* the invoice's success.
THEOREM SettlesOnce == Spec => ImplementsSettlement
<1>1. Init => SettledInv /\ Settlement!Init
  BY SettledAtFirst
<1>2. IInv /\ SettledInv /\ [Next]_vars =>
        SettledInv' /\ [Settlement!Next]_(Settlement!settled)
  BY NextSettles
<1>3. QED
  BY <1>1, <1>2, Inductive, PTL DEF Spec, ImplementsSettlement, Settlement!Spec

-----------------------------------------------------------------------------
(***************************************************************************)
(* The golden runner: what a script has established at each position.      *)
(***************************************************************************)

\* Ids and signer of the runner's two actions, and the call it makes.
AuthOf(tool) == IF tool = Receipt THEN ReceiptAuth ELSE InvoiceAuth
ExecOf(tool) == IF tool = Receipt THEN ReceiptExec ELSE InvoiceExec
KeyOf(tool)  == IF tool = Receipt THEN ReceiptKey ELSE InvoiceKey
Signer(tool) == IF tool = Receipt THEN run.manifest.receiptBy ELSE run.manifest.invoiceBy
RequestWith(tool, params) ==
  Request(AuthOf(tool), ExecOf(tool), KeyOf(tool), Signer(tool), params)
SignedRequest(tool) == RequestWith(tool, grant[AuthOf(tool)].params)

CallFields == {"req", "at", "seenGrant", "seenAttempt", "version", "effect", "outcome",
               "docs", "verified", "closes", "denial"}
EntFields == {"message", "erp", "warehouse", "queued", "docs", "invoice", "effects"}
EffectFields == {"exec", "key", "tool", "type", "at"}

\* The shape of the state, and a case that is not ahead of the clock.
RunShape ==
  /\ run.manifest \in ManifestType
  /\ DOMAIN run = {"manifest", "at", "recovered", "reply", "outcome"}
CallShape ==
  /\ pc = [w \in Workers |-> pc[w]] /\ call = [w \in Workers |-> call[w]]
  /\ DOMAIN call[Caller] = CallFields
LedgerShape ==
  /\ grant = [a \in Auths |-> grant[a]] /\ grantStatus = [a \in Auths |-> grantStatus[a]]
  /\ attempt = [e \in Execs |-> attempt[e]] /\ receipt = [e \in Execs |-> receipt[e]]
  /\ \A e \in Execs : DOMAIN attempt[e] = {"command", "status"}
WorldShape ==
  /\ DOMAIN ent = EntFields
  /\ now \in Nat /\ case.updatedAt \in Nat /\ case.updatedAt <= now

\* Effects: the outside receipt, and the runner's own under its own ids.
OwnIn(e) ==
  \A f \in e.effects :
    /\ DOMAIN f = EffectFields
    /\ \/ f.tool = Receipt /\ f.exec \in ExternalIds /\ f.key \in ExternalIds
       \/ f.tool \in Tools /\ f.exec = ExecOf(f.tool) /\ f.key = KeyOf(f.tool)
NoInvoiceIn(e) == \A f \in e.effects : f.tool = Receipt
NoInvoiceYet == NoInvoiceIn(ent)

\* Attempts are the runner's, each on its own authorization.
Tried(e) == attempt[e].status # "NONE"
OwnAttempts ==
  \A e \in Execs : Tried(e) =>
    \E tool \in Tools : e = ExecOf(tool) /\ attempt[e].command.auth = AuthOf(tool)

\* What holds of state, effects and attempts at every position.
Standing == RunShape /\ CallShape /\ LedgerShape /\ WorldShape /\ OwnIn(ent) /\ OwnAttempts

\* The receipt as its verifier wants it, and one effect behind it.
HoldsIn(e) ==
  /\ e.erp = OrderedQuantity /\ e.warehouse = OrderedQuantity
  /\ e.message.status = "CONSUMED"
  /\ \E d \in e.docs : e.docs = {d}
  /\ \E g \in e.effects : SourceEffects(e, Receipt) = {g}
ReceiptHolds == HoldsIn(ent)
\* The release as its verifier wants it.
ReleasedIn(e, f) ==
  /\ e.invoice.state = "RELEASED" /\ e.invoice.hold = "NONE" /\ ~e.invoice.otherHolds
  /\ e.invoice.releasedBy = InvoiceExec
  /\ f.exec = InvoiceExec /\ f.key = InvoiceKey /\ f.type = LocalType(Invoice)
  /\ SourceEffects(e, Invoice) = {f} /\ f \in e.effects

\* Nothing was signed or tried, and what only the receipt was.
Untouched == /\ \A a \in Auths : grantStatus[a] = "NONE"
             /\ \A e \in Execs : ~Tried(e)
Alone == /\ \A a \in Auths \ {ReceiptAuth} : grantStatus[a] = "NONE"
         /\ \A e \in Execs \ {ReceiptExec} : ~Tried(e)

EarlyPoints == {"seed", "detect", "assess", "requestReceipt", "approveReceipt"}
EarlyInv ==
  run.at \in EarlyPoints =>
    /\ pc[Caller] = "idle" /\ ~run.recovered /\ Untouched
    /\ ent = GoldenFixture(IF run.at = "seed" THEN "lock" ELSE run.manifest.fixture)
    /\ run.at \in {"requestReceipt", "approveReceipt"} => run.manifest.fixture = "lock"

\* A call may begin: the authorization is unspent, or a crash left its attempt.
Unspent(tool) == ~Tried(ExecOf(tool)) /\ grantStatus[AuthOf(tool)] # "NONE"
Held(tool) ==
  /\ attempt[ExecOf(tool)] = [command |-> SignedRequest(tool), status |-> "RESERVED"]
  /\ grantStatus[AuthOf(tool)] = "RESERVED"
  /\ case.status = ExecutingStatus(tool)

\* Between the signature of the receipt and its call.
SignedInv ==
  run.at \in {"change", "hook", "execute"} =>
    /\ pc[Caller] = "idle"
    /\ grant[ReceiptAuth].tool = Receipt /\ Alone /\ NoInvoiceYet
    /\ IF run.at = "execute" /\ run.recovered THEN Held(Receipt)
       ELSE ~run.recovered /\ Unspent(Receipt)
    /\ run.at \in {"change", "hook"} =>
         grant[ReceiptAuth].expires \in Nat /\ now <= grant[ReceiptAuth].expires

\* The call in progress, by control point: who it is, what the case database
\* holds of it, and what it found in the enterprise.
CallIs(tool) ==
  /\ call[Caller].req = RequestWith(tool, call[Caller].req.params)
  /\ call[Caller].at = now
AfterPosting == {"verify", "getCaseAgain", "complete"}
AfterReserving == {"lookup", "mutate", "recover"} \union AfterPosting
CallAt(tool) ==
  LET c == call[Caller]
      p == pc[Caller] IN
  /\ p \in {"getGrant", "getAttempt"} =>
       Unspent(tool) \/ (Held(tool) /\ c.req = SignedRequest(tool))
  /\ p = "getAttempt" => c.seenGrant = grantStatus[AuthOf(tool)]
  /\ p \in {"evaluate", "getCase", "reserve"} => Unspent(tool)
  /\ p \in {"getCase", "reserve"} \union AfterReserving => c.req = SignedRequest(tool)
  /\ p \in AfterReserving => Held(tool)
  /\ p = "recover" => c.seenGrant = "RESERVED" /\ c.seenAttempt = "RESERVED"
Effected(tool) ==
  LET c == call[Caller] IN
  /\ c.outcome \in {"EXECUTED", "SAFE_NOOP"}
  /\ tool = Invoice => ReleasedIn(ent, c.effect) /\ c.outcome = "EXECUTED"
VerifiedNow(tool) ==
  Effected(tool) /\ ReceiptHolds /\ (tool = Invoice => call[Caller].closes)
AnswerAt(tool) ==
  LET c == call[Caller]
      p == pc[Caller] IN
  /\ p \notin AfterPosting => NoInvoiceYet
  /\ p = "verify" => Effected(tool)
  /\ p = "getCaseAgain" => c.verified /\ VerifiedNow(tool)
  /\ p = "complete" =>
       /\ c.verified \in BOOLEAN
       /\ c.verified => VerifiedNow(tool) /\ c.version = case.version
       /\ tool = Invoice => c.verified

\* How the receipt and the invoice end.
ReceiptDone ==
  /\ receipt[ReceiptExec].result \in {"EXECUTED", "SAFE_NOOP"}
  /\ case.status = "RECEIPT_VERIFIED"
  /\ ReceiptHolds /\ NoInvoiceYet
  /\ attempt[ReceiptExec].status = "COMPLETED"
  /\ grantStatus[ReceiptAuth] = "CONSUMED"
  /\ Alone
ReceiptFailed ==
  receipt[ReceiptExec].result = "FAILED" /\ case.status = "RECEIPT_EXECUTING"
InvoiceDone ==
  /\ case.status = "CLOSED" /\ ReceiptHolds
  /\ \E g \in ent.effects : SourceEffects(ent, Invoice) = {g}
Ended(tool, reply) ==
  /\ reply \in {"returned", "denied"}
  /\ reply = "returned" =>
       IF tool = Receipt THEN ReceiptDone \/ ReceiptFailed ELSE InvoiceDone
  /\ reply = "denied" => NoInvoiceYet

\* A call on the grant of its tool: alone for the receipt, on top of the
\* receipt for the invoice.
Stage(tool) ==
  /\ grant[AuthOf(tool)].tool = tool
  /\ tool = Receipt => Alone /\ NoInvoiceYet
  /\ tool = Invoice => ReceiptHolds
Running(tool) == CallIs(tool) /\ CallAt(tool) /\ AnswerAt(tool)
PointOf(tool) == IF tool = Receipt THEN "executing" ELSE "releasing"
CallingInv ==
  \A tool \in Tools : run.at = PointOf(tool) =>
    /\ Stage(tool)
    /\ IF pc[Caller] = "idle" THEN Ended(tool, run.reply) ELSE Running(tool)

\* The replayed and the duplicated call only look.
Looking ==
  /\ pc[Caller] \in {"idle", "getGrant", "getAttempt", "recover", "deny"}
  /\ pc[Caller] # "idle" =>
       /\ call[Caller].req.auth = ReceiptAuth
       /\ call[Caller].req.exec \in {ReceiptExec, ReplayExec}
  /\ pc[Caller] = "getAttempt" => call[Caller].seenGrant = "CONSUMED"
  /\ pc[Caller] = "recover" => call[Caller].seenAttempt = "COMPLETED"
ReusingInv ==
  /\ run.at = "reuse" => pc[Caller] = "idle" /\ ReceiptDone
  /\ run.at = "reusing" => Looking /\ ReceiptDone

\* The invoice may only be asked for once the receipt holds.  An early
\* request meets a case that does not await it.
LateInv ==
  run.at \in {"requestInvoice", "approveInvoice", "release"} =>
    /\ NoInvoiceYet
    /\ \/ run.at = "approveInvoice" /\ case.status = "AWAITING_RECEIPT_APPROVAL"
       \/ /\ pc[Caller] = "idle" /\ ReceiptHolds /\ ~Tried(InvoiceExec)
          /\ run.at = "release" =>
               grantStatus[InvoiceAuth] # "NONE" /\ grant[InvoiceAuth].tool = Invoice

Positions == EarlyInv /\ SignedInv /\ CallingInv /\ ReusingInv /\ LateInv
GoldenInv == Scripted => Standing /\ Positions /\ OutcomeIsTrue

-----------------------------------------------------------------------------
(* The runner's vocabulary. *)

\* The runner has a worker to call with.
LEMMA CallerIs == Caller \in Workers
BY RunnerAssumption DEF Caller

\* Its two actions have ids of their own.
LEMMA ToolIds ==
  ASSUME NEW tool \in Tools
  PROVE  /\ AuthOf(tool) \in Auths /\ ExecOf(tool) \in Execs /\ KeyOf(tool) \in Keys
         /\ \A other \in Tools : AuthOf(other) = AuthOf(tool) => other = tool
         /\ \A other \in Tools : ExecOf(other) = ExecOf(tool) => other = tool
         /\ \A other \in Tools : KeyOf(other) = KeyOf(tool) => other = tool
BY RunnerAssumption DEF Tools, AuthOf, ExecOf, KeyOf

\* There are two tools.
LEMMA TheTools ==
  /\ Receipt \in Tools /\ Invoice \in Tools /\ Receipt # Invoice
  /\ \A tool \in Tools : tool = Receipt \/ tool = Invoice
BY DEF Tools, Receipt, Invoice

\* What a step of the runner does to its own record.
LEMMA RunMoves ==
  ASSUME RunShape, NEW point, Goes(point)
  PROVE  /\ RunShape' /\ run'.at = point
         /\ run'.manifest = run.manifest /\ run'.recovered = run.recovered
         /\ run'.reply = run.reply /\ run'.outcome = run.outcome
BY DEF RunShape, Goes

\* What the end of the run does to it.
LEMMA RunEnds ==
  ASSUME RunShape, NEW outcome, Ends(outcome)
  PROVE  /\ RunShape' /\ run'.at = "done"
         /\ run'.manifest = run.manifest /\ run'.outcome = outcome
BY DEF RunShape, Ends

\* A step of the caller that leaves the other workers alone.
LEMMA CallerMoves ==
  ASSUME CallShape, NEW p, NEW c, pc' = [pc EXCEPT ![Caller] = p],
         call' = [call EXCEPT ![Caller] = c], DOMAIN c = CallFields
  PROVE  CallShape' /\ pc'[Caller] = p /\ call'[Caller] = c
BY CallerIs DEF CallShape

\* The caller moves on with the locals it has.
LEMMA CallerGoes ==
  ASSUME CallShape, NEW p, Goto(Caller, p), UNCHANGED call
  PROVE  CallShape' /\ pc'[Caller] = p /\ call'[Caller] = call[Caller]
BY CallerIs DEF CallShape, Goto

\* The caller returns.
LEMMA CallerReturns ==
  ASSUME CallShape, Return(Caller)
  PROVE  CallShape' /\ pc'[Caller] = "idle" /\ call'[Caller] = NoCall
<1>1. DOMAIN NoCall = CallFields
  BY DEF NoCall, CallFields
<1>2. QED  BY <1>1, CallerMoves DEF Return, Goto

\* What a step leaves to the runner when it writes none of its tables.
LEMMA LedgersStay ==
  ASSUME UNCHANGED <<case, grant, grantStatus, attempt, receipt, now>>
  PROVE  /\ LedgerShape => LedgerShape'
         /\ OwnAttempts => OwnAttempts'
         /\ Alone' <=> Alone
         /\ Untouched' <=> Untouched
         /\ \A e : Tried(e)' <=> Tried(e)
         /\ \A tool : Unspent(tool)' <=> Unspent(tool)
BY DEF LedgerShape, OwnAttempts, Alone, Untouched, Tried, Unspent

\* What a step that leaves the enterprise alone leaves of it.
LEMMA WorldStays ==
  ASSUME UNCHANGED <<case, ent, now>>
  PROVE  /\ WorldShape => WorldShape'
         /\ OwnIn(ent) => OwnIn(ent)'
         /\ NoInvoiceYet' <=> NoInvoiceYet
         /\ ReceiptHolds' <=> ReceiptHolds
BY DEF WorldShape, OwnIn, NoInvoiceYet, NoInvoiceIn, ReceiptHolds, HoldsIn, SourceEffects

\* A command of the case service moves the case at the present time.
LEMMA LifecycleTime ==
  ASSUME NEW event, Lifecycle(event)
  PROVE  case'.updatedAt = now
BY DEF Lifecycle, Advanced

\* The receipt is asked for by a case that then awaits it.
LEMMA AwaitsReceipt ==
  ASSUME Lifecycle("RECEIPT_APPROVAL_REQUESTED")
  PROVE  case'.status = "AWAITING_RECEIPT_APPROVAL"
<1>1. PICK s \in CaseStatus : <<case.status, "RECEIPT_APPROVAL_REQUESTED", s>> \in TRANSITIONS
  BY DEF Lifecycle, CanAdvance
<1>2. s = "AWAITING_RECEIPT_APPROVAL"
  BY <1>1 DEF TRANSITIONS
<1>3. QED  BY <1>1, <1>2, NextStatusIs DEF Lifecycle, Advanced

\* The three fixtures.
LEMMA LockFixture ==
  ASSUME NEW e, e = GoldenFixture("lock")
  PROVE  /\ DOMAIN e = EntFields /\ e.effects = {} /\ e.docs = {}
         /\ e.message.status = "FAILED" /\ e.message.revision = 1
BY DEF GoldenFixture, SeededEnterprise, EntFields

\* The shipment that is really short.
LEMMA ShortFixture ==
  ASSUME NEW e, e = GoldenFixture("short")
  PROVE  /\ DOMAIN e = EntFields /\ e.effects = {}
         /\ e.message.status = "FAILED"
         /\ e.warehouse = OrderedQuantity - MissingQuantity
         /\ e.erp = OrderedQuantity - MissingQuantity
BY DEF GoldenFixture, SeededEnterprise, EntFields

\* The message an outside process had posted.
LEMMA PostedFixture ==
  ASSUME NEW e, e = GoldenFixture("posted")
  PROVE  /\ DOMAIN e = EntFields
         /\ \E f : /\ e.effects = {f}
                   /\ DOMAIN f = EffectFields
                   /\ f.tool = Receipt /\ f.exec = ExternalReceipt /\ f.key = ExternalReceipt
         /\ e.erp = OrderedQuantity /\ e.warehouse = OrderedQuantity
         /\ e.message.status = "CONSUMED"
         /\ \E d : e.docs = {d}
<1> DEFINE seed == SeededEnterprise(TRUE, OrderedQuantity, FALSE)
           new  == NewEffect(Receipt, ExternalReceipt, ExternalReceipt, 0)
           doc  == [exec |-> ExternalReceipt, key |-> ExternalReceipt,
                    quantity |-> MissingQuantity]
           done == ReceiptPosted(seed, ExternalReceipt, ExternalReceipt, 0)
           told == [new EXCEPT !.type = ExternalType(Receipt)]
<1>1. /\ DOMAIN done = EntFields /\ done.effects = {new} /\ done.docs = {doc}
      /\ done.erp = OrderedQuantity - MissingQuantity + MissingQuantity
      /\ done.warehouse = OrderedQuantity /\ done.message.status = "CONSUMED"
  BY DEF SeededEnterprise, ReceiptPosted, EntFields
<1>2. done.erp = OrderedQuantity
  <2>1. OrderedQuantity - MissingQuantity + MissingQuantity = OrderedQuantity
    BY QuantityAssumption
  <2> HIDE DEF done
  <2>2. QED  BY <1>1, <2>1
<1>3. e = Retagged(done, Receipt)
  BY DEF GoldenFixture, Posted
<1>4. new.tool = Receipt /\ new.exec = ExternalId(Receipt)
  BY DEF NewEffect, ExternalId
<1>5. /\ DOMAIN told = EffectFields
      /\ told.tool = Receipt /\ told.exec = ExternalReceipt /\ told.key = ExternalReceipt
  BY DEF NewEffect, EffectFields
<1> HIDE DEF done, new, told
<1>6. /\ DOMAIN e = EntFields /\ e.docs = done.docs /\ e.erp = done.erp
      /\ e.warehouse = done.warehouse /\ e.message = done.message
      /\ e.effects = { IF f.tool = Receipt /\ f.exec = ExternalId(Receipt)
                       THEN [f EXCEPT !.type = ExternalType(Receipt)] ELSE f : f \in done.effects }
  BY <1>1, <1>3 DEF Retagged, EntFields
<1>7. e.effects = {told}
  BY <1>1, <1>4, <1>6 DEF told
<1>8. QED  BY <1>1, <1>2, <1>5, <1>6, <1>7

\* What a fixture holds at the beginning.
LEMMA FixtureFacts ==
  ASSUME NEW e, NEW fixture \in {"lock", "posted", "short"}, e = GoldenFixture(fixture)
  PROVE  /\ DOMAIN e = EntFields /\ OwnIn(e) /\ NoInvoiceIn(e)
         /\ \A f \in e.effects : f.exec \notin Execs
         /\ fixture = "posted" => HoldsIn(e)
         /\ fixture # "posted" => e.message.status = "FAILED"
         /\ fixture = "short" => e.warehouse = e.erp
<1>1. CASE fixture \in {"lock", "short"}
  BY <1>1, LockFixture, ShortFixture DEF OwnIn, NoInvoiceIn
<1>2. CASE fixture = "posted"
  <2>1. PICK f : /\ e.effects = {f} /\ DOMAIN f = EffectFields
                 /\ f.tool = Receipt /\ f.exec = ExternalReceipt /\ f.key = ExternalReceipt
    BY <1>2, PostedFixture
  <2>2. f.exec \in ExternalIds /\ f.key \in ExternalIds /\ f.exec \notin Execs
    BY <2>1, NamespaceAssumption DEF ExternalIds
  <2>3. SourceEffects(e, Receipt) = {f}
    BY <2>1 DEF SourceEffects
  <2>4. HoldsIn(e)
    BY <1>2, <2>1, <2>3, PostedFixture DEF HoldsIn
  <2>5. DOMAIN e = EntFields
    BY <1>2, PostedFixture
  <2>6. QED  BY <1>2, <2>1, <2>2, <2>4, <2>5 DEF OwnIn, NoInvoiceIn
<1>3. QED  BY <1>1, <1>2

-----------------------------------------------------------------------------
(* Where the runner arrives, and what it may then conclude. *)

Scene == Scripted /\ Standing /\ Positions
NextScene == Standing /\ Positions /\ OutcomeIsTrue

\* Each position asks for one part of the invariant.
LEMMA Arrivals ==
  /\ EarlyInv' /\ run'.at \in EarlyPoints => Positions'
  /\ SignedInv' /\ run'.at \in {"change", "hook", "execute"} => Positions'
  /\ CallingInv' /\ run'.at \in {"executing", "releasing"} => Positions'
  /\ ReusingInv' /\ run'.at \in {"reuse", "reusing"} => Positions'
  /\ LateInv' /\ run'.at \in {"requestInvoice", "approveInvoice", "release"} => Positions'
  /\ run'.at = "done" => Positions'
  /\ run'.at # "done" => OutcomeIsTrue'
BY DEF Positions, EarlyInv, SignedInv, CallingInv, PointOf, ReusingInv, LateInv, EarlyPoints,
       OutcomeIsTrue

\* What the report of a run that has just ended rests on.
Reported(outcome) ==
  /\ outcome = "CLOSED" => InvoiceDone
  /\ outcome = "EXECUTING_HARD_STOP" => ReceiptFailed
  /\ outcome = "SAFE_NOOP" => ReceiptDone
  /\ outcome # "CLOSED" => NoInvoiceYet
  /\ outcome \in {"PROTECTED", "NEEDS_EVIDENCE"} =>
       Untouched /\ \A f \in ent.effects : f.exec \notin Execs

\* A report is true when the ledgers are as the runner found them.
LEMMA TrueOutcome ==
  ASSUME Standing', NEW outcome, RunShape, Ends(outcome), Reported(outcome)'
  PROVE  NextScene'
<1>1. run'.outcome = outcome /\ run'.at = "done"
  BY RunEnds
<1>2. ASSUME NEW tool, NEW g, SourceEffects(ent', tool) = {g}
      PROVE  Cardinality(SourceEffects(ent', tool)) = 1
  BY <1>2, FS_Singleton
<1>3. ReceiptHolds' => /\ ent'.erp = ent'.warehouse
                       /\ Cardinality(SourceEffects(ent', Receipt)) = 1
  BY <1>2 DEF ReceiptHolds, HoldsIn
<1>4. outcome = "CLOSED" =>
        /\ case'.status = "CLOSED" /\ ent'.erp = ent'.warehouse
        /\ \A tool \in Tools : Cardinality(SourceEffects(ent', tool)) = 1
  BY <1>2, <1>3, TheTools DEF InvoiceDone, Reported
<1>5. outcome = "SAFE_NOOP" =>
        /\ case'.status = "RECEIPT_VERIFIED" /\ ent'.erp = ent'.warehouse
        /\ Cardinality(SourceEffects(ent', Receipt)) = 1
  BY <1>3 DEF ReceiptDone, Reported
<1>6. FalseEffects' = {}
  <2>1. ASSUME NEW f \in ent'.effects, f.exec \in Execs
        PROVE  <<f.exec, f.key>> = AllowedIdentity(f.tool)
    BY <2>1, NamespaceAssumption, TheTools
       DEF Standing, OwnIn, AllowedIdentity, ExecOf, KeyOf
  <2>2. QED  BY <2>1 DEF FalseEffects
<1>7. outcome # "CLOSED" => SourceEffects(ent', Invoice) = {}
  BY TheTools DEF Reported, NoInvoiceYet, NoInvoiceIn, SourceEffects
<1>8. outcome \in {"PROTECTED", "NEEDS_EVIDENCE"} =>
        LocalOf(Receipt)' = {} /\ \A a \in Auths : grantStatus'[a] = "NONE"
  BY DEF LocalOf, SourceEffects, Untouched, Reported
<1>9. OutcomeIsTrue'
  BY <1>1, <1>4, <1>5, <1>6, <1>7, <1>8 DEF OutcomeIsTrue, ReceiptFailed, Reported
<1>10. Positions'
  BY <1>1, Arrivals
<1>11. QED  BY <1>9, <1>10 DEF NextScene

-----------------------------------------------------------------------------
(* From the seed to the signed receipt. *)

\* A step that moves the case, or nothing, and the runner.
LEMMA CaseStepStands ==
  ASSUME Standing, RunShape',
         UNCHANGED <<grant, grantStatus, attempt, receipt, ent, now, pc, call>>,
         UNCHANGED case \/ case'.updatedAt = now
  PROVE  /\ Standing' /\ (NoInvoiceYet' <=> NoInvoiceYet) /\ (ReceiptHolds' <=> ReceiptHolds)
         /\ (Alone' <=> Alone) /\ (Untouched' <=> Untouched)
         /\ \A e : Tried(e)' <=> Tried(e)
<1>1. CallShape' /\ LedgerShape' /\ WorldShape'
  BY DEF Standing, CallShape, LedgerShape, WorldShape
<1>2. OwnIn(ent)' /\ OwnAttempts'
  BY DEF Standing, OwnIn, OwnAttempts, Tried
<1>3. /\ NoInvoiceYet' <=> NoInvoiceYet
      /\ ReceiptHolds' <=> ReceiptHolds
  BY DEF NoInvoiceYet, NoInvoiceIn, ReceiptHolds, HoldsIn, SourceEffects
<1>4. (Alone' <=> Alone) /\ (Untouched' <=> Untouched) /\ \A e : Tried(e)' <=> Tried(e)
  BY DEF Alone, Untouched, Tried
<1>5. QED  BY <1>1, <1>2, <1>3, <1>4 DEF Standing

\* A step of the runner alone.
LEMMA QuietStands ==
  ASSUME Standing, RunShape', Quiet
  PROVE  /\ Standing' /\ (NoInvoiceYet' <=> NoInvoiceYet) /\ (ReceiptHolds' <=> ReceiptHolds)
         /\ (Alone' <=> Alone) /\ (Untouched' <=> Untouched)
         /\ \A e : Tried(e)' <=> Tried(e)
BY CaseStepStands DEF Quiet, vars, caseDb

\* seed_from_fixture.
LEMMA RunSeedTrue ==
  ASSUME Scene, RunSeed
  PROVE  NextScene'
<1>1. /\ run.at = "seed" /\ run.manifest.fixture \in {"lock", "posted", "short"}
      /\ ent' = GoldenFixture(run.manifest.fixture) /\ RunShape'
      /\ run'.at = "detect" /\ run'.manifest = run.manifest /\ run'.recovered = run.recovered
      /\ UNCHANGED <<case, grant, grantStatus, attempt, receipt, now, pc, call>>
  BY RunMoves DEF Scene, Standing, RunShape, RunSeed, At, ManifestType, caseDb
<1>2. DOMAIN ent' = EntFields /\ OwnIn(ent)'
  BY <1>1, FixtureFacts DEF OwnIn
<1>3. Standing'
  BY <1>1, <1>2 DEF Scene, Standing, CallShape, LedgerShape, WorldShape, OwnAttempts, Tried
<1>4. EarlyInv'
  BY <1>1 DEF Scene, Positions, EarlyInv, EarlyPoints, Untouched, Tried
<1>5. QED  BY <1>1, <1>3, <1>4, Arrivals DEF NextScene, EarlyPoints

\* detect.
LEMMA RunDetectTrue ==
  ASSUME Scene, RunDetect
  PROVE  NextScene'
<1>1. /\ run.at = "detect" /\ RunShape'
      /\ run'.at = "assess" /\ run'.manifest = run.manifest /\ run'.recovered = run.recovered
      /\ UNCHANGED <<grant, grantStatus, attempt, receipt, ent, now, pc, call>>
      /\ case'.updatedAt = now
  BY RunMoves, LifecycleTime DEF Scene, Standing, RunDetect, At, Detect
<1>2. Standing' /\ (Untouched' <=> Untouched)
  BY <1>1, CaseStepStands DEF Scene
<1>3. EarlyInv'
  BY <1>1, <1>2 DEF Scene, Positions, EarlyInv, EarlyPoints
<1>4. QED  BY <1>1, <1>2, <1>3, Arrivals DEF NextScene, EarlyPoints

\* What the diagnosis read in the fixture.
LEMMA AssessedFixture ==
  ASSUME NEW fixture \in {"lock", "posted", "short"}, ent = GoldenFixture(fixture), NEW m
  PROVE  /\ AssessmentEvent(m) = "RECEIPT_RESTART_RECOMMENDED" => fixture = "lock"
         /\ AssessmentEvent(m) = "RECEIPT_ALREADY_POSTED" => fixture = "posted"
<1>1. ProvesAlreadyPosted => fixture = "posted"
  BY FixtureFacts DEF ProvesAlreadyPosted
<1>2. RetryableMessage => fixture = "lock"
  <2>1. ASSUME fixture = "posted" PROVE ~RetryableMessage
    BY <2>1, FixtureFacts DEF HoldsIn, RetryableMessage
  <2>2. ASSUME fixture = "short" PROVE ~RetryableMessage
    BY <2>2, ShortFixture, QuantityAssumption DEF RetryableMessage
  <2>3. QED  BY <2>1, <2>2
<1>3. QED  BY <1>1, <1>2 DEF AssessmentEvent

\* The assessment, and the runs that end with it.
LEMMA RunAssessTrue ==
  ASSUME Scene, RunAssess
  PROVE  NextScene'
<1> DEFINE m == run.manifest
           event == AssessmentEvent(m)
<1>1. /\ run.at = "assess" /\ m.fixture \in {"lock", "posted", "short"}
      /\ pc[Caller] = "idle" /\ ~run.recovered /\ Untouched
      /\ ent = GoldenFixture(m.fixture)
  BY DEF Scene, Standing, RunShape, ManifestType, Positions, EarlyInv, EarlyPoints, RunAssess, At
<1>2. NoInvoiceYet /\ \A f \in ent.effects : f.exec \notin Execs
  BY <1>1, FixtureFacts DEF NoInvoiceYet
<1>3. CASE event = "EVIDENCE_REQUIRED" /\ m.rejects
  <2>1. Ends("RAISED") /\ Quiet
    BY <1>3 DEF RunAssess
  <2>2. Standing' /\ NoInvoiceYet'
    BY <1>2, <2>1, QuietStands, RunEnds DEF Scene, Standing
  <2>3. Reported("RAISED")'
    BY <2>2 DEF Reported
  <2>4. QED  BY <2>1, <2>2, <2>3, TrueOutcome DEF Scene, Standing
<1>4. CASE ~(event = "EVIDENCE_REQUIRED" /\ m.rejects)
  <2>1. /\ RecordInvestigationOutcome(event)
        /\ CASE event = "RECEIPT_RESTART_RECOMMENDED" -> Goes("requestReceipt")
             [] event = "RECEIPT_ALREADY_POSTED"      -> Goes("requestInvoice")
             [] OTHER                                 -> Ends(AssessedOutcome(event))
    BY <1>4 DEF RunAssess
  <2>2. /\ UNCHANGED <<grant, grantStatus, attempt, receipt, ent, now, pc, call>>
        /\ case'.updatedAt = now
    BY <2>1, LifecycleTime DEF RecordInvestigationOutcome
  <2>3. RunShape' => /\ Standing' /\ NoInvoiceYet' /\ Untouched'
                     /\ ReceiptHolds' <=> ReceiptHolds
    BY <1>1, <1>2, <2>2, CaseStepStands DEF Scene
  <2>4. CASE event = "RECEIPT_RESTART_RECOMMENDED"
    <3>1. Goes("requestReceipt") /\ m.fixture = "lock"
      BY <1>1, <2>1, <2>4, AssessedFixture
    <3>2. /\ RunShape' /\ run'.at = "requestReceipt"
          /\ run'.manifest = run.manifest /\ run'.recovered = run.recovered
      BY <3>1, RunMoves DEF Scene, Standing
    <3>3. EarlyInv'
      BY <1>1, <2>2, <2>3, <3>1, <3>2 DEF EarlyInv
    <3>4. QED  BY <2>3, <3>2, <3>3, Arrivals DEF NextScene, EarlyPoints
  <2>5. CASE event = "RECEIPT_ALREADY_POSTED"
    <3>1. Goes("requestInvoice") /\ m.fixture = "posted"
      BY <1>1, <2>1, <2>5, AssessedFixture
    <3>2. RunShape' /\ run'.at = "requestInvoice"
      BY <3>1, RunMoves DEF Scene, Standing
    <3>3. ReceiptHolds
      BY <1>1, <3>1, FixtureFacts DEF ReceiptHolds
    <3>4. LateInv'
      BY <1>1, <2>2, <2>3, <3>2, <3>3, RunnerAssumption DEF LateInv, Untouched
    <3>5. QED  BY <2>3, <3>2, <3>4, Arrivals DEF NextScene
  <2>6. CASE event \notin {"RECEIPT_RESTART_RECOMMENDED", "RECEIPT_ALREADY_POSTED"}
    <3>1. AssessedOutcome(event) \in {"PROTECTED", "NEEDS_EVIDENCE", "DENIED"}
      BY DEF AssessedOutcome
    <3>2. PICK outcome \in {"PROTECTED", "NEEDS_EVIDENCE", "DENIED"} : Ends(outcome)
      BY <2>1, <2>6, <3>1
    <3>3. Standing' /\ NoInvoiceYet' /\ Untouched'
      BY <2>3, <3>2, RunEnds DEF Scene, Standing
    <3>4. Reported(outcome)'
      BY <1>2, <2>2, <3>3 DEF Reported
    <3>5. QED  BY <3>2, <3>3, <3>4, TrueOutcome DEF Scene, Standing
  <2>7. QED  BY <2>4, <2>5, <2>6
<1>5. QED  BY <1>3, <1>4

\* The receipt, or early the invoice, is asked for.
LEMMA RunRequestReceiptTrue ==
  ASSUME Scene, RunRequestReceipt
  PROVE  NextScene'
<1> DEFINE next == IF run.manifest.workflow = "INVOICE_AUTHORIZATION" /\ run.manifest.early
                   THEN "approveInvoice" ELSE "approveReceipt"
<1>1. /\ run.at = "requestReceipt" /\ run.manifest.fixture = "lock"
      /\ pc[Caller] = "idle" /\ ~run.recovered /\ Untouched
      /\ ent = GoldenFixture("lock")
  BY DEF Scene, Positions, EarlyInv, EarlyPoints, RunRequestReceipt, At
<1>2. Lifecycle("RECEIPT_APPROVAL_REQUESTED")
  BY DEF RunRequestReceipt, RequestApproval
<1>3. /\ UNCHANGED <<grant, grantStatus, attempt, receipt, ent, now, pc, call>>
      /\ case'.updatedAt = now /\ case'.status = "AWAITING_RECEIPT_APPROVAL"
  BY <1>2, LifecycleTime, AwaitsReceipt DEF RunRequestReceipt, RequestApproval
<1>4. /\ RunShape' /\ run'.at = next
      /\ run'.manifest = run.manifest /\ run'.recovered = run.recovered
  BY RunMoves DEF Scene, Standing, RunRequestReceipt
<1>5. Standing' /\ (Untouched' <=> Untouched) /\ (NoInvoiceYet' <=> NoInvoiceYet)
  BY <1>3, <1>4, CaseStepStands DEF Scene
<1>6. NoInvoiceYet
  BY <1>1, FixtureFacts DEF NoInvoiceYet
<1>7. CASE next = "approveInvoice"
  BY <1>3, <1>4, <1>5, <1>6, <1>7, Arrivals DEF LateInv, NextScene
<1>8. CASE next = "approveReceipt"
  BY <1>1, <1>3, <1>4, <1>5, <1>8, Arrivals DEF EarlyInv, EarlyPoints, NextScene
<1>9. QED  BY <1>7, <1>8

\* A signature writes one grant.
LEMMA ApproveFacts ==
  ASSUME LedgerShape, NEW a \in Auths, NEW principal, NEW params,
         Approve(a, principal, params)
  PROVE  /\ grant' = [grant EXCEPT ![a] =
              [version |-> case.version + 1, tool |-> params.tool, principal |-> principal,
               params |-> params, evidence |-> evidence, expires |-> now + GrantTtl]]
         /\ grantStatus' = [grantStatus EXCEPT ![a] = "ISSUED"]
         /\ case'.updatedAt = now /\ LedgerShape'
         /\ grant'[a].tool = params.tool /\ grant'[a].expires = now + GrantTtl
         /\ grantStatus'[a] = "ISSUED"
         /\ \A b \in Auths \ {a} : grantStatus'[b] = grantStatus[b]
         /\ UNCHANGED <<attempt, receipt, ent, now, pc, call>>
<1>1. /\ grant' = [grant EXCEPT ![a] =
              [version |-> case.version + 1, tool |-> params.tool, principal |-> principal,
               params |-> params, evidence |-> evidence, expires |-> now + GrantTtl]]
      /\ grantStatus' = [grantStatus EXCEPT ![a] = "ISSUED"]
      /\ case'.updatedAt = now
      /\ UNCHANGED <<attempt, receipt, ent, now, pc, call>>
  BY LifecycleTime DEF Approve
<1>2. QED  BY <1>1 DEF LedgerShape

\* A signature leaves enterprise and attempts alone.
LEMMA ApproveStands ==
  ASSUME Standing, RunShape', NEW a \in Auths, NEW principal, NEW params,
         Approve(a, principal, params)
  PROVE  /\ Standing' /\ (NoInvoiceYet' <=> NoInvoiceYet) /\ (ReceiptHolds' <=> ReceiptHolds)
         /\ \A e : Tried(e)' <=> Tried(e)
<1>1. /\ case'.updatedAt = now /\ LedgerShape'
      /\ UNCHANGED <<attempt, receipt, ent, now, pc, call>>
  BY ApproveFacts DEF Standing
<1>2. CallShape' /\ WorldShape' /\ OwnIn(ent)' /\ OwnAttempts'
  BY <1>1 DEF Standing, CallShape, WorldShape, OwnIn, OwnAttempts, Tried
<1>3. /\ NoInvoiceYet' <=> NoInvoiceYet
      /\ ReceiptHolds' <=> ReceiptHolds
      /\ \A e : Tried(e)' <=> Tried(e)
  BY <1>1 DEF NoInvoiceYet, NoInvoiceIn, ReceiptHolds, HoldsIn, SourceEffects, Tried
<1>4. QED  BY <1>1, <1>2, <1>3 DEF Standing

\* The receipt is signed, or refused.
LEMMA RunApproveReceiptTrue ==
  ASSUME Scene, RunApproveReceipt
  PROVE  NextScene'
<1>1. /\ pc[Caller] = "idle" /\ ~run.recovered /\ Untouched
      /\ ent = GoldenFixture("lock")
  BY DEF Scene, Positions, EarlyInv, EarlyPoints, RunApproveReceipt, At
<1>2. NoInvoiceYet
  BY <1>1, FixtureFacts DEF NoInvoiceYet
<1>3. CASE MayApprove(run.manifest.receiptBy, Receipt)
  <2> DEFINE params == Parameters(Receipt)
             who == run.manifest.receiptBy
  <2>1. Approve(ReceiptAuth, who, params)
    BY <1>3 DEF RunApproveReceipt
  <2>2. params.tool = Receipt
    BY DEF Parameters
  <2> HIDE DEF params, who
  <2>3. /\ grant'[ReceiptAuth].tool = Receipt /\ grant'[ReceiptAuth].expires = now + GrantTtl
        /\ grantStatus'[ReceiptAuth] = "ISSUED"
        /\ \A b \in Auths \ {ReceiptAuth} : grantStatus'[b] = grantStatus[b]
        /\ UNCHANGED <<attempt, receipt, ent, now, pc, call>>
    BY <2>1, <2>2, ApproveFacts, RunnerAssumption DEF Scene, Standing
  <2>4. RunShape' => Standing' /\ NoInvoiceYet' /\ \A e : Tried(e)' <=> Tried(e)
    BY <1>2, <2>1, ApproveStands, RunnerAssumption DEF Scene
  <2>5. CASE run.manifest.workflow = "RECEIPT_AUTHORIZATION"
    <3>1. Ends("DENIED")
      BY <1>3, <2>5 DEF RunApproveReceipt
    <3>2. Standing' /\ NoInvoiceYet'
      BY <2>4, <3>1, RunEnds DEF Scene, Standing
    <3>3. Reported("DENIED")'
      BY <3>2 DEF Reported
    <3>4. QED  BY <3>1, <3>2, <3>3, TrueOutcome DEF Scene, Standing
  <2>6. CASE run.manifest.workflow # "RECEIPT_AUTHORIZATION"
    <3>1. Goes("change")
      BY <1>3, <2>6 DEF RunApproveReceipt
    <3>2. RunShape' /\ run'.at = "change" /\ run'.recovered = run.recovered
      BY <3>1, RunMoves DEF Scene, Standing
    <3>3. Standing' /\ NoInvoiceYet' /\ \A e : Tried(e)' <=> Tried(e)
      BY <2>4, <3>2
    <3>4. Alone' /\ Unspent(Receipt)'
      BY <1>1, <2>3, <3>3, RunnerAssumption DEF Untouched, Alone, Unspent, AuthOf, ExecOf
    <3>5. now \in Nat /\ GrantTtl \in Nat
      BY BoundAssumption DEF Scene, Standing, WorldShape
    <3>6. grant'[ReceiptAuth].expires \in Nat /\ now' <= grant'[ReceiptAuth].expires
      BY <2>3, <3>5
    <3>7. SignedInv'
      BY <1>1, <2>3, <3>2, <3>3, <3>4, <3>6 DEF SignedInv
    <3>8. QED  BY <3>2, <3>3, <3>7, Arrivals DEF NextScene
  <2>7. QED  BY <2>5, <2>6
<1>4. CASE ~MayApprove(run.manifest.receiptBy, Receipt)
  <2>1. Ends("DENIED") /\ Quiet
    BY <1>4 DEF RunApproveReceipt
  <2>2. Standing' /\ NoInvoiceYet'
    BY <1>2, <2>1, QuietStands, RunEnds DEF Scene, Standing
  <2>3. Reported("DENIED")'
    BY <2>2 DEF Reported
  <2>4. QED  BY <2>1, <2>2, <2>3, TrueOutcome DEF Scene, Standing
<1>5. QED  BY <1>3, <1>4

-----------------------------------------------------------------------------
(* Between the signature and the call. *)

\* The world outside writes the enterprise without an invoice effect.
LEMMA WorldStands ==
  ASSUME Standing, RunShape', UNCHANGED <<caseDb, now, pc, call>>,
         DOMAIN ent' = EntFields, OwnIn(ent)'
  PROVE  /\ Standing' /\ (Alone' <=> Alone) /\ \A e : Tried(e)' <=> Tried(e)
<1>1. CallShape' /\ LedgerShape' /\ WorldShape' /\ OwnAttempts'
  BY DEF Standing, CallShape, LedgerShape, WorldShape, OwnAttempts, Tried, caseDb
<1>2. QED  BY <1>1 DEF Standing, Alone, Tried, caseDb

\* Drift of a revision or a quantity leaves the effects alone.
LEMMA DriftKeepsEffects ==
  ASSUME NEW e, DOMAIN e = EntFields
  PROVE  /\ DOMAIN MessageRevisionAdvanced(e) = EntFields
         /\ MessageRevisionAdvanced(e).effects = e.effects
         /\ \A q : /\ DOMAIN ErpReceiptQuantitySet(e, q) = EntFields
                   /\ ErpReceiptQuantitySet(e, q).effects = e.effects
BY DEF MessageRevisionAdvanced, ErpReceiptQuantitySet, EntFields

\* The outside posting, and its relabelling, are the outside receipt's.
LEMMA OutsidePosting ==
  ASSUME NEW e, DOMAIN e = EntFields, OwnIn(e), NoInvoiceIn(e), NEW at
  PROVE  /\ DOMAIN Posted(e, Receipt, ExternalReceipt, ExternalReceipt, at) = EntFields
         /\ OwnIn(Posted(e, Receipt, ExternalReceipt, ExternalReceipt, at))
         /\ NoInvoiceIn(Posted(e, Receipt, ExternalReceipt, ExternalReceipt, at))
         /\ DOMAIN Retagged(e, Receipt) = EntFields
         /\ OwnIn(Retagged(e, Receipt)) /\ NoInvoiceIn(Retagged(e, Receipt))
<1> DEFINE new == NewEffect(Receipt, ExternalReceipt, ExternalReceipt, at)
           posted == Posted(e, Receipt, ExternalReceipt, ExternalReceipt, at)
           told(f) == IF f.tool = Receipt /\ f.exec = ExternalId(Receipt)
                      THEN [f EXCEPT !.type = ExternalType(Receipt)] ELSE f
<1>1. DOMAIN posted = EntFields /\ posted.effects = e.effects \union {new}
  BY DEF Posted, ReceiptPosted, EntFields
<1>2. /\ DOMAIN new = EffectFields /\ new.tool = Receipt
      /\ new.exec \in ExternalIds /\ new.key \in ExternalIds
  BY DEF NewEffect, EffectFields, ExternalIds
<1>3. /\ DOMAIN Retagged(e, Receipt) = EntFields
      /\ Retagged(e, Receipt).effects = { told(f) : f \in e.effects }
  BY DEF Retagged, EntFields
<1>4. ASSUME NEW f \in e.effects
      PROVE  /\ DOMAIN told(f) = EffectFields /\ told(f).tool = f.tool
             /\ told(f).exec = f.exec /\ told(f).key = f.key
  BY DEF OwnIn, EffectFields
<1> HIDE DEF new, posted, told
<1>5. OwnIn(posted) /\ NoInvoiceIn(posted)
  BY <1>1, <1>2 DEF OwnIn, NoInvoiceIn
<1>6. OwnIn(Retagged(e, Receipt)) /\ NoInvoiceIn(Retagged(e, Receipt))
  BY <1>3, <1>4 DEF OwnIn, NoInvoiceIn
<1>7. QED  BY <1>1, <1>3, <1>5, <1>6 DEF posted

\* What stands when nothing has been called yet.
SignedNow ==
  /\ pc[Caller] = "idle" /\ ~run.recovered
  /\ grant[ReceiptAuth].tool = Receipt /\ Alone /\ NoInvoiceYet /\ Unspent(Receipt)
  /\ grant[ReceiptAuth].expires \in Nat

\* What the script has established between signature and call.
LEMMA SignedThen ==
  ASSUME Scene, run.at \in {"change", "hook"}
  PROVE  SignedNow /\ now <= grant[ReceiptAuth].expires
BY DEF Scene, Positions, SignedInv, SignedNow

\* It still has.
LEMMA StillSigned ==
  ASSUME Standing', run'.at \in {"change", "hook", "execute"}, SignedNow',
         run'.at # "execute" => now' <= grant'[ReceiptAuth].expires
  PROVE  NextScene'
<1>1. SignedInv'
  BY DEF SignedInv, SignedNow
<1>2. QED  BY <1>1, Arrivals DEF NextScene

\* A source change, and the fresh evidence of it.
LEMMA RunChangeTrue ==
  ASSUME Scene, RunChange
  PROVE  NextScene'
<1>1. SignedNow /\ now <= grant[ReceiptAuth].expires /\ run.at = "change"
  BY SignedThen DEF RunChange, At
<1>2. CASE AdvanceFailedMessageRevision /\ UNCHANGED run
  <2>1. /\ UNCHANGED <<caseDb, now, pc, call, run>> /\ RunShape'
        /\ DOMAIN ent' = EntFields /\ ent'.effects = ent.effects
    BY <1>2, DriftKeepsEffects
       DEF AdvanceFailedMessageRevision, Scene, Standing, WorldShape, RunShape
  <2>2. OwnIn(ent)' /\ (NoInvoiceYet' <=> NoInvoiceYet)
    BY <2>1 DEF Scene, Standing, OwnIn, NoInvoiceYet, NoInvoiceIn
  <2>3. Standing' /\ SignedNow'
    BY <1>1, <2>1, <2>2, WorldStands DEF Scene, SignedNow, Unspent, caseDb
  <2>4. QED  BY <1>1, <2>1, <2>3, StillSigned DEF caseDb
<1>3. ASSUME NEW item \in LateEvidence, AdmitEvidence(item), Goes("hook") PROVE NextScene'
  <2>1. /\ UNCHANGED <<grant, grantStatus, attempt, receipt, ent, now, pc, call>>
        /\ case'.updatedAt = now
    BY <1>3, LifecycleTime DEF AdmitEvidence
  <2>2. RunShape' /\ run'.at = "hook" /\ run'.recovered = run.recovered
    BY <1>3, RunMoves DEF Scene, Standing
  <2>3. Standing' /\ SignedNow'
    BY <1>1, <2>1, <2>2, CaseStepStands DEF Scene, SignedNow, Unspent
  <2>4. QED  BY <1>1, <2>1, <2>2, <2>3, StillSigned
<1>4. CASE Goes("hook") /\ Quiet
  <2>1. RunShape' /\ run'.at = "hook" /\ run'.recovered = run.recovered
    BY <1>4, RunMoves DEF Scene, Standing
  <2>2. Standing' /\ SignedNow' /\ UNCHANGED <<grant, now>>
    BY <1>1, <1>4, <2>1, QuietStands DEF Scene, SignedNow, Unspent, Quiet, vars, caseDb
  <2>3. QED  BY <1>1, <2>1, <2>2, StillSigned
<1>5. QED  BY <1>2, <1>3, <1>4 DEF RunChange

\* The temporal hook: the clock, or the outside posting.
LEMMA RunHookTrue ==
  ASSUME Scene, RunHook
  PROVE  NextScene'
<1>1. SignedNow /\ now <= grant[ReceiptAuth].expires /\ run.at = "hook"
  BY SignedThen DEF RunHook, At
<1>2. CASE /\ now' = grant[ReceiptAuth].expires + 1 /\ Goes("execute")
           /\ UNCHANGED <<caseDb, ent, pending, pc, call, crashes, log>>
  <2>1. RunShape' /\ run'.at = "execute" /\ run'.recovered = run.recovered
    BY <1>2, RunMoves DEF Scene, Standing
  <2>2. now \in Nat /\ case.updatedAt \in Nat /\ case.updatedAt <= now
    BY DEF Scene, Standing, WorldShape
  <2>3. now' \in Nat /\ case.updatedAt <= now'
    BY <1>1, <1>2, <2>2 DEF SignedNow
  <2>4. CallShape' /\ LedgerShape' /\ WorldShape' /\ OwnIn(ent)' /\ OwnAttempts'
    BY <1>2, <2>2, <2>3 DEF Scene, Standing, CallShape, LedgerShape, WorldShape, OwnIn,
                            OwnAttempts, Tried, caseDb
  <2>5. Standing' /\ SignedNow'
    BY <1>1, <1>2, <2>1, <2>4 DEF Standing, SignedNow, Unspent, Alone, Tried, NoInvoiceYet,
                                  NoInvoiceIn, caseDb
  <2>6. QED  BY <2>1, <2>5, StillSigned
<1>3. CASE ExternalRetag(Receipt) /\ Goes("execute")
  <2>1. RunShape' /\ run'.at = "execute" /\ run'.recovered = run.recovered
    BY <1>3, RunMoves DEF Scene, Standing
  <2>2. /\ UNCHANGED <<caseDb, now, pc, call>>
        /\ DOMAIN ent' = EntFields /\ OwnIn(ent)' /\ NoInvoiceYet'
    BY <1>1, <1>3, OutsidePosting
       DEF ExternalRetag, Scene, Standing, WorldShape, SignedNow, NoInvoiceYet, OwnIn, NoInvoiceIn
  <2>3. Standing' /\ SignedNow'
    BY <1>1, <2>1, <2>2, WorldStands DEF Scene, SignedNow, Unspent, caseDb
  <2>4. QED  BY <2>1, <2>3, StillSigned
<1>4. CASE ExternalCommit(Receipt) /\ UNCHANGED run
  <2>1. RunShape'
    BY <1>4 DEF Scene, Standing, RunShape
  <2>2. ent' = Posted(ent, Receipt, ExternalReceipt, ExternalReceipt, now)
    BY <1>4 DEF ExternalCommit, ExternalId
  <2>3. /\ UNCHANGED <<caseDb, now, pc, call>>
        /\ DOMAIN ent' = EntFields /\ OwnIn(ent)' /\ NoInvoiceYet'
    BY <1>1, <1>4, <2>2, OutsidePosting
       DEF ExternalCommit, Scene, Standing, WorldShape, SignedNow, NoInvoiceYet, OwnIn, NoInvoiceIn
  <2>4. Standing' /\ SignedNow'
    BY <1>1, <1>4, <2>1, <2>3, WorldStands DEF Scene, SignedNow, Unspent, caseDb
  <2>5. QED  BY <1>1, <1>4, <2>3, <2>4, StillSigned DEF caseDb
<1>5. CASE Ends("RAISED") /\ Quiet
  <2>1. Standing' /\ NoInvoiceYet'
    BY <1>1, <1>5, QuietStands, RunEnds DEF Scene, Standing, SignedNow
  <2>2. Reported("RAISED")'
    BY <2>1 DEF Reported
  <2>3. QED  BY <1>5, <2>1, <2>2, TrueOutcome DEF Scene, Standing
<1>6. CASE Goes("execute") /\ Quiet
  <2>1. RunShape' /\ run'.at = "execute" /\ run'.recovered = run.recovered
    BY <1>6, RunMoves DEF Scene, Standing
  <2>2. Standing' /\ SignedNow'
    BY <1>1, <1>6, <2>1, QuietStands DEF Scene, SignedNow, Unspent, Quiet, vars, caseDb
  <2>3. QED  BY <2>1, <2>2, StillSigned
<1>7. QED  BY <1>2, <1>3, <1>4, <1>5, <1>6 DEF RunHook

-----------------------------------------------------------------------------
(* The call begins, and the injected faults. *)

\* execute() has read the clock and nothing else.
LEMMA BeginFacts ==
  ASSUME Standing, RunShape', NEW req, Begin(Caller, req)
  PROVE  /\ Standing' /\ pc'[Caller] = "getGrant"
         /\ call'[Caller].req = req /\ call'[Caller].at = now
         /\ UNCHANGED <<case, grant, grantStatus, attempt, receipt, ent, now>>
<1> DEFINE c == [NoCall EXCEPT !.req = req, !.at = now]
<1>1. DOMAIN c = CallFields /\ c.req = req /\ c.at = now
  BY DEF NoCall, CallFields
<1>2. /\ pc' = [pc EXCEPT ![Caller] = "getGrant"] /\ call' = [call EXCEPT ![Caller] = c]
      /\ UNCHANGED <<case, grant, grantStatus, attempt, receipt, ent, now>>
  BY DEF Begin, Goto, caseDb
<1> HIDE DEF c
<1>3. CallShape' /\ pc'[Caller] = "getGrant" /\ call'[Caller] = c
  BY <1>1, <1>2, CallerMoves DEF Standing
<1>4. LedgerShape' /\ WorldShape' /\ OwnIn(ent)' /\ OwnAttempts'
  BY <1>2, LedgersStay, WorldStays DEF Standing
<1>5. QED  BY <1>1, <1>2, <1>3, <1>4 DEF Standing

\* The receipt call begins, afresh, after a crash, or again.
LEMMA RunExecuteTrue ==
  ASSUME Scene, RunExecute
  PROVE  NextScene'
<1>1. CASE run.at = "execute"
  <2> DEFINE tampered == ~run.recovered /\ run.manifest.tampered
             params == IF tampered THEN [grant[ReceiptAuth].params EXCEPT !.revision = @ + 1]
                                   ELSE grant[ReceiptAuth].params
             req == Request(ReceiptAuth, ReceiptExec, ReceiptKey, run.manifest.receiptBy, params)
  <2>1. Begin(Caller, req) /\ Goes("executing")
    BY <1>1 DEF RunExecute, ReceiptRequest
  <2>2. run.recovered => params = grant[ReceiptAuth].params
    OBVIOUS
  <2>3. req.params = params
    BY DEF Request
  <2> HIDE DEF params
  <2>4. RunShape' /\ run'.at = "executing" /\ run'.manifest = run.manifest
    BY <2>1, RunMoves DEF Scene, Standing
  <2>5. /\ Standing' /\ pc'[Caller] = "getGrant"
        /\ call'[Caller].req = req /\ call'[Caller].at = now
        /\ UNCHANGED <<case, grant, grantStatus, attempt, receipt, ent, now>>
    BY <2>1, <2>4, BeginFacts DEF Scene
  <2>6. /\ grant[ReceiptAuth].tool = Receipt /\ Alone /\ NoInvoiceYet
        /\ IF run.recovered THEN Held(Receipt) ELSE Unspent(Receipt)
    BY <1>1 DEF Scene, Positions, SignedInv
  <2>7. Alone' /\ NoInvoiceYet' /\ (run.recovered => Held(Receipt)')
        /\ (~run.recovered => Unspent(Receipt)')
    BY <2>4, <2>5, <2>6, LedgersStay, WorldStays
       DEF Held, SignedRequest, RequestWith, Signer, AuthOf, ExecOf
  <2>8. Stage(Receipt)'
    BY <2>5, <2>6, <2>7, TheTools DEF Stage, AuthOf
  <2>9. CallIs(Receipt)'
    BY <2>3, <2>4, <2>5 DEF CallIs, RequestWith, AuthOf, ExecOf, KeyOf, Signer
  <2>10. run.recovered => call'[Caller].req = SignedRequest(Receipt)'
    BY <2>2, <2>4, <2>5 DEF SignedRequest, RequestWith, AuthOf, ExecOf, KeyOf, Signer
  <2>11. CallAt(Receipt)' /\ AnswerAt(Receipt)'
    BY <2>5, <2>7, <2>10 DEF CallAt, AnswerAt, AfterPosting, AfterReserving
  <2>12. CallingInv'
    BY <2>4, <2>5, <2>8, <2>9, <2>11, TheTools DEF CallingInv, Running, PointOf
  <2>13. QED  BY <2>4, <2>5, <2>12, Arrivals DEF NextScene
<1>2. CASE run.at = "reuse"
  <2> DEFINE req == IF run.manifest.reuse = "REPLAY"
                    THEN ReceiptRequest(ReplayExec, ReplayKey, FALSE)
                    ELSE ReceiptRequest(ReceiptExec, ReceiptKey, FALSE)
  <2>1. Begin(Caller, req) /\ Goes("reusing")
    BY <1>2 DEF RunExecute
  <2>2. req.auth = ReceiptAuth /\ req.exec \in {ReceiptExec, ReplayExec}
    BY DEF ReceiptRequest, Request
  <2> HIDE DEF req
  <2>3. RunShape' /\ run'.at = "reusing"
    BY <2>1, RunMoves DEF Scene, Standing
  <2>4. /\ Standing' /\ pc'[Caller] = "getGrant" /\ call'[Caller].req = req
        /\ UNCHANGED <<case, grant, grantStatus, attempt, receipt, ent, now>>
    BY <2>1, <2>3, BeginFacts DEF Scene
  <2>5. ReceiptDone
    BY <1>2 DEF Scene, Positions, ReusingInv
  <2>6. ReceiptDone'
    BY <2>4, <2>5, LedgersStay, WorldStays DEF ReceiptDone
  <2>7. Looking'
    BY <2>2, <2>4 DEF Looking
  <2>8. QED  BY <2>3, <2>4, <2>6, <2>7, Arrivals DEF ReusingInv, NextScene
<1>3. QED  BY <1>1, <1>2 DEF RunExecute

\* The corruption and the crash after the enterprise commit.
LEMMA RunFaultTrue ==
  ASSUME Scene, RunFault
  PROVE  NextScene'
<1>1. /\ run.at = "executing" /\ pc[Caller] = "verify"
      /\ Stage(Receipt) /\ Running(Receipt)
  BY TheTools DEF RunFault, CorruptNow, CrashNow, Scene, Positions, CallingInv, PointOf
<1>2. CASE SetErpReceiptQuantity(OrderedQuantity - MissingQuantity) /\ UNCHANGED run
  <2>1. /\ UNCHANGED <<caseDb, now, pc, call, run>> /\ RunShape'
        /\ DOMAIN ent' = EntFields /\ ent'.effects = ent.effects
    BY <1>2, DriftKeepsEffects DEF SetErpReceiptQuantity, Scene, Standing, WorldShape, RunShape
  <2>2. OwnIn(ent)' /\ (NoInvoiceYet' <=> NoInvoiceYet)
    BY <2>1 DEF Scene, Standing, OwnIn, NoInvoiceYet, NoInvoiceIn
  <2>3. Standing' /\ (Alone' <=> Alone)
    BY <2>1, <2>2, WorldStands DEF Scene
  <2>4. Stage(Receipt)'
    BY <1>1, <2>1, <2>2, <2>3, TheTools DEF Stage, caseDb
  <2>5. Running(Receipt)'
    BY <1>1, <2>1, <2>2, TheTools
       DEF Running, CallIs, CallAt, AnswerAt, AfterPosting, AfterReserving, Effected, Held,
           SignedRequest, RequestWith, Signer, caseDb
  <2>6. CallingInv'
    BY <1>1, <2>1, <2>4, <2>5, TheTools DEF CallingInv, PointOf
  <2>7. QED  BY <1>1, <2>1, <2>3, <2>6, Arrivals DEF NextScene
<1>3. CASE Crash(Caller) /\ run' = [run EXCEPT !.at = "execute", !.recovered = TRUE]
  <2>1. /\ RunShape' /\ run'.at = "execute" /\ run'.recovered = TRUE
        /\ run'.manifest = run.manifest
    BY <1>3 DEF Scene, Standing, RunShape
  <2>2. UNCHANGED <<case, grant, grantStatus, attempt, receipt, ent, now>> /\ Return(Caller)
    BY <1>3 DEF Crash, caseDb
  <2>3. CallShape' /\ pc'[Caller] = "idle"
    BY <2>2, CallerReturns DEF Scene, Standing
  <2>4. Standing' /\ (Alone' <=> Alone) /\ (NoInvoiceYet' <=> NoInvoiceYet)
    BY <2>1, <2>2, <2>3, LedgersStay, WorldStays DEF Scene, Standing
  <2>5. Held(Receipt)
    BY <1>1 DEF Running, CallAt, AfterReserving, AfterPosting
  <2>6. Held(Receipt)'
    BY <2>1, <2>2, <2>5 DEF Held, SignedRequest, RequestWith, Signer
  <2>7. SignedInv'
    BY <1>1, <2>1, <2>2, <2>3, <2>4, <2>6 DEF SignedInv, Stage, AuthOf
  <2>8. QED  BY <2>1, <2>4, <2>7, Arrivals DEF NextScene
<1>4. QED  BY <1>2, <1>3 DEF RunFault

-----------------------------------------------------------------------------
(* A step of the running call, for either tool. *)

\* The call of one tool is running and takes a step.
Stepping(tool) ==
  /\ Standing /\ Stage(tool) /\ Running(tool) /\ pc[Caller] # "idle"
  /\ RunShape' /\ run'.manifest = run.manifest
Stepped(tool) ==
  /\ Standing' /\ Stage(tool)'
  /\ pc'[Caller] = "idle" => \A reply : reply = Reply(pc[Caller]) => Ended(tool, reply)'
  /\ pc'[Caller] # "idle" => Running(tool)'

\* What the step reads of the tables, it leaves there.
Untold == UNCHANGED <<case, grant, grantStatus, attempt, receipt, ent, now>>

\* Who the running call is.
LEMMA CallFacts ==
  ASSUME NEW tool \in Tools, Stepping(tool)
  PROVE  /\ call[Caller].req.auth = AuthOf(tool) /\ call[Caller].req.exec = ExecOf(tool)
         /\ call[Caller].req.key = KeyOf(tool) /\ call[Caller].at = now
         /\ grant[call[Caller].req.auth].tool = tool
         /\ DOMAIN call[Caller] = CallFields
BY DEF Stepping, Running, CallIs, RequestWith, Request, Stage, Standing, CallShape

\* What a step that writes nothing leaves to the call.
LEMMA ReadStands ==
  ASSUME NEW tool \in Tools, Stepping(tool), Untold, CallShape'
  PROVE  /\ Standing' /\ Stage(tool)'
         /\ Unspent(tool)' <=> Unspent(tool)
         /\ Held(tool)' <=> Held(tool)
         /\ NoInvoiceYet' <=> NoInvoiceYet
         /\ ReceiptHolds' <=> ReceiptHolds
         /\ SignedRequest(tool)' = SignedRequest(tool)
         /\ call'[Caller].req = call[Caller].req /\ call'[Caller].at = call[Caller].at =>
              CallIs(tool)'
<1>1. /\ LedgerShape' /\ OwnAttempts' /\ (Alone' <=> Alone)
      /\ Unspent(tool)' <=> Unspent(tool)
  BY LedgersStay DEF Untold, Stepping, Standing
<1>2. /\ WorldShape' /\ OwnIn(ent)' /\ (NoInvoiceYet' <=> NoInvoiceYet)
      /\ ReceiptHolds' <=> ReceiptHolds
  BY WorldStays DEF Untold, Stepping, Standing
<1>3. Standing'
  BY <1>1, <1>2 DEF Stepping, Standing
<1>4. SignedRequest(tool)' = SignedRequest(tool)
  BY DEF Untold, Stepping, SignedRequest, RequestWith, Signer
<1>5. (Held(tool)' <=> Held(tool)) /\ Stage(tool)'
  BY <1>1, <1>2, <1>4 DEF Untold, Stepping, Held, Stage
<1>6. call'[Caller].req = call[Caller].req /\ call'[Caller].at = call[Caller].at =>
        CallIs(tool)'
  BY DEF Untold, Stepping, Running, CallIs, RequestWith, Signer
<1>7. QED  BY <1>1, <1>2, <1>3, <1>4, <1>5, <1>6

\* The call returns or raises before anything was posted.
LEMMA ReturnsDenied ==
  ASSUME NEW tool \in Tools, Stepping(tool), Untold, Return(Caller),
         pc[Caller] \notin AfterPosting \union {"recover"}
  PROVE  Stepped(tool)
<1>1. CallShape' /\ pc'[Caller] = "idle"
  BY CallerReturns DEF Stepping, Standing
<1>2. NoInvoiceYet
  BY DEF Stepping, Running, AnswerAt
<1>3. Standing' /\ Stage(tool)' /\ NoInvoiceYet'
  BY <1>1, <1>2, ReadStands
<1>4. Reply(pc[Caller]) = "denied"
  BY DEF Reply, AfterPosting
<1>5. ASSUME NEW reply, reply = "denied" PROVE Ended(tool, reply)'
  BY <1>3, <1>5 DEF Ended
<1>6. QED  BY <1>1, <1>3, <1>4, <1>5 DEF Stepped

\* The call goes on, with what it has, before anything was posted.
LEMMA GoesOn ==
  ASSUME NEW tool \in Tools, Stepping(tool), Untold, CallShape',
         call'[Caller].req = call[Caller].req, call'[Caller].at = call[Caller].at,
         pc[Caller] \notin AfterPosting, pc'[Caller] \notin AfterPosting,
         pc'[Caller] # "idle", CallAt(tool)'
  PROVE  Stepped(tool)
<1>1. NoInvoiceYet
  BY DEF Stepping, Running, AnswerAt
<1>2. Standing' /\ Stage(tool)' /\ NoInvoiceYet' /\ CallIs(tool)'
  BY <1>1, ReadStands
<1>3. AnswerAt(tool)'
  BY <1>2 DEF AnswerAt, AfterPosting
<1>4. QED  BY <1>2, <1>3 DEF Stepped, Running

\* A refusal is still to be saved.
LEMMA DenyGoesOn ==
  ASSUME NEW tool \in Tools, Stepping(tool), Untold, NEW kind, Deny(Caller, kind),
         pc[Caller] \notin AfterPosting
  PROVE  Stepped(tool)
<1> DEFINE c == [call[Caller] EXCEPT !.denial = kind]
<1>1. DOMAIN c = CallFields /\ c.req = call[Caller].req /\ c.at = call[Caller].at
  BY CallFacts DEF CallFields
<1>2. call' = [call EXCEPT ![Caller] = c] /\ pc' = [pc EXCEPT ![Caller] = "deny"]
  BY DEF Deny, Goto
<1> HIDE DEF c
<1>3. CallShape' /\ pc'[Caller] = "deny" /\ call'[Caller] = c
  BY <1>1, <1>2, CallerMoves DEF Stepping, Standing
<1>4. CallAt(tool)'
  BY <1>3 DEF CallAt, AfterReserving, AfterPosting
<1>5. QED  BY <1>1, <1>3, <1>4, GoesOn DEF AfterPosting

\* The grant is there: it was signed.
LEMMA GetGrantGoes ==
  ASSUME NEW tool \in Tools, Stepping(tool), GetGrant(Caller)
  PROVE  Stepped(tool)
<1> DEFINE status == grantStatus[call[Caller].req.auth]
           c == [call[Caller] EXCEPT !.seenGrant = status]
<1>1. Untold /\ pc[Caller] = "getGrant"
  BY DEF GetGrant, Untold, caseDb
<1>2. Unspent(tool) \/ (Held(tool) /\ call[Caller].req = SignedRequest(tool))
  BY <1>1 DEF Stepping, Running, CallAt
<1>3. status = grantStatus[AuthOf(tool)] /\ status # "NONE"
  BY <1>2, CallFacts DEF Unspent, Held
<1>4. call' = [call EXCEPT ![Caller] = c] /\ pc' = [pc EXCEPT ![Caller] = "getAttempt"]
  BY <1>3 DEF GetGrant, Goto
<1>5. /\ DOMAIN c = CallFields /\ c.req = call[Caller].req /\ c.at = call[Caller].at
      /\ c.seenGrant = status
  BY CallFacts DEF CallFields
<1> HIDE DEF c, status
<1>6. CallShape' /\ pc'[Caller] = "getAttempt" /\ call'[Caller] = c
  BY <1>4, <1>5, CallerMoves DEF Stepping, Standing
<1>7. /\ Unspent(tool)' <=> Unspent(tool)
      /\ Held(tool)' <=> Held(tool)
      /\ SignedRequest(tool)' = SignedRequest(tool)
  BY <1>1, <1>6, ReadStands
<1>8. grantStatus' = grantStatus
  BY <1>1 DEF Untold
<1>9. CallAt(tool)'
  BY <1>2, <1>3, <1>5, <1>6, <1>7, <1>8 DEF CallAt, AfterReserving, AfterPosting
<1>10. QED  BY <1>1, <1>5, <1>6, <1>9, GoesOn DEF AfterPosting

\* The attempt that is held.
LEMMA HeldFacts ==
  ASSUME NEW tool, Held(tool)
  PROVE  /\ attempt[ExecOf(tool)].status = "RESERVED"
         /\ attempt[ExecOf(tool)].command = SignedRequest(tool)
BY DEF Held

\* An unspent call is evaluated, a held one recovered.
LEMMA GetAttemptGoes ==
  ASSUME NEW tool \in Tools, Stepping(tool), GetAttempt(Caller)
  PROVE  Stepped(tool)
<1> DEFINE status == attempt[call[Caller].req.exec].status
           c == [call[Caller] EXCEPT !.seenAttempt = status]
<1>1. Untold /\ pc[Caller] = "getAttempt"
  BY DEF GetAttempt, Untold, caseDb
<1>2. /\ Unspent(tool) \/ (Held(tool) /\ call[Caller].req = SignedRequest(tool))
      /\ call[Caller].seenGrant = grantStatus[AuthOf(tool)]
  BY <1>1 DEF Stepping, Running, CallAt
<1>3. status = attempt[ExecOf(tool)].status
  BY CallFacts
<1>4. CASE status = "NONE"
  <2>1. Unspent(tool)
    BY <1>2, <1>3, <1>4, HeldFacts
  <2>2. CASE Deny(Caller, "unavailable")
    BY <1>1, <2>2, DenyGoesOn DEF AfterPosting
  <2>3. CASE Goto(Caller, "evaluate") /\ UNCHANGED call
    <3>1. CallShape' /\ pc'[Caller] = "evaluate" /\ call'[Caller] = call[Caller]
      BY <2>3, CallerGoes DEF Stepping, Standing
    <3>2. Unspent(tool)'
      BY <1>1, <2>1, <3>1, ReadStands
    <3>3. CallAt(tool)'
      BY <3>1, <3>2 DEF CallAt, AfterReserving, AfterPosting
    <3>4. QED  BY <1>1, <3>1, <3>3, GoesOn DEF AfterPosting
  <2>4. QED  BY <1>4, <2>2, <2>3 DEF GetAttempt
<1>5. CASE status # "NONE"
  <2>1. Held(tool) /\ call[Caller].req = SignedRequest(tool)
    BY <1>2, <1>3, <1>5 DEF Unspent, Tried
  <2>2. status = "RESERVED" /\ call[Caller].seenGrant = "RESERVED"
    BY <1>2, <1>3, <2>1 DEF Held
  <2>3. call' = [call EXCEPT ![Caller] = c] /\ pc' = [pc EXCEPT ![Caller] = "recover"]
    BY <1>5 DEF GetAttempt, Goto
  <2>4. /\ DOMAIN c = CallFields /\ c.req = call[Caller].req /\ c.at = call[Caller].at
        /\ c.seenAttempt = status /\ c.seenGrant = call[Caller].seenGrant
    BY CallFacts DEF CallFields
  <2> HIDE DEF c, status
  <2>5. CallShape' /\ pc'[Caller] = "recover" /\ call'[Caller] = c
    BY <2>3, <2>4, CallerMoves DEF Stepping, Standing
  <2>6. Held(tool)' /\ SignedRequest(tool)' = SignedRequest(tool)
    BY <1>1, <2>1, <2>5, ReadStands
  <2>7. CallAt(tool)'
    BY <2>1, <2>2, <2>4, <2>5, <2>6 DEF CallAt, AfterReserving, AfterPosting
  <2>8. QED  BY <1>1, <2>4, <2>5, <2>7, GoesOn DEF AfterPosting
<1>6. QED  BY <1>4, <1>5

\* A gate that allows the request has compared it with what was signed.
LEMMA EvaluateGoes ==
  ASSUME NEW tool \in Tools, Stepping(tool), Evaluate(Caller)
  PROVE  Stepped(tool)
<1>1. Untold /\ pc[Caller] = "evaluate"
  BY DEF Evaluate, Untold, caseDb
<1>2. Unspent(tool)
  BY <1>1 DEF Stepping, Running, CallAt
<1>3. CASE ~PolicyAllows(call[Caller].req)
  BY <1>1, <1>3, DenyGoesOn DEF Evaluate, AfterPosting
<1>4. CASE PolicyAllows(call[Caller].req)
  <2>1. CallShape' /\ pc'[Caller] = "getCase" /\ call'[Caller] = call[Caller]
    BY <1>4, CallerGoes DEF Evaluate, Stepping, Standing
  <2>2. call[Caller].req.params = grant[AuthOf(tool)].params
    BY <1>4, CallFacts DEF PolicyAllows, BindingMatches
  <2>3. call[Caller].req = SignedRequest(tool)
    BY <2>2 DEF Stepping, Running, CallIs, SignedRequest
  <2>4. Unspent(tool)' /\ SignedRequest(tool)' = SignedRequest(tool)
    BY <1>1, <1>2, <2>1, ReadStands
  <2>5. CallAt(tool)'
    BY <2>1, <2>3, <2>4 DEF CallAt, AfterReserving, AfterPosting
  <2>6. QED  BY <1>1, <2>1, <2>5, GoesOn DEF AfterPosting
<1>5. QED  BY <1>3, <1>4

\* The denial is saved and raised.
LEMMA SaveDenialGoes ==
  ASSUME NEW tool \in Tools, Stepping(tool), SaveDenial(Caller)
  PROVE  Stepped(tool)
BY ReturnsDenied DEF SaveDenial, Untold, AfterPosting

\* The version of the case is read.
LEMMA GetCaseGoes ==
  ASSUME NEW tool \in Tools, Stepping(tool), GetCase(Caller)
  PROVE  Stepped(tool)
<1> DEFINE c == [call[Caller] EXCEPT !.version = case.version]
<1>1. Untold /\ pc[Caller] = "getCase"
  BY DEF GetCase, Untold, caseDb
<1>2. Unspent(tool) /\ call[Caller].req = SignedRequest(tool)
  BY <1>1 DEF Stepping, Running, CallAt
<1>3. call' = [call EXCEPT ![Caller] = c] /\ pc' = [pc EXCEPT ![Caller] = "reserve"]
  BY DEF GetCase, Goto
<1>4. DOMAIN c = CallFields /\ c.req = call[Caller].req /\ c.at = call[Caller].at
  BY CallFacts DEF CallFields
<1> HIDE DEF c
<1>5. CallShape' /\ pc'[Caller] = "reserve" /\ call'[Caller] = c
  BY <1>3, <1>4, CallerMoves DEF Stepping, Standing
<1>6. Unspent(tool)' /\ SignedRequest(tool)' = SignedRequest(tool)
  BY <1>1, <1>2, <1>5, ReadStands
<1>7. CallAt(tool)'
  BY <1>2, <1>4, <1>5, <1>6 DEF CallAt, AfterReserving, AfterPosting
<1>8. QED  BY <1>1, <1>4, <1>5, <1>7, GoesOn DEF AfterPosting

\* Nobody else has spent the authorization of an unspent call.
LEMMA NotYetReserved ==
  ASSUME NEW tool \in Tools, Stepping(tool), Unspent(tool)
  PROVE  ~HasAttempt(call[Caller].req.auth)
BY CallFacts, ToolIds DEF HasAttempt, Stepping, Standing, OwnAttempts, Unspent, Tried

\* A refused reservation raises.
LEMMA ReserveRefusedGoes ==
  ASSUME NEW tool \in Tools, Stepping(tool), ReserveRefused(Caller)
  PROVE  Stepped(tool)
BY ReturnsDenied DEF ReserveRefused, Untold, AfterPosting, caseDb

\* There is no earlier reservation to get back.
LEMMA ReserveAgainGoes ==
  ASSUME NEW tool \in Tools, Stepping(tool), ReserveAgain(Caller)
  PROVE  Stepped(tool)
<1>1. Unspent(tool)
  BY DEF ReserveAgain, Stepping, Running, CallAt
<1>2. QED  BY <1>1, NotYetReserved DEF ReserveAgain

\* A resumed reservation goes on to look its effect up.
LEMMA RecoverGoes ==
  ASSUME NEW tool \in Tools, Stepping(tool), Recover(Caller)
  PROVE  Stepped(tool)
<1>1. Untold /\ pc[Caller] = "recover"
  BY DEF Recover, Untold, caseDb
<1>2. /\ Held(tool) /\ call[Caller].req = SignedRequest(tool)
      /\ call[Caller].seenGrant = "RESERVED" /\ call[Caller].seenAttempt = "RESERVED"
  BY <1>1 DEF Stepping, Running, CallAt, AfterReserving
<1>3. attempt[call[Caller].req.exec].command = call[Caller].req
  BY <1>2, CallFacts DEF Held
<1>4. CASE Deny(Caller, "recovery")
  BY <1>1, <1>4, DenyGoesOn DEF AfterPosting
<1>5. CASE Goto(Caller, "lookup") /\ UNCHANGED call
  <2>1. CallShape' /\ pc'[Caller] = "lookup" /\ call'[Caller] = call[Caller]
    BY <1>5, CallerGoes DEF Stepping, Standing
  <2>2. Held(tool)' /\ SignedRequest(tool)' = SignedRequest(tool)
    BY <1>1, <1>2, <2>1, ReadStands
  <2>3. CallAt(tool)'
    BY <1>2, <2>1, <2>2 DEF CallAt, AfterReserving, AfterPosting
  <2>4. QED  BY <1>1, <2>1, <2>3, GoesOn DEF AfterPosting
<1>6. QED  BY <1>2, <1>3, <1>4, <1>5 DEF Recover

\* The effect is looked up, unless the grant ran out.
LEMMA LookupEffectGoes ==
  ASSUME NEW tool \in Tools, Stepping(tool), LookupEffect(Caller)
  PROVE  Stepped(tool)
<1>1. Untold /\ pc[Caller] = "lookup"
  BY DEF LookupEffect, Untold, caseDb
<1>2. Held(tool) /\ call[Caller].req = SignedRequest(tool)
  BY <1>1 DEF Stepping, Running, CallAt, AfterReserving
<1>3. CASE Deny(Caller, "expired")
  BY <1>1, <1>3, DenyGoesOn DEF AfterPosting
<1>4. CASE Goto(Caller, "mutate") /\ UNCHANGED call
  <2>1. CallShape' /\ pc'[Caller] = "mutate" /\ call'[Caller] = call[Caller]
    BY <1>4, CallerGoes DEF Stepping, Standing
  <2>2. Held(tool)' /\ SignedRequest(tool)' = SignedRequest(tool)
    BY <1>1, <1>2, <2>1, ReadStands
  <2>3. CallAt(tool)'
    BY <1>2, <2>1, <2>2 DEF CallAt, AfterReserving, AfterPosting
  <2>4. QED  BY <1>1, <2>1, <2>3, GoesOn DEF AfterPosting
<1>5. QED  BY <1>3, <1>4 DEF LookupEffect

-----------------------------------------------------------------------------
(* The enterprise transaction of the running call. *)

\* A receipt call has found or made the effect; a release is this call's.
LEMMA MutatedGoes ==
  ASSUME NEW tool \in Tools, Stepping(tool), pc[Caller] = "mutate",
         NEW f, NEW outcome \in {"EXECUTED", "SAFE_NOOP"}, MutatedTo(Caller, f, outcome),
         UNCHANGED <<caseDb, now>>, WorldShape', OwnIn(ent)',
         tool = Receipt => NoInvoiceYet',
         tool = Invoice => ReceiptHolds' /\ ReleasedIn(ent, f)' /\ outcome = "EXECUTED"
  PROVE  Stepped(tool)
<1> DEFINE c == [call[Caller] EXCEPT !.effect = f, !.outcome = outcome]
<1>1. /\ DOMAIN c = CallFields /\ c.req = call[Caller].req /\ c.at = call[Caller].at
      /\ c.effect = f /\ c.outcome = outcome
  BY CallFacts DEF CallFields
<1>2. call' = [call EXCEPT ![Caller] = c] /\ pc' = [pc EXCEPT ![Caller] = "verify"]
  BY CallerIs DEF MutatedTo, Goto, Stepping, Standing, CallShape
<1> HIDE DEF c
<1>3. CallShape' /\ pc'[Caller] = "verify" /\ call'[Caller] = c
  BY <1>1, <1>2, CallerMoves DEF Stepping, Standing
<1>4. LedgerShape' /\ OwnAttempts' /\ (Alone' <=> Alone)
  BY LedgersStay DEF Stepping, Standing, caseDb
<1>5. Standing'
  BY <1>3, <1>4 DEF Stepping, Standing
<1>6. Stage(tool)'
  BY <1>4 DEF Stepping, Stage, caseDb
<1>7. Held(tool) /\ call[Caller].req = SignedRequest(tool)
  BY DEF Stepping, Running, CallAt, AfterReserving
<1>8. SignedRequest(tool)' = SignedRequest(tool) /\ CallIs(tool)'
  BY <1>1, <1>3 DEF Stepping, Running, CallIs, SignedRequest, RequestWith, Signer, caseDb
<1>9. Held(tool)'
  BY <1>7, <1>8 DEF Held, caseDb
<1>10. CallAt(tool)'
  BY <1>1, <1>3, <1>7, <1>8, <1>9 DEF CallAt, AfterReserving, AfterPosting
<1>11. AnswerAt(tool)'
  BY <1>1, <1>3 DEF AnswerAt, AfterPosting, Effected
<1>12. QED  BY <1>3, <1>5, <1>6, <1>8, <1>10, <1>11 DEF Stepped, Running

\* A failed precondition is still to be recorded.
LEMMA PreconditionGoes ==
  ASSUME NEW tool \in Tools, Stepping(tool), Untold, pc[Caller] = "mutate",
         Goto(Caller, "readState"), UNCHANGED call
  PROVE  Stepped(tool)
<1>1. CallShape' /\ pc'[Caller] = "readState" /\ call'[Caller] = call[Caller]
  BY CallerGoes DEF Stepping, Standing
<1>2. CallAt(tool)'
  BY <1>1 DEF CallAt, AfterReserving, AfterPosting
<1>3. QED  BY <1>1, <1>2, GoesOn DEF AfterPosting

\* Before its release, no effect carries the invoice's key.
LEMMA InvoiceKeyUnused ==
  ASSUME Standing, NoInvoiceYet
  PROVE  EffectsWithKey(ent, InvoiceKey) = {} /\ SourceEffects(ent, Invoice) = {}
<1>1. ASSUME NEW f \in ent.effects PROVE f.key # InvoiceKey /\ f.tool # Invoice
  BY RunnerAssumption, NamespaceAssumption, TheTools
     DEF Standing, OwnIn, NoInvoiceYet, NoInvoiceIn, KeyOf, ExternalIds
<1>2. QED  BY <1>1 DEF EffectsWithKey, SourceEffects

\* A call that writes nothing leaves the enterprise as it was.
LEMMA UntouchedWorld ==
  ASSUME NEW tool \in Tools, Stepping(tool), Untold
  PROVE  /\ WorldShape' /\ OwnIn(ent)' /\ (NoInvoiceYet' <=> NoInvoiceYet)
BY WorldStays DEF Untold, Stepping, Standing

\* Only the receipt can find its effect posted.
LEMMA MutateKnownKeyGoes ==
  ASSUME NEW tool \in Tools, Stepping(tool), MutateKnownKey(Caller)
  PROVE  Stepped(tool)
<1>1. Untold /\ pc[Caller] = "mutate" /\ UNCHANGED <<caseDb, now>>
  BY DEF MutateKnownKey, Untold, caseDb
<1>2. NoInvoiceYet
  BY <1>1 DEF Stepping, Running, AnswerAt, AfterPosting
<1>3. PICK f \in EffectsWithKey(ent, KeyOf(tool)) :
        IF f.exec = call[Caller].req.exec THEN MutatedTo(Caller, f, "SAFE_NOOP")
        ELSE Goto(Caller, "readState") /\ UNCHANGED call
  BY CallFacts DEF MutateKnownKey
<1>4. tool = Receipt
  BY <1>2, <1>3, InvoiceKeyUnused, TheTools DEF Stepping, KeyOf
<1>5. CASE MutatedTo(Caller, f, "SAFE_NOOP")
  BY <1>1, <1>2, <1>4, <1>5, MutatedGoes, UntouchedWorld, TheTools
<1>6. CASE Goto(Caller, "readState") /\ UNCHANGED call
  BY <1>1, <1>6, PreconditionGoes
<1>7. QED  BY <1>3, <1>5, <1>6

\* Only the receipt can be done outside.
LEMMA MutateExternallyDoneGoes ==
  ASSUME NEW tool \in Tools, Stepping(tool), MutateExternallyDone(Caller)
  PROVE  Stepped(tool)
<1>1. Untold /\ pc[Caller] = "mutate" /\ UNCHANGED <<caseDb, now>>
  BY DEF MutateExternallyDone, Untold, caseDb
<1>2. NoInvoiceYet
  BY <1>1 DEF Stepping, Running, AnswerAt, AfterPosting
<1>3. PICK f \in ent.effects :
        ExternallyCompletedBy(ent, tool, f) /\ MutatedTo(Caller, f, "SAFE_NOOP")
  BY CallFacts DEF MutateExternallyDone
<1>4. SourceEffects(ent, Invoice) = {}
  BY <1>2, InvoiceKeyUnused DEF Stepping
<1>5. tool = Receipt
  BY <1>3, <1>4, TheTools DEF ExternallyCompletedBy, InvoiceCompletedBy
<1>6. QED  BY <1>1, <1>2, <1>3, <1>5, MutatedGoes, UntouchedWorld, TheTools

\* A failed precondition posts nothing.
LEMMA MutateRefusedGoes ==
  ASSUME NEW tool \in Tools, Stepping(tool), MutateRefused(Caller)
  PROVE  Stepped(tool)
BY PreconditionGoes DEF MutateRefused, Untold, caseDb

\* The enterprise is read for the receipt of the failed attempt.
LEMMA ReadStateGoes ==
  ASSUME NEW tool \in Tools, Stepping(tool), ReadState(Caller)
  PROVE  Stepped(tool)
<1> DEFINE c == [call[Caller] EXCEPT !.docs = ent.docs]
<1>1. Untold /\ pc[Caller] = "readState"
  BY DEF ReadState, Untold, caseDb
<1>2. call' = [call EXCEPT ![Caller] = c] /\ pc' = [pc EXCEPT ![Caller] = "denyPrecondition"]
  BY DEF ReadState, Goto
<1>3. DOMAIN c = CallFields /\ c.req = call[Caller].req /\ c.at = call[Caller].at
  BY CallFacts DEF CallFields
<1> HIDE DEF c
<1>4. CallShape' /\ pc'[Caller] = "denyPrecondition" /\ call'[Caller] = c
  BY <1>2, <1>3, CallerMoves DEF Stepping, Standing
<1>5. CallAt(tool)'
  BY <1>4 DEF CallAt, AfterReserving, AfterPosting
<1>6. QED  BY <1>1, <1>3, <1>4, <1>5, GoesOn DEF AfterPosting

\* What the two postings write.
LEMMA ReceiptPosting ==
  ASSUME NEW e, DOMAIN e = EntFields, OwnIn(e), NoInvoiceIn(e), NEW at
  PROVE  LET posted == Posted(e, Receipt, ReceiptExec, ReceiptKey, at) IN
         DOMAIN posted = EntFields /\ OwnIn(posted) /\ NoInvoiceIn(posted)
<1> DEFINE new == NewEffect(Receipt, ReceiptExec, ReceiptKey, at)
           posted == Posted(e, Receipt, ReceiptExec, ReceiptKey, at)
<1>1. DOMAIN posted = EntFields /\ posted.effects = e.effects \union {new}
  BY DEF Posted, ReceiptPosted, EntFields
<1>2. /\ DOMAIN new = EffectFields /\ new.tool = Receipt
      /\ new.exec = ReceiptExec /\ new.key = ReceiptKey
  BY DEF NewEffect, EffectFields
<1> HIDE DEF new, posted
<1>3. OwnIn(posted) /\ NoInvoiceIn(posted)
  BY <1>1, <1>2, TheTools DEF OwnIn, NoInvoiceIn, ExecOf, KeyOf
<1>4. QED  BY <1>1, <1>3 DEF posted

\* The release leaves the receipt as it was.
LEMMA InvoicePosting ==
  ASSUME NEW e, DOMAIN e = EntFields, OwnIn(e), NoInvoiceIn(e), NEW at,
         HoldsIn(e), ~e.invoice.otherHolds
  PROVE  LET posted == Posted(e, Invoice, InvoiceExec, InvoiceKey, at) IN
         /\ DOMAIN posted = EntFields /\ OwnIn(posted) /\ HoldsIn(posted)
         /\ ReleasedIn(posted, NewEffect(Invoice, InvoiceExec, InvoiceKey, at))
<1> DEFINE new == NewEffect(Invoice, InvoiceExec, InvoiceKey, at)
           posted == Posted(e, Invoice, InvoiceExec, InvoiceKey, at)
           invoice == [revision |-> e.invoice.revision + 1, state |-> "RELEASED",
                       hold |-> "NONE", otherHolds |-> e.invoice.otherHolds,
                       releasedBy |-> InvoiceExec]
<1>1. posted = [e EXCEPT !.invoice = invoice, !.effects = @ \union {new}]
  BY TheTools DEF Posted, InvoiceReleased
<1>2. /\ invoice.state = "RELEASED" /\ invoice.hold = "NONE" /\ ~invoice.otherHolds
      /\ invoice.releasedBy = InvoiceExec
  OBVIOUS
<1>3. /\ DOMAIN new = EffectFields /\ new.tool = Invoice
      /\ new.exec = InvoiceExec /\ new.key = InvoiceKey /\ new.type = LocalType(Invoice)
  BY DEF NewEffect, EffectFields
<1> HIDE DEF new, posted, invoice
<1>4. /\ DOMAIN posted = EntFields /\ posted.effects = e.effects \union {new}
      /\ posted.invoice = invoice /\ posted.erp = e.erp /\ posted.warehouse = e.warehouse
      /\ posted.message = e.message /\ posted.docs = e.docs
  BY <1>1 DEF EntFields
<1>5. OwnIn(posted)
  BY <1>3, <1>4, TheTools DEF OwnIn, ExecOf, KeyOf
<1>6. /\ SourceEffects(posted, Receipt) = SourceEffects(e, Receipt)
      /\ SourceEffects(posted, Invoice) = {new}
  BY <1>3, <1>4, TheTools DEF SourceEffects, NoInvoiceIn
<1>7. HoldsIn(posted)
  BY <1>4, <1>6 DEF HoldsIn
<1>8. ReleasedIn(posted, new)
  BY <1>2, <1>3, <1>4, <1>6 DEF ReleasedIn
<1>9. QED  BY <1>4, <1>5, <1>7, <1>8 DEF posted, new

\* The enterprise transaction posts the effect of this call.
LEMMA MutatePostGoes ==
  ASSUME NEW tool \in Tools, Stepping(tool), MutatePost(Caller)
  PROVE  Stepped(tool)
<1> DEFINE new == NewEffect(tool, ExecOf(tool), KeyOf(tool), now)
<1>1. /\ pc[Caller] = "mutate" /\ UNCHANGED <<caseDb, now>>
      /\ MutatedTo(Caller, new, "EXECUTED")
      /\ ent' = Posted(ent, tool, ExecOf(tool), KeyOf(tool), now)
      /\ \E revision : Preconditions(ent, tool, revision)
  BY CallFacts DEF MutatePost
<1>2. NoInvoiceYet /\ DOMAIN ent = EntFields /\ OwnIn(ent)
  BY <1>1 DEF Stepping, Running, AnswerAt, AfterPosting, Standing, WorldShape
<1> HIDE DEF new
<1>3. CASE tool = Receipt
  <2>1. ent' = Posted(ent, Receipt, ReceiptExec, ReceiptKey, now)
    BY <1>1, <1>3 DEF ExecOf, KeyOf
  <2>2. DOMAIN ent' = EntFields /\ OwnIn(ent') /\ NoInvoiceIn(ent')
    BY <1>2, <2>1, ReceiptPosting DEF NoInvoiceYet
  <2>3. WorldShape' /\ OwnIn(ent)' /\ NoInvoiceYet'
    BY <1>1, <2>2 DEF Stepping, Standing, WorldShape, OwnIn, NoInvoiceYet, caseDb
  <2>4. QED  BY <1>1, <1>3, <2>3, MutatedGoes, TheTools
<1>4. CASE tool = Invoice
  <2>1. /\ ent' = Posted(ent, Invoice, InvoiceExec, InvoiceKey, now)
        /\ new = NewEffect(Invoice, InvoiceExec, InvoiceKey, now)
    BY <1>1, <1>4, TheTools DEF ExecOf, KeyOf, new
  <2>2. HoldsIn(ent) /\ ~ent.invoice.otherHolds
    BY <1>1, <1>4, TheTools
       DEF Stepping, Stage, ReceiptHolds, Preconditions, InvoicePreconditions
  <2>3. DOMAIN ent' = EntFields /\ OwnIn(ent') /\ HoldsIn(ent') /\ ReleasedIn(ent', new)
    BY <1>2, <2>1, <2>2, InvoicePosting DEF NoInvoiceYet
  <2>4. WorldShape' /\ OwnIn(ent)' /\ ReceiptHolds' /\ ReleasedIn(ent', new)
    BY <1>1, <2>3 DEF Stepping, Standing, WorldShape, OwnIn, ReceiptHolds, HoldsIn, caseDb
  <2>5. QED  BY <1>1, <1>4, <2>4, MutatedGoes, TheTools
<1>5. QED  BY <1>3, <1>4, TheTools

-----------------------------------------------------------------------------
(* The running call reserves, verifies and completes. *)

\* The reservation takes grant, attempt and case together.
LEMMA ReserveNewGoes ==
  ASSUME NEW tool \in Tools, Stepping(tool), ReserveNew(Caller)
  PROVE  Stepped(tool)
<1> DEFINE a == AuthOf(tool)
           e == ExecOf(tool)
           held == [command |-> call[Caller].req, status |-> "RESERVED"]
<1>1. /\ pc[Caller] = "reserve" /\ Goto(Caller, "lookup")
      /\ CanAdvance(case, StartedEvent(tool), call[Caller].version, now)
      /\ case' = Advanced(case, StartedEvent(tool), now)
      /\ attempt' = [attempt EXCEPT ![e] = held]
      /\ grantStatus' = [grantStatus EXCEPT ![a] = "RESERVED"]
      /\ UNCHANGED <<grant, receipt, ent, now, call>>
  BY CallFacts DEF ReserveNew, CanReserve
<1>2. /\ call[Caller].req = SignedRequest(tool) /\ NoInvoiceYet
  BY <1>1 DEF Stepping, Running, CallAt, AnswerAt, AfterReserving, AfterPosting
<1>3. /\ a \in Auths /\ e \in Execs
      /\ tool = Receipt => a = ReceiptAuth /\ e = ReceiptExec
  BY ToolIds DEF AuthOf, ExecOf
<1>4. /\ DOMAIN held = {"command", "status"} /\ held.status = "RESERVED"
      /\ held.command = call[Caller].req /\ held.command.auth = a
  BY CallFacts
<1>5. case'.status = ExecutingStatus(tool) /\ case'.updatedAt = now
  BY <1>1, StartsFromAuthorized DEF Advanced
<1> HIDE DEF a, e, held
<1>6. /\ attempt'[e] = held /\ \A d \in Execs \ {e} : attempt'[d] = attempt[d]
      /\ grantStatus'[a] = "RESERVED" /\ \A b \in Auths \ {a} : grantStatus'[b] = grantStatus[b]
      /\ LedgerShape'
  BY <1>1, <1>3, <1>4 DEF Stepping, Standing, LedgerShape
<1>7. CallShape' /\ pc'[Caller] = "lookup" /\ call'[Caller] = call[Caller]
  BY <1>1, CallerGoes DEF Stepping, Standing
<1>8. OwnAttempts'
  <2> SUFFICES ASSUME NEW d \in Execs, Tried(d)'
               PROVE  \E t \in Tools : d = ExecOf(t) /\ attempt'[d].command.auth = AuthOf(t)
    BY DEF OwnAttempts
  <2>1. CASE d = e
    BY <1>4, <1>6, <2>1 DEF e, a
  <2>2. CASE d # e
    BY <1>6, <2>2 DEF Stepping, Standing, OwnAttempts, Tried
  <2>3. QED  BY <2>1, <2>2
<1>9. WorldShape' /\ OwnIn(ent)' /\ (NoInvoiceYet' <=> NoInvoiceYet)
      /\ (ReceiptHolds' <=> ReceiptHolds)
  BY <1>1, <1>5 DEF Stepping, Standing, WorldShape, OwnIn, NoInvoiceYet, NoInvoiceIn,
                    ReceiptHolds, HoldsIn, SourceEffects
<1>10. Standing'
  BY <1>6, <1>7, <1>8, <1>9 DEF Stepping, Standing
<1>11. tool = Receipt => Alone'
  BY <1>3, <1>6 DEF Stepping, Stage, Alone, Tried
<1>12. Stage(tool)'
  BY <1>1, <1>2, <1>9, <1>11 DEF Stepping, Stage
<1>13. SignedRequest(tool)' = SignedRequest(tool) /\ CallIs(tool)'
  BY <1>1, <1>7 DEF Stepping, Running, CallIs, SignedRequest, RequestWith, Signer
<1>14. held = [command |-> SignedRequest(tool), status |-> "RESERVED"]
  BY <1>2 DEF held
<1>15. Held(tool)'
  BY <1>5, <1>6, <1>13, <1>14 DEF Held, a, e
<1>16. CallAt(tool)' /\ AnswerAt(tool)'
  BY <1>2, <1>7, <1>9, <1>13, <1>15 DEF CallAt, AnswerAt, AfterReserving, AfterPosting
<1>17. QED  BY <1>7, <1>10, <1>12, <1>13, <1>16 DEF Stepped, Running

\* The precondition denial is saved.
LEMMA DenyPreconditionGoes ==
  ASSUME NEW tool \in Tools, Stepping(tool), DenyPrecondition(Caller)
  PROVE  Stepped(tool)
<1>1. Untold /\ pc[Caller] = "denyPrecondition"
  BY DEF DenyPrecondition, Untold
<1>2. CASE Return(Caller)
  BY <1>1, <1>2, ReturnsDenied DEF AfterPosting
<1>3. CASE Goto(Caller, "failAttempt") /\ UNCHANGED call
  <2>1. CallShape' /\ pc'[Caller] = "failAttempt" /\ call'[Caller] = call[Caller]
    BY <1>3, CallerGoes DEF Stepping, Standing
  <2>2. CallAt(tool)'
    BY <2>1 DEF CallAt, AfterReserving, AfterPosting
  <2>3. QED  BY <1>1, <2>1, <2>2, GoesOn DEF AfterPosting
<1>4. QED  BY <1>2, <1>3 DEF DenyPrecondition

\* Completing writes the rows of this call and no other.
LEMMA CompleteFacts ==
  ASSUME NEW tool \in Tools, Stepping(tool), NEW result, NEW status,
         CompleteAttempt(Caller, result, status), status # "NONE",
         UNCHANGED <<grant, ent, now>>, Return(Caller),
         UNCHANGED case \/ case'.updatedAt = now
  PROVE  /\ Standing' /\ Stage(tool)' /\ pc'[Caller] = "idle"
         /\ NoInvoiceYet' <=> NoInvoiceYet
         /\ ReceiptHolds' <=> ReceiptHolds
         /\ attempt[ExecOf(tool)].status = "RESERVED" =>
              /\ receipt'[ExecOf(tool)].result = result
              /\ attempt'[ExecOf(tool)].status = status
              /\ grantStatus'[AuthOf(tool)] = "CONSUMED"
<1> DEFINE a == AuthOf(tool)
           e == ExecOf(tool)
           told == ReceiptOf(Caller, result)
<1>1. /\ a \in Auths /\ e \in Execs
      /\ tool = Receipt => a = ReceiptAuth /\ e = ReceiptExec
  BY ToolIds DEF AuthOf, ExecOf
<1>2. \/ /\ attempt[e].status = "RESERVED"
         /\ receipt' = [receipt EXCEPT ![e] = told]
         /\ attempt' = [attempt EXCEPT ![e].status = status]
         /\ grantStatus' = [grantStatus EXCEPT ![a] = "CONSUMED"]
      \/ attempt[e].status # "RESERVED" /\ UNCHANGED <<receipt, attempt, grantStatus>>
  BY CallFacts DEF CompleteAttempt
<1>3. told.result = result
  BY DEF ReceiptOf
<1> HIDE DEF a, e, told
<1>4. LedgerShape'
  BY <1>1, <1>2 DEF Stepping, Standing, LedgerShape
<1>5. /\ \A d \in Execs \ {e} : attempt'[d] = attempt[d]
      /\ \A b \in Auths \ {a} : grantStatus'[b] = grantStatus[b]
      /\ attempt'[e].command = attempt[e].command
      /\ attempt[e].status = "RESERVED" =>
              /\ receipt'[e].result = result
              /\ attempt'[e].status = status
              /\ grantStatus'[a] = "CONSUMED"
      /\ attempt[e].status # "RESERVED" => attempt' = attempt
  BY <1>1, <1>2, <1>3 DEF Stepping, Standing, LedgerShape
<1>6. CallShape' /\ pc'[Caller] = "idle"
  BY CallerReturns DEF Stepping, Standing
<1>7. OwnAttempts'
  <2> SUFFICES ASSUME NEW d \in Execs, Tried(d)'
               PROVE  \E t \in Tools : d = ExecOf(t) /\ attempt'[d].command.auth = AuthOf(t)
    BY DEF OwnAttempts
  <2>1. Tried(d) /\ attempt'[d].command = attempt[d].command
    BY <1>5 DEF Tried
  <2>2. QED  BY <2>1 DEF Stepping, Standing, OwnAttempts
<1>8. WorldShape' /\ OwnIn(ent)' /\ (NoInvoiceYet' <=> NoInvoiceYet)
      /\ (ReceiptHolds' <=> ReceiptHolds)
  BY DEF Stepping, Standing, WorldShape, OwnIn, NoInvoiceYet, NoInvoiceIn,
         ReceiptHolds, HoldsIn, SourceEffects
<1>9. Standing'
  BY <1>4, <1>6, <1>7, <1>8 DEF Stepping, Standing
<1>10. Stage(tool)'
  BY <1>1, <1>5, <1>8 DEF Stepping, Stage, Alone, Tried
<1>11. QED  BY <1>5, <1>6, <1>8, <1>9, <1>10 DEF a, e

\* An attempt whose precondition failed ends with nothing posted.
LEMMA FailAttemptGoes ==
  ASSUME NEW tool \in Tools, Stepping(tool), FailAttempt(Caller)
  PROVE  Stepped(tool)
<1>1. /\ Standing' /\ Stage(tool)' /\ pc'[Caller] = "idle"
      /\ NoInvoiceYet' <=> NoInvoiceYet
  BY CompleteFacts DEF FailAttempt
<1>2. NoInvoiceYet /\ Reply(pc[Caller]) = "denied"
  BY DEF FailAttempt, Stepping, Running, AnswerAt, AfterPosting, Reply
<1>3. ASSUME NEW reply, reply = "denied" PROVE Ended(tool, reply)'
  BY <1>1, <1>2, <1>3 DEF Ended
<1>4. QED  BY <1>1, <1>2, <1>3 DEF Stepped

\* A verified receipt holds.
LEMMA ReceiptVerifiedHolds ==
  ASSUME NEW e, NEW x, NEW k, NEW r, NEW f, NEW o, ReceiptVerified(e, x, k, r, f, o)
  PROVE  HoldsIn(e)
BY DEF ReceiptVerified, EffectVerified, HoldsIn

\* The verifier of a release can only agree, and the case may close.
LEMMA ReleaseVerifies ==
  ASSUME NEW e, NEW r, NEW f, HoldsIn(e), ReleasedIn(e, f)
  PROVE  /\ Verified(e, Invoice, InvoiceExec, InvoiceKey, r, f, "EXECUTED")
         /\ SatisfiesClosure(e)
<1>1. InvoiceVerified(e, InvoiceExec, InvoiceKey, f, "EXECUTED")
  BY DEF InvoiceVerified, EffectVerified, ExpectedType, HoldsIn, ReleasedIn
<1>2. Cardinality(e.docs) <= 1
  <2>1. PICK d \in e.docs : e.docs = {d}
    BY DEF HoldsIn
  <2>2. Cardinality(e.docs) = 1
    BY <2>1, FS_Singleton
  <2>3. QED  BY <2>2
<1>3. SatisfiesClosure(e)
  BY <1>2 DEF SatisfiesClosure, HoldsIn, ReleasedIn
<1>4. QED  BY <1>1, <1>3, TheTools DEF Verified

\* The verifier compares the snapshot with what was asked.
LEMMA VerifyGoes ==
  ASSUME NEW tool \in Tools, Stepping(tool), Verify(Caller)
  PROVE  Stepped(tool)
<1> DEFINE ok == Verified(ent, tool, ExecOf(tool), KeyOf(tool), call[Caller].req.params.revision,
                          call[Caller].effect, call[Caller].outcome)
           c == [call[Caller] EXCEPT !.docs = ent.docs, !.verified = ok,
                                     !.closes = SatisfiesClosure(ent)]
<1>1. /\ pc[Caller] = "verify" /\ Untold
      /\ Goto(Caller, IF ok THEN "getCaseAgain" ELSE "complete")
      /\ call' = [call EXCEPT ![Caller].docs = ent.docs, ![Caller].verified = ok,
                              ![Caller].closes = SatisfiesClosure(ent)]
  BY CallFacts DEF Verify, Untold, caseDb
<1>2. Effected(tool) /\ Held(tool) /\ call[Caller].req = SignedRequest(tool)
  BY <1>1 DEF Stepping, Running, CallAt, AnswerAt, AfterReserving, AfterPosting
<1>3. tool = Receipt /\ ok => ReceiptHolds
  BY ReceiptVerifiedHolds DEF Verified, ReceiptHolds
<1>4. tool = Invoice => ReceiptHolds /\ ok /\ SatisfiesClosure(ent)
  BY <1>2, ReleaseVerifies, TheTools DEF Stepping, Stage, ReceiptHolds, Effected, ExecOf, KeyOf
<1>5. ok \in BOOLEAN
  BY DEF Verified, ReceiptVerified, InvoiceVerified
<1>6. /\ DOMAIN c = CallFields /\ c.req = call[Caller].req /\ c.at = call[Caller].at
      /\ c.effect = call[Caller].effect /\ c.outcome = call[Caller].outcome
      /\ c.verified = ok /\ c.closes = SatisfiesClosure(ent)
  BY CallFacts DEF CallFields
<1>7. /\ call' = [call EXCEPT ![Caller] = c]
      /\ pc' = [pc EXCEPT ![Caller] = IF ok THEN "getCaseAgain" ELSE "complete"]
  BY <1>1, CallerIs DEF Goto, Stepping, Standing, CallShape
<1> HIDE DEF c, ok
<1>8. /\ CallShape' /\ call'[Caller] = c
      /\ pc'[Caller] = IF ok THEN "getCaseAgain" ELSE "complete"
  BY <1>6, <1>7, CallerMoves DEF Stepping, Standing
<1>9. /\ Standing' /\ Stage(tool)' /\ Held(tool)' /\ CallIs(tool)'
      /\ SignedRequest(tool)' = SignedRequest(tool) /\ (ReceiptHolds' <=> ReceiptHolds)
  BY <1>1, <1>2, <1>6, <1>8, ReadStands
<1>10. CallAt(tool)'
  BY <1>2, <1>6, <1>8, <1>9 DEF CallAt, AfterReserving, AfterPosting
<1>11. Effected(tool)'
  BY <1>1, <1>2, <1>6, <1>8 DEF Untold, Effected
<1>12. ok => VerifiedNow(tool)'
  BY <1>3, <1>4, <1>6, <1>8, <1>9, <1>11, TheTools DEF VerifiedNow
<1>13. AnswerAt(tool)'
  BY <1>4, <1>5, <1>6, <1>8, <1>12 DEF AnswerAt, AfterPosting
<1>14. QED  BY <1>8, <1>9, <1>10, <1>13 DEF Stepped, Running

\* The version for the verified transition is read.
LEMMA GetCaseAgainGoes ==
  ASSUME NEW tool \in Tools, Stepping(tool), GetCaseAgain(Caller)
  PROVE  Stepped(tool)
<1> DEFINE c == [call[Caller] EXCEPT !.version = case.version]
<1>1. Untold /\ pc[Caller] = "getCaseAgain" /\ UNCHANGED <<ent, case>>
  BY DEF GetCaseAgain, Untold, caseDb
<1>2. /\ Held(tool) /\ call[Caller].req = SignedRequest(tool)
      /\ call[Caller].verified /\ VerifiedNow(tool)
  BY <1>1 DEF Stepping, Running, CallAt, AnswerAt, AfterReserving, AfterPosting
<1>3. call' = [call EXCEPT ![Caller] = c] /\ pc' = [pc EXCEPT ![Caller] = "complete"]
  BY DEF GetCaseAgain, Goto
<1>4. /\ DOMAIN c = CallFields /\ c.req = call[Caller].req /\ c.at = call[Caller].at
      /\ c.effect = call[Caller].effect /\ c.outcome = call[Caller].outcome
      /\ c.verified = call[Caller].verified /\ c.closes = call[Caller].closes
      /\ c.version = case.version
  BY CallFacts DEF CallFields
<1> HIDE DEF c
<1>5. CallShape' /\ pc'[Caller] = "complete" /\ call'[Caller] = c
  BY <1>3, <1>4, CallerMoves DEF Stepping, Standing
<1>6. /\ Standing' /\ Stage(tool)' /\ Held(tool)' /\ CallIs(tool)'
      /\ SignedRequest(tool)' = SignedRequest(tool) /\ (ReceiptHolds' <=> ReceiptHolds)
  BY <1>1, <1>2, <1>4, <1>5, ReadStands
<1>7. CallAt(tool)'
  BY <1>2, <1>4, <1>5, <1>6 DEF CallAt, AfterReserving, AfterPosting
<1>8. VerifiedNow(tool)'
  BY <1>1, <1>2, <1>4, <1>5, <1>6 DEF VerifiedNow, Effected
<1>9. AnswerAt(tool)'
  BY <1>1, <1>2, <1>4, <1>5, <1>8 DEF AnswerAt, AfterPosting
<1>10. QED  BY <1>5, <1>6, <1>7, <1>9 DEF Stepped, Running

\* A verified call completes: nobody moved the case since it was read.
LEMMA CompleteVerifiedGoes ==
  ASSUME NEW tool \in Tools, Stepping(tool), CompleteVerified(Caller)
  PROVE  Stepped(tool)
<1> DEFINE e == ExecOf(tool)
<1>1. /\ pc[Caller] = "complete" /\ Return(Caller) /\ UNCHANGED <<grant, ent, now>>
      /\ call[Caller].verified
  BY DEF CompleteVerified
<1>2. /\ Held(tool) /\ VerifiedNow(tool) /\ call[Caller].version = case.version
  BY <1>1 DEF Stepping, Running, CallAt, AnswerAt, AfterReserving, AfterPosting
<1>3. attempt[call[Caller].req.exec].status = "RESERVED" /\ attempt[e].status = "RESERVED"
  BY <1>2, HeldFacts, CallFacts
<1>4. /\ <<ExecutingStatus(tool), VerifiedEvent(tool),
           IF tool = Receipt THEN "RECEIPT_VERIFIED" ELSE "CLOSED">> \in TRANSITIONS
      /\ "RECEIPT_VERIFIED" \in CaseStatus /\ "CLOSED" \in CaseStatus
  BY DEF ExecutingStatus, VerifiedEvent, TRANSITIONS, CaseStatus
<1>5. CanClose(Caller)
  <2>1. call[Caller].at >= case.updatedAt
    BY CallFacts DEF Stepping, Standing, WorldShape
  <2>2. \E s \in CaseStatus : <<case.status, VerifiedEvent(tool), s>> \in TRANSITIONS
    BY <1>2, <1>4 DEF Held
  <2>3. tool = Invoice => call[Caller].closes
    BY <1>2 DEF VerifiedNow
  <2>4. grant[call[Caller].req.auth].tool = tool
    BY CallFacts
  <2>5. QED  BY <1>2, <2>1, <2>2, <2>3, <2>4 DEF CanClose, CanAdvance
<1>6. /\ CompleteAttempt(Caller, call[Caller].outcome, "COMPLETED")
      /\ case' = Advanced(case, VerifiedEvent(tool), now)
  BY <1>3, <1>5, CallFacts DEF CompleteVerified
<1>7. /\ case'.status = IF tool = Receipt THEN "RECEIPT_VERIFIED" ELSE "CLOSED"
      /\ case'.updatedAt = now
  <2>1. case.status = ExecutingStatus(tool)
    BY <1>2 DEF Held
  <2>2. NextStatus(case.status, VerifiedEvent(tool)) =
          IF tool = Receipt THEN "RECEIPT_VERIFIED" ELSE "CLOSED"
    BY <1>4, <2>1, NextStatusIs
  <2>3. QED  BY <1>6, <2>2 DEF Advanced
<1>8. /\ Standing' /\ Stage(tool)' /\ pc'[Caller] = "idle"
      /\ NoInvoiceYet' <=> NoInvoiceYet
      /\ ReceiptHolds' <=> ReceiptHolds
      /\ receipt'[e].result = call[Caller].outcome
      /\ attempt'[e].status = "COMPLETED"
      /\ grantStatus'[AuthOf(tool)] = "CONSUMED"
  BY <1>1, <1>3, <1>6, <1>7, CompleteFacts
<1>9. Reply(pc[Caller]) = "returned"
  BY <1>1 DEF Reply
<1>10. ASSUME tool = Receipt PROVE ReceiptDone'
  <2>1. /\ e = ReceiptExec /\ AuthOf(tool) = ReceiptAuth
    BY <1>10 DEF ExecOf, AuthOf
  <2>2. Alone' /\ NoInvoiceYet' /\ ReceiptHolds'
    BY <1>2, <1>8, <1>10 DEF Stage, VerifiedNow
  <2>3. call[Caller].outcome \in {"EXECUTED", "SAFE_NOOP"}
    BY <1>2 DEF VerifiedNow, Effected
  <2> HIDE DEF e
  <2>4. QED  BY <1>7, <1>8, <1>10, <2>1, <2>2, <2>3 DEF ReceiptDone
<1>11. ASSUME tool = Invoice PROVE InvoiceDone'
  <2>1. /\ SourceEffects(ent, Invoice) = {call[Caller].effect}
        /\ call[Caller].effect \in ent.effects
    BY <1>2, <1>11 DEF VerifiedNow, Effected, ReleasedIn
  <2>2. ReceiptHolds'
    BY <1>2, <1>8 DEF VerifiedNow
  <2>3. \E g \in ent'.effects : SourceEffects(ent', Invoice) = {g}
    BY <1>1, <2>1
  <2>4. QED  BY <1>7, <1>11, <2>2, <2>3, TheTools DEF InvoiceDone
<1>12. ASSUME NEW reply, reply = "returned" PROVE Ended(tool, reply)'
  BY <1>10, <1>11, <1>12, TheTools DEF Ended
<1>13. QED  BY <1>8, <1>9, <1>12 DEF Stepped

\* An unverified receipt leaves the case where it is: the hard stop.
LEMMA CompleteUnverifiedGoes ==
  ASSUME NEW tool \in Tools, Stepping(tool), CompleteUnverified(Caller)
  PROVE  Stepped(tool)
<1>1. /\ pc[Caller] = "complete" /\ UNCHANGED <<grant, ent, now, case>> /\ Return(Caller)
      /\ ~call[Caller].verified
      /\ CompleteAttempt(Caller, "FAILED", "VERIFICATION_FAILED")
  BY DEF CompleteUnverified
<1>2. Held(tool) /\ tool = Receipt
  BY <1>1, TheTools DEF Stepping, Running, CallAt, AnswerAt, AfterReserving, AfterPosting
<1>3. /\ Standing' /\ Stage(tool)' /\ pc'[Caller] = "idle"
      /\ receipt'[ExecOf(tool)].result = "FAILED"
  BY <1>1, <1>2, HeldFacts, CompleteFacts
<1>4. Reply(pc[Caller]) = "returned"
  BY <1>1 DEF Reply
<1>5. ReceiptFailed'
  BY <1>1, <1>2, <1>3 DEF ReceiptFailed, Held, ExecOf, ExecutingStatus
<1>6. ASSUME NEW reply, reply = "returned" PROVE Ended(tool, reply)'
  BY <1>2, <1>5, <1>6 DEF Ended
<1>7. QED  BY <1>3, <1>4, <1>6 DEF Stepped

\* Every step of a running call.
LEMMA StepGoes ==
  ASSUME NEW tool \in Tools, Stepping(tool), Step(Caller)
  PROVE  Stepped(tool)
BY GetGrantGoes, GetAttemptGoes, EvaluateGoes, SaveDenialGoes, GetCaseGoes, ReserveAgainGoes,
   ReserveNewGoes, ReserveRefusedGoes, RecoverGoes, LookupEffectGoes, MutateKnownKeyGoes,
   MutateExternallyDoneGoes, MutatePostGoes, MutateRefusedGoes, ReadStateGoes, DenyPreconditionGoes,
   FailAttemptGoes, VerifyGoes, GetCaseAgainGoes, CompleteVerifiedGoes, CompleteUnverifiedGoes
   DEF Step

\* The replayed or duplicated call: it is refused, or finds its receipt.
LEMMA LookingGoes ==
  ASSUME Standing, RunShape', Looking, ReceiptDone, pc[Caller] # "idle", Step(Caller)
  PROVE  Standing' /\ Looking' /\ ReceiptDone'
<1> DEFINE req == call[Caller].req
<1>1. /\ pc[Caller] \in {"getGrant", "getAttempt", "recover", "deny"}
      /\ req.auth = ReceiptAuth /\ req.exec \in {ReceiptExec, ReplayExec}
      /\ DOMAIN call[Caller] = CallFields
  BY DEF Looking, Standing, CallShape
<1>2. GetGrant(Caller) \/ GetAttempt(Caller) \/ Recover(Caller) \/ SaveDenial(Caller)
  BY <1>1 DEF Step, Evaluate, GetCase, ReserveAgain, ReserveNew, ReserveRefused, LookupEffect,
              MutateKnownKey, MutateExternallyDone, MutatePost, MutateRefused, ReadState,
              DenyPrecondition, FailAttempt, Verify, GetCaseAgain, CompleteVerified,
              CompleteUnverified
<1>3. Untold
  BY <1>2 DEF GetGrant, GetAttempt, Recover, SaveDenial, Untold, caseDb
<1>4. LedgerShape' /\ WorldShape' /\ OwnIn(ent)' /\ OwnAttempts'
  BY <1>3, LedgersStay, WorldStays DEF Untold, Standing
<1>5. ReceiptDone'
  BY <1>3, LedgersStay, WorldStays DEF Untold, ReceiptDone
<1>6. CASE Return(Caller)
  <2>1. CallShape' /\ pc'[Caller] = "idle"
    BY <1>6, CallerReturns DEF Standing
  <2>2. QED  BY <1>4, <1>5, <2>1 DEF Standing, Looking
<1>7. ASSUME NEW kind, Deny(Caller, kind) PROVE Standing' /\ Looking'
  <2> DEFINE c == [call[Caller] EXCEPT !.denial = kind]
  <2>1. DOMAIN c = CallFields /\ c.req = req
    BY <1>1 DEF CallFields
  <2>2. call' = [call EXCEPT ![Caller] = c] /\ pc' = [pc EXCEPT ![Caller] = "deny"]
    BY <1>7 DEF Deny, Goto
  <2> HIDE DEF c
  <2>3. CallShape' /\ pc'[Caller] = "deny" /\ call'[Caller] = c
    BY <2>1, <2>2, CallerMoves DEF Standing
  <2>4. QED  BY <1>1, <1>4, <2>1, <2>3 DEF Standing, Looking
<1>8. CASE GetGrant(Caller)
  <2> DEFINE c == [call[Caller] EXCEPT !.seenGrant = "CONSUMED"]
  <2>1. grantStatus[req.auth] = "CONSUMED"
    BY <1>1 DEF ReceiptDone
  <2>2. call' = [call EXCEPT ![Caller] = c] /\ pc' = [pc EXCEPT ![Caller] = "getAttempt"]
    BY <1>8, <2>1 DEF GetGrant, Goto
  <2>3. DOMAIN c = CallFields /\ c.req = req /\ c.seenGrant = "CONSUMED"
    BY <1>1 DEF CallFields
  <2> HIDE DEF c
  <2>4. CallShape' /\ pc'[Caller] = "getAttempt" /\ call'[Caller] = c
    BY <2>2, <2>3, CallerMoves DEF Standing
  <2>5. QED  BY <1>1, <1>4, <1>5, <2>3, <2>4 DEF Standing, Looking
<1>9. CASE GetAttempt(Caller)
  <2>1. call[Caller].seenGrant = "CONSUMED" /\ pc[Caller] = "getAttempt"
    BY <1>9 DEF GetAttempt, Looking
  <2>2. /\ attempt[req.exec].status # "NONE" => attempt[req.exec].status = "COMPLETED"
    BY <1>1, RunnerAssumption DEF ReceiptDone, Alone, Tried
  <2>3. CASE attempt[req.exec].status = "NONE"
    BY <1>5, <1>7, <1>9, <2>1, <2>3 DEF GetAttempt
  <2>4. CASE attempt[req.exec].status # "NONE"
    <3> DEFINE c == [call[Caller] EXCEPT !.seenAttempt = "COMPLETED"]
    <3>1. call' = [call EXCEPT ![Caller] = c] /\ pc' = [pc EXCEPT ![Caller] = "recover"]
      BY <1>9, <2>2, <2>4 DEF GetAttempt, Goto
    <3>2. DOMAIN c = CallFields /\ c.req = req /\ c.seenAttempt = "COMPLETED"
      BY <1>1 DEF CallFields
    <3> HIDE DEF c
    <3>3. CallShape' /\ pc'[Caller] = "recover" /\ call'[Caller] = c
      BY <3>1, <3>2, CallerMoves DEF Standing
    <3>4. QED  BY <1>1, <1>4, <1>5, <3>2, <3>3 DEF Standing, Looking
  <2>5. QED  BY <2>3, <2>4
<1>10. CASE Recover(Caller)
  <2>1. call[Caller].seenAttempt = "COMPLETED"
    BY <1>10 DEF Recover, Looking
  <2>2. Deny(Caller, "recovery") \/ Return(Caller)
    BY <1>10, <2>1 DEF Recover
  <2>3. QED  BY <1>5, <1>6, <1>7, <2>2
<1>11. CASE SaveDenial(Caller)
  BY <1>6, <1>11 DEF SaveDenial
<1>12. QED  BY <1>2, <1>8, <1>9, <1>10, <1>11

\* What the runner notes of a call that ended.
LEMMA RunNotes ==
  ASSUME RunShape, NEW reply,
         run' = IF pc'[Caller] = "idle" THEN [run EXCEPT !.reply = reply] ELSE run
  PROVE  /\ RunShape' /\ run'.at = run.at /\ run'.manifest = run.manifest
         /\ pc'[Caller] = "idle" => run'.reply = reply
BY DEF RunShape

\* A step of the running, replayed or duplicated call.
LEMMA RunStepTrue ==
  ASSUME Scene, RunStep
  PROVE  NextScene'
<1>1. /\ RunShape' /\ run'.at = run.at /\ run'.manifest = run.manifest
      /\ pc'[Caller] = "idle" => run'.reply = Reply(pc[Caller])
  BY RunNotes DEF RunStep, Scene, Standing
<1>2. pc[Caller] # "idle" /\ Step(Caller)
  BY DEF RunStep
<1>3. ASSUME NEW tool \in Tools, run.at = PointOf(tool) PROVE NextScene'
  <2>1. Stepping(tool)
    BY <1>1, <1>2, <1>3 DEF Stepping, Scene, Positions, CallingInv
  <2>2. Stepped(tool)
    BY <1>2, <2>1, StepGoes
  <2>3. pc'[Caller] = "idle" => Ended(tool, run.reply)'
    BY <1>1, <2>2 DEF Stepped
  <2>4. \A other \in Tools : run'.at = PointOf(other) => other = tool
    BY <1>1, <1>3, TheTools DEF PointOf
  <2>5. CallingInv'
    BY <2>2, <2>3, <2>4 DEF CallingInv, Stepped
  <2>6. run'.at \in {"executing", "releasing"}
    BY <1>1, <1>3 DEF PointOf
  <2>7. QED  BY <2>2, <2>5, <2>6, Arrivals DEF Stepped, NextScene
<1>4. CASE run.at = "reusing"
  <2>1. Looking /\ ReceiptDone
    BY <1>4 DEF Scene, Positions, ReusingInv
  <2>2. Standing' /\ Looking' /\ ReceiptDone'
    BY <1>1, <1>2, <2>1, LookingGoes DEF Scene
  <2>3. QED  BY <1>1, <1>4, <2>2, Arrivals DEF ReusingInv, NextScene
<1>5. QED  BY <1>3, <1>4, TheTools DEF RunStep, PointOf

-----------------------------------------------------------------------------
(* After the calls, and the invoice. *)

\* After the receipt call: the end, the reuse, or the invoice.
LEMMA RunExecutedTrue ==
  ASSUME Scene, RunExecuted
  PROVE  NextScene'
<1>1. /\ run.at = "executing" /\ pc[Caller] = "idle" /\ Quiet
      /\ Stage(Receipt) /\ Ended(Receipt, run.reply)
  BY TheTools DEF RunExecuted, At, Scene, Positions, CallingInv, PointOf
<1>2. NoInvoiceYet
  BY <1>1 DEF Stage
<1>3. RunShape' => /\ Standing' /\ NoInvoiceYet' /\ (ReceiptHolds' <=> ReceiptHolds)
                   /\ (Alone' <=> Alone) /\ \A e : Tried(e)' <=> Tried(e)
  BY <1>1, <1>2, QuietStands DEF Scene
<1>4. UNCHANGED <<case, receipt, attempt, grant, grantStatus, pc>>
  BY <1>1 DEF Quiet, vars, caseDb
<1>5. ASSUME NEW outcome \in {"DENIED", "RAISED"}, Ends(outcome) PROVE NextScene'
  <2>1. Standing' /\ NoInvoiceYet'
    BY <1>3, <1>5, RunEnds DEF Scene, Standing
  <2>2. Reported(outcome)'
    BY <2>1 DEF Reported
  <2>3. QED  BY <1>5, <2>1, <2>2, TrueOutcome DEF Scene, Standing
<1>6. CASE run.reply = "denied"
  BY <1>5, <1>6 DEF RunExecuted
<1>7. CASE run.reply # "denied" /\ receipt[ReceiptExec].result = "FAILED"
  <2>1. Ends("EXECUTING_HARD_STOP")
    BY <1>7 DEF RunExecuted
  <2>2. Standing' /\ NoInvoiceYet'
    BY <1>3, <2>1, RunEnds DEF Scene, Standing
  <2>3. ReceiptFailed
    BY <1>1, <1>7 DEF Ended, ReceiptDone
  <2>4. Reported("EXECUTING_HARD_STOP")'
    BY <1>4, <2>2, <2>3 DEF Reported, ReceiptFailed
  <2>5. QED  BY <2>1, <2>2, <2>4, TrueOutcome DEF Scene, Standing
<1>8. CASE run.reply # "denied" /\ receipt[ReceiptExec].result # "FAILED"
  <2>1. ReceiptDone
    BY <1>1, <1>8 DEF Ended, ReceiptFailed
  <2>2. RunShape' => ReceiptDone'
    BY <1>2, <1>3, <1>4, <2>1 DEF ReceiptDone
  <2>3. CASE Goes("reuse")
    <3>1. RunShape' /\ run'.at = "reuse"
      BY <2>3, RunMoves DEF Scene, Standing
    <3>2. QED  BY <1>1, <1>3, <1>4, <2>2, <3>1, Arrivals DEF ReusingInv, NextScene
  <2>4. CASE Goes("requestInvoice")
    <3>1. RunShape' /\ run'.at = "requestInvoice"
      BY <2>4, RunMoves DEF Scene, Standing
    <3>2. ~Tried(InvoiceExec) /\ ReceiptHolds
      BY <2>1, RunnerAssumption DEF ReceiptDone, Alone
    <3>3. LateInv'
      BY <1>1, <1>3, <1>4, <3>1, <3>2 DEF LateInv
    <3>4. QED  BY <1>3, <3>1, <3>3, Arrivals DEF NextScene
  <2>5. CASE Ends("SAFE_NOOP")
    <3>1. RunShape'
      BY <2>5, RunEnds DEF Scene, Standing
    <3>2. Reported("SAFE_NOOP")'
      BY <1>3, <2>2, <3>1 DEF Reported
    <3>3. QED  BY <1>3, <2>5, <3>1, <3>2, TrueOutcome DEF Scene, Standing
  <2>6. QED  BY <1>8, <2>3, <2>4, <2>5 DEF RunExecuted
<1>9. QED  BY <1>6, <1>7, <1>8

\* After the replayed or duplicated call.
LEMMA RunReusedTrue ==
  ASSUME Scene, RunReused
  PROVE  NextScene'
<1>1. run.at = "reusing" /\ Quiet /\ ReceiptDone
  BY DEF RunReused, At, Scene, Positions, ReusingInv
<1>2. PICK outcome \in {"SAFE_NOOP", "RAISED", "DENIED"} : Ends(outcome)
  BY DEF RunReused
<1>3. RunShape'
  BY <1>2, RunEnds DEF Scene, Standing
<1>4. /\ Standing' /\ (NoInvoiceYet' <=> NoInvoiceYet) /\ (ReceiptHolds' <=> ReceiptHolds)
      /\ (Alone' <=> Alone)
  BY <1>1, <1>3, QuietStands DEF Scene
<1>5. ReceiptDone' /\ NoInvoiceYet'
  BY <1>1, <1>4 DEF ReceiptDone, Quiet, vars, caseDb
<1>6. Reported(outcome)'
  BY <1>5 DEF Reported
<1>7. QED  BY <1>2, <1>4, <1>6, TrueOutcome DEF Scene, Standing

\* The invoice is asked for.
LEMMA RunRequestInvoiceTrue ==
  ASSUME Scene, RunRequestInvoice
  PROVE  NextScene'
<1>1. /\ pc[Caller] = "idle" /\ ReceiptHolds /\ NoInvoiceYet /\ ~Tried(InvoiceExec)
  BY DEF Scene, Positions, LateInv, RunRequestInvoice, At
<1>2. /\ UNCHANGED <<grant, grantStatus, attempt, receipt, ent, now, pc, call>>
      /\ case'.updatedAt = now
  BY LifecycleTime DEF RunRequestInvoice, RequestApproval
<1>3. RunShape' /\ run'.at = "approveInvoice"
  BY RunMoves DEF Scene, Standing, RunRequestInvoice
<1>4. /\ Standing' /\ (NoInvoiceYet' <=> NoInvoiceYet) /\ (ReceiptHolds' <=> ReceiptHolds)
      /\ \A e : Tried(e)' <=> Tried(e)
  BY <1>2, <1>3, CaseStepStands DEF Scene
<1>5. LateInv'
  BY <1>1, <1>2, <1>3, <1>4 DEF LateInv
<1>6. QED  BY <1>3, <1>4, <1>5, Arrivals DEF NextScene

\* The invoice is signed, or refused.
LEMMA RunApproveInvoiceTrue ==
  ASSUME Scene, RunApproveInvoice
  PROVE  NextScene'
<1>1. NoInvoiceYet /\ run.at = "approveInvoice"
  BY DEF Scene, Positions, LateInv, RunApproveInvoice, At
<1>2. CASE MayApprove(run.manifest.invoiceBy, Invoice)
  <2> DEFINE params == Parameters(Invoice)
             who == run.manifest.invoiceBy
  <2>1. Approve(InvoiceAuth, who, params)
    BY <1>2 DEF RunApproveInvoice
  <2>2. params.tool = Invoice
    BY DEF Parameters
  <2> HIDE DEF params, who
  <2>3. /\ grant'[InvoiceAuth].tool = Invoice /\ grantStatus'[InvoiceAuth] = "ISSUED"
        /\ UNCHANGED <<attempt, receipt, ent, now, pc, call>>
    BY <2>1, <2>2, ApproveFacts, RunnerAssumption DEF Scene, Standing
  <2>4. RunShape' => /\ Standing' /\ NoInvoiceYet' /\ (ReceiptHolds' <=> ReceiptHolds)
                     /\ \A e : Tried(e)' <=> Tried(e)
    BY <1>1, <2>1, ApproveStands, RunnerAssumption DEF Scene
  <2>5. CASE Goes("release")
    <3>1. RunShape' /\ run'.at = "release"
      BY <2>5, RunMoves DEF Scene, Standing
    <3>2. case.status # "AWAITING_RECEIPT_APPROVAL"
      BY <1>2, TheTools DEF MayApprove, AwaitingStatus
    <3>3. pc[Caller] = "idle" /\ ReceiptHolds /\ ~Tried(InvoiceExec)
      BY <1>1, <3>2 DEF Scene, Positions, LateInv
    <3>4. LateInv'
      BY <2>3, <2>4, <3>1, <3>3 DEF LateInv
    <3>5. QED  BY <2>4, <3>1, <3>4, Arrivals DEF NextScene
  <2>6. CASE Ends("RAISED")
    <3>1. Standing' /\ NoInvoiceYet'
      BY <2>4, <2>6, RunEnds DEF Scene, Standing
    <3>2. Reported("RAISED")'
      BY <3>1 DEF Reported
    <3>3. QED  BY <2>6, <3>1, <3>2, TrueOutcome DEF Scene, Standing
  <2>7. QED  BY <1>2, <2>5, <2>6 DEF RunApproveInvoice
<1>3. CASE ~MayApprove(run.manifest.invoiceBy, Invoice)
  <2>1. PICK outcome \in {"RAISED", "DENIED"} : Ends(outcome) /\ Quiet
    BY <1>3 DEF RunApproveInvoice
  <2>2. Standing' /\ NoInvoiceYet'
    BY <1>1, <2>1, QuietStands, RunEnds DEF Scene, Standing
  <2>3. Reported(outcome)'
    BY <2>2 DEF Reported
  <2>4. QED  BY <2>1, <2>2, <2>3, TrueOutcome DEF Scene, Standing
<1>4. QED  BY <1>2, <1>3

\* The release begins.
LEMMA RunReleaseTrue ==
  ASSUME Scene, RunRelease
  PROVE  NextScene'
<1> DEFINE req == Request(InvoiceAuth, InvoiceExec, InvoiceKey, run.manifest.invoiceBy,
                          grant[InvoiceAuth].params)
<1>1. /\ run.at = "release" /\ ReceiptHolds /\ NoInvoiceYet /\ ~Tried(InvoiceExec)
      /\ grantStatus[InvoiceAuth] # "NONE" /\ grant[InvoiceAuth].tool = Invoice
  BY DEF Scene, Positions, LateInv, RunRelease, At
<1>2. RunShape' /\ run'.at = "releasing" /\ run'.manifest = run.manifest
  BY RunMoves DEF Scene, Standing, RunRelease
<1>3. /\ Standing' /\ pc'[Caller] = "getGrant"
      /\ call'[Caller].req = req /\ call'[Caller].at = now
      /\ UNCHANGED <<case, grant, grantStatus, attempt, receipt, ent, now>>
  BY <1>2, BeginFacts DEF Scene, RunRelease
<1>4. req.params = grant[InvoiceAuth].params
  BY DEF Request
<1>5. CallIs(Invoice)'
  BY <1>2, <1>3, <1>4, TheTools DEF CallIs, RequestWith, AuthOf, ExecOf, KeyOf, Signer
<1> HIDE DEF req
<1>6. /\ NoInvoiceYet' /\ ReceiptHolds'
  BY <1>1, <1>3, WorldStays
<1>7. Unspent(Invoice)'
  BY <1>1, <1>3, TheTools DEF Unspent, AuthOf, ExecOf, Tried
<1>8. Stage(Invoice)'
  BY <1>1, <1>3, <1>6, TheTools DEF Stage, AuthOf
<1>9. CallAt(Invoice)' /\ AnswerAt(Invoice)'
  BY <1>3, <1>6, <1>7 DEF CallAt, AnswerAt, AfterPosting, AfterReserving
<1>10. CallingInv'
  BY <1>2, <1>3, <1>5, <1>8, <1>9, TheTools DEF CallingInv, Running, PointOf
<1>11. QED  BY <1>2, <1>3, <1>10, Arrivals DEF NextScene

\* CLOSED is reported of a call that returned, and it closed the case.
LEMMA RunReleasedTrue ==
  ASSUME Scene, RunReleased
  PROVE  NextScene'
<1>1. Quiet /\ Ended(Invoice, run.reply)
  BY TheTools DEF RunReleased, At, Scene, Positions, CallingInv, PointOf
<1>2. CASE run.reply = "returned"
  <2>1. Ends("CLOSED") /\ InvoiceDone
    BY <1>1, <1>2, TheTools DEF RunReleased, Ended
  <2>2. Standing' /\ (ReceiptHolds' <=> ReceiptHolds)
    BY <1>1, <2>1, QuietStands, RunEnds DEF Scene, Standing
  <2>3. InvoiceDone'
    BY <1>1, <2>1, <2>2 DEF InvoiceDone, Quiet, vars, caseDb
  <2>4. Reported("CLOSED")'
    BY <2>3 DEF Reported
  <2>5. QED  BY <2>1, <2>2, <2>4, TrueOutcome DEF Scene, Standing
<1>3. CASE run.reply # "returned"
  <2>1. Ends("RAISED") /\ NoInvoiceYet
    BY <1>1, <1>3 DEF RunReleased, Ended
  <2>2. Standing' /\ NoInvoiceYet'
    BY <1>1, <2>1, QuietStands, RunEnds DEF Scene, Standing
  <2>3. Reported("RAISED")'
    BY <2>2 DEF Reported
  <2>4. QED  BY <2>1, <2>2, <2>3, TrueOutcome DEF Scene, Standing
<1>4. QED  BY <1>2, <1>3

-----------------------------------------------------------------------------
(* The script, and the theorem. *)

\* Every step of the script.
LEMMA ScriptTrue ==
  ASSUME Scene, Script
  PROVE  NextScene'
BY RunSeedTrue, RunDetectTrue, RunAssessTrue, RunRequestReceiptTrue, RunApproveReceiptTrue,
   RunChangeTrue, RunHookTrue, RunExecuteTrue, RunFaultTrue, RunStepTrue, RunExecutedTrue,
   RunReusedTrue, RunRequestInvoiceTrue, RunApproveInvoiceTrue, RunReleaseTrue, RunReleasedTrue
   DEF Script

\* The invariant of the script holds at the seed.
LEMMA GoldenStarts == GoldenInit => GoldenInv
<1> SUFFICES ASSUME GoldenInit, Scripted
             PROVE  Standing /\ Positions /\ OutcomeIsTrue
  BY DEF GoldenInv
<1>1. /\ run.manifest \in Manifests /\ run.at = "seed" /\ run.recovered = FALSE
      /\ DOMAIN run = {"manifest", "at", "recovered", "reply", "outcome"}
      /\ ent = GoldenFixture("lock")
  BY DEF GoldenInit, Scripted
<1>2. RunShape
  BY <1>1, ManifestAssumption DEF Scripted, RunShape
<1>3. DOMAIN NoCall = CallFields /\ DOMAIN NoAttempt = {"command", "status"}
      /\ NoAttempt.status = "NONE"
  BY DEF NoCall, CallFields, NoAttempt
<1>4. /\ case = [status |-> "OPEN", version |-> 0, evidenceRevision |-> 0, updatedAt |-> 0]
      /\ grant = [a \in Auths |-> NoGrant] /\ grantStatus = [a \in Auths |-> "NONE"]
      /\ attempt = [e \in Execs |-> NoAttempt] /\ receipt = [e \in Execs |-> NoReceipt]
      /\ now = 0 /\ pc = [w \in Workers |-> "idle"] /\ call = [w \in Workers |-> NoCall]
  BY DEF GoldenInit, Init
<1>5. CallShape /\ pc[Caller] = "idle"
  BY <1>3, <1>4, CallerIs DEF CallShape
<1>6. LedgerShape /\ Untouched
  BY <1>3, <1>4 DEF LedgerShape, Untouched, Tried
<1>7. DOMAIN ent = EntFields /\ OwnIn(ent)
  BY <1>1, FixtureFacts
<1>8. WorldShape /\ OwnAttempts
  BY <1>4, <1>6, <1>7 DEF WorldShape, OwnAttempts, Untouched
<1>9. EarlyInv
  BY <1>1, <1>5, <1>6 DEF EarlyInv
<1>10. Positions /\ OutcomeIsTrue
  BY <1>1, <1>9, TheTools DEF Positions, SignedInv, CallingInv, PointOf, ReusingInv, LateInv,
                              OutcomeIsTrue
<1>11. QED  BY <1>2, <1>5, <1>6, <1>7, <1>8, <1>10 DEF Standing

\* Every step keeps it, and the free recoveries are no script.
LEMMA GoldenStays == GoldenInv /\ [GoldenNext]_goldenVars => GoldenInv'
<1> SUFFICES ASSUME GoldenInv, [GoldenNext]_goldenVars, Scripted'
             PROVE  NextScene'
  BY DEF GoldenInv, NextScene
<1>1. CASE Script
  <2>1. Scripted
    BY <1>1 DEF Script, RunSeed, RunDetect, RunAssess, RunRequestReceipt, RunApproveReceipt,
                RunChange, RunHook, RunExecute, RunFault, RunStep, RunExecuted, RunReused,
                RunRequestInvoice, RunApproveInvoice, RunRelease, RunReleased, At
  <2>2. QED  BY <1>1, <2>1, ScriptTrue DEF GoldenInv, Scene
<1>2. CASE Free
  BY <1>2 DEF Free, Scripted
<1>3. CASE UNCHANGED goldenVars
  <2>1. UNCHANGED <<case, grant, grantStatus, attempt, receipt, ent, now, pc, call, run>>
    BY <1>3 DEF goldenVars, auditVars, vars, caseDb
  <2>2. Standing /\ Positions /\ OutcomeIsTrue
    BY <2>1 DEF GoldenInv, Scripted
  <2>3. Quiet /\ RunShape'
    BY <1>3, <2>1, <2>2 DEF Quiet, goldenVars, auditVars, Standing, RunShape
  <2>4. /\ Standing' /\ (NoInvoiceYet' <=> NoInvoiceYet) /\ (ReceiptHolds' <=> ReceiptHolds)
        /\ (Alone' <=> Alone) /\ (Untouched' <=> Untouched)
        /\ \A e : Tried(e)' <=> Tried(e)
    BY <2>2, <2>3, QuietStands
  <2>5. EarlyInv' /\ SignedInv' /\ LateInv'
    BY <2>1, <2>2, <2>4
       DEF Positions, EarlyInv, SignedInv, LateInv, Unspent, Held, SignedRequest, RequestWith,
           Signer
  <2>6. ReusingInv'
    BY <2>1, <2>2, <2>4 DEF Positions, ReusingInv, ReceiptDone, Looking
  <2>7. CallingInv'
    BY <2>1, <2>2 DEF Positions, CallingInv, Stage, Ended, Running, CallIs, CallAt, AnswerAt,
       ReceiptDone, ReceiptFailed, InvoiceDone, Effected, VerifiedNow, ReleasedIn, ReceiptHolds,
       HoldsIn, NoInvoiceYet, NoInvoiceIn, Alone, Tried, Unspent, Held, SignedRequest,
       RequestWith, Signer, SourceEffects
  <2>8. OutcomeIsTrue'
    BY <2>1, <2>2 DEF OutcomeIsTrue, Scripted, SourceEffects, FalseEffects, LocalOf
  <2>9. QED  BY <2>4, <2>5, <2>6, <2>7, <2>8 DEF Positions, NextScene
<1>4. QED  BY <1>1, <1>2, <1>3 DEF GoldenNext

\* Whatever manifest the golden runner is given, what its report concludes is
\* what the two ledgers hold (golden_runner.run_case): a CLOSED run settled
\* receipt, invoice and case exactly once, a hard stop or a denial released
\* nothing, and no effect stands under an identity the run did not ask for.
THEOREM OutcomeReported == GoldenSpec => []OutcomeIsTrue
<1>1. GoldenInv => OutcomeIsTrue
  BY DEF GoldenInv, OutcomeIsTrue
<1>2. QED  BY <1>1, GoldenStarts, GoldenStays, PTL DEF GoldenSpec

-----------------------------------------------------------------------------
(***************************************************************************)
(* The log and its replay.  replay_case folds the log of any length; every *)
(* transaction appends one event, so that the replay grows by one.         *)
(***************************************************************************)

\* One replayed event, with the evidence table as a parameter: rows are only
\* added to it, and what was admissible stays so.
ReplayEventOver(E, state, entry) ==
  IF /\ state.valid
     /\ entry.prior = [status |-> state.case.status, version |-> state.case.version]
     /\ CASE entry.event \in DecisionEvents -> entry.payload.admitted = state.admitted
          [] entry.event = "EVIDENCE_ADMITTED" -> entry.payload.item \in E \ state.admitted
          [] OTHER -> TRUE
     /\ \E s \in CaseStatus : <<state.case.status, entry.event, s>> \in TRANSITIONS
  THEN [case     |-> Advanced(state.case, entry.event, entry.at),
        admitted |-> IF entry.event = "EVIDENCE_ADMITTED"
                     THEN state.admitted \union {entry.payload.item} ELSE state.admitted,
        valid    |-> TRUE]
  ELSE [state EXCEPT !.valid = FALSE]

\* The states a replay goes through, and that there is one replay and it ends
\* in r.
Trail(g, l, E) ==
  g = [n \in 0..Len(l) |-> IF n = 0 THEN Genesis ELSE ReplayEventOver(E, g[n - 1], l[n])]
ReplaysTo(l, E, r) ==
  /\ \E g : Trail(g, l, E)
  /\ \A g : Trail(g, l, E) => g[Len(l)] = r

\* The projection as the replay holds it.
Projection ==
  [case |-> case, admitted |-> IF case.status = "OPEN" THEN DetectorEvidence ELSE evidence,
   valid |-> TRUE]
LogInv ==
  /\ case.status \in CaseStatus /\ case.version \in Nat
  /\ \E S : log \in Seq(S)
  /\ case.status = "OPEN" => evidence = {} /\ log = <<>>
  /\ case.status # "OPEN" => DetectorEvidence \subseteq evidence
  /\ \A j \in evidence \ DetectorEvidence : \E n \in Admissions : log[n].payload.item = j
ReplayInv ==
  LogInv /\ (AdmittedTwice \/ \A E : evidence \subseteq E => ReplaysTo(log, E, Projection))

\* A transaction on the case: one event of the table, logged, and the evidence
\* it brings; or nothing of it moves.
EvidenceMove(e) ==
  IF e = "INVESTIGATION_STARTED" THEN evidence' = evidence \union DetectorEvidence
  ELSE IF e = "EVIDENCE_ADMITTED"
       THEN \E item \in LateEvidence : evidence' = evidence \union {item}
       ELSE evidence' = evidence
Advances(e) ==
  /\ \E s \in CaseStatus : <<case.status, e, s>> \in TRANSITIONS
  /\ \E at : case' = Advanced(case, e, at)
  /\ EvidenceMove(e)
CaseRests == UNCHANGED <<case, evidence>>

\* The empty log replays to genesis.
LEMMA EmptyReplays ==
  ASSUME NEW E
  PROVE  ReplaysTo(<<>>, E, Genesis)
<1> DEFINE g == [n \in 0..0 |-> Genesis]
<1>1. Len(<<>>) = 0 /\ 0 \in 0..0 /\ \A n \in 0..0 : n = 0
  OBVIOUS
<1>2. Trail(g, <<>>, E)
  BY <1>1 DEF Trail
<1>3. ASSUME NEW h, Trail(h, <<>>, E)
      PROVE  h[0] = Genesis
  BY <1>1, <1>3 DEF Trail
<1>4. QED  BY <1>1, <1>2, <1>3 DEF ReplaysTo

\* An appended event continues the replay.
LEMMA AppendReplays ==
  ASSUME NEW S, NEW l \in Seq(S), NEW x, NEW E, NEW r, ReplaysTo(l, E, r)
  PROVE  ReplaysTo(Append(l, x), E, ReplayEventOver(E, r, x))
<1> DEFINE k == Len(l)
           long == Append(l, x)
<1>1. /\ k \in Nat /\ Len(long) = k + 1 /\ long[k + 1] = x
      /\ \A n \in 1..k : long[n] = l[n]
  BY LenProperties, AppendProperties
<1>2. \E g : Trail(g, long, E)
  <2>1. PICK g : Trail(g, l, E)
    BY DEF ReplaysTo
  <2> DEFINE h == [n \in 0..(k + 1) |-> IF n <= k THEN g[n] ELSE ReplayEventOver(E, r, x)]
  <2>2. g[k] = r
    BY <2>1 DEF ReplaysTo
  <2>3. ASSUME NEW n \in 0..(k + 1)
        PROVE  h[n] = IF n = 0 THEN Genesis ELSE ReplayEventOver(E, h[n - 1], long[n])
    <3>1. CASE n = 0
      BY <1>1, <2>1, <3>1 DEF Trail
    <3>2. CASE n \in 1..k
      <4>1. g[n] = ReplayEventOver(E, g[n - 1], l[n])
        BY <1>1, <2>1, <3>2 DEF Trail
      <4>2. h[n] = g[n] /\ h[n - 1] = g[n - 1] /\ long[n] = l[n]
        BY <1>1, <3>2
      <4>3. QED  BY <3>2, <4>1, <4>2
    <3>3. CASE n = k + 1
      <4>1. h[n] = ReplayEventOver(E, r, x) /\ h[n - 1] = g[k] /\ long[n] = x /\ n # 0
        BY <1>1, <3>3
      <4>2. QED  BY <2>2, <4>1
    <3>4. QED  BY <1>1, <3>1, <3>2, <3>3
  <2>4. h = [n \in 0..(k + 1) |->
               IF n = 0 THEN Genesis ELSE ReplayEventOver(E, h[n - 1], long[n])]
    BY <2>3
  <2>5. Trail(h, long, E)
    BY <1>1, <2>4 DEF Trail
  <2>6. QED  BY <2>5
<1>3. ASSUME NEW h, Trail(h, long, E)
      PROVE  h[Len(long)] = ReplayEventOver(E, r, x)
  <2> DEFINE g == [n \in 0..k |-> h[n]]
  <2>1. \A n \in 0..(k + 1) :
          h[n] = IF n = 0 THEN Genesis ELSE ReplayEventOver(E, h[n - 1], long[n])
    BY <1>1, <1>3 DEF Trail
  <2>2. ASSUME NEW n \in 0..k
        PROVE  g[n] = IF n = 0 THEN Genesis ELSE ReplayEventOver(E, g[n - 1], l[n])
    <3>1. h[n] = IF n = 0 THEN Genesis ELSE ReplayEventOver(E, h[n - 1], long[n])
      BY <1>1, <2>1
    <3>2. n # 0 => g[n - 1] = h[n - 1] /\ long[n] = l[n]
      BY <1>1
    <3>3. QED  BY <3>1, <3>2
  <2>3. Trail(g, l, E)
    BY <1>1, <2>2 DEF Trail
  <2>4. g[k] = r /\ g[k] = h[k]
    BY <1>1, <2>3 DEF ReplaysTo
  <2>5. h[k + 1] = ReplayEventOver(E, h[k], x)
    BY <1>1, <2>1
  <2>6. QED  BY <1>1, <2>4, <2>5
<1>4. QED  BY <1>2, <1>3 DEF ReplaysTo

\* The table has at most one event between two statuses, and none leads back
\* to OPEN.
LEMMA EventBetweenIs ==
  ASSUME NEW s, NEW e, NEW t, <<s, e, t>> \in TRANSITIONS
  PROVE  EventBetween(s, t) = e /\ t # "OPEN" /\ t \in CaseStatus
<1>1. ASSUME NEW d, <<s, d, t>> \in TRANSITIONS
      PROVE  d = e
  BY <1>1 DEF TRANSITIONS
<1>2. e \in TransitionEvent
  BY DEF TransitionEvent
<1>3. EventBetween(s, t) = e
  BY <1>1, <1>2 DEF EventBetween
<1>4. t # "OPEN" /\ t \in CaseStatus
  BY DEF TRANSITIONS, CaseStatus
<1>5. QED  BY <1>3, <1>4

\* What the transaction of event e appends.
Entry(e, p) ==
  [prior |-> [status |-> case.status, version |-> case.version], event |-> e,
   payload |-> p, at |-> case'.updatedAt]

\* A transaction on the case advances it by its event and logs that event.
LEMMA MoveFacts ==
  ASSUME LogInv, NEW e, Advances(e), Logged
  PROVE  /\ \E p \in Payloads(e) : log' = Append(log, Entry(e, p))
         /\ case' = Advanced(case, e, case'.updatedAt)
         /\ <<case.status, e, case'.status>> \in TRANSITIONS
         /\ case'.status \in CaseStatus /\ case'.status # "OPEN"
         /\ case'.version = case.version + 1
<1>1. PICK at : case' = Advanced(case, e, at)
  BY DEF Advances
<1>2. PICK s \in CaseStatus : <<case.status, e, s>> \in TRANSITIONS
  BY DEF Advances
<1>3. NextStatus(case.status, e) = s
  BY <1>2, NextStatusIs
<1>4. case'.status = s /\ case'.version = case.version + 1 /\ case'.updatedAt = at
  BY <1>1, <1>3 DEF Advanced
<1>5. case' # case
  BY <1>4 DEF LogInv
<1>6. EventBetween(case.status, case'.status) = e
  BY <1>2, <1>4, EventBetweenIs
<1>7. \E p \in Payloads(e) : log' = Append(log, Entry(e, p))
  BY <1>5, <1>6 DEF Logged, Append1, Entry
<1>8. QED  BY <1>1, <1>2, <1>4, <1>7, EventBetweenIs

\* Entries stay where they are.
LEMMA Appends ==
  ASSUME NEW S, log \in Seq(S), NEW x, log' = Append(log, x)
  PROVE  /\ \E T : log' \in Seq(T)
         /\ Len(log) \in Nat /\ Len(log) + 1 \in DOMAIN log' /\ log'[Len(log) + 1] = x
         /\ \A n \in DOMAIN log : n \in DOMAIN log' /\ log'[n] = log[n] /\ n # Len(log) + 1
         /\ \A n \in DOMAIN log' : n \in DOMAIN log \/ n = Len(log) + 1
<1> DEFINE T == S \union {x}
<1>1. log \in Seq(T) /\ x \in T
  OBVIOUS
<1>2. log' \in Seq(T) /\ Len(log') = Len(log) + 1 /\ log'[Len(log) + 1] = x
      /\ \A n \in 1..Len(log) : log'[n] = log[n]
  BY <1>1, AppendProperties
<1>3. Len(log) \in Nat /\ DOMAIN log = 1..Len(log) /\ DOMAIN log' = 1..(Len(log) + 1)
  BY <1>1, <1>2, LenProperties
<1>4. QED  BY <1>2, <1>3

\* What was admitted twice stays so.
LEMMA AdmittedTwiceStays ==
  ASSUME NEW S, log \in Seq(S), NEW x, log' = Append(log, x)
  PROVE  /\ Admissions \subseteq Admissions'
         /\ \A n \in Admissions : log'[n] = log[n]
         /\ AdmittedTwice => AdmittedTwice'
<1>1. Admissions \subseteq Admissions' /\ \A n \in Admissions : log'[n] = log[n]
  BY Appends DEF Admissions
<1>2. QED  BY <1>1 DEF AdmittedTwice

\* An event that admits an item already there admits it twice.
LEMMA AdmittedAgain ==
  ASSUME LogInv, NEW p, log' = Append(log, Entry("EVIDENCE_ADMITTED", p)),
         p.item \in evidence
  PROVE  AdmittedTwice'
<1> DEFINE k == Len(log) + 1
<1>1. PICK S : log \in Seq(S)
  BY DEF LogInv
<1>2. k \in DOMAIN log' /\ log'[k] = Entry("EVIDENCE_ADMITTED", p)
      /\ \A n \in DOMAIN log : n # k
  BY <1>1, Appends
<1>3. k \in Admissions' /\ log'[k].payload.item = p.item
  BY <1>2 DEF Admissions, Entry
<1>4. CASE p.item \in DetectorEvidence
  BY <1>3, <1>4 DEF AdmittedTwice
<1>5. CASE p.item \notin DetectorEvidence
  <2>1. PICK n \in Admissions : log[n].payload.item = p.item
    BY <1>5 DEF LogInv
  <2>2. n \in Admissions' /\ log'[n].payload.item = p.item /\ n # k
    BY <1>1, <1>2, <2>1, AdmittedTwiceStays DEF Admissions
  <2>3. QED  BY <1>3, <2>2 DEF AdmittedTwice
<1>6. QED  BY <1>4, <1>5

\* The log and the evidence table move together.
LEMMA LogInvMoves ==
  ASSUME LogInv, NEW e, Advances(e), Logged
  PROVE  LogInv'
<1>1. PICK p \in Payloads(e) : log' = Append(log, Entry(e, p))
  BY MoveFacts
<1>2. PICK S : log \in Seq(S)
  BY DEF LogInv
<1>3. /\ case'.status \in CaseStatus /\ case'.version \in Nat /\ case'.status # "OPEN"
      /\ <<case.status, e, case'.status>> \in TRANSITIONS
  BY MoveFacts DEF LogInv
<1>4. \E T : log' \in Seq(T)
  BY <1>1, <1>2, Appends
<1>5. DetectorEvidence \subseteq evidence'
  <2>1. case.status = "OPEN" => e = "INVESTIGATION_STARTED"
    BY <1>3 DEF TRANSITIONS
  <2>2. evidence \subseteq evidence'
    BY DEF Advances, EvidenceMove
  <2>3. QED  BY <2>1, <2>2 DEF LogInv, Advances, EvidenceMove
<1>6. ASSUME NEW j \in evidence' \ DetectorEvidence
      PROVE  \E n \in Admissions' : log'[n].payload.item = j
  <2>1. CASE j \in evidence
    <3>1. PICK n \in Admissions : log[n].payload.item = j
      BY <1>6, <2>1 DEF LogInv
    <3>2. QED  BY <1>1, <1>2, <3>1, AdmittedTwiceStays
  <2>2. CASE j \notin evidence
    <3>1. e = "EVIDENCE_ADMITTED" /\ evidence' = evidence \union {j}
      BY <1>6, <2>2 DEF Advances, EvidenceMove
    <3>2. PICK i \in LateEvidence : evidence' = evidence \union {i} /\ p = [item |-> i]
      BY <1>1, <3>1 DEF Payloads, DecisionEvents
    <3>3. p.item = j
      BY <2>2, <3>1, <3>2
    <3>4. Len(log) + 1 \in DOMAIN log' /\ log'[Len(log) + 1] = Entry(e, p)
      BY <1>1, <1>2, Appends
    <3>5. Len(log) + 1 \in Admissions' /\ log'[Len(log) + 1].payload = p
      BY <3>1, <3>4 DEF Admissions, Entry
    <3>6. QED  BY <3>3, <3>5
  <2>3. QED  BY <2>1, <2>2
<1>7. QED  BY <1>3, <1>4, <1>5, <1>6 DEF LogInv

\* The replay takes the appended event to the new projection.
LEMMA ReplayMoves ==
  ASSUME ReplayInv, NEW e, Advances(e), Logged
  PROVE  ReplayInv'
<1>1. PICK p \in Payloads(e) : log' = Append(log, Entry(e, p))
  BY MoveFacts DEF ReplayInv
<1>2. PICK S : log \in Seq(S)
  BY DEF ReplayInv, LogInv
<1>3. LogInv'
  BY LogInvMoves DEF ReplayInv
<1>4. CASE AdmittedTwice'
  BY <1>3, <1>4 DEF ReplayInv
<1>5. CASE ~AdmittedTwice'
  <2>1. ~AdmittedTwice /\ evidence \subseteq evidence'
    BY <1>1, <1>2, <1>5, AdmittedTwiceStays DEF Advances, EvidenceMove
  <2>2. ASSUME NEW E, evidence' \subseteq E
        PROVE  ReplaysTo(log', E, Projection')
    <3>1. ReplaysTo(log, E, Projection)
      BY <2>1, <2>2 DEF ReplayInv
    <3>2. ReplaysTo(log', E, ReplayEventOver(E, Projection, Entry(e, p)))
      BY <1>1, <1>2, <3>1, AppendReplays
    <3> DEFINE r == Projection
               x == Entry(e, p)
    <3>3. /\ r.valid /\ r.case = case /\ x.event = e /\ x.payload = p
          /\ x.at = case'.updatedAt
          /\ x.prior = [status |-> r.case.status, version |-> r.case.version]
      BY DEF Projection, Entry
    <3>4. /\ \E s \in CaseStatus : <<r.case.status, e, s>> \in TRANSITIONS
          /\ case' = Advanced(r.case, e, x.at) /\ case'.status # "OPEN"
          /\ <<case.status, e, case'.status>> \in TRANSITIONS
      BY <3>3, MoveFacts DEF Advances, ReplayInv
    <3>5. CASE e \in DecisionEvents
      <4>1. e # "INVESTIGATION_STARTED" /\ e # "EVIDENCE_ADMITTED" /\ case.status # "OPEN"
        BY <3>4, <3>5 DEF DecisionEvents, TRANSITIONS
      <4>2. p.admitted = r.admitted /\ r.admitted = evidence' /\ r.admitted = evidence
        BY <1>1, <3>5, <4>1 DEF Payloads, Projection, Advances, EvidenceMove
      <4>3. ReplayEventOver(E, r, x) = [case |-> case', admitted |-> evidence', valid |-> TRUE]
        BY <3>3, <3>4, <3>5, <4>1, <4>2 DEF ReplayEventOver
      <4>4. QED  BY <3>2, <3>4, <4>3 DEF Projection
    <3>6. CASE e = "EVIDENCE_ADMITTED"
      <4>1. PICK i \in LateEvidence : evidence' = evidence \union {i} /\ p = [item |-> i]
        BY <1>1, <3>6 DEF Payloads, DecisionEvents
      <4>2. p.item \notin evidence
        BY <1>1, <1>5, <3>6, AdmittedAgain DEF ReplayInv
      <4>3. r.admitted = evidence
        BY <3>4, <3>6 DEF Projection, TRANSITIONS
      <4>4. p.item \in E \ r.admitted /\ r.admitted \union {p.item} = evidence'
        BY <2>2, <4>1, <4>2, <4>3
      <4>5. ReplayEventOver(E, r, x) = [case |-> case', admitted |-> evidence', valid |-> TRUE]
        BY <3>3, <3>4, <3>6, <4>4 DEF ReplayEventOver, DecisionEvents
      <4>6. QED  BY <3>2, <3>4, <4>5 DEF Projection
    <3>7. CASE e \notin DecisionEvents /\ e # "EVIDENCE_ADMITTED"
      <4>1. r.admitted = evidence'
        <5>1. CASE case.status = "OPEN"
          BY <3>4, <5>1 DEF TRANSITIONS, Projection, Advances, EvidenceMove, ReplayInv, LogInv
        <5>2. CASE case.status # "OPEN"
          BY <3>7, <5>2 DEF Projection, Advances, EvidenceMove, ReplayInv, LogInv
        <5>3. QED  BY <5>1, <5>2
      <4>2. ReplayEventOver(E, r, x) = [case |-> case', admitted |-> evidence', valid |-> TRUE]
        BY <3>3, <3>4, <3>7, <4>1 DEF ReplayEventOver
      <4>3. QED  BY <3>2, <3>4, <4>2 DEF Projection
    <3>8. QED  BY <3>5, <3>6, <3>7
  <2>3. QED  BY <1>3, <2>2 DEF ReplayInv
<1>6. QED  BY <1>4, <1>5

\* Where neither the case nor its log moves, nothing of this does.
LEMMA ReplayRests ==
  ASSUME ReplayInv, CaseRests, UNCHANGED log
  PROVE  ReplayInv'
<1>1. Admissions' = Admissions /\ Projection' = Projection /\ (AdmittedTwice' <=> AdmittedTwice)
  BY DEF CaseRests, Admissions, Projection, AdmittedTwice
<1>2. LogInv'
  BY <1>1 DEF LogInv, ReplayInv, CaseRests
<1>3. QED  BY <1>1, <1>2 DEF ReplayInv, CaseRests

\* What a step means to the log.
LogStep == \/ CaseRests /\ UNCHANGED log
           \/ Logged /\ \E e : Advances(e)

\* A step that leaves the case logs nothing.
LEMMA RestLogs ==
  ASSUME CaseRests, Logged
  PROVE  LogStep
BY DEF CaseRests, Logged, LogStep

\* A lifecycle command that brings no evidence.
LEMMA CommandMoves ==
  ASSUME NEW e, e \notin {"INVESTIGATION_STARTED", "EVIDENCE_ADMITTED"},
         Lifecycle(e), UNCHANGED evidence, Logged
  PROVE  LogStep
BY DEF Lifecycle, CanAdvance, LogStep, Advances, EvidenceMove

LEMMA DetectMoves ==
  ASSUME Detect, Logged
  PROVE  LogStep
BY DEF Detect, Lifecycle, CanAdvance, LogStep, Advances, EvidenceMove

LEMMA AdmitMoves ==
  ASSUME NEW item \in LateEvidence, AdmitEvidence(item), Logged
  PROVE  LogStep
BY DEF AdmitEvidence, Lifecycle, CanAdvance, LogStep, Advances, EvidenceMove

LEMMA ApproveMoves ==
  ASSUME NEW a, NEW principal, NEW params, Approve(a, principal, params), Logged
  PROVE  LogStep
<1>1. AcceptedEvent(params.tool) \notin {"INVESTIGATION_STARTED", "EVIDENCE_ADMITTED"}
  BY DEF AcceptedEvent
<1>2. QED  BY <1>1, CommandMoves DEF Approve

LEMMA RequestMoves ==
  ASSUME NEW tool, RequestApproval(tool), Logged
  PROVE  LogStep
BY CommandMoves DEF RequestApproval

\* A call moves the case when it reserves and when it completes verified.
LEMMA CallMoves ==
  ASSUME NEW w, Step(w), Logged
  PROVE  LogStep
<1>1. CASE ReserveNew(w)
  <2> DEFINE e == StartedEvent(grant[call[w].req.auth].tool)
  <2>1. e \notin {"INVESTIGATION_STARTED", "EVIDENCE_ADMITTED"}
    BY DEF StartedEvent
  <2>2. /\ \E s \in CaseStatus : <<case.status, e, s>> \in TRANSITIONS
        /\ case' = Advanced(case, e, call[w].at) /\ evidence' = evidence
    BY <1>1 DEF ReserveNew, CanReserve, CanAdvance
  <2>3. Advances(e)
    BY <2>1, <2>2 DEF Advances, EvidenceMove
  <2>4. QED  BY <2>3 DEF LogStep
<1>2. CASE CompleteVerified(w)
  <2> DEFINE e == VerifiedEvent(grant[call[w].req.auth].tool)
  <2>1. e \notin {"INVESTIGATION_STARTED", "EVIDENCE_ADMITTED"}
    BY DEF VerifiedEvent
  <2>2. CASE CaseRests
    BY <2>2, RestLogs
  <2>3. CASE ~CaseRests
    <3>1. /\ \E s \in CaseStatus : <<case.status, e, s>> \in TRANSITIONS
          /\ case' = Advanced(case, e, call[w].at) /\ evidence' = evidence
      BY <1>2, <2>3 DEF CompleteVerified, CanClose, CanAdvance, CaseRests
    <3>2. Advances(e)
      BY <2>1, <3>1 DEF Advances, EvidenceMove
    <3>3. QED  BY <3>2 DEF LogStep
  <2>4. QED  BY <2>2, <2>3
<1>3. CASE ~ReserveNew(w) /\ ~CompleteVerified(w)
  <2>1. CaseRests
    BY <1>3 DEF Step, CaseRests, caseDb, GetGrant, GetAttempt, Evaluate, SaveDenial, GetCase,
                ReserveAgain, ReserveRefused, Recover, LookupEffect, MutateKnownKey,
                MutateExternallyDone, MutatePost, MutateRefused, ReadState, DenyPrecondition,
                FailAttempt, Verify, GetCaseAgain, CompleteUnverified
  <2>2. QED  BY <2>1, RestLogs
<1>4. QED  BY <1>1, <1>2, <1>3

\* Every step of a free recovery.
LEMMA FreeLogs ==
  ASSUME Free
  PROVE  LogStep
<1>1. Next /\ Logged
  BY DEF Free
<1>2. CASE CaseCommand
  <2>1. ASSUME NEW event \in DecisionEvents, RecordInvestigationOutcome(event)
        PROVE  LogStep
    BY <1>1, <2>1, CommandMoves DEF RecordInvestigationOutcome, DecisionEvents
  <2>2. QED
    BY <1>1, <1>2, <2>1, DetectMoves, RequestMoves, AdmitMoves, ApproveMoves DEF CaseCommand
<1>3. CASE Environment
  <2>1. CaseRests
    BY <1>3 DEF Environment, CaseRests, caseDb, ExternalCommit, ExternalRetag,
                AdvanceFailedMessageRevision, SetErpReceiptQuantity, SetInvoiceHold, Tick
  <2>2. QED  BY <1>1, <2>1, RestLogs
<1>4. ASSUME NEW w \in Workers,
             (\E req \in Requests : Begin(w, req)) \/ Step(w) \/ Crash(w)
      PROVE  LogStep
  <2>1. CASE Step(w)
    BY <1>1, <2>1, CallMoves
  <2>2. CASE ~Step(w)
    <3>1. CaseRests
      BY <1>4, <2>2 DEF Begin, Crash, CaseRests, caseDb
    <3>2. QED  BY <1>1, <3>1, RestLogs
  <2>3. QED  BY <2>1, <2>2
<1>5. QED  BY <1>1, <1>2, <1>3, <1>4 DEF Next

\* Every step of a script.
LEMMA ScriptLogs ==
  ASSUME Script
  PROVE  LogStep
<1>1. CASE RunSeed \/ RunExecute \/ RunFault \/ RunExecuted \/ RunReused \/ RunRelease
           \/ RunReleased
  BY <1>1 DEF RunSeed, RunExecute, RunFault, RunExecuted, RunReused, RunRelease, RunReleased,
              Quiet, vars, caseDb, CaseRests, LogStep, Begin, Crash, SetErpReceiptQuantity
<1>2. CASE RunDetect
  BY <1>2, DetectMoves DEF RunDetect
<1>3. CASE RunAssess
  <2> DEFINE event == AssessmentEvent(run.manifest)
  <2>1. CASE Quiet
    BY <2>1 DEF Quiet, vars, caseDb, CaseRests, LogStep
  <2>2. CASE ~Quiet
    <3>1. RecordInvestigationOutcome(event) /\ Logged
      BY <1>3, <2>2 DEF RunAssess
    <3>2. event \notin {"INVESTIGATION_STARTED", "EVIDENCE_ADMITTED"}
      BY DEF AssessmentEvent
    <3>3. QED  BY <3>1, <3>2, CommandMoves DEF RecordInvestigationOutcome
  <2>3. QED  BY <2>1, <2>2
<1>4. CASE RunRequestReceipt \/ RunRequestInvoice
  BY <1>4, RequestMoves DEF RunRequestReceipt, RunRequestInvoice
<1>5. CASE RunApproveReceipt \/ RunApproveInvoice
  <2>1. CASE Quiet
    BY <2>1 DEF Quiet, vars, caseDb, CaseRests, LogStep
  <2>2. CASE ~Quiet
    BY <1>5, <2>2, ApproveMoves DEF RunApproveReceipt, RunApproveInvoice
  <2>3. QED  BY <2>1, <2>2
<1>6. CASE RunChange
  <2>1. CASE \E item \in LateEvidence : AdmitEvidence(item) /\ Logged
    BY <2>1, AdmitMoves
  <2>2. CASE ~\E item \in LateEvidence : AdmitEvidence(item) /\ Logged
    BY <1>6, <2>2 DEF RunChange, AdvanceFailedMessageRevision, Quiet, vars, caseDb,
                      CaseRests, LogStep
  <2>3. QED  BY <2>1, <2>2
<1>7. CASE RunHook
  <2>1. CaseRests /\ UNCHANGED log
    BY <1>7 DEF RunHook, ExternalRetag, ExternalCommit, Quiet, vars, caseDb, CaseRests
  <2>2. QED  BY <2>1 DEF LogStep
<1>8. CASE RunStep
  BY <1>8, CallMoves DEF RunStep
<1>9. QED
  BY <1>1, <1>2, <1>3, <1>4, <1>5, <1>6, <1>7, <1>8 DEF Script

\* The replay follows every step.
LEMMA ReplayStays == ReplayInv /\ [GoldenNext]_goldenVars => ReplayInv'
<1> SUFFICES ASSUME ReplayInv, [GoldenNext]_goldenVars PROVE ReplayInv'
  OBVIOUS
<1>1. CASE LogStep
  BY <1>1, ReplayRests, ReplayMoves DEF LogStep
<1>2. CASE UNCHANGED goldenVars
  BY <1>2, ReplayRests DEF goldenVars, auditVars, vars, caseDb, CaseRests
<1>3. QED  BY <1>1, <1>2, ScriptLogs, FreeLogs DEF GoldenNext

LEMMA ReplayStarts == GoldenInit => ReplayInv
<1> SUFFICES ASSUME GoldenInit PROVE ReplayInv
  OBVIOUS
<1>1. /\ case = [status |-> "OPEN", version |-> 0, evidenceRevision |-> 0, updatedAt |-> 0]
      /\ evidence = {} /\ log = <<>>
  BY DEF GoldenInit, Init
<1>2. Projection = Genesis
  BY <1>1 DEF Projection, Genesis
<1>3. LogInv
  <2>1. log \in Seq({})
    BY <1>1
  <2>2. QED  BY <1>1, <2>1 DEF LogInv, CaseStatus
<1>4. QED  BY <1>1, <1>2, <1>3, EmptyReplays DEF ReplayInv

\* What the invariant says of replay_case itself.
LEMMA ReplayIsProjection == ReplayInv => ReplayAgrees
<1> SUFFICES ASSUME ReplayInv, ~AdmittedTwice PROVE Replayed.valid /\ Replayed.case = case
  BY DEF ReplayAgrees
<1>1. ReplaysTo(log, evidence, Projection)
  BY DEF ReplayInv
<1>2. \A s, e : ReplayEvent(s, e) = ReplayEventOver(evidence, s, e)
  BY DEF ReplayEvent, ReplayEventOver, PayloadReplays
<1> DEFINE G == CHOOSE g : Trail(g, log, evidence)
<1>3. Trail(G, log, evidence)
  BY <1>1 DEF ReplaysTo
<1>4. Replayed = G[Len(log)]
  BY <1>2 DEF Replayed, Trail
<1>5. Replayed = Projection
  BY <1>1, <1>3, <1>4 DEF ReplaysTo
<1>6. QED  BY <1>5 DEF Projection

\* The event log is the truth and the projection a cache of it: replaying
\* genesis and a log of any length (replay_case) gives the case back, whoever
\* appended to it and in whatever order, save when the same evidence was
\* admitted twice.
THEOREM LogReplays == GoldenSpec => []ReplayAgrees
BY ReplayStarts, ReplayStays, ReplayIsProjection, PTL DEF GoldenSpec

-----------------------------------------------------------------------------
(***************************************************************************)
(* The ledgers as the audit reads them.                                    *)
(***************************************************************************)

ReqFields == {"auth", "exec", "key", "principal", "params"}
MessageFields == {"revision", "status", "retryable", "consumedBy"}

\* The shape of the state.
AuditShape ==
  /\ pc = [w \in Workers |-> pc[w]] /\ call = [w \in Workers |-> call[w]]
  /\ \A w \in Workers : DOMAIN call[w] = CallFields
  /\ LedgerShape

\* A grant is of the role its tool asks for, and carries that tool.
GrantsRight ==
  \A a \in Auths : grantStatus[a] # "NONE" =>
    /\ grant[a].tool \in Tools /\ grant[a].params.tool = grant[a].tool
    /\ RoleOf[grant[a].principal] = RequiredRole(grant[a].tool)

\* A request that carries what was signed.
Binds(req) == grantStatus[req.auth] # "NONE" /\ req.params = grant[req.auth].params

\* An attempt carries what was signed, was allowed, and ended with a receipt.
AttemptRight(e) ==
  IF AttemptExists(e)
  THEN /\ attempt[e].command.auth \in Auths /\ attempt[e].command.exec = e
       /\ Binds(attempt[e].command)
       /\ <<"execution", e>> \in decisions
       /\ \/ attempt[e].status = "RESERVED"
          \/ receipt[e].result \in {"EXECUTED", "SAFE_NOOP", "FAILED"}
  ELSE attempt[e].command = NoCommand

\* What a no-op stands on: the effect of the execution itself, or one done
\* outside.
NoopBacked(e) ==
  \E f \in ent.effects :
    f.tool = ToolOf(e) /\ (f.exec = e \/ f.type = ExternalType(f.tool))
ReceiptRight(e) ==
  receipt[e].result = "SAFE_NOOP" =>
    AttemptExists(e) /\ attempt[e].status # "RESERVED" /\ NoopBacked(e)

\* What a call with locals c knows at control point p.
AfterReservation ==
  {"lookup", "mutate", "readState", "denyPrecondition", "failAttempt"} \union AfterPosting
Knows(p, c) ==
  /\ p # "idle" => c.req.auth \in Auths /\ c.req.exec \in Execs /\ DOMAIN c.req = ReqFields
  /\ p \notin {"idle", "getGrant"} => grantStatus[c.req.auth] # "NONE"
  /\ p = "recover" => AttemptExists(c.req.exec)
  /\ p \in {"getCase", "reserve"} => Binds(c.req)
  /\ p \in AfterReservation =>
       AttemptExists(c.req.exec) /\ attempt[c.req.exec].command = c.req
  /\ p \in AfterPosting =>
       /\ c.outcome \in {"EXECUTED", "SAFE_NOOP"}
       /\ c.outcome = "SAFE_NOOP" => NoopBacked(c.req.exec)
CallRight(w) == Knows(pc[w], call[w])

\* An effect is of an attempt of its key and tool, or was done outside.
LocalRight(f) ==
  /\ f.exec \in Execs /\ f.type = LocalType(f.tool)
  /\ AttemptExists(f.exec) /\ attempt[f.exec].command.key = f.key
  /\ ToolOf(f.exec) = f.tool
OutsideRight(f) ==
  /\ f.exec \in ExternalIds /\ f.key \in ExternalIds
  /\ f.type \in {LocalType(f.tool), ExternalType(f.tool)}
EffectRight(f) ==
  DOMAIN f = EffectFields /\ f.tool \in Tools /\ (LocalRight(f) \/ OutsideRight(f))

\* The one document and the consumption are of the one receipt effect; the
\* release is of the one invoice effect.
DocumentOf(f) == [exec |-> f.exec, key |-> f.key, quantity |-> MissingQuantity]
ReceiptWorld(e) ==
  \/ SourceEffects(e, Receipt) = {} /\ e.docs = {}
  \/ \E f \in e.effects :
       /\ SourceEffects(e, Receipt) = {f} /\ e.docs = {DocumentOf(f)}
       /\ e.message.status = "CONSUMED" /\ e.message.consumedBy = f.exec
InvoiceWorld(e) ==
  \/ SourceEffects(e, Invoice) = {}
  \/ \E f \in e.effects :
       /\ SourceEffects(e, Invoice) = {f} /\ e.invoice.hold # "RECEIPT_MISMATCH"
       /\ e.invoice.state = "RELEASED" => e.invoice.releasedBy = f.exec
WorldRight(e) ==
  /\ DOMAIN e = EntFields /\ DOMAIN e.message = MessageFields
  /\ e.invoice.state \in {"HELD", "RELEASED"}
  /\ ReceiptWorld(e) /\ InvoiceWorld(e)

AuditInv ==
  /\ AuditShape /\ GrantsRight
  /\ \A e \in Execs : AttemptRight(e) /\ ReceiptRight(e)
  /\ \A w \in Workers : CallRight(w)
  /\ \A f \in ent.effects : EffectRight(f)
  /\ WorldRight(ent)

\* An execution has an effect on the failed message.
ReceiptOn(e) == \E f \in ent.effects : f.tool = Receipt /\ f.exec = e

\* What a call with locals c has read of the documents at control point p.
Listed(p, c) ==
  /\ c.docs \subseteq ent.docs
  /\ c.verified =>
       /\ p \in {"getCaseAgain", "complete"}
       /\ ToolOf(c.req.exec) = Receipt => c.docs # {}
CallListed(w) == Listed(pc[w], call[w])

\* What a receipt lists, and what its result says of the postconditions.
ReceiptListed(e) ==
  /\ receipt[e].docs \subseteq ent.docs
  /\ receipt[e].result # "NONE" =>
       /\ AttemptExists(e) /\ attempt[e].status # "RESERVED"
       /\ receipt[e].holds <=> receipt[e].result # "FAILED"
       /\ receipt[e].result # "FAILED" /\ ToolOf(e) = Receipt => receipt[e].docs # {}

\* The documents a call reads are those its receipt will list.
DocumentsRead == {"denyPrecondition", "failAttempt", "getCaseAgain", "complete"}

\* What one call at a time knows besides: nobody else reserved or ended its
\* attempt, and nobody posted for it after it read that nothing was posted.
Sole(p, c) ==
  /\ p \in {"evaluate", "getCase", "reserve"} => ~AttemptExists(c.req.exec)
  /\ p = "recover" => attempt[c.req.exec].status = c.seenAttempt
  /\ p \in AfterReservation => attempt[c.req.exec].status = "RESERVED"
  /\ p \in DocumentsRead /\ c.docs = {} => ~ReceiptOn(c.req.exec)
CallSole(w) == Sole(pc[w], call[w])
ReceiptSole(e) ==
  receipt[e].result = "FAILED" /\ receipt[e].docs = {} => ~ReceiptOn(e)

OneCaller == \A v, w \in Workers : v = w

DocInv ==
  /\ \A w \in Workers : CallListed(w)
  /\ \A e \in Execs : ReceiptListed(e)
  /\ OneCaller => /\ \A w \in Workers : CallSole(w)
                  /\ \A e \in Execs : ReceiptSole(e)

\* The one effect of each tool and what the enterprise keeps of it.
LEMMA OneEffect ==
  ASSUME WorldRight(ent), NEW f \in ent.effects
  PROVE  /\ f.tool = Receipt =>
              /\ ent.docs = {DocumentOf(f)} /\ ent.message.status = "CONSUMED"
              /\ ent.message.consumedBy = f.exec /\ SourceEffects(ent, Receipt) = {f}
         /\ f.tool = Invoice =>
              /\ SourceEffects(ent, Invoice) = {f}
              /\ ent.invoice.state = "RELEASED" => ent.invoice.releasedBy = f.exec
<1>1. CASE f.tool = Receipt
  <2>1. f \in SourceEffects(ent, Receipt) /\ f.tool # Invoice
    BY <1>1, TheTools DEF SourceEffects
  <2>2. QED  BY <1>1, <2>1 DEF WorldRight, ReceiptWorld
<1>2. CASE f.tool = Invoice
  <2>1. f \in SourceEffects(ent, Invoice) /\ f.tool # Receipt
    BY <1>2, TheTools DEF SourceEffects
  <2>2. QED  BY <1>2, <2>1 DEF WorldRight, InvoiceWorld
<1>3. QED  BY <1>1, <1>2

\* The types of the two tools, done here or outside, are four.
LEMMA FourTypes ==
  \A t, u \in Tools :
    /\ LocalType(t) # ExternalType(u)
    /\ LocalType(t) = LocalType(u) => t = u
BY DEF Tools, LocalType, ExternalType, Receipt, Invoice

\* A local effect that the audit holds against the ledger is bound.
LEMMA LocalIsBound ==
  ASSUME AuditInv, DocInv, NEW f \in ent.effects, ~Exempt(f), f \notin Overtaken,
         f.exec \in Execs, attempt[f.exec].status # "RESERVED"
  PROVE  LocalEffectBound(f)
<1> DEFINE command == attempt[f.exec].command
           g == grant[command.auth]
<1>1. EffectRight(f) /\ f.exec \notin ExternalIds /\ AttemptRight(f.exec)
  BY NamespaceAssumption DEF AuditInv
<1>2. /\ f.tool \in Tools /\ f.type = LocalType(f.tool) /\ AttemptExists(f.exec)
      /\ command.key = f.key /\ g.tool = f.tool
  BY <1>1 DEF EffectRight, LocalRight, OutsideRight, ToolOf
<1>3. /\ command.auth \in Auths /\ grantStatus[command.auth] # "NONE"
      /\ command.params = g.params /\ AllowRecorded(f.exec)
      /\ receipt[f.exec].result \in {"EXECUTED", "SAFE_NOOP", "FAILED"}
  BY <1>1, <1>2 DEF AttemptRight, Binds, AllowRecorded
<1>4. RoleOf[g.principal] = RequiredRole(g.tool) /\ g.params.tool = g.tool
  BY <1>3 DEF AuditInv, GrantsRight
<1>5. g.tool \in RoleTools(RoleOf[g.principal])
  BY <1>2, <1>4 DEF RoleTools
<1>6. IF g.tool = Receipt THEN ReceiptEffectBound(f, receipt[f.exec])
                          ELSE InvoiceEffectBound(f, receipt[f.exec])
  <2> DEFINE r == receipt[f.exec]
  <2>1. /\ r.docs \subseteq ent.docs /\ (r.holds <=> r.result # "FAILED")
        /\ r.result # "FAILED" /\ f.tool = Receipt => r.docs # {}
    BY <1>2, <1>3 DEF DocInv, ReceiptListed, ToolOf
  <2>2. CASE f.tool = Receipt
    <3>1. ent.docs = {DocumentOf(f)}
      BY <2>2, OneEffect DEF AuditInv
    <3>2. r.docs # {}
      BY <2>1, <2>2 DEF Overtaken
    <3>3. r.docs = ent.docs
      BY <2>1, <3>1, <3>2
    <3>4. QED  BY <1>2, <1>3, <2>1, <2>2, <3>1, <3>3 DEF ReceiptEffectBound, DocumentOf
  <2>3. CASE f.tool = Invoice
    <3>1. ent.invoice.state # "HELD" /\ r.result = "EXECUTED" /\ ent.docs \subseteq r.docs
      BY <2>3 DEF Exempt, PostedSince
    <3>2. ent.invoice.state = "RELEASED"
      BY <3>1 DEF AuditInv, WorldRight
    <3>3. r.docs = ent.docs /\ r.holds
      BY <2>1, <3>1
    <3>4. ent.invoice.releasedBy = f.exec
      BY <2>3, <3>2, OneEffect DEF AuditInv
    <3>5. QED  BY <1>2, <2>3, <3>1, <3>2, <3>3, <3>4, TheTools DEF InvoiceEffectBound
  <2>4. QED  BY <1>2, <2>2, <2>3, TheTools
<1>7. QED  BY <1>2, <1>3, <1>4, <1>5, <1>6 DEF LocalEffectBound

\* An effect done outside has the enterprise's word for it.
LEMMA OutsideIsValid ==
  ASSUME AuditInv, NEW f \in ent.effects, ~Exempt(f), f.type = ExternalType(f.tool)
  PROVE  ExternalValid(f)
<1>1. f.tool \in Tools /\ f.exec \in ExternalIds /\ f.key \in ExternalIds
  BY FourTypes DEF AuditInv, EffectRight, LocalRight, OutsideRight
<1>2. CASE f.tool = Receipt
  BY <1>1, <1>2, OneEffect
     DEF AuditInv, ExternalValid, ExternalReceiptValid, DocumentOf
<1>3. CASE f.tool = Invoice
  <2>1. ent.invoice.state = "RELEASED"
    BY <1>3 DEF Exempt, AuditInv, WorldRight
  <2>2. QED
    BY <1>1, <1>3, <2>1, OneEffect, TheTools DEF AuditInv, ExternalValid, ExternalInvoiceValid
<1>4. QED  BY <1>1, <1>2, <1>3, TheTools

\* A safe no-op is linked to what it stands on, or that invoice is exempt.
LEMMA NoopIsLinked ==
  ASSUME AuditInv, DocInv, NEW e \in Execs, receipt[e].result = "SAFE_NOOP"
  PROVE  NoopLinked(e) \/ \E f \in ent.effects : f.tool = ToolOf(e) /\ Exempt(f)
<1>1. AttemptExists(e) /\ AttemptRight(e)
  BY DEF AuditInv, ReceiptRight
<1>2. PICK f \in ent.effects :
        f.tool = ToolOf(e) /\ (f.exec = e \/ f.type = ExternalType(f.tool))
  BY DEF AuditInv, ReceiptRight, NoopBacked
<1>3. CASE Exempt(f)
  BY <1>2, <1>3
<1>4. CASE ~Exempt(f) /\ f.exec = e
  <2>1. attempt[e].status # "RESERVED"
    BY DEF AuditInv, ReceiptRight
  <2>2. LocalEffectBound(f)
    BY <1>4, <2>1, LocalIsBound DEF Overtaken
  <2>3. QED  BY <1>1, <1>4, <2>2 DEF NoopLinked
<1>5. CASE ~Exempt(f) /\ f.type = ExternalType(f.tool)
  <2> DEFINE command == attempt[e].command
  <2>1. ExternalValid(f)
    BY <1>5, OutsideIsValid
  <2>2. /\ command.params = grant[command.auth].params /\ AllowRecorded(e)
        /\ command.params.tool = f.tool
    BY <1>1, <1>2 DEF AttemptRight, Binds, AllowRecorded, AuditInv, GrantsRight, ToolOf
  <2>3. NoopBoundTo(e, f)
    BY <1>5, <2>1, <2>2 DEF NoopBoundTo
  <2>4. QED  BY <1>1, <2>3 DEF NoopLinked
<1>6. QED  BY <1>2, <1>3, <1>4, <1>5

\* Nothing is posted twice.
LEMMA NothingTwice ==
  ASSUME AuditInv, NEW e \in Execs
  PROVE  CrashDuplicates(e) = 0
<1> DEFINE effects == { f \in ent.effects : f.type = LocalType(Receipt)
                                            /\ (f.exec = e \/ f.tool = Receipt) }
<1>1. effects = {} \/ \E f : effects = {f}
  <2>1. \A f \in effects : f.tool = Receipt
    BY FourTypes, TheTools DEF AuditInv, EffectRight, LocalRight, OutsideRight
  <2>2. effects \subseteq SourceEffects(ent, Receipt)
    BY <2>1 DEF SourceEffects
  <2>3. SourceEffects(ent, Receipt) = {} \/ \E f : SourceEffects(ent, Receipt) = {f}
    BY DEF AuditInv, WorldRight, ReceiptWorld
  <2>4. QED  BY <2>2, <2>3
<1>2. ent.docs = {} \/ \E d : ent.docs = {d}
  BY DEF AuditInv, WorldRight, ReceiptWorld
<1>3. \A s : (s = {} \/ \E x : s = {x}) =>
        (IF s = {} THEN 0 ELSE Cardinality(s) - 1) = 0
  <2>1. \A x : Cardinality({x}) = 1
    BY FS_Singleton
  <2>2. QED  BY <2>1
<1>4. (IF effects = {} THEN 0 ELSE Cardinality(effects) - 1) = 0
  BY <1>1, <1>3
<1>5. (IF ent.docs = {} THEN 0 ELSE Cardinality(ent.docs) - 1) = 0
  BY <1>2, <1>3
<1>6. CrashDuplicates(e) = 0 + 0
  BY <1>4, <1>5 DEF CrashDuplicates
<1>7. QED  BY <1>6

\* The invariants are what the ledger checks ask for.
LEMMA LedgersAcceptable == AuditInv /\ DocInv => AcceptedBut(Overtaken)
<1> SUFFICES ASSUME AuditInv, DocInv PROVE AcceptedBut(Overtaken)
  OBVIOUS
<1>1. CrossRoleGrants = {}
  BY DEF CrossRoleGrants, AuditInv, GrantsRight, RoleTools
<1>2. ASSUME NEW f \in ent.effects \ Overtaken, ~Exempt(f)
      PROVE  LocalAccounted(f) /\ (f.type = ExternalType(f.tool) => ExternalValid(f))
  BY <1>2, LocalIsBound, OutsideIsValid DEF LocalAccounted
<1>3. QED  BY <1>1, <1>2, NoopIsLinked, NothingTwice DEF AcceptedBut

\* With one call at a time nothing is overtaken.
LEMMA NothingOvertaken == OneCaller /\ DocInv => Overtaken = {}
BY DEF DocInv, Overtaken, ReceiptSole, ReceiptOn

\* Rows are only added: what was signed, reserved, decided and done stays.
Growth ==
  /\ \A a \in Auths : grantStatus[a] # "NONE" => grantStatus'[a] # "NONE" /\ grant'[a] = grant[a]
  /\ \A e \in Execs : AttemptExists(e) =>
       AttemptExists(e)' /\ attempt'[e].command = attempt[e].command
  /\ decisions \subseteq decisions'
  /\ \A f \in ent.effects : \E g \in ent'.effects :
       /\ g.tool = f.tool /\ g.exec = f.exec
       /\ f.type = ExternalType(f.tool) => g.type = ExternalType(g.tool)

LEMMA GrowthKeepsTool ==
  ASSUME AuditInv, Growth, NEW e \in Execs, AttemptExists(e)
  PROVE  /\ ToolOf(e)' = ToolOf(e) /\ AttemptExists(e)'
         /\ Binds(attempt[e].command) /\ attempt[e].command.auth \in Auths
         /\ NoopBacked(e) => NoopBacked(e)'
<1>1. AttemptRight(e)
  BY DEF AuditInv
<1>2. attempt[e].command.auth \in Auths /\ Binds(attempt[e].command)
  BY <1>1 DEF AttemptRight
<1>3. ToolOf(e)' = ToolOf(e) /\ AttemptExists(e)'
  BY <1>2 DEF ToolOf, Growth, Binds
<1>4. NoopBacked(e) => NoopBacked(e)'
  BY <1>3 DEF NoopBacked, Growth
<1>5. QED  BY <1>2, <1>3, <1>4

LEMMA GrowthKeepsBinding ==
  ASSUME Growth, NEW req, req.auth \in Auths, Binds(req)
  PROVE  grantStatus'[req.auth] # "NONE" /\ req.params = grant'[req.auth].params
BY DEF Binds, Growth

\* A call that knows goes on knowing.
LEMMA GrowthKeepsCall ==
  ASSUME AuditInv, Growth, NEW v \in Workers, NEW p, NEW c, Knows(p, c),
         pc'[v] = p, call'[v] = c
  PROVE  CallRight(v)'
<1>1. CASE p = "idle"
  BY <1>1 DEF CallRight, Knows, AfterReservation, AfterPosting
<1>2. CASE p # "idle"
  <2>1. c.req.auth \in Auths /\ c.req.exec \in Execs
    BY <1>2 DEF Knows
  <2>2. p \notin {"idle", "getGrant"} => grantStatus'[c.req.auth] # "NONE"
    BY <2>1 DEF Knows, Growth
  <2>3. p \in {"getCase", "reserve"} => Binds(c.req) /\ c.req.params = grant'[c.req.auth].params
    BY <2>1, GrowthKeepsBinding DEF Knows
  <2>4. AttemptExists(c.req.exec) =>
          /\ AttemptExists(c.req.exec)'
          /\ attempt'[c.req.exec].command = attempt[c.req.exec].command
          /\ NoopBacked(c.req.exec) => NoopBacked(c.req.exec)'
    BY <2>1, GrowthKeepsTool DEF Growth
  <2>5. p \in AfterPosting => p \in AfterReservation
    BY DEF AfterReservation
  <2>6. p \in {"getCase", "reserve"} => p \notin {"idle", "getGrant"}
    OBVIOUS
  <2> HIDE DEF AfterReservation, AfterPosting
  <2>7. QED
    BY <2>1, <2>2, <2>3, <2>4, <2>5, <2>6 DEF CallRight, Knows, Binds, AttemptExists, NoopBacked, ToolOf
<1>3. QED  BY <1>1, <1>2

\* Rows that nobody writes stay right.
LEMMA GrowthKeepsRows ==
  ASSUME AuditInv, Growth, NEW e \in Execs, attempt'[e] = attempt[e], receipt'[e] = receipt[e]
  PROVE  AttemptRight(e)' /\ ReceiptRight(e)'
<1>1. AttemptRight(e) /\ ReceiptRight(e)
  BY DEF AuditInv
<1>2. CASE AttemptExists(e)
  BY <1>1, <1>2, GrowthKeepsTool, GrowthKeepsBinding
     DEF AttemptRight, ReceiptRight, AttemptExists, Binds, Growth
<1>3. CASE ~AttemptExists(e)
  BY <1>1, <1>3 DEF AttemptRight, ReceiptRight, AttemptExists
<1>4. QED  BY <1>2, <1>3

LEMMA GrowthKeepsEffect ==
  ASSUME AuditInv, Growth, NEW f \in ent.effects
  PROVE  EffectRight(f)'
<1>1. EffectRight(f)
  BY DEF AuditInv
<1>2. CASE OutsideRight(f)
  BY <1>1, <1>2 DEF EffectRight, OutsideRight
<1>3. CASE LocalRight(f)
  <2>1. ToolOf(f.exec)' = ToolOf(f.exec) /\ AttemptExists(f.exec)'
        /\ attempt'[f.exec].command = attempt[f.exec].command
    BY <1>3, GrowthKeepsTool DEF LocalRight, Growth
  <2>2. LocalRight(f)'
    BY <1>3, <2>1 DEF LocalRight
  <2>3. QED  BY <1>1, <2>2 DEF EffectRight
<1>4. QED  BY <1>1, <1>2, <1>3 DEF EffectRight

\* Nothing was written to the ledgers and the enterprise.
Unwritten == UNCHANGED <<grant, grantStatus, attempt, receipt, ent>> /\ decisions \subseteq decisions'

LEMMA UnwrittenGrows ==
  ASSUME Unwritten
  PROVE  Growth
BY DEF Unwritten, Growth, AttemptExists

\* Calls that stay where they are, whatever the rows gain.
LEMMA CallStaysRight ==
  ASSUME AuditInv, Growth, NEW v \in Workers, pc'[v] = pc[v], call'[v] = call[v]
  PROVE  CallRight(v)'
<1>1. Knows(pc[v], call[v])
  BY DEF AuditInv, CallRight
<1>2. PICK q, d : q = pc[v] /\ d = call[v]
  OBVIOUS
<1>3. Knows(q, d) /\ pc'[v] = q /\ call'[v] = d
  BY <1>1, <1>2
<1>4. QED  BY <1>3, GrowthKeepsCall

LEMMA CallsStayRight ==
  ASSUME AuditInv, Growth, UNCHANGED <<pc, call>>
  PROVE  \A v \in Workers : CallRight(v)'
BY CallStaysRight

\* A step of one call that writes neither keeps the invariant, if the call
\* knows what its next point asks for.
LEMMA CallOnlyAudits ==
  ASSUME AuditInv, Unwritten, NEW w \in Workers, NEW p, NEW c,
         pc' = [pc EXCEPT ![w] = p], call' = [call EXCEPT ![w] = c],
         DOMAIN c = CallFields, Knows(p, c)
  PROVE  AuditInv'
<1>1. Growth
  BY UnwrittenGrows
<1>2. /\ pc' = [v \in Workers |-> pc'[v]] /\ call' = [v \in Workers |-> call'[v]]
      /\ pc'[w] = p /\ call'[w] = c
      /\ \A v \in Workers \ {w} : pc'[v] = pc[v] /\ call'[v] = call[v]
  BY DEF AuditInv, AuditShape
<1>3. AuditShape'
  BY <1>2 DEF AuditInv, AuditShape, LedgerShape, Unwritten
<1>4. ASSUME NEW v \in Workers
      PROVE  CallRight(v)'
  <2>1. CASE v = w
    BY <1>1, <1>2, <2>1, GrowthKeepsCall
  <2>2. CASE v # w
    BY <1>1, <1>2, <2>2, CallStaysRight
  <2>3. QED  BY <2>1, <2>2
<1>5. GrantsRight'
  BY DEF AuditInv, GrantsRight, Unwritten
<1>6. \A e \in Execs : AttemptRight(e)' /\ ReceiptRight(e)'
  BY <1>1, GrowthKeepsRows DEF Unwritten
<1>7. \A f \in ent'.effects : EffectRight(f)'
  BY <1>1, GrowthKeepsEffect DEF Unwritten
<1>8. WorldRight(ent)'
  BY DEF AuditInv, Unwritten, WorldRight, ReceiptWorld, InvoiceWorld, SourceEffects
<1>9. QED  BY <1>3, <1>4, <1>5, <1>6, <1>7, <1>8 DEF AuditInv

\* Nothing that the audit reads moves (commands on the case, the clock).
LEMMA QuietAudits ==
  ASSUME AuditInv, Unwritten, UNCHANGED <<pc, call>>
  PROVE  AuditInv'
<1>1. Growth
  BY UnwrittenGrows
<1>2. AuditShape' /\ GrantsRight'
  BY DEF AuditInv, AuditShape, LedgerShape, GrantsRight, Unwritten
<1>3. \A e \in Execs : AttemptRight(e)' /\ ReceiptRight(e)'
  BY <1>1, GrowthKeepsRows DEF Unwritten
<1>4. \A f \in ent'.effects : EffectRight(f)'
  BY <1>1, GrowthKeepsEffect DEF Unwritten
<1>5. WorldRight(ent)'
  BY DEF AuditInv, Unwritten, WorldRight, ReceiptWorld, InvoiceWorld, SourceEffects
<1>6. QED  BY <1>1, <1>2, <1>3, <1>4, <1>5, CallsStayRight DEF AuditInv

\* An approval signs one grant, of the right role.
LEMMA ApproveAudits ==
  ASSUME AuditInv, NEW a \in Auths, NEW principal, NEW params, params.tool \in Tools,
         Approve(a, principal, params)
  PROVE  AuditInv'
<1> DEFINE g == [version |-> case.version + 1, tool |-> params.tool, principal |-> principal,
                 params |-> params, evidence |-> evidence, expires |-> now + GrantTtl]
<1>1. /\ grant' = [grant EXCEPT ![a] = g] /\ grantStatus' = [grantStatus EXCEPT ![a] = "ISSUED"]
      /\ grantStatus[a] = "NONE" /\ RoleOf[principal] = RequiredRole(params.tool)
      /\ UNCHANGED <<decisions, attempt, receipt, ent, pc, call>>
  BY DEF Approve
<1>2. LedgerShape' /\ grant'[a] = g /\ grantStatus'[a] = "ISSUED"
      /\ \A b \in Auths \ {a} : grant'[b] = grant[b] /\ grantStatus'[b] = grantStatus[b]
  BY <1>1 DEF AuditInv, AuditShape, LedgerShape
<1>3. Growth
  BY <1>1, <1>2 DEF Growth, AttemptExists
<1>4. GrantsRight'
  BY <1>1, <1>2 DEF AuditInv, GrantsRight
<1>5. AuditShape'
  BY <1>1, <1>2 DEF AuditInv, AuditShape
<1>6. \A e \in Execs : AttemptRight(e)' /\ ReceiptRight(e)'
  BY <1>1, <1>3, GrowthKeepsRows
<1>7. \A f \in ent'.effects : EffectRight(f)'
  BY <1>1, <1>3, GrowthKeepsEffect
<1>8. WorldRight(ent)'
  BY <1>1 DEF AuditInv, WorldRight, ReceiptWorld, InvoiceWorld, SourceEffects
<1>9. QED  BY <1>1, <1>3, <1>4, <1>5, <1>6, <1>7, <1>8, CallsStayRight DEF AuditInv

\* The enterprise's two transactions leave one effect, and what it keeps of it.
LEMMA PostingIsRight ==
  ASSUME NEW e, WorldRight(e), NEW tool \in Tools, NEW r, Preconditions(e, tool, r),
         NEW x, NEW k, NEW at
  PROVE  /\ WorldRight(Posted(e, tool, x, k, at))
         /\ Posted(e, tool, x, k, at).effects = e.effects \union {NewEffect(tool, x, k, at)}
<1> DEFINE new == NewEffect(tool, x, k, at)
           post == Posted(e, tool, x, k, at)
<1>1. /\ new.tool = tool /\ new.exec = x /\ new.key = k
      /\ DocumentOf(new) = [exec |-> x, key |-> k, quantity |-> MissingQuantity]
  BY DEF NewEffect, DocumentOf
<1>2. CASE tool = Receipt
  <2>1. e.message.status = "FAILED" /\ e.docs = {}
    BY <1>2 DEF Preconditions, ReceiptPreconditions
  <2>2. SourceEffects(e, Receipt) = {}
    BY <2>1 DEF WorldRight, ReceiptWorld
  <2>3. /\ DOMAIN post = EntFields /\ DOMAIN post.message = MessageFields
        /\ post.effects = e.effects \union {new} /\ post.docs = {DocumentOf(new)}
        /\ post.message.status = "CONSUMED" /\ post.message.consumedBy = x
        /\ post.invoice = e.invoice
    BY <1>1, <1>2, <2>1 DEF Posted, ReceiptPosted, EntFields, MessageFields
  <2>4. SourceEffects(post, Receipt) = {new} /\ SourceEffects(post, Invoice) = SourceEffects(e, Invoice)
    BY <1>1, <1>2, <2>2, <2>3, TheTools DEF SourceEffects
  <2>5. ReceiptWorld(post)
    BY <1>1, <2>3, <2>4 DEF ReceiptWorld
  <2>6. InvoiceWorld(post)
    BY <2>3, <2>4 DEF WorldRight, InvoiceWorld
  <2>7. QED  BY <2>3, <2>5, <2>6 DEF WorldRight
<1>3. CASE tool = Invoice
  <2>1. e.invoice.hold = "RECEIPT_MISMATCH" /\ tool # Receipt
    BY <1>3, TheTools DEF Preconditions, InvoicePreconditions
  <2>2. SourceEffects(e, Invoice) = {}
    BY <2>1 DEF WorldRight, InvoiceWorld
  <2>3. /\ DOMAIN post = EntFields /\ post.message = e.message /\ post.docs = e.docs
        /\ post.effects = e.effects \union {new}
        /\ post.invoice.state = "RELEASED" /\ post.invoice.hold = "NONE"
        /\ post.invoice.releasedBy = x
    BY <1>3, <2>1 DEF Posted, InvoiceReleased, EntFields, WorldRight
  <2>4. SourceEffects(post, Invoice) = {new} /\ SourceEffects(post, Receipt) = SourceEffects(e, Receipt)
    BY <1>1, <1>3, <2>2, <2>3, TheTools DEF SourceEffects
  <2>5. ReceiptWorld(post)
    BY <2>3, <2>4 DEF WorldRight, ReceiptWorld
  <2>6. InvoiceWorld(post)
    BY <1>1, <2>3, <2>4 DEF InvoiceWorld
  <2>7. QED  BY <2>3, <2>5, <2>6 DEF WorldRight
<1>4. QED  BY <1>2, <1>3, TheTools

\* What relabelling makes of an effect.
Tagged(f, tool) ==
  IF f.tool = tool /\ f.exec = ExternalId(tool) THEN [f EXCEPT !.type = ExternalType(tool)] ELSE f

LEMMA TaggedFacts ==
  ASSUME NEW f, DOMAIN f = EffectFields, NEW tool
  PROVE  LET g == Tagged(f, tool) IN
         /\ DOMAIN g = EffectFields /\ g.tool = f.tool /\ g.exec = f.exec /\ g.key = f.key
         /\ g = f \/ (g.type = ExternalType(tool) /\ f.tool = tool /\ f.exec = ExternalId(tool))
         /\ DocumentOf(g) = DocumentOf(f)
BY DEF Tagged, EffectFields, DocumentOf

LEMMA RetaggingIsRight ==
  ASSUME NEW e, WorldRight(e), \A f \in e.effects : DOMAIN f = EffectFields, NEW tool \in Tools
  PROVE  /\ WorldRight(Retagged(e, tool))
         /\ Retagged(e, tool).effects = {Tagged(f, tool) : f \in e.effects}
<1> DEFINE new == Retagged(e, tool)
<1>1. /\ DOMAIN new = EntFields /\ new.message = e.message /\ new.docs = e.docs
      /\ new.invoice = e.invoice /\ new.effects = {Tagged(f, tool) : f \in e.effects}
  BY DEF Retagged, Tagged, WorldRight, EntFields
<1>2. \A u : SourceEffects(new, u) = {Tagged(f, tool) : f \in SourceEffects(e, u)}
  BY <1>1, TaggedFacts DEF SourceEffects
<1>3. \A u, f : SourceEffects(e, u) = {f} => SourceEffects(new, u) = {Tagged(f, tool)}
  BY <1>2
<1>4. \A u : SourceEffects(e, u) = {} => SourceEffects(new, u) = {}
  BY <1>2
<1>5. ReceiptWorld(new)
  BY <1>1, <1>3, <1>4, TaggedFacts DEF WorldRight, ReceiptWorld
<1>6. InvoiceWorld(new)
  BY <1>1, <1>3, <1>4, TaggedFacts DEF WorldRight, InvoiceWorld
<1>7. QED  BY <1>1, <1>5, <1>6 DEF WorldRight

\* Drift touches neither effects nor documents.
LEMMA DriftIsRight ==
  ASSUME NEW e, WorldRight(e), NEW new,
         \/ new = MessageRevisionAdvanced(e)
         \/ \E q : new = ErpReceiptQuantitySet(e, q)
         \/ new = InvoiceHoldSet(e)
  PROVE  WorldRight(new) /\ new.effects = e.effects
<1>1. /\ DOMAIN new = EntFields /\ DOMAIN new.message = MessageFields
      /\ new.effects = e.effects /\ new.docs = e.docs
      /\ new.message.status = e.message.status /\ new.message.consumedBy = e.message.consumedBy
      /\ new.invoice = e.invoice \/ (new.invoice.state = "HELD" /\ new.invoice.hold = "REVIEW_HOLD")
  BY DEF MessageRevisionAdvanced, ErpReceiptQuantitySet, InvoiceHoldSet, WorldRight,
         EntFields, MessageFields
<1>2. ReceiptWorld(new) /\ InvoiceWorld(new)
  BY <1>1 DEF WorldRight, ReceiptWorld, InvoiceWorld, SourceEffects
<1>3. QED  BY <1>1, <1>2 DEF WorldRight

\* A step that writes the enterprise and no ledger.
LEMMA WorldAudits ==
  ASSUME AuditInv, UNCHANGED <<grant, grantStatus, decisions, attempt, receipt>>, Growth,
         AuditShape', \A v \in Workers : CallRight(v)',
         WorldRight(ent)', \A f \in ent'.effects : EffectRight(f)'
  PROVE  AuditInv'
<1>1. GrantsRight'
  BY DEF AuditInv, GrantsRight
<1>2. \A e \in Execs : AttemptRight(e)' /\ ReceiptRight(e)'
  BY GrowthKeepsRows
<1>3. QED  BY <1>1, <1>2 DEF AuditInv

LEMMA EnvironmentShape ==
  ASSUME AuditInv, UNCHANGED <<grant, grantStatus, attempt, receipt, pc, call>>
  PROVE  AuditShape'
BY DEF AuditInv, AuditShape, LedgerShape

\* What an outside process does.
LEMMA ExternalCommitAudits ==
  ASSUME AuditInv, NEW tool \in Tools, ExternalCommit(tool)
  PROVE  AuditInv'
<1> DEFINE x == ExternalId(tool)
           new == NewEffect(tool, x, x, now)
<1>1. /\ Preconditions(ent, tool, SourceRevision(ent, tool)) /\ ent' = Posted(ent, tool, x, x, now)
      /\ UNCHANGED <<grant, grantStatus, decisions, attempt, receipt, pc, call>>
  BY DEF ExternalCommit, caseDb
<1>2. WorldRight(ent)' /\ ent'.effects = ent.effects \union {new}
  BY <1>1, PostingIsRight DEF AuditInv
<1>3. Growth
  BY <1>1, <1>2 DEF Growth, AttemptExists
<1>4. ASSUME NEW f, f = new
      PROVE  EffectRight(f)'
  BY <1>4 DEF EffectRight, OutsideRight, NewEffect, EffectFields, ExternalId, ExternalIds
<1>5. \A f \in ent'.effects : EffectRight(f)'
  BY <1>2, <1>3, <1>4, GrowthKeepsEffect
<1>6. QED  BY <1>1, <1>2, <1>3, <1>5, WorldAudits, EnvironmentShape, CallsStayRight

LEMMA ExternalRetagAudits ==
  ASSUME AuditInv, NEW tool \in Tools, ExternalRetag(tool)
  PROVE  AuditInv'
<1>1. /\ ent' = Retagged(ent, tool)
      /\ UNCHANGED <<grant, grantStatus, decisions, attempt, receipt, pc, call>>
  BY DEF ExternalRetag, caseDb
<1>2. \A f \in ent.effects : DOMAIN f = EffectFields
  BY DEF AuditInv, EffectRight
<1>3. WorldRight(ent)' /\ ent'.effects = {Tagged(f, tool) : f \in ent.effects}
  BY <1>1, <1>2, RetaggingIsRight DEF AuditInv
<1>4. Growth
  <2>1. ASSUME NEW f \in ent.effects
        PROVE  \E g \in ent'.effects :
                 /\ g.tool = f.tool /\ g.exec = f.exec
                 /\ f.type = ExternalType(f.tool) => g.type = ExternalType(g.tool)
    <3>1. Tagged(f, tool) \in ent'.effects
      BY <1>3
    <3>2. QED  BY <1>2, <3>1, TaggedFacts
  <2>2. QED  BY <1>1, <2>1 DEF Growth, AttemptExists
<1>5. ASSUME NEW g \in ent'.effects
      PROVE  EffectRight(g)'
  <2>1. PICK f \in ent.effects : g = Tagged(f, tool)
    BY <1>3
  <2>2. EffectRight(f)'
    BY <1>4, GrowthKeepsEffect
  <2>3. CASE g = f
    BY <2>2, <2>3
  <2>4. CASE g # f
    <3>1. /\ DOMAIN g = EffectFields /\ g.tool = f.tool /\ g.exec = f.exec /\ g.key = f.key
          /\ g.type = ExternalType(tool) /\ f.tool = tool /\ f.exec = ExternalId(tool)
      BY <1>2, <2>1, <2>4, TaggedFacts
    <3>2. f.exec \notin Execs
      BY <3>1, NamespaceAssumption DEF ExternalId, ExternalIds
    <3>3. OutsideRight(f)
      BY <3>2 DEF AuditInv, EffectRight, LocalRight
    <3>4. QED  BY <3>1, <3>3 DEF EffectRight, OutsideRight
  <2>5. QED  BY <2>3, <2>4
<1>6. QED  BY <1>1, <1>3, <1>4, <1>5, WorldAudits, EnvironmentShape, CallsStayRight

LEMMA DriftAudits ==
  ASSUME AuditInv, UNCHANGED <<grant, grantStatus, decisions, attempt, receipt, pc, call>>,
         \/ ent' = MessageRevisionAdvanced(ent)
         \/ \E q : ent' = ErpReceiptQuantitySet(ent, q)
         \/ ent' = InvoiceHoldSet(ent)
  PROVE  AuditInv'
<1>1. WorldRight(ent)' /\ ent'.effects = ent.effects
  BY DriftIsRight DEF AuditInv
<1>2. Growth
  BY <1>1 DEF Growth, AttemptExists
<1>3. \A f \in ent'.effects : EffectRight(f)'
  BY <1>1, <1>2, GrowthKeepsEffect
<1>4. QED  BY <1>1, <1>2, <1>3, WorldAudits, EnvironmentShape, CallsStayRight

-----------------------------------------------------------------------------
(* The steps of a call. *)

\* A call that goes on with its locals, and one that returns.
LEMMA GotoAudits ==
  ASSUME AuditInv, Unwritten, NEW w \in Workers, NEW p, Goto(w, p), UNCHANGED call,
         Knows(p, call[w])
  PROVE  AuditInv'
<1> DEFINE c == call[w]
<1>1. call' = [call EXCEPT ![w] = c] /\ DOMAIN c = CallFields
  BY DEF AuditInv, AuditShape
<1>2. QED  BY <1>1, CallOnlyAudits DEF Goto

LEMMA ReturnAudits ==
  ASSUME AuditInv, Unwritten, NEW w \in Workers, Return(w)
  PROVE  AuditInv'
<1>1. DOMAIN NoCall = CallFields
  BY DEF NoCall, CallFields
<1>2. Knows("idle", NoCall)
  BY DEF Knows, AfterReservation, AfterPosting
<1>3. QED  BY <1>1, <1>2, CallOnlyAudits DEF Return, Goto

LEMMA DenyAudits ==
  ASSUME AuditInv, Unwritten, NEW w \in Workers, NEW kind, Deny(w, kind),
         pc[w] \notin {"idle", "getGrant"}
  PROVE  AuditInv'
<1> DEFINE c == [call[w] EXCEPT !.denial = kind]
<1>1. CallRight(w) /\ DOMAIN call[w] = CallFields
  BY DEF AuditInv, AuditShape
<1>2. DOMAIN c = CallFields /\ c.req = call[w].req /\ call' = [call EXCEPT ![w] = c]
  BY <1>1 DEF CallFields, Deny, AuditInv, AuditShape
<1>3. Knows("deny", c)
  BY <1>1, <1>2 DEF CallRight, Knows, AfterReservation, AfterPosting
<1>4. QED  BY <1>2, <1>3, CallOnlyAudits DEF Deny, Goto

LEMMA BeginAudits ==
  ASSUME AuditInv, NEW w \in Workers, NEW req, req.auth \in Auths, req.exec \in Execs,
         DOMAIN req = ReqFields, Begin(w, req)
  PROVE  AuditInv'
<1> DEFINE c == [NoCall EXCEPT !.req = req, !.at = now]
<1>1. DOMAIN c = CallFields /\ c.req = req
  BY DEF NoCall, CallFields
<1>2. Knows("getGrant", c)
  BY <1>1 DEF Knows, AfterReservation, AfterPosting
<1>3. Unwritten
  BY DEF Begin, Unwritten, caseDb
<1>4. QED  BY <1>1, <1>2, <1>3, CallOnlyAudits DEF Begin, Goto

LEMMA GetGrantAudits ==
  ASSUME AuditInv, NEW w \in Workers, GetGrant(w)
  PROVE  AuditInv'
<1> DEFINE status == grantStatus[call[w].req.auth]
           c == [call[w] EXCEPT !.seenGrant = status]
<1>1. Unwritten
  BY DEF GetGrant, Unwritten, caseDb
<1>2. CASE status = "NONE"
  BY <1>1, <1>2, ReturnAudits DEF GetGrant
<1>3. CASE status # "NONE"
  <2>1. CallRight(w) /\ DOMAIN call[w] = CallFields
    BY DEF AuditInv, AuditShape
  <2>2. DOMAIN c = CallFields /\ c.req = call[w].req /\ call' = [call EXCEPT ![w] = c]
        /\ pc[w] = "getGrant" /\ Goto(w, "getAttempt")
    BY <1>3, <2>1 DEF CallFields, GetGrant, AuditInv, AuditShape
  <2>3. Knows("getAttempt", c)
    BY <1>3, <2>1, <2>2 DEF CallRight, Knows, AfterReservation, AfterPosting
  <2>4. QED  BY <1>1, <2>2, <2>3, CallOnlyAudits DEF Goto
<1>4. QED  BY <1>2, <1>3

LEMMA GetAttemptAudits ==
  ASSUME AuditInv, NEW w \in Workers, GetAttempt(w)
  PROVE  AuditInv'
<1> DEFINE status == attempt[call[w].req.exec].status
           c == [call[w] EXCEPT !.seenAttempt = status]
<1>1. Unwritten /\ pc[w] = "getAttempt"
  BY DEF GetAttempt, Unwritten, caseDb
<1>2. CallRight(w) /\ DOMAIN call[w] = CallFields
  BY DEF AuditInv, AuditShape
<1>3. CASE status = "NONE" /\ call[w].seenGrant = "ISSUED"
  <2>1. Knows("evaluate", call[w])
    BY <1>1, <1>2 DEF CallRight, Knows, AfterReservation, AfterPosting
  <2>2. QED  BY <1>1, <1>3, <2>1, GotoAudits DEF GetAttempt
<1>4. CASE status = "NONE" /\ call[w].seenGrant # "ISSUED"
  BY <1>1, <1>4, DenyAudits DEF GetAttempt
<1>5. CASE status # "NONE"
  <2>1. DOMAIN c = CallFields /\ c.req = call[w].req /\ call' = [call EXCEPT ![w] = c]
        /\ Goto(w, "recover")
    BY <1>2, <1>5 DEF CallFields, GetAttempt, AuditInv, AuditShape
  <2>2. Knows("recover", c)
    BY <1>1, <1>2, <1>5, <2>1 DEF CallRight, Knows, AfterReservation, AfterPosting, AttemptExists
  <2>3. QED  BY <1>1, <2>1, <2>2, CallOnlyAudits DEF Goto
<1>6. QED  BY <1>3, <1>4, <1>5

\* Where a call only reads and goes on with what it holds.
LEMMA EvaluateAudits ==
  ASSUME AuditInv, NEW w \in Workers, Evaluate(w)
  PROVE  AuditInv'
<1>1. Unwritten /\ pc[w] = "evaluate" /\ CallRight(w)
  BY DEF Evaluate, Unwritten, caseDb, AuditInv
<1>2. CASE PolicyAllows(call[w].req)
  <2>1. Knows("getCase", call[w])
    BY <1>1, <1>2
       DEF CallRight, Knows, AfterReservation, AfterPosting, PolicyAllows, BindingMatches, Binds
  <2>2. QED  BY <1>1, <1>2, <2>1, GotoAudits DEF Evaluate
<1>3. CASE ~PolicyAllows(call[w].req)
  BY <1>1, <1>3, DenyAudits DEF Evaluate
<1>4. QED  BY <1>2, <1>3

LEMMA SaveDenialAudits ==
  ASSUME AuditInv, NEW w \in Workers, SaveDenial(w)
  PROVE  AuditInv'
BY ReturnAudits DEF SaveDenial, Unwritten

\* Reading the case changes one local that nothing here depends on.
LEMMA VersionAudits ==
  ASSUME AuditInv, Unwritten, NEW w \in Workers, NEW p, NEW v, Goto(w, p),
         call' = [call EXCEPT ![w].version = v],
         Knows(p, call[w])
  PROVE  AuditInv'
<1> DEFINE c == [call[w] EXCEPT !.version = v]
<1>1. DOMAIN call[w] = CallFields
  BY DEF AuditInv, AuditShape
<1>2. /\ DOMAIN c = CallFields /\ c.req = call[w].req /\ c.outcome = call[w].outcome
      /\ call' = [call EXCEPT ![w] = c]
  BY <1>1 DEF CallFields, AuditInv, AuditShape
<1>3. Knows(p, c)
  BY <1>2 DEF Knows
<1>4. QED  BY <1>2, <1>3, CallOnlyAudits DEF Goto

LEMMA GetCaseAudits ==
  ASSUME AuditInv, NEW w \in Workers, GetCase(w)
  PROVE  AuditInv'
<1>1. Unwritten /\ pc[w] = "getCase" /\ CallRight(w)
  BY DEF GetCase, Unwritten, caseDb, AuditInv
<1>2. Knows("reserve", call[w])
  BY <1>1 DEF CallRight, Knows, AfterReservation, AfterPosting
<1>3. QED  BY <1>1, <1>2, VersionAudits DEF GetCase

LEMMA GetCaseAgainAudits ==
  ASSUME AuditInv, NEW w \in Workers, GetCaseAgain(w)
  PROVE  AuditInv'
<1>1. Unwritten /\ pc[w] = "getCaseAgain" /\ CallRight(w)
  BY DEF GetCaseAgain, Unwritten, caseDb, AuditInv
<1>2. Knows("complete", call[w])
  BY <1>1 DEF CallRight, Knows, AfterReservation, AfterPosting
<1>3. QED  BY <1>1, <1>2, VersionAudits DEF GetCaseAgain

LEMMA VerifyAudits ==
  ASSUME AuditInv, NEW w \in Workers, Verify(w)
  PROVE  AuditInv'
<1>1. Unwritten /\ pc[w] = "verify" /\ CallRight(w) /\ DOMAIN call[w] = CallFields
  BY DEF Verify, Unwritten, caseDb, AuditInv, AuditShape
<1>2. PICK ok, closes, p :
        /\ call' = [call EXCEPT ![w].docs = ent.docs, ![w].verified = ok,
                                ![w].closes = closes]
        /\ Goto(w, p) /\ p \in {"getCaseAgain", "complete"}
  BY DEF Verify
<1> DEFINE c == [call[w] EXCEPT !.docs = ent.docs, !.verified = ok, !.closes = closes]
<1>3. /\ DOMAIN c = CallFields /\ c.req = call[w].req /\ c.outcome = call[w].outcome
      /\ call' = [call EXCEPT ![w] = c]
  BY <1>1, <1>2 DEF CallFields, AuditInv, AuditShape
<1>4. Knows(p, c)
  BY <1>1, <1>2, <1>3 DEF CallRight, Knows, AfterReservation, AfterPosting
<1>5. QED  BY <1>1, <1>2, <1>3, <1>4, CallOnlyAudits DEF Goto

\* The stored command is the request, so the attempt is of this execution.
LEMMA ReserveAgainAudits ==
  ASSUME AuditInv, NEW w \in Workers, ReserveAgain(w)
  PROVE  AuditInv'
<1> DEFINE req == call[w].req
<1>1. Unwritten /\ pc[w] = "reserve" /\ CallRight(w)
  BY DEF ReserveAgain, Unwritten, caseDb, AuditInv
<1>2. CASE \E e \in Execs : attempt[e].command = req
  <2>1. PICK e \in Execs : attempt[e].command = req
    BY <1>2
  <2>2. DOMAIN req = ReqFields /\ DOMAIN NoCommand = {"auth"}
    BY <1>1 DEF CallRight, Knows, NoCommand
  <2>3. req # NoCommand
    BY <2>2 DEF ReqFields
  <2>4. AttemptExists(e) /\ req.exec = e
    BY <2>1, <2>3 DEF AuditInv, AttemptRight
  <2>5. Knows("lookup", call[w])
    BY <1>1, <2>1, <2>4 DEF CallRight, Knows, AfterReservation, AfterPosting
  <2>6. QED  BY <1>1, <1>2, <2>5, GotoAudits DEF ReserveAgain
<1>3. CASE ~\E e \in Execs : attempt[e].command = req
  BY <1>1, <1>3, ReturnAudits DEF ReserveAgain
<1>4. QED  BY <1>2, <1>3

LEMMA ReserveRefusedAudits ==
  ASSUME AuditInv, NEW w \in Workers, ReserveRefused(w)
  PROVE  AuditInv'
BY ReturnAudits DEF ReserveRefused, Unwritten, caseDb

LEMMA RecoverAudits ==
  ASSUME AuditInv, NEW w \in Workers, Recover(w)
  PROVE  AuditInv'
<1> DEFINE req == call[w].req
           command == attempt[req.exec].command
<1>1. Unwritten /\ pc[w] = "recover" /\ CallRight(w)
  BY DEF Recover, Unwritten, caseDb, AuditInv
<1>2. CASE ~BindingMatches(req) \/ command.auth # req.auth \/ command.params # req.params
  BY <1>1, <1>2, DenyAudits DEF Recover
<1>3. CASE ~(~BindingMatches(req) \/ command.auth # req.auth \/ command.params # req.params)
  <2>1. CASE command = req /\ call[w].seenAttempt = "RESERVED" /\ call[w].seenGrant = "RESERVED"
    <3>1. Knows("lookup", call[w])
      BY <1>1, <2>1 DEF CallRight, Knows, AfterReservation, AfterPosting
    <3>2. QED  BY <1>1, <1>3, <2>1, <3>1, GotoAudits DEF Recover
  <2>2. CASE ~(command = req /\ call[w].seenAttempt = "RESERVED" /\ call[w].seenGrant = "RESERVED")
    BY <1>1, <1>3, <2>2, ReturnAudits DEF Recover
  <2>3. QED  BY <2>1, <2>2
<1>4. QED  BY <1>2, <1>3

LEMMA LookupEffectAudits ==
  ASSUME AuditInv, NEW w \in Workers, LookupEffect(w)
  PROVE  AuditInv'
<1>1. Unwritten /\ pc[w] = "lookup" /\ CallRight(w)
  BY DEF LookupEffect, Unwritten, caseDb, AuditInv
<1>2. Knows("mutate", call[w])
  BY <1>1 DEF CallRight, Knows, AfterReservation, AfterPosting
<1>3. CASE \E kind : Deny(w, kind)
  BY <1>1, <1>3, DenyAudits
<1>4. CASE Goto(w, "mutate") /\ UNCHANGED call
  BY <1>1, <1>2, <1>4, GotoAudits
<1>5. QED  BY <1>3, <1>4 DEF LookupEffect

\* The mutation found its effect: its own, or one done outside.
LEMMA FoundAudits ==
  ASSUME AuditInv, Unwritten, NEW w \in Workers, pc[w] = "mutate",
         NEW f \in ent.effects, MutatedTo(w, f, "SAFE_NOOP"),
         f.tool = ToolOf(call[w].req.exec),
         f.exec = call[w].req.exec \/ f.type = ExternalType(f.tool)
  PROVE  AuditInv'
<1> DEFINE c == [call[w] EXCEPT !.effect = f, !.outcome = "SAFE_NOOP"]
<1>1. CallRight(w) /\ DOMAIN call[w] = CallFields
  BY DEF AuditInv, AuditShape
<1>2. /\ DOMAIN c = CallFields /\ c.req = call[w].req /\ c.outcome = "SAFE_NOOP"
      /\ call' = [call EXCEPT ![w] = c]
  BY <1>1 DEF CallFields, MutatedTo, AuditInv, AuditShape
<1>3. NoopBacked(c.req.exec)
  BY <1>2 DEF NoopBacked
<1>4. Knows("verify", c)
  BY <1>1, <1>2, <1>3 DEF CallRight, Knows, AfterReservation, AfterPosting
<1>5. QED  BY <1>2, <1>4, CallOnlyAudits DEF MutatedTo, Goto

LEMMA PreconditionAudits ==
  ASSUME AuditInv, Unwritten, NEW w \in Workers, pc[w] = "mutate",
         Goto(w, "readState"), UNCHANGED call
  PROVE  AuditInv'
<1>1. Knows("readState", call[w])
  BY DEF AuditInv, CallRight, Knows, AfterReservation, AfterPosting
<1>2. QED  BY <1>1, GotoAudits

LEMMA MutateKnownKeyAudits ==
  ASSUME AuditInv, NEW w \in Workers, MutateKnownKey(w)
  PROVE  AuditInv'
<1>1. Unwritten /\ pc[w] = "mutate" /\ CallRight(w)
  BY DEF MutateKnownKey, Unwritten, caseDb, AuditInv
<1>2. PICK f \in EffectsWithKey(ent, call[w].req.key) :
        IF f.exec = call[w].req.exec THEN MutatedTo(w, f, "SAFE_NOOP")
        ELSE Goto(w, "readState") /\ UNCHANGED call
  BY DEF MutateKnownKey
<1>3. f \in ent.effects
  BY DEF EffectsWithKey
<1>4. CASE f.exec = call[w].req.exec
  <2>1. f.exec \in Execs
    BY <1>1, <1>4 DEF CallRight, Knows, AfterReservation, AfterPosting
  <2>2. LocalRight(f)
    BY <1>3, <2>1, NamespaceAssumption DEF AuditInv, EffectRight, OutsideRight
  <2>3. f.tool = ToolOf(call[w].req.exec)
    BY <1>4, <2>2 DEF LocalRight
  <2>4. QED  BY <1>1, <1>2, <1>3, <1>4, <2>3, FoundAudits
<1>5. CASE f.exec # call[w].req.exec
  BY <1>1, <1>2, <1>5, PreconditionAudits
<1>6. QED  BY <1>4, <1>5

\* The tool a reserved call acts on is the tool of its attempt.
LEMMA CallTool ==
  ASSUME AuditInv, NEW w \in Workers, pc[w] \in AfterReservation
  PROVE  /\ ToolOf(call[w].req.exec) = grant[call[w].req.auth].tool
         /\ grant[call[w].req.auth].tool \in Tools
<1>1. CallRight(w)
  BY DEF AuditInv
<1>2. /\ attempt[call[w].req.exec].command = call[w].req
      /\ call[w].req.auth \in Auths /\ grantStatus[call[w].req.auth] # "NONE"
  BY <1>1 DEF CallRight, Knows, AfterReservation, AfterPosting
<1>3. QED  BY <1>2 DEF ToolOf, AuditInv, GrantsRight

LEMMA MutateExternallyDoneAudits ==
  ASSUME AuditInv, NEW w \in Workers, MutateExternallyDone(w)
  PROVE  AuditInv'
<1> DEFINE tool == grant[call[w].req.auth].tool
<1>1. Unwritten /\ pc[w] = "mutate"
  BY DEF MutateExternallyDone, Unwritten, caseDb
<1>2. PICK f \in ent.effects :
        ExternallyCompletedBy(ent, tool, f) /\ MutatedTo(w, f, "SAFE_NOOP")
  BY DEF MutateExternallyDone
<1>3. ToolOf(call[w].req.exec) = tool /\ tool \in Tools
  BY <1>1, CallTool DEF AfterReservation
<1>4. f \in { g \in SourceEffects(ent, tool) : g.type = ExternalType(tool) }
  BY <1>2, <1>3, TheTools DEF ExternallyCompletedBy, ReceiptCompletedBy, InvoiceCompletedBy
<1>5. f.tool = tool /\ f.type = ExternalType(tool)
  BY <1>4 DEF SourceEffects
<1>6. QED  BY <1>1, <1>2, <1>3, <1>5, FoundAudits

LEMMA MutateRefusedAudits ==
  ASSUME AuditInv, NEW w \in Workers, MutateRefused(w)
  PROVE  AuditInv'
BY PreconditionAudits DEF MutateRefused, Unwritten, caseDb

LEMMA ReadStateAudits ==
  ASSUME AuditInv, NEW w \in Workers, ReadState(w)
  PROVE  AuditInv'
<1> DEFINE c == [call[w] EXCEPT !.docs = ent.docs]
<1>1. Unwritten /\ pc[w] = "readState" /\ CallRight(w) /\ DOMAIN call[w] = CallFields
  BY DEF ReadState, Unwritten, caseDb, AuditInv, AuditShape
<1>2. /\ DOMAIN c = CallFields /\ c.req = call[w].req /\ call' = [call EXCEPT ![w] = c]
      /\ Goto(w, "denyPrecondition")
  BY <1>1 DEF ReadState, CallFields, AuditInv, AuditShape
<1>3. Knows("denyPrecondition", c)
  BY <1>1, <1>2 DEF CallRight, Knows, AfterReservation, AfterPosting
<1>4. QED  BY <1>1, <1>2, <1>3, CallOnlyAudits DEF Goto

LEMMA DenyPreconditionAudits ==
  ASSUME AuditInv, NEW w \in Workers, DenyPrecondition(w)
  PROVE  AuditInv'
<1>1. Unwritten /\ pc[w] = "denyPrecondition"
  BY DEF DenyPrecondition, Unwritten
<1>2. Knows("failAttempt", call[w])
  BY <1>1 DEF AuditInv, CallRight, Knows, AfterReservation, AfterPosting
<1>3. CASE Return(w)
  BY <1>1, <1>3, ReturnAudits
<1>4. CASE Goto(w, "failAttempt") /\ UNCHANGED call
  BY <1>1, <1>2, <1>4, GotoAudits
<1>5. QED  BY <1>3, <1>4 DEF DenyPrecondition

\* The executor's own posting is of its attempt.
LEMMA MutatePostAudits ==
  ASSUME AuditInv, NEW w \in Workers, MutatePost(w)
  PROVE  AuditInv'
<1> DEFINE req == call[w].req
           tool == grant[req.auth].tool
           new == NewEffect(tool, req.exec, req.key, call[w].at)
           c == [call[w] EXCEPT !.effect = new, !.outcome = "EXECUTED"]
<1>1. /\ pc[w] = "mutate" /\ Preconditions(ent, tool, req.params.revision)
      /\ ent' = Posted(ent, tool, req.exec, req.key, call[w].at)
      /\ UNCHANGED <<grant, grantStatus, decisions, attempt, receipt>>
  BY DEF MutatePost, caseDb
<1>2. CallRight(w) /\ DOMAIN call[w] = CallFields /\ ToolOf(req.exec) = tool /\ tool \in Tools
  BY <1>1, CallTool DEF AuditInv, AuditShape, AfterReservation
<1>3. WorldRight(ent)' /\ ent'.effects = ent.effects \union {new}
  BY <1>1, <1>2, PostingIsRight DEF AuditInv
<1>4. Growth
  BY <1>1, <1>3 DEF Growth, AttemptExists
<1>5. /\ req.exec \in Execs /\ AttemptExists(req.exec) /\ attempt[req.exec].command = req
  BY <1>1, <1>2 DEF CallRight, Knows, AfterReservation, AfterPosting
<1>6. ASSUME NEW f, f = new
      PROVE  EffectRight(f)'
  <2>1. /\ DOMAIN f = EffectFields /\ f.tool = tool /\ f.exec = req.exec /\ f.key = req.key
        /\ f.type = LocalType(tool)
    BY <1>6 DEF NewEffect, EffectFields
  <2>2. ToolOf(f.exec)' = tool /\ AttemptExists(f.exec)' /\ attempt'[f.exec].command.key = f.key
    BY <1>1, <1>2, <1>5, <2>1 DEF ToolOf, AttemptExists
  <2>3. QED  BY <1>2, <1>5, <2>1, <2>2 DEF EffectRight, LocalRight
<1>7. \A f \in ent'.effects : EffectRight(f)'
  BY <1>3, <1>4, <1>6, GrowthKeepsEffect
<1>8. /\ DOMAIN c = CallFields /\ c.req = req /\ c.outcome = "EXECUTED"
      /\ call' = [call EXCEPT ![w] = c] /\ pc' = [pc EXCEPT ![w] = "verify"]
  BY <1>2 DEF CallFields, MutatePost, MutatedTo, Goto, AuditInv, AuditShape
<1>9. Knows("verify", c)
  BY <1>1, <1>2, <1>8 DEF CallRight, Knows, AfterReservation, AfterPosting
<1>10. /\ AuditShape' /\ pc'[w] = "verify" /\ call'[w] = c
       /\ \A v \in Workers \ {w} : pc'[v] = pc[v] /\ call'[v] = call[v]
  BY <1>1, <1>8 DEF AuditInv, AuditShape, LedgerShape
<1>11. ASSUME NEW v \in Workers
       PROVE  CallRight(v)'
  <2>1. CASE v = w
    <3>1. PICK d : d = c
      OBVIOUS
    <3>2. Knows("verify", d) /\ pc'[v] = "verify" /\ call'[v] = d
      BY <1>9, <1>10, <2>1, <3>1
    <3>3. QED  BY <1>4, <3>2, GrowthKeepsCall
  <2>2. CASE v # w
    BY <1>4, <1>10, <2>2, CallStaysRight
  <2>3. QED  BY <2>1, <2>2
<1>12. QED  BY <1>1, <1>3, <1>4, <1>7, <1>10, <1>11, WorldAudits

\* A reservation carries what was signed, and is allowed as it is stored.
LEMMA ReserveNewAudits ==
  ASSUME AuditInv, NEW w \in Workers, ReserveNew(w)
  PROVE  AuditInv'
<1> DEFINE req == call[w].req
           x == [command |-> req, status |-> "RESERVED"]
<1>1. /\ pc[w] = "reserve" /\ grantStatus[req.auth] = "ISSUED" /\ ~AttemptExists(req.exec)
      /\ decisions' = decisions \union {<<"execution", req.exec>>}
      /\ attempt' = [attempt EXCEPT ![req.exec] = x]
      /\ grantStatus' = [grantStatus EXCEPT ![req.auth] = "RESERVED"]
      /\ pc' = [pc EXCEPT ![w] = "lookup"] /\ UNCHANGED <<grant, receipt, ent, call>>
  BY DEF ReserveNew, CanReserve, Goto
<1>2. CallRight(w)
  BY DEF AuditInv
<1>3. req.auth \in Auths /\ req.exec \in Execs /\ DOMAIN req = ReqFields /\ Binds(req)
  BY <1>1, <1>2 DEF CallRight, Knows
<1>4. /\ attempt'[req.exec] = x /\ grantStatus'[req.auth] = "RESERVED"
      /\ \A e \in Execs \ {req.exec} : attempt'[e] = attempt[e]
      /\ \A a \in Auths \ {req.auth} : grantStatus'[a] = grantStatus[a]
      /\ pc'[w] = "lookup" /\ \A v \in Workers \ {w} : pc'[v] = pc[v]
      /\ AuditShape'
  BY <1>1, <1>3 DEF AuditInv, AuditShape, LedgerShape
<1>5. Growth
  BY <1>1, <1>4 DEF Growth, AttemptExists
<1>6. GrantsRight'
  BY <1>1, <1>4 DEF AuditInv, GrantsRight
<1>7. ASSUME NEW e \in Execs
      PROVE  AttemptRight(e)' /\ ReceiptRight(e)'
  <2>1. CASE e = req.exec
    <3>1. receipt[e].result # "SAFE_NOOP"
      BY <1>1, <2>1 DEF AuditInv, ReceiptRight
    <3>2. AttemptRight(e)'
      BY <1>1, <1>3, <1>4, <2>1 DEF AttemptRight, AttemptExists, Binds
    <3>3. QED  BY <1>1, <3>1, <3>2 DEF ReceiptRight
  <2>2. CASE e # req.exec
    BY <1>1, <1>4, <1>5, <2>2, GrowthKeepsRows
  <2>3. QED  BY <2>1, <2>2
<1>8. \A f \in ent'.effects : EffectRight(f)'
  BY <1>1, <1>5, GrowthKeepsEffect
<1>9. ASSUME NEW v \in Workers
      PROVE  CallRight(v)'
  <2>1. CASE v = w
    BY <1>1, <1>3, <1>4, <2>1 DEF CallRight, Knows, AfterReservation, AfterPosting, AttemptExists
  <2>2. CASE v # w
    BY <1>1, <1>4, <1>5, <2>2, CallStaysRight
  <2>3. QED  BY <2>1, <2>2
<1>10. WorldRight(ent)'
  BY <1>1 DEF AuditInv, WorldRight, ReceiptWorld, InvoiceWorld, SourceEffects
<1>11. QED  BY <1>4, <1>6, <1>7, <1>8, <1>9, <1>10 DEF AuditInv

\* The completion of an attempt, by a call that knows what its result needs.
LEMMA CompletionAudits ==
  ASSUME AuditInv, NEW w \in Workers, pc[w] \in AfterReservation,
         NEW result \in {"EXECUTED", "SAFE_NOOP", "FAILED"},
         NEW status \in {"COMPLETED", "VERIFICATION_FAILED"},
         CompleteAttempt(w, result, status), Return(w), UNCHANGED <<grant, decisions, ent>>,
         result = "SAFE_NOOP" => NoopBacked(call[w].req.exec)
  PROVE  AuditInv'
<1> DEFINE req == call[w].req
<1>1. CASE attempt[req.exec].status # "RESERVED"
  <2>1. Unwritten
    BY <1>1 DEF CompleteAttempt, Unwritten
  <2>2. QED  BY <2>1, ReturnAudits
<1>2. CASE attempt[req.exec].status = "RESERVED"
  <2>1. CallRight(w)
    BY DEF AuditInv
  <2>2. /\ req.auth \in Auths /\ req.exec \in Execs /\ attempt[req.exec].command = req
        /\ AttemptExists(req.exec) /\ grantStatus[req.auth] # "NONE"
    BY <2>1 DEF CallRight, Knows, AfterReservation, AfterPosting
  <2>3. /\ receipt' = [receipt EXCEPT ![req.exec] = ReceiptOf(w, result)]
        /\ attempt' = [attempt EXCEPT ![req.exec].status = status]
        /\ grantStatus' = [grantStatus EXCEPT ![req.auth] = "CONSUMED"]
        /\ pc' = [pc EXCEPT ![w] = "idle"] /\ call' = [call EXCEPT ![w] = NoCall]
    BY <1>2 DEF CompleteAttempt, Return, Goto
  <2>4. DOMAIN NoCall = CallFields
    BY DEF NoCall, CallFields
  <2>5. /\ attempt'[req.exec].command = req /\ attempt'[req.exec].status = status
        /\ DOMAIN attempt'[req.exec] = {"command", "status"}
        /\ receipt'[req.exec].result = result /\ grantStatus'[req.auth] = "CONSUMED"
        /\ \A e \in Execs \ {req.exec} : attempt'[e] = attempt[e] /\ receipt'[e] = receipt[e]
        /\ \A a \in Auths \ {req.auth} : grantStatus'[a] = grantStatus[a]
        /\ pc'[w] = "idle" /\ call'[w] = NoCall
        /\ \A v \in Workers \ {w} : pc'[v] = pc[v] /\ call'[v] = call[v]
    BY <2>2, <2>3 DEF AuditInv, AuditShape, LedgerShape, ReceiptOf
  <2>6. AuditShape'
    BY <2>2, <2>3, <2>4, <2>5 DEF AuditInv, AuditShape, LedgerShape
  <2>7. Growth
    BY <2>2, <2>5 DEF Growth, AttemptExists
  <2>8. GrantsRight'
    BY <2>2, <2>5 DEF AuditInv, GrantsRight
  <2>9. ASSUME NEW e \in Execs
        PROVE  AttemptRight(e)' /\ ReceiptRight(e)'
    <3>1. CASE e = req.exec
      <4>1. AttemptRight(e)
        BY DEF AuditInv
      <4>2. AttemptRight(e)'
        BY <2>2, <2>5, <3>1, <4>1 DEF AttemptRight, AttemptExists, Binds
      <4>3. result = "SAFE_NOOP" => NoopBacked(e)'
        BY <2>2, <2>7, <3>1, GrowthKeepsTool
      <4>4. QED  BY <2>5, <3>1, <4>2, <4>3 DEF ReceiptRight, AttemptExists
    <3>2. CASE e # req.exec
      BY <2>5, <2>7, <3>2, GrowthKeepsRows
    <3>3. QED  BY <3>1, <3>2
  <2>10. \A f \in ent'.effects : EffectRight(f)'
    BY <2>7, GrowthKeepsEffect
  <2>11. ASSUME NEW v \in Workers
         PROVE  CallRight(v)'
    <3>1. CASE v = w
      BY <2>5, <3>1 DEF CallRight, Knows, AfterReservation, AfterPosting
    <3>2. CASE v # w
      BY <2>5, <2>7, <3>2, CallStaysRight
    <3>3. QED  BY <3>1, <3>2
  <2>12. WorldRight(ent)'
    BY DEF AuditInv, WorldRight, ReceiptWorld, InvoiceWorld, SourceEffects
  <2>13. QED  BY <2>6, <2>8, <2>9, <2>10, <2>11, <2>12 DEF AuditInv
<1>3. QED  BY <1>1, <1>2

LEMMA CompleteVerifiedAudits ==
  ASSUME AuditInv, NEW w \in Workers, CompleteVerified(w)
  PROVE  AuditInv'
<1>1. CallRight(w) /\ pc[w] = "complete" /\ Return(w) /\ UNCHANGED <<grant, decisions, ent>>
  BY DEF AuditInv, CompleteVerified
<1>2. CASE CompleteAttempt(w, call[w].outcome, "COMPLETED")
  <2>1. PICK result : result = call[w].outcome
    OBVIOUS
  <2>2. /\ result \in {"EXECUTED", "SAFE_NOOP", "FAILED"}
        /\ result = "SAFE_NOOP" => NoopBacked(call[w].req.exec)
        /\ pc[w] \in AfterReservation
    BY <1>1, <2>1 DEF CallRight, Knows, AfterReservation, AfterPosting
  <2>3. CompleteAttempt(w, result, "COMPLETED")
    BY <1>2, <2>1 DEF CompleteAttempt
  <2>4. QED  BY <1>1, <2>2, <2>3, CompletionAudits
<1>3. CASE UNCHANGED <<receipt, attempt, grantStatus>>
  BY <1>1, <1>3, ReturnAudits DEF Unwritten
<1>4. QED  BY <1>2, <1>3 DEF CompleteVerified

LEMMA FailureAudits ==
  ASSUME AuditInv, NEW w \in Workers, FailAttempt(w) \/ CompleteUnverified(w)
  PROVE  AuditInv'
<1>1. /\ pc[w] \in AfterReservation /\ Return(w) /\ UNCHANGED <<grant, decisions, ent>>
      /\ CompleteAttempt(w, "FAILED", "VERIFICATION_FAILED")
  BY DEF FailAttempt, CompleteUnverified, AfterReservation, AfterPosting
<1>2. QED  BY <1>1, CompletionAudits

LEMMA CrashAudits ==
  ASSUME AuditInv, NEW w \in Workers, Crash(w)
  PROVE  AuditInv'
BY ReturnAudits DEF Crash, Unwritten, caseDb

\* Every step of a call keeps the ledgers acceptable.
LEMMA StepAudits ==
  ASSUME AuditInv, NEW w \in Workers, Step(w)
  PROVE  AuditInv'
BY GetGrantAudits, GetAttemptAudits, EvaluateAudits, SaveDenialAudits, GetCaseAudits,
   ReserveAgainAudits, ReserveNewAudits, ReserveRefusedAudits, RecoverAudits,
   LookupEffectAudits, MutateKnownKeyAudits, MutateExternallyDoneAudits, MutatePostAudits,
   MutateRefusedAudits, ReadStateAudits, DenyPreconditionAudits, FailureAudits, VerifyAudits,
   GetCaseAgainAudits, CompleteVerifiedAudits
   DEF Step

-----------------------------------------------------------------------------
(* The ledgers over a whole run. *)

\* What a fixture starts with was all done outside.
LEMMA SeedIsRight ==
  ASSUME NEW r, NEW q, NEW h, NEW e, e = SeededEnterprise(r, q, h)
  PROVE  WorldRight(e) /\ e.effects = {}
BY DEF SeededEnterprise, WorldRight, ReceiptWorld, InvoiceWorld, SourceEffects, EntFields,
       MessageFields

LEMMA PostedFixtureIsRight ==
  ASSUME NEW e, e = GoldenFixture("posted")
  PROVE  WorldRight(e) /\ \A f \in e.effects : EffectRight(f)
<1> DEFINE seed == SeededEnterprise(TRUE, OrderedQuantity, FALSE)
           x    == ExternalReceipt
           new  == NewEffect(Receipt, x, x, 0)
           done == Posted(seed, Receipt, x, x, 0)
<1>1. WorldRight(seed) /\ seed.effects = {}
  BY SeedIsRight
<1>2. Preconditions(seed, Receipt, 1)
  <2>1. OrderedQuantity - MissingQuantity + MissingQuantity = OrderedQuantity
    BY QuantityAssumption
  <2>2. QED  BY <2>1 DEF Preconditions, ReceiptPreconditions, SeededEnterprise
<1>3. e = Retagged(done, Receipt)
  BY DEF GoldenFixture
<1>4. DOMAIN new = EffectFields /\ new.tool = Receipt /\ new.exec = x /\ new.key = x
      /\ new.type = LocalType(Receipt)
  BY DEF NewEffect, EffectFields
<1> HIDE DEF seed, new
<1>5. WorldRight(done) /\ done.effects = {new}
  <2>1. Receipt \in Tools
    BY TheTools
  <2>2. QED  BY <1>1, <1>2, <2>1, PostingIsRight DEF new
<1> HIDE DEF done
<1>6. WorldRight(e) /\ e.effects = {Tagged(new, Receipt)}
  BY <1>3, <1>4, <1>5, TheTools, RetaggingIsRight
<1> DEFINE told == Tagged(new, Receipt)
<1>7. /\ DOMAIN told = EffectFields /\ told.tool = Receipt /\ told.exec = x /\ told.key = x
      /\ told.type \in {LocalType(Receipt), ExternalType(Receipt)}
  BY <1>4, TaggedFacts
<1> HIDE DEF told
<1>8. EffectRight(told)
  BY <1>7, TheTools DEF EffectRight, OutsideRight, ExternalIds
<1>9. QED  BY <1>6, <1>8 DEF told

LEMMA FixtureIsRight ==
  ASSUME NEW fixture \in {"lock", "posted", "short"}, NEW e, e = GoldenFixture(fixture)
  PROVE  WorldRight(e) /\ \A f \in e.effects : EffectRight(f) /\ OutsideRight(f)
<1>1. CASE fixture # "posted"
  <2>1. \E q : e = SeededEnterprise(TRUE, q, FALSE)
    BY <1>1 DEF GoldenFixture
  <2>2. QED  BY <2>1, SeedIsRight
<1>2. CASE fixture = "posted"
  <2>1. WorldRight(e) /\ \A f \in e.effects : EffectRight(f)
    BY <1>2, PostedFixtureIsRight
  <2>2. \A f \in e.effects : f.exec \notin Execs
    BY FixtureFacts
  <2>3. QED  BY <2>1, <2>2 DEF EffectRight, LocalRight
<1>3. QED  BY <1>1, <1>2

\* Nothing was signed, tried or done yet.
LEMMA AuditStarts == GoldenInit => AuditInv
<1> SUFFICES ASSUME GoldenInit PROVE AuditInv
  OBVIOUS
<1>1. DOMAIN NoCall = CallFields /\ DOMAIN NoAttempt = {"command", "status"}
      /\ NoAttempt.status = "NONE" /\ NoAttempt.command = NoCommand
      /\ NoReceipt.result = "NONE"
  BY DEF NoCall, CallFields, NoAttempt, NoReceipt
<1>2. /\ grant = [a \in Auths |-> NoGrant] /\ grantStatus = [a \in Auths |-> "NONE"]
      /\ attempt = [e \in Execs |-> NoAttempt] /\ receipt = [e \in Execs |-> NoReceipt]
      /\ pc = [w \in Workers |-> "idle"] /\ call = [w \in Workers |-> NoCall]
      /\ \E r, q, h : ent = SeededEnterprise(r, q, h)
  BY DEF GoldenInit, Init
<1>3. AuditShape /\ GrantsRight
  BY <1>1, <1>2 DEF AuditShape, LedgerShape, GrantsRight
<1>4. \A e \in Execs : AttemptRight(e) /\ ReceiptRight(e)
  BY <1>1, <1>2 DEF AttemptRight, ReceiptRight, AttemptExists
<1>5. \A w \in Workers : CallRight(w)
  BY <1>2 DEF CallRight, Knows, AfterReservation, AfterPosting
<1>6. WorldRight(ent) /\ ent.effects = {}
  BY <1>2, SeedIsRight
<1>7. QED  BY <1>3, <1>4, <1>5, <1>6 DEF AuditInv

\* The recovery that runs freely.
LEMMA FreeAudits ==
  ASSUME AuditInv, Next
  PROVE  AuditInv'
<1>1. ASSUME NEW a \in Auths, NEW p \in Principals, NEW params \in Params, Approve(a, p, params)
      PROVE  AuditInv'
  BY <1>1, ApproveAudits DEF Params
<1>2. CASE CaseCommand
  BY <1>1, <1>2, QuietAudits
     DEF CaseCommand, Detect, RecordInvestigationOutcome, RequestApproval, AdmitEvidence, Unwritten
<1>3. CASE Environment
  <2>1. CASE Tick
    BY <2>1, QuietAudits DEF Tick, Unwritten, caseDb
  <2>2. CASE \/ AdvanceFailedMessageRevision \/ SetInvoiceHold
             \/ \E q \in DriftQuantities : SetErpReceiptQuantity(q)
    BY <2>2, DriftAudits
       DEF AdvanceFailedMessageRevision, SetInvoiceHold, SetErpReceiptQuantity, caseDb
  <2>3. QED
    BY <1>3, <2>1, <2>2, ExternalCommitAudits, ExternalRetagAudits DEF Environment
<1>4. ASSUME NEW w \in Workers, NEW req \in Requests, Begin(w, req)
      PROVE  AuditInv'
  <2>1. req.auth \in Auths /\ req.exec \in Execs /\ DOMAIN req = ReqFields
    BY RequestAssumption DEF RequestType, ReqFields
  <2>2. QED  BY <1>4, <2>1, BeginAudits
<1>5. QED  BY <1>2, <1>3, <1>4, StepAudits, CrashAudits DEF Next

\* seed_from_fixture: nothing stands on the database it replaces.
LEMMA RunSeedAudits ==
  ASSUME AuditInv, Scene, RunSeed
  PROVE  AuditInv'
<1>1. /\ run.at = "seed" /\ run.manifest.fixture \in {"lock", "posted", "short"}
      /\ ent' = GoldenFixture(run.manifest.fixture)
      /\ UNCHANGED <<grant, grantStatus, decisions, attempt, receipt, pc, call>>
  BY DEF Scene, Standing, RunShape, RunSeed, At, ManifestType, caseDb
<1>2. ent = GoldenFixture("lock")
  BY <1>1 DEF Scene, Positions, EarlyInv, EarlyPoints
<1>3. ent.effects = {}
  BY <1>2, LockFixture
<1>4. Growth
  BY <1>1, <1>3 DEF Growth, AttemptExists
<1>5. WorldRight(ent)' /\ \A f \in ent'.effects : DOMAIN f = EffectFields /\ f.tool \in Tools
      /\ OutsideRight(f)
  BY <1>1, FixtureIsRight DEF EffectRight
<1>6. \A f \in ent'.effects : EffectRight(f)'
  BY <1>5 DEF EffectRight, OutsideRight
<1>7. QED  BY <1>1, <1>4, <1>5, <1>6, WorldAudits, EnvironmentShape, CallsStayRight

\* The runner's commands on the case, and its bookkeeping.
LEMMA RunCommandAudits ==
  ASSUME AuditInv, \/ RunDetect \/ RunAssess \/ RunRequestReceipt \/ RunApproveReceipt
                   \/ RunRequestInvoice \/ RunApproveInvoice
                   \/ RunExecuted \/ RunReused \/ RunReleased
  PROVE  AuditInv'
<1>1. CASE Quiet
  BY <1>1, QuietAudits DEF Quiet, vars, caseDb, Unwritten
<1>2. ASSUME \/ Detect \/ \E event : RecordInvestigationOutcome(event)
             \/ \E tool : RequestApproval(tool)
      PROVE  AuditInv'
  BY <1>2, QuietAudits DEF Detect, RecordInvestigationOutcome, RequestApproval, Unwritten
<1>3. ASSUME NEW a \in {ReceiptAuth, InvoiceAuth}, NEW p, NEW tool \in Tools,
             Approve(a, p, Parameters(tool))
      PROVE  AuditInv'
  <2>1. a \in Auths /\ Parameters(tool).tool \in Tools
    BY RunnerAssumption DEF Parameters
  <2>2. QED  BY <1>3, <2>1, ApproveAudits
<1>4. CASE RunApproveReceipt
  BY <1>1, <1>3, <1>4, TheTools DEF RunApproveReceipt
<1>5. CASE RunApproveInvoice
  BY <1>1, <1>3, <1>5, TheTools DEF RunApproveInvoice
<1>6. CASE RunDetect \/ RunAssess \/ RunRequestReceipt \/ RunRequestInvoice
  BY <1>1, <1>2, <1>6 DEF RunDetect, RunAssess, RunRequestReceipt, RunRequestInvoice
<1>7. QED
  BY <1>1, <1>4, <1>5, <1>6 DEF RunExecuted, RunReused, RunReleased

\* What the runner lets happen around the call, and its faults.
LEMMA RunWorldAudits ==
  ASSUME AuditInv, RunChange \/ RunHook \/ RunFault
  PROVE  AuditInv'
<1>1. CASE Quiet
  BY <1>1, QuietAudits DEF Quiet, vars, caseDb, Unwritten
<1>2. CASE \/ AdvanceFailedMessageRevision
           \/ SetErpReceiptQuantity(OrderedQuantity - MissingQuantity)
  BY <1>2, DriftAudits DEF AdvanceFailedMessageRevision, SetErpReceiptQuantity, caseDb
<1>3. CASE \E item \in LateEvidence : AdmitEvidence(item)
  BY <1>3, QuietAudits DEF AdmitEvidence, Unwritten
<1>4. CASE UNCHANGED <<caseDb, ent, pending, pc, call, crashes, log>>
  BY <1>4, QuietAudits DEF Unwritten, caseDb
<1>5. CASE ExternalRetag(Receipt) \/ ExternalCommit(Receipt)
  BY <1>5, TheTools, ExternalRetagAudits, ExternalCommitAudits
<1>6. CASE Crash(Caller)
  BY <1>6, CallerIs, CrashAudits
<1>7. CASE RunChange
  BY <1>1, <1>2, <1>3, <1>7 DEF RunChange
<1>8. CASE RunHook
  BY <1>1, <1>4, <1>5, <1>8 DEF RunHook
<1>9. CASE RunFault
  BY <1>2, <1>6, <1>9 DEF RunFault
<1>10. QED  BY <1>7, <1>8, <1>9

\* The calls the runner makes.
LEMMA RunCallAudits ==
  ASSUME AuditInv, RunExecute \/ RunRelease
  PROVE  AuditInv'
<1>1. ASSUME NEW auth \in Auths, NEW exec \in Execs, NEW key, NEW p, NEW params,
             Begin(Caller, Request(auth, exec, key, p, params))
      PROVE  AuditInv'
  <2> DEFINE req == Request(auth, exec, key, p, params)
  <2>1. req.auth \in Auths /\ req.exec \in Execs /\ DOMAIN req = ReqFields
    BY DEF Request, ReqFields
  <2> HIDE DEF req
  <2>2. QED  BY <1>1, <2>1, CallerIs, BeginAudits DEF req
<1>2. /\ ReceiptAuth \in Auths /\ InvoiceAuth \in Auths
      /\ ReceiptExec \in Execs /\ InvoiceExec \in Execs /\ ReplayExec \in Execs
  BY RunnerAssumption
<1>3. CASE RunExecute
  BY <1>1, <1>2, <1>3 DEF RunExecute, ReceiptRequest
<1>4. CASE RunRelease
  BY <1>1, <1>2, <1>4 DEF RunRelease
<1>5. QED  BY <1>3, <1>4

LEMMA AuditStays == GoldenInv /\ AuditInv /\ [GoldenNext]_goldenVars => AuditInv'
<1> SUFFICES ASSUME GoldenInv, AuditInv, [GoldenNext]_goldenVars PROVE AuditInv'
  OBVIOUS
<1>1. CASE RunSeed
  BY <1>1, RunSeedAudits DEF GoldenInv, Scene, RunSeed, At
<1>2. CASE RunStep
  BY <1>2, CallerIs, StepAudits DEF RunStep
<1>3. CASE Script
  BY <1>1, <1>2, <1>3, RunCommandAudits, RunWorldAudits, RunCallAudits DEF Script
<1>4. CASE Free
  BY <1>4, FreeAudits DEF Free
<1>5. CASE UNCHANGED goldenVars
  BY <1>5, QuietAudits DEF goldenVars, auditVars, vars, caseDb, Unwritten
<1>6. QED  BY <1>3, <1>4, <1>5 DEF GoldenNext

-----------------------------------------------------------------------------
(* The documents that calls and receipts list. *)

\* Calls and their rows are untouched, documents are only added, and no
\* execution gets an effect.
LEMMA OthersList ==
  ASSUME AuditInv, DocInv, UNCHANGED <<pc, call, attempt, receipt>>,
         \A e \in Execs : AttemptExists(e) => ToolOf(e)' = ToolOf(e),
         ent.docs \subseteq ent'.docs,
         \A e \in Execs : ReceiptOn(e)' => ReceiptOn(e)
  PROVE  DocInv'
<1>1. ASSUME NEW v \in Workers
      PROVE  CallListed(v)' /\ (CallSole(v) => CallSole(v)')
  <2>1. CallRight(v) /\ CallListed(v)
    BY DEF AuditInv, DocInv
  <2>2. CASE pc[v] = "idle"
    BY <2>1, <2>2 DEF CallListed, Listed, CallSole, Sole, AfterReservation, AfterPosting,
                      DocumentsRead
  <2>3. CASE pc[v] # "idle"
    <3>1. call[v].req.exec \in Execs
      BY <2>1, <2>3 DEF CallRight, Knows
    <3>2. pc[v] \in {"getCaseAgain", "complete"} => AttemptExists(call[v].req.exec)
      BY <2>1 DEF CallRight, Knows, AfterReservation, AfterPosting
    <3>3. CallListed(v)'
      BY <2>1, <3>1, <3>2 DEF CallListed, Listed
    <3>4. CallSole(v) => CallSole(v)'
      BY <3>1 DEF CallSole, Sole, AttemptExists
    <3>5. QED  BY <3>3, <3>4
  <2>4. QED  BY <2>2, <2>3
<1>2. \A e \in Execs : ReceiptListed(e)'
  BY DEF DocInv, ReceiptListed, AttemptExists
<1>3. \A e \in Execs : ReceiptSole(e) => ReceiptSole(e)'
  BY DEF ReceiptSole
<1>4. QED  BY <1>1, <1>2, <1>3 DEF DocInv

\* The rest of the state is.
LEMMA QuietLists ==
  ASSUME AuditInv, DocInv, UNCHANGED <<grant, attempt, receipt, ent, pc, call>>
  PROVE  DocInv'
BY OthersList DEF ToolOf, ReceiptOn

\* One call reads and moves on.
LEMMA CallOnlyLists ==
  ASSUME AuditInv, DocInv, UNCHANGED <<grant, attempt, receipt, ent>>, NEW w \in Workers,
         NEW p, NEW c, pc' = [pc EXCEPT ![w] = p], call' = [call EXCEPT ![w] = c],
         Listed(p, c), OneCaller => Sole(p, c)
  PROVE  DocInv'
<1>1. /\ pc'[w] = p /\ call'[w] = c
      /\ \A v \in Workers \ {w} : pc'[v] = pc[v] /\ call'[v] = call[v]
  BY DEF AuditInv, AuditShape
<1>2. ASSUME NEW v \in Workers
      PROVE  CallListed(v)'
  BY <1>1 DEF DocInv, CallListed, Listed, ToolOf
<1>3. ASSUME OneCaller, NEW v \in Workers
      PROVE  CallSole(v)'
  <2>1. v = w
    BY <1>3 DEF OneCaller
  <2>2. Sole(p, c)
    BY <1>3
  <2>3. QED  BY <1>1, <2>1, <2>2 DEF CallSole, Sole, AttemptExists, ReceiptOn
<1>4. \A e \in Execs : ReceiptListed(e)' /\ (ReceiptSole(e) => ReceiptSole(e)')
  BY DEF DocInv, ReceiptListed, ReceiptSole, AttemptExists, ToolOf, ReceiptOn
<1>5. QED  BY <1>2, <1>3, <1>4 DEF DocInv

\* A call that returns, is denied, or goes on with what it holds.
LEMMA ReturnLists ==
  ASSUME AuditInv, DocInv, UNCHANGED <<grant, attempt, receipt, ent>>, NEW w \in Workers,
         Return(w)
  PROVE  DocInv'
<1>1. Listed("idle", NoCall) /\ Sole("idle", NoCall)
  BY DEF Listed, Sole, NoCall, AfterReservation, AfterPosting, DocumentsRead
<1>2. QED  BY <1>1, CallOnlyLists DEF Return, Goto

LEMMA GoesOnLists ==
  ASSUME AuditInv, DocInv, UNCHANGED <<grant, attempt, receipt, ent>>, NEW w \in Workers,
         NEW p, NEW c, pc' = [pc EXCEPT ![w] = p], call' = [call EXCEPT ![w] = c],
         c.req = call[w].req, c.docs = call[w].docs, c.verified = call[w].verified,
         \/ pc[w] \notin {"getCaseAgain", "complete"}
         \/ pc[w] = "getCaseAgain" /\ p = "complete",
         OneCaller => Sole(p, c)
  PROVE  DocInv'
<1>1. CallListed(w)
  BY DEF DocInv
<1>2. Listed(p, c)
  BY <1>1 DEF CallListed, Listed
<1>3. QED  BY <1>2, CallOnlyLists

LEMMA DenyLists ==
  ASSUME AuditInv, DocInv, UNCHANGED <<grant, attempt, receipt, ent>>, NEW w \in Workers,
         NEW kind, Deny(w, kind), pc[w] \notin {"getCaseAgain", "complete"}
  PROVE  DocInv'
<1> DEFINE c == [call[w] EXCEPT !.denial = kind]
<1>1. /\ c.req = call[w].req /\ c.docs = call[w].docs /\ c.verified = call[w].verified
      /\ call' = [call EXCEPT ![w] = c] /\ pc' = [pc EXCEPT ![w] = "deny"]
  BY DEF Deny, Goto, AuditInv, AuditShape, CallFields
<1>2. Sole("deny", c)
  BY DEF Sole, AfterReservation, AfterPosting, DocumentsRead
<1> HIDE DEF c
<1>3. QED  BY <1>1, <1>2, GoesOnLists

LEMMA BeginLists ==
  ASSUME AuditInv, DocInv, NEW w \in Workers, NEW req, Begin(w, req)
  PROVE  DocInv'
<1> DEFINE c == [NoCall EXCEPT !.req = req, !.at = now]
<1>1. c.docs = {} /\ ~c.verified
  BY DEF NoCall
<1>2. Listed("getGrant", c) /\ Sole("getGrant", c)
  BY <1>1 DEF Listed, Sole, AfterReservation, AfterPosting, DocumentsRead
<1>3. QED  BY <1>2, CallOnlyLists DEF Begin, Goto, caseDb

LEMMA GetGrantLists ==
  ASSUME AuditInv, DocInv, NEW w \in Workers, GetGrant(w)
  PROVE  DocInv'
<1> DEFINE status == grantStatus[call[w].req.auth]
           c == [call[w] EXCEPT !.seenGrant = status]
<1>1. UNCHANGED <<grant, attempt, receipt, ent>> /\ pc[w] = "getGrant"
  BY DEF GetGrant, caseDb
<1>2. CASE status = "NONE"
  BY <1>1, <1>2, ReturnLists DEF GetGrant
<1>3. CASE status # "NONE"
  <2>1. /\ c.req = call[w].req /\ c.docs = call[w].docs /\ c.verified = call[w].verified
        /\ call' = [call EXCEPT ![w] = c] /\ pc' = [pc EXCEPT ![w] = "getAttempt"]
    BY <1>3 DEF GetGrant, Goto, AuditInv, AuditShape, CallFields
  <2>2. Sole("getAttempt", c)
    BY DEF Sole, AfterReservation, AfterPosting, DocumentsRead
  <2> HIDE DEF c
  <2>3. QED  BY <1>1, <2>1, <2>2, GoesOnLists
<1>4. QED  BY <1>2, <1>3

LEMMA GetAttemptLists ==
  ASSUME AuditInv, DocInv, NEW w \in Workers, GetAttempt(w)
  PROVE  DocInv'
<1> DEFINE status == attempt[call[w].req.exec].status
           c == [call[w] EXCEPT !.seenAttempt = status]
<1>1. UNCHANGED <<grant, attempt, receipt, ent>> /\ pc[w] = "getAttempt"
  BY DEF GetAttempt, caseDb
<1>2. CASE status = "NONE" /\ call[w].seenGrant = "ISSUED"
  <2>1. Sole("evaluate", call[w])
    BY <1>2 DEF Sole, AttemptExists, AfterReservation, AfterPosting, DocumentsRead
  <2>2. call' = [call EXCEPT ![w] = call[w]] /\ pc' = [pc EXCEPT ![w] = "evaluate"]
    BY <1>2 DEF GetAttempt, Goto, AuditInv, AuditShape
  <2>3. QED  BY <1>1, <2>1, <2>2, GoesOnLists
<1>3. CASE status = "NONE" /\ call[w].seenGrant # "ISSUED"
  BY <1>1, <1>3, DenyLists DEF GetAttempt
<1>4. CASE status # "NONE"
  <2>1. /\ c.req = call[w].req /\ c.docs = call[w].docs /\ c.verified = call[w].verified
        /\ c.seenAttempt = status
        /\ call' = [call EXCEPT ![w] = c] /\ pc' = [pc EXCEPT ![w] = "recover"]
    BY <1>4 DEF GetAttempt, Goto, AuditInv, AuditShape, CallFields
  <2>2. Sole("recover", c)
    BY <2>1 DEF Sole, AfterReservation, AfterPosting, DocumentsRead
  <2> HIDE DEF c
  <2>3. QED  BY <1>1, <2>1, <2>2, GoesOnLists
<1>5. QED  BY <1>2, <1>3, <1>4

\* A step that only moves a call to a point that asks for no more.
LEMMA GotoLists ==
  ASSUME AuditInv, DocInv, UNCHANGED <<grant, attempt, receipt, ent, call>>,
         NEW w \in Workers, NEW p, Goto(w, p), pc[w] \notin {"getCaseAgain", "complete"},
         OneCaller => Sole(p, call[w])
  PROVE  DocInv'
<1>1. call' = [call EXCEPT ![w] = call[w]]
  BY DEF AuditInv, AuditShape
<1>2. QED  BY <1>1, GoesOnLists DEF Goto

LEMMA SoleIs ==
  ASSUME DocInv, OneCaller, NEW w \in Workers
  PROVE  Sole(pc[w], call[w])
BY DEF DocInv, CallSole

LEMMA EvaluateLists ==
  ASSUME AuditInv, DocInv, NEW w \in Workers, Evaluate(w)
  PROVE  DocInv'
<1>1. UNCHANGED <<grant, attempt, receipt, ent>> /\ pc[w] = "evaluate"
  BY DEF Evaluate, caseDb
<1>2. OneCaller => Sole("getCase", call[w])
  BY <1>1, SoleIs DEF Sole, AfterReservation, AfterPosting, DocumentsRead
<1>3. QED  BY <1>1, <1>2, GotoLists, DenyLists DEF Evaluate

LEMMA GetCaseLists ==
  ASSUME AuditInv, DocInv, NEW w \in Workers, GetCase(w) \/ GetCaseAgain(w)
  PROVE  DocInv'
<1> DEFINE c == [call[w] EXCEPT !.version = case.version]
<1>1. /\ UNCHANGED <<grant, attempt, receipt, ent>>
      /\ c.req = call[w].req /\ c.docs = call[w].docs /\ c.verified = call[w].verified
      /\ call' = [call EXCEPT ![w] = c]
  BY DEF GetCase, GetCaseAgain, caseDb, AuditInv, AuditShape, CallFields
<1> HIDE DEF c
<1>2. CASE GetCase(w)
  <2>1. pc[w] = "getCase" /\ pc' = [pc EXCEPT ![w] = "reserve"]
    BY <1>2 DEF GetCase, Goto
  <2>2. OneCaller => Sole("reserve", c)
    BY <1>1, <2>1, SoleIs DEF Sole, AfterReservation, AfterPosting, DocumentsRead
  <2>3. QED  BY <1>1, <2>1, <2>2, GoesOnLists
<1>3. CASE GetCaseAgain(w)
  <2>1. pc[w] = "getCaseAgain" /\ pc' = [pc EXCEPT ![w] = "complete"]
    BY <1>3 DEF GetCaseAgain, Goto
  <2>2. OneCaller => Sole("complete", c)
    BY <1>1, <2>1, SoleIs DEF Sole, AfterReservation, AfterPosting, DocumentsRead
  <2>3. QED  BY <1>1, <2>1, <2>2, GoesOnLists
<1>4. QED  BY <1>2, <1>3

\* The one caller never finds its attempt stored: it looked for it before.
LEMMA ReserveAgainLists ==
  ASSUME AuditInv, DocInv, NEW w \in Workers, ReserveAgain(w)
  PROVE  DocInv'
<1> DEFINE req == call[w].req
<1>1. UNCHANGED <<grant, attempt, receipt, ent>> /\ pc[w] = "reserve" /\ CallRight(w)
  BY DEF ReserveAgain, caseDb, AuditInv
<1>2. CASE \E e \in Execs : attempt[e].command = req
  <2>1. PICK e \in Execs : attempt[e].command = req
    BY <1>2
  <2>2. DOMAIN req = ReqFields /\ DOMAIN NoCommand = {"auth"}
    BY <1>1 DEF CallRight, Knows, NoCommand
  <2>3. req # NoCommand
    BY <2>2 DEF ReqFields
  <2>4. AttemptExists(req.exec)
    BY <2>1, <2>3 DEF AuditInv, AttemptRight
  <2>5. OneCaller => Sole("lookup", call[w])
    BY <1>1, <2>4, SoleIs DEF Sole
  <2>6. QED  BY <1>1, <1>2, <2>5, GotoLists DEF ReserveAgain
<1>3. CASE ~\E e \in Execs : attempt[e].command = req
  BY <1>1, <1>3, ReturnLists DEF ReserveAgain
<1>4. QED  BY <1>2, <1>3

LEMMA RecoverLists ==
  ASSUME AuditInv, DocInv, NEW w \in Workers, Recover(w)
  PROVE  DocInv'
<1>1. UNCHANGED <<grant, attempt, receipt, ent>> /\ pc[w] = "recover"
  BY DEF Recover, caseDb
<1>2. ASSUME call[w].seenAttempt = "RESERVED"
      PROVE  OneCaller => Sole("lookup", call[w])
  BY <1>1, <1>2, SoleIs DEF Sole, AfterReservation, AfterPosting, DocumentsRead
<1>3. QED  BY <1>1, <1>2, DenyLists, GotoLists, ReturnLists DEF Recover

LEMMA LookupEffectLists ==
  ASSUME AuditInv, DocInv, NEW w \in Workers, LookupEffect(w)
  PROVE  DocInv'
<1>1. UNCHANGED <<grant, attempt, receipt, ent>> /\ pc[w] = "lookup"
  BY DEF LookupEffect, caseDb
<1>2. OneCaller => Sole("mutate", call[w])
  BY <1>1, SoleIs DEF Sole, AfterReservation, AfterPosting, DocumentsRead
<1>3. QED  BY <1>1, <1>2, DenyLists, GotoLists DEF LookupEffect

LEMMA FoundLists ==
  ASSUME AuditInv, DocInv, UNCHANGED <<grant, attempt, receipt, ent>>, NEW w \in Workers,
         pc[w] = "mutate", NEW f, NEW outcome, MutatedTo(w, f, outcome)
  PROVE  DocInv'
<1> DEFINE c == [call[w] EXCEPT !.effect = f, !.outcome = outcome]
<1>1. /\ c.req = call[w].req /\ c.docs = call[w].docs /\ c.verified = call[w].verified
      /\ call' = [call EXCEPT ![w] = c] /\ pc' = [pc EXCEPT ![w] = "verify"]
  BY DEF MutatedTo, Goto, AuditInv, AuditShape, CallFields
<1> HIDE DEF c
<1>2. OneCaller => Sole("verify", c)
  BY <1>1, SoleIs DEF Sole, AfterReservation, AfterPosting, DocumentsRead
<1>3. QED  BY <1>1, <1>2, GoesOnLists

LEMMA MutateLists ==
  ASSUME AuditInv, DocInv, NEW w \in Workers,
         MutateKnownKey(w) \/ MutateExternallyDone(w) \/ MutateRefused(w)
  PROVE  DocInv'
<1>1. UNCHANGED <<grant, attempt, receipt, ent>> /\ pc[w] = "mutate"
  BY DEF MutateKnownKey, MutateExternallyDone, MutateRefused, caseDb
<1>2. OneCaller => Sole("readState", call[w])
  BY <1>1, SoleIs DEF Sole, AfterReservation, AfterPosting, DocumentsRead
<1>3. CASE Goto(w, "readState") /\ UNCHANGED call
  BY <1>1, <1>2, <1>3, GotoLists
<1>4. CASE \E f : MutatedTo(w, f, "SAFE_NOOP")
  BY <1>1, <1>4, FoundLists
<1>5. QED  BY <1>3, <1>4 DEF MutateKnownKey, MutateExternallyDone, MutateRefused

\* No document, no effect on the message.
LEMMA UndocumentedIsUndone ==
  ASSUME AuditInv, ent.docs = {}, NEW e
  PROVE  ~ReceiptOn(e)
<1>1. \A f : {DocumentOf(f)} # {}
  OBVIOUS
<1>2. SourceEffects(ent, Receipt) = {}
  BY <1>1 DEF AuditInv, WorldRight, ReceiptWorld
<1>3. QED  BY <1>2 DEF SourceEffects, ReceiptOn

LEMMA ReadStateLists ==
  ASSUME AuditInv, DocInv, NEW w \in Workers, ReadState(w)
  PROVE  DocInv'
<1> DEFINE c == [call[w] EXCEPT !.docs = ent.docs]
<1>1. /\ UNCHANGED <<grant, attempt, receipt, ent>> /\ pc[w] = "readState"
      /\ c.req = call[w].req /\ c.docs = ent.docs /\ c.verified = call[w].verified
      /\ call' = [call EXCEPT ![w] = c] /\ pc' = [pc EXCEPT ![w] = "denyPrecondition"]
  BY DEF ReadState, Goto, caseDb, AuditInv, AuditShape, CallFields
<1> HIDE DEF c
<1>2. CallListed(w)
  BY DEF DocInv
<1>3. Listed("denyPrecondition", c)
  BY <1>1, <1>2 DEF CallListed, Listed
<1>4. OneCaller => Sole("denyPrecondition", c)
  BY <1>1, SoleIs, UndocumentedIsUndone DEF Sole, AfterReservation, AfterPosting, DocumentsRead
<1>5. QED  BY <1>1, <1>3, <1>4, CallOnlyLists

LEMMA DenyPreconditionLists ==
  ASSUME AuditInv, DocInv, NEW w \in Workers, DenyPrecondition(w)
  PROVE  DocInv'
<1>1. UNCHANGED <<grant, attempt, receipt, ent>> /\ pc[w] = "denyPrecondition"
  BY DEF DenyPrecondition
<1>2. OneCaller => Sole("failAttempt", call[w])
  BY <1>1, SoleIs DEF Sole, AfterReservation, AfterPosting, DocumentsRead
<1>3. QED  BY <1>1, <1>2, ReturnLists, GotoLists DEF DenyPrecondition

\* What was verified of a receipt includes its document.
LEMMA VerifyLists ==
  ASSUME AuditInv, DocInv, NEW w \in Workers, Verify(w)
  PROVE  DocInv'
<1> DEFINE req == call[w].req
           tool == grant[req.auth].tool
           ok == Verified(ent, tool, req.exec, req.key, req.params.revision,
                          call[w].effect, call[w].outcome)
           c == [call[w] EXCEPT !.docs = ent.docs, !.verified = ok,
                                !.closes = SatisfiesClosure(ent)]
           p == IF ok THEN "getCaseAgain" ELSE "complete"
<1>1. UNCHANGED <<grant, attempt, receipt, ent>> /\ pc[w] = "verify"
  BY DEF Verify, caseDb
<1>2. ToolOf(req.exec) = tool
  BY <1>1, CallTool DEF AfterReservation, AfterPosting
<1>3. ok /\ tool = Receipt => ent.docs # {}
  BY DEF Verified, ReceiptVerified
<1>4. pc' = [pc EXCEPT ![w] = p]
  BY DEF Verify, Goto
<1> HIDE DEF ok
<1>5. /\ c.req = req /\ c.docs = ent.docs /\ c.verified = ok
      /\ call' = [call EXCEPT ![w] = c]
  BY DEF Verify, AuditInv, AuditShape, CallFields, ok
<1> HIDE DEF c
<1>6. Listed(p, c)
  BY <1>2, <1>3, <1>5 DEF Listed
<1>7. OneCaller => Sole(p, c)
  BY <1>1, <1>5, SoleIs, UndocumentedIsUndone
     DEF Sole, AfterReservation, AfterPosting, DocumentsRead
<1> HIDE DEF p
<1>8. QED  BY <1>1, <1>4, <1>5, <1>6, <1>7, CallOnlyLists

\* The one caller posts for the attempt it holds, which has no receipt yet.
LEMMA MutatePostLists ==
  ASSUME AuditInv, DocInv, NEW w \in Workers, MutatePost(w)
  PROVE  DocInv'
<1> DEFINE req == call[w].req
           tool == grant[req.auth].tool
           new == NewEffect(tool, req.exec, req.key, call[w].at)
           c == [call[w] EXCEPT !.effect = new, !.outcome = "EXECUTED"]
<1>1. /\ pc[w] = "mutate" /\ Preconditions(ent, tool, req.params.revision)
      /\ ent' = Posted(ent, tool, req.exec, req.key, call[w].at)
      /\ UNCHANGED <<grant, attempt, receipt>>
  BY DEF MutatePost, caseDb
<1>2. tool \in Tools /\ req.exec \in Execs
  BY <1>1, CallTool DEF AuditInv, CallRight, Knows, AfterReservation
<1>3. ent'.effects = ent.effects \union {new} /\ new.exec = req.exec
  BY <1>1, <1>2, PostingIsRight DEF AuditInv, NewEffect
<1>4. ent.docs \subseteq ent'.docs
  BY <1>1 DEF Posted, ReceiptPosted, InvoiceReleased, AuditInv, WorldRight, EntFields
<1>5. /\ c.req = req /\ c.docs = call[w].docs /\ c.verified = call[w].verified
      /\ call' = [call EXCEPT ![w] = c] /\ pc' = [pc EXCEPT ![w] = "verify"]
  BY DEF MutatePost, MutatedTo, Goto, AuditInv, AuditShape, CallFields
<1> HIDE DEF c, new
<1>6. /\ pc'[w] = "verify" /\ call'[w] = c
      /\ \A v \in Workers \ {w} : pc'[v] = pc[v] /\ call'[v] = call[v]
  BY <1>5 DEF AuditInv, AuditShape
<1>7. \A e : ToolOf(e)' = ToolOf(e)
  BY <1>1 DEF ToolOf
<1>8. ASSUME NEW v \in Workers
      PROVE  CallListed(v)'
  <2>1. CallListed(v) /\ CallListed(w)
    BY DEF DocInv
  <2>2. QED  BY <1>1, <1>4, <1>5, <1>6, <1>7, <2>1 DEF CallListed, Listed
<1>9. \A e \in Execs : ReceiptListed(e)'
  BY <1>1, <1>4, <1>7 DEF DocInv, ReceiptListed, AttemptExists
<1>10. ASSUME OneCaller
       PROVE  /\ \A v \in Workers : CallSole(v)'
              /\ \A e \in Execs : ReceiptSole(e)'
  <2>1. attempt[req.exec].status = "RESERVED"
    BY <1>1, <1>10, SoleIs DEF Sole, AfterReservation
  <2>2. \A v \in Workers : CallSole(v)'
    BY <1>1, <1>5, <1>6, <1>10, <2>1
       DEF OneCaller, CallSole, Sole, AfterReservation, AfterPosting, DocumentsRead
  <2>3. receipt[req.exec].result = "NONE"
    BY <1>2, <2>1 DEF DocInv, ReceiptListed
  <2>4. \A e \in Execs \ {req.exec} : ReceiptOn(e)' => ReceiptOn(e)
    BY <1>3 DEF ReceiptOn
  <2>5. \A e \in Execs : ReceiptSole(e)
    BY <1>10 DEF DocInv
  <2>6. \A e \in Execs : ReceiptSole(e)'
    BY <1>1, <2>3, <2>4, <2>5 DEF ReceiptSole
  <2>7. QED  BY <2>2, <2>6
<1>11. QED  BY <1>8, <1>9, <1>10 DEF DocInv

LEMMA ReserveNewLists ==
  ASSUME AuditInv, DocInv, NEW w \in Workers, ReserveNew(w)
  PROVE  DocInv'
<1> DEFINE req == call[w].req
           x == [command |-> req, status |-> "RESERVED"]
<1>1. /\ pc[w] = "reserve" /\ ~AttemptExists(req.exec)
      /\ attempt' = [attempt EXCEPT ![req.exec] = x]
      /\ pc' = [pc EXCEPT ![w] = "lookup"] /\ UNCHANGED <<grant, receipt, ent, call>>
  BY DEF ReserveNew, CanReserve, Goto
<1>2. req.exec \in Execs
  BY <1>1 DEF AuditInv, CallRight, Knows
<1>3. /\ attempt'[req.exec] = x /\ \A e \in Execs \ {req.exec} : attempt'[e] = attempt[e]
      /\ pc'[w] = "lookup" /\ \A v \in Workers \ {w} : pc'[v] = pc[v]
  BY <1>1, <1>2 DEF AuditInv, AuditShape, LedgerShape
<1>4. \A e \in Execs : AttemptExists(e) => ToolOf(e)' = ToolOf(e) /\ attempt'[e] = attempt[e]
  BY <1>1, <1>3 DEF ToolOf
<1>5. ASSUME NEW v \in Workers
      PROVE  CallListed(v)'
  <2>1. CallListed(v) /\ CallRight(v)
    BY DEF DocInv, AuditInv
  <2>2. CASE v = w
    BY <1>1, <1>3, <2>1, <2>2 DEF CallListed, Listed
  <2>3. CASE v # w
    <3>1. pc[v] \in {"getCaseAgain", "complete"} =>
            AttemptExists(call[v].req.exec) /\ call[v].req.exec \in Execs
      BY <2>1 DEF CallRight, Knows, AfterReservation, AfterPosting
    <3>2. QED  BY <1>1, <1>3, <1>4, <2>1, <2>3, <3>1 DEF CallListed, Listed
  <2>4. QED  BY <2>2, <2>3
<1>6. \A e \in Execs : ReceiptListed(e)'
  BY <1>1, <1>4 DEF DocInv, ReceiptListed, AttemptExists
<1>7. ASSUME OneCaller
      PROVE  /\ \A v \in Workers : CallSole(v)'
             /\ \A e \in Execs : ReceiptSole(e)'
  <2>1. \A v \in Workers : CallSole(v)'
    BY <1>1, <1>3, <1>7
       DEF OneCaller, CallSole, Sole, AfterReservation, AfterPosting, DocumentsRead
  <2>2. \A e \in Execs : ReceiptSole(e)'
    BY <1>1, <1>7 DEF DocInv, ReceiptSole, ReceiptOn
  <2>3. QED  BY <2>1, <2>2
<1>8. QED  BY <1>5, <1>6, <1>7 DEF DocInv

\* The receipt lists what its call read.
LEMMA CompletionLists ==
  ASSUME AuditInv, DocInv, NEW w \in Workers, pc[w] \in DocumentsRead,
         NEW result \in {"EXECUTED", "SAFE_NOOP", "FAILED"},
         NEW status \in {"COMPLETED", "VERIFICATION_FAILED"},
         CompleteAttempt(w, result, status), Return(w), UNCHANGED <<grant, ent>>,
         call[w].verified <=> result # "FAILED"
  PROVE  DocInv'
<1> DEFINE req == call[w].req
<1>1. CASE attempt[req.exec].status # "RESERVED"
  BY <1>1, ReturnLists DEF CompleteAttempt
<1>2. CASE attempt[req.exec].status = "RESERVED"
  <2>1. CallRight(w) /\ CallListed(w)
    BY DEF AuditInv, DocInv
  <2>2. req.exec \in Execs /\ AttemptExists(req.exec)
    BY <2>1 DEF CallRight, Knows, AfterReservation, AfterPosting, DocumentsRead
  <2>3. /\ receipt' = [receipt EXCEPT ![req.exec] = ReceiptOf(w, result)]
        /\ attempt' = [attempt EXCEPT ![req.exec].status = status]
        /\ pc' = [pc EXCEPT ![w] = "idle"] /\ call' = [call EXCEPT ![w] = NoCall]
    BY <1>2 DEF CompleteAttempt, Return, Goto
  <2>4. /\ attempt'[req.exec].command = attempt[req.exec].command
        /\ attempt'[req.exec].status = status
        /\ receipt'[req.exec] = ReceiptOf(w, result)
        /\ \A e \in Execs \ {req.exec} : attempt'[e] = attempt[e] /\ receipt'[e] = receipt[e]
        /\ pc'[w] = "idle" /\ call'[w] = NoCall
        /\ \A v \in Workers \ {w} : pc'[v] = pc[v] /\ call'[v] = call[v]
    BY <2>2, <2>3 DEF AuditInv, AuditShape, LedgerShape
  <2>5. \A e \in Execs : ToolOf(e)' = ToolOf(e) /\ (AttemptExists(e)' <=> AttemptExists(e))
    BY <2>2, <2>4 DEF ToolOf, AttemptExists
  <2>6. ASSUME NEW v \in Workers
        PROVE  CallListed(v)'
    <3>1. CASE v = w
      BY <2>4, <3>1 DEF CallListed, Listed, NoCall
    <3>2. CASE v # w
      <4>1. CallListed(v) /\ CallRight(v)
        BY DEF DocInv, AuditInv
      <4>2. pc[v] \in {"getCaseAgain", "complete"} => call[v].req.exec \in Execs
        BY <4>1 DEF CallRight, Knows
      <4>3. QED  BY <2>4, <2>5, <3>2, <4>1, <4>2 DEF CallListed, Listed
    <3>3. QED  BY <3>1, <3>2
  <2>7. /\ receipt'[req.exec].result = result /\ receipt'[req.exec].docs = call[w].docs
        /\ receipt'[req.exec].holds = call[w].verified
    BY <2>4 DEF ReceiptOf
  <2>8. ASSUME NEW e \in Execs
        PROVE  ReceiptListed(e)'
    <3>1. CASE e = req.exec
      BY <2>1, <2>2, <2>4, <2>5, <2>7, <3>1 DEF CallListed, Listed, ReceiptListed
    <3>2. CASE e # req.exec
      BY <2>4, <2>5, <3>2 DEF DocInv, ReceiptListed
    <3>3. QED  BY <3>1, <3>2
  <2>9. ASSUME OneCaller
        PROVE  /\ \A v \in Workers : CallSole(v)'
               /\ \A e \in Execs : ReceiptSole(e)'
    <3>1. \A v \in Workers : CallSole(v)'
      BY <2>4, <2>9
         DEF OneCaller, CallSole, Sole, AfterReservation, AfterPosting, DocumentsRead
    <3>2. call[w].docs = {} => ~ReceiptOn(req.exec)
      BY <2>9, SoleIs DEF Sole
    <3>3. \A e \in Execs : ReceiptSole(e)
      BY <2>9 DEF DocInv
    <3>4. \A e \in Execs : ReceiptSole(e)'
      BY <2>4, <2>7, <3>2, <3>3 DEF ReceiptSole, ReceiptOn
    <3>5. QED  BY <3>1, <3>4
  <2>10. QED  BY <2>6, <2>8, <2>9 DEF DocInv
<1>3. QED  BY <1>1, <1>2

LEMMA CompleteVerifiedLists ==
  ASSUME AuditInv, DocInv, NEW w \in Workers, CompleteVerified(w)
  PROVE  DocInv'
<1>1. /\ CallRight(w) /\ pc[w] = "complete" /\ call[w].verified /\ Return(w)
      /\ UNCHANGED <<grant, ent>>
  BY DEF AuditInv, CompleteVerified
<1>2. CASE CompleteAttempt(w, call[w].outcome, "COMPLETED")
  <2>1. PICK result : result = call[w].outcome
    OBVIOUS
  <2>2. result \in {"EXECUTED", "SAFE_NOOP"} /\ pc[w] \in DocumentsRead
    BY <1>1, <2>1 DEF CallRight, Knows, AfterPosting, DocumentsRead
  <2>3. CompleteAttempt(w, result, "COMPLETED")
    BY <1>2, <2>1 DEF CompleteAttempt
  <2>4. QED  BY <1>1, <2>2, <2>3, CompletionLists
<1>3. CASE UNCHANGED <<receipt, attempt, grantStatus>>
  BY <1>1, <1>3, ReturnLists
<1>4. QED  BY <1>2, <1>3 DEF CompleteVerified

LEMMA FailureLists ==
  ASSUME AuditInv, DocInv, NEW w \in Workers, FailAttempt(w) \/ CompleteUnverified(w)
  PROVE  DocInv'
<1>1. /\ pc[w] \in DocumentsRead /\ Return(w) /\ UNCHANGED <<grant, ent>>
      /\ CompleteAttempt(w, "FAILED", "VERIFICATION_FAILED")
      /\ pc[w] = "failAttempt" \/ ~call[w].verified
  BY DEF FailAttempt, CompleteUnverified, DocumentsRead
<1>2. ~call[w].verified
  BY <1>1 DEF DocInv, CallListed, Listed
<1>3. QED  BY <1>1, <1>2, CompletionLists

LEMMA OtherReturnsList ==
  ASSUME AuditInv, DocInv, NEW w \in Workers, SaveDenial(w) \/ ReserveRefused(w) \/ Crash(w)
  PROVE  DocInv'
BY ReturnLists DEF SaveDenial, ReserveRefused, Crash, caseDb

LEMMA StepLists ==
  ASSUME AuditInv, DocInv, NEW w \in Workers, Step(w)
  PROVE  DocInv'
BY GetGrantLists, GetAttemptLists, EvaluateLists, OtherReturnsList, GetCaseLists,
   ReserveAgainLists, ReserveNewLists, RecoverLists, LookupEffectLists, MutateLists,
   MutatePostLists, ReadStateLists, DenyPreconditionLists, FailureLists, VerifyLists,
   CompleteVerifiedLists
   DEF Step

\* What happens around the calls.
LEMMA ApproveLists ==
  ASSUME AuditInv, DocInv, NEW a \in Auths, NEW principal, NEW params,
         Approve(a, principal, params)
  PROVE  DocInv'
<1>1. /\ grantStatus[a] = "NONE" /\ UNCHANGED <<attempt, receipt, ent, pc, call>>
      /\ \A b \in Auths \ {a} : grant'[b] = grant[b]
  BY DEF Approve, AuditInv, AuditShape, LedgerShape
<1>2. \A e \in Execs : AttemptExists(e) => ToolOf(e)' = ToolOf(e)
  BY <1>1 DEF AuditInv, AttemptRight, Binds, ToolOf
<1>3. QED  BY <1>1, <1>2, OthersList DEF ReceiptOn

LEMMA ExternalCommitLists ==
  ASSUME AuditInv, DocInv, NEW tool \in Tools, ExternalCommit(tool)
  PROVE  DocInv'
<1> DEFINE x == ExternalId(tool)
           new == NewEffect(tool, x, x, now)
<1>1. /\ Preconditions(ent, tool, SourceRevision(ent, tool)) /\ ent' = Posted(ent, tool, x, x, now)
      /\ UNCHANGED <<grant, attempt, receipt, pc, call>>
  BY DEF ExternalCommit, caseDb
<1>2. ent'.effects = ent.effects \union {new} /\ new.exec = x
  BY <1>1, PostingIsRight DEF AuditInv, NewEffect
<1>3. x \notin Execs
  BY NamespaceAssumption DEF ExternalId, ExternalIds
<1>4. ent.docs \subseteq ent'.docs
  BY <1>1 DEF Posted, ReceiptPosted, InvoiceReleased, AuditInv, WorldRight, EntFields
<1> HIDE DEF x, new
<1>5. QED  BY <1>1, <1>2, <1>3, <1>4, OthersList DEF ToolOf, ReceiptOn

LEMMA ExternalRetagLists ==
  ASSUME AuditInv, DocInv, NEW tool \in Tools, ExternalRetag(tool)
  PROVE  DocInv'
<1>1. /\ ent' = Retagged(ent, tool) /\ UNCHANGED <<grant, attempt, receipt, pc, call>>
  BY DEF ExternalRetag, caseDb
<1>2. \A f \in ent.effects : DOMAIN f = EffectFields
  BY DEF AuditInv, EffectRight
<1>3. /\ ent'.effects = {Tagged(f, tool) : f \in ent.effects}
      /\ ent'.docs = ent.docs
  BY <1>1 DEF Retagged, Tagged, AuditInv, WorldRight, EntFields
<1>4. \A e \in Execs : ReceiptOn(e)' => ReceiptOn(e)
  BY <1>2, <1>3, TaggedFacts DEF ReceiptOn
<1>5. QED  BY <1>1, <1>3, <1>4, OthersList DEF ToolOf

LEMMA DriftLists ==
  ASSUME AuditInv, DocInv, UNCHANGED <<grant, attempt, receipt, pc, call>>,
         \/ ent' = MessageRevisionAdvanced(ent)
         \/ \E q : ent' = ErpReceiptQuantitySet(ent, q)
         \/ ent' = InvoiceHoldSet(ent)
  PROVE  DocInv'
<1>1. ent'.effects = ent.effects /\ ent'.docs = ent.docs
  BY DEF MessageRevisionAdvanced, ErpReceiptQuantitySet, InvoiceHoldSet, AuditInv, WorldRight,
         EntFields
<1>2. QED  BY <1>1, OthersList DEF ToolOf, ReceiptOn

LEMMA FreeLists ==
  ASSUME AuditInv, DocInv, Next
  PROVE  DocInv'
<1>1. CASE CaseCommand
  BY <1>1, QuietLists, ApproveLists
     DEF CaseCommand, Detect, RecordInvestigationOutcome, RequestApproval, AdmitEvidence
<1>2. CASE Environment
  <2>1. CASE Tick
    BY <2>1, QuietLists DEF Tick, caseDb
  <2>2. CASE \/ AdvanceFailedMessageRevision \/ SetInvoiceHold
             \/ \E q \in DriftQuantities : SetErpReceiptQuantity(q)
    BY <2>2, DriftLists
       DEF AdvanceFailedMessageRevision, SetInvoiceHold, SetErpReceiptQuantity, caseDb
  <2>3. QED
    BY <1>2, <2>1, <2>2, ExternalCommitLists, ExternalRetagLists DEF Environment
<1>3. QED  BY <1>1, <1>2, BeginLists, StepLists, OtherReturnsList DEF Next

LEMMA RunSeedLists ==
  ASSUME AuditInv, DocInv, Scene, RunSeed
  PROVE  DocInv'
<1>1. /\ run.at = "seed" /\ run.manifest.fixture \in {"lock", "posted", "short"}
      /\ ent' = GoldenFixture(run.manifest.fixture)
      /\ UNCHANGED <<grant, attempt, receipt, pc, call>>
  BY DEF Scene, Standing, RunShape, RunSeed, At, ManifestType, caseDb
<1>2. ent = GoldenFixture("lock")
  BY <1>1 DEF Scene, Positions, EarlyInv, EarlyPoints
<1>3. ent.docs = {}
  BY <1>2, LockFixture
<1>4. \A f \in ent'.effects : f.exec \notin Execs
  BY <1>1, FixtureFacts
<1>5. QED  BY <1>1, <1>3, <1>4, OthersList DEF ToolOf, ReceiptOn

LEMMA ScriptLists ==
  ASSUME AuditInv, DocInv, Scene, Script
  PROVE  DocInv'
<1>1. CASE Quiet
  BY <1>1, QuietLists DEF Quiet, vars, caseDb
<1>2. CASE RunSeed \/ RunStep
  BY <1>2, RunSeedLists, CallerIs, StepLists DEF RunStep
<1>3. ASSUME \/ Detect \/ \E event : RecordInvestigationOutcome(event)
             \/ \E tool : RequestApproval(tool)
             \/ \E item \in LateEvidence : AdmitEvidence(item)
      PROVE  DocInv'
  BY <1>3, QuietLists DEF Detect, RecordInvestigationOutcome, RequestApproval, AdmitEvidence
<1>4. CASE RunDetect \/ RunAssess \/ RunRequestReceipt \/ RunRequestInvoice
  BY <1>1, <1>3, <1>4 DEF RunDetect, RunAssess, RunRequestReceipt, RunRequestInvoice
<1>5. CASE RunApproveReceipt \/ RunApproveInvoice
  <2>1. ReceiptAuth \in Auths /\ InvoiceAuth \in Auths
    BY RunnerAssumption
  <2>2. QED  BY <1>1, <1>5, <2>1, ApproveLists DEF RunApproveReceipt, RunApproveInvoice
<1>6. CASE RunExecuted \/ RunReused \/ RunReleased
  BY <1>1, <1>6 DEF RunExecuted, RunReused, RunReleased
<1>7. CASE RunExecute \/ RunRelease
  BY <1>7, CallerIs, BeginLists DEF RunExecute, RunRelease
<1>8. CASE \/ AdvanceFailedMessageRevision
           \/ SetErpReceiptQuantity(OrderedQuantity - MissingQuantity)
  BY <1>8, DriftLists DEF AdvanceFailedMessageRevision, SetErpReceiptQuantity, caseDb
<1>9. CASE UNCHANGED <<caseDb, ent, pending, pc, call, crashes, log>>
  BY <1>9, QuietLists DEF caseDb
<1>10. CASE ExternalRetag(Receipt) \/ ExternalCommit(Receipt)
  BY <1>10, TheTools, ExternalRetagLists, ExternalCommitLists
<1>11. CASE Crash(Caller)
  BY <1>11, CallerIs, OtherReturnsList
<1>12. CASE RunChange
  BY <1>1, <1>3, <1>8, <1>12 DEF RunChange
<1>13. CASE RunHook
  BY <1>1, <1>9, <1>10, <1>13 DEF RunHook
<1>14. CASE RunFault
  BY <1>8, <1>11, <1>14 DEF RunFault
<1>15. QED
  BY <1>2, <1>4, <1>5, <1>6, <1>7, <1>12, <1>13, <1>14 DEF Script

LEMMA DocStarts == GoldenInit => DocInv
<1> SUFFICES ASSUME GoldenInit PROVE DocInv
  OBVIOUS
<1>1. /\ receipt = [e \in Execs |-> NoReceipt] /\ pc = [w \in Workers |-> "idle"]
      /\ call = [w \in Workers |-> NoCall]
  BY DEF GoldenInit, Init
<1>2. \A w \in Workers : CallListed(w) /\ CallSole(w)
  BY <1>1 DEF CallListed, Listed, CallSole, Sole, NoCall, AfterReservation, AfterPosting,
              DocumentsRead
<1>3. \A e \in Execs : ReceiptListed(e) /\ ReceiptSole(e)
  BY <1>1 DEF ReceiptListed, ReceiptSole, NoReceipt
<1>4. QED  BY <1>2, <1>3 DEF DocInv

LEMMA DocStays == GoldenInv /\ AuditInv /\ DocInv /\ [GoldenNext]_goldenVars => DocInv'
<1> SUFFICES ASSUME GoldenInv, AuditInv, DocInv, [GoldenNext]_goldenVars PROVE DocInv'
  OBVIOUS
<1>1. CASE Script
  BY <1>1, ScriptLists
     DEF GoldenInv, Scene, Script, RunSeed, RunDetect, RunAssess, RunRequestReceipt,
         RunApproveReceipt, RunChange, RunHook, RunExecute, RunFault, RunStep, RunExecuted,
         RunReused, RunRequestInvoice, RunApproveInvoice, RunRelease, RunReleased, At
<1>2. CASE Free
  BY <1>2, FreeLists DEF Free
<1>3. CASE UNCHANGED goldenVars
  BY <1>3, QuietLists DEF goldenVars, auditVars, vars, caseDb
<1>4. QED  BY <1>1, <1>2, <1>3 DEF GoldenNext

\* With any number of concurrent calls, crashes, drift and outside work, the
\* ledger checks of Golden v1 and replay_case (evaluation/invariants.py,
\* golden_runner.py, sqlite_case_store.py) refuse one kind of row: an effect
\* whose attempt another call ended with a FAILED receipt, written from what
\* it read before the effect was posted.
THEOREM AuditHoldsButOvertaken == GoldenSpec => [](ReplayAgrees /\ AcceptedBut(Overtaken))
<1>1. ReplayInv /\ AuditInv /\ DocInv => ReplayAgrees /\ AcceptedBut(Overtaken)
  BY ReplayIsProjection, LedgersAcceptable
<1>2. QED
  BY <1>1, ReplayStarts, ReplayStays, GoldenStarts, GoldenStays, AuditStarts, AuditStays,
     DocStarts, DocStays, PTL
     DEF GoldenSpec

\* With one call at a time, as in the runner, they accept everything: whatever
\* manifest ran, or however retries of crashed calls, drift and outside work
\* interleaved, local effects are bound to grant, receipt (its documents and
\* what it says of its postconditions) and decision, outside effects to their
\* source history, safe no-ops to an effect, no grant crosses roles, nothing
\* is posted twice, and the event log replays to the projection.
THEOREM AuditHolds ==
  ASSUME \A v, w \in Workers : v = w
  PROVE  GoldenSpec => []AuditAccepts
<1>1. ReplayInv /\ AuditInv /\ DocInv => AuditAccepts
  <2>1. OneCaller
    BY DEF OneCaller
  <2>2. QED
    BY <2>1, ReplayIsProjection, LedgersAcceptable, NothingOvertaken
       DEF AuditAccepts, LedgersAccepted
<1>2. QED
  BY <1>1, ReplayStarts, ReplayStays, GoldenStarts, GoldenStays, AuditStarts, AuditStays,
     DocStarts, DocStays, PTL
     DEF GoldenSpec

===============================================================================
