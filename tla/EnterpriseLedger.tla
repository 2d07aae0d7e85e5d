--------------------------- MODULE EnterpriseLedger ---------------------------
(***************************************************************************)
(* The authoritative enterprise database (adapters/synthetic_enterprise.py) *)
(* and the deterministic verifier over its snapshots                       *)
(* (application/verifier.py), as operators on one record:                  *)
(*   message  - the failed receipt message,                                *)
(*   erp, warehouse - the two receipt quantities,                          *)
(*   queued   - how many supply units wait in the message queue,           *)
(*   docs     - material documents of the message,                         *)
(*   invoice  - the supplier invoice,                                      *)
(*   effects  - the business effect ledger, unique by idempotency key.     *)
(* Identities of the purchase order, line, message and invoice are fixed,  *)
(* so equality tests on them are left out; revisions and quantities stay.  *)
(***************************************************************************)
EXTENDS CaseLifecycle, FiniteSets

CONSTANTS
  Execs,             \* execution ids callers may present
  Keys,              \* idempotency keys callers may present
  OrderedQuantity,   \* purchase_order.ordered_quantity (100 in the fixture)
  MissingQuantity    \* quantity of the failed message (20 in the fixture)

ExternalReceipt == "external:receipt"
ExternalInvoice == "external:invoice"
ExternalIds == {ExternalReceipt, ExternalInvoice}
NoOne == "no execution"

ASSUME QuantityAssumption ==
  /\ OrderedQuantity \in Nat
  /\ MissingQuantity \in 1..OrderedQuantity
ASSUME NamespaceAssumption ==
  /\ (ExternalIds \union {NoOne}) \intersect Execs = {}
  /\ ExternalIds \intersect Keys = {}

ExternalId(tool) == IF tool = Receipt THEN ExternalReceipt ELSE ExternalInvoice
LocalType(tool) == IF tool = Receipt THEN "RECEIPT_RESTART" ELSE "INVOICE_RELEASE"
ExternalType(tool) ==
  IF tool = Receipt THEN "EXTERNAL_RECEIPT" ELSE "EXTERNAL_INVOICE_RELEASE"
EffectTypes == { LocalType(t) : t \in Tools } \union { ExternalType(t) : t \in Tools }

\* A row of business_effects: source_record_id is the tool's one record.
Effects == [ exec : Execs \union ExternalIds, key : Keys \union ExternalIds,
             tool : Tools, type : EffectTypes, at : Nat ]
Documents == [ exec : Execs \union ExternalIds, key : Keys \union ExternalIds,
               quantity : Nat ]

Enterprises ==
  [ message   : [ revision : Nat, status : {"FAILED", "CONSUMED"},
                  retryable : BOOLEAN,
                  consumedBy : Execs \union ExternalIds \union {NoOne} ],
    erp       : Nat, warehouse : Nat, queued : Nat,
    docs      : SUBSET Documents,
    invoice   : [ revision : Nat, state : {"HELD", "RELEASED"},
                  hold : {"RECEIPT_MISMATCH", "REVIEW_HOLD", "NONE"},
                  otherHolds : BOOLEAN,
                  releasedBy : Execs \union ExternalIds \union {NoOne} ],
    effects   : SUBSET Effects ]

\* seed_from_fixture: a failed message of MissingQuantity units that never
\* reached the ERP, and the invoice held for it.
SeededEnterprise(retryable, warehouse, otherHolds) ==
  [ message |-> [revision |-> 1, status |-> "FAILED", retryable |-> retryable,
                 consumedBy |-> NoOne],
    erp |-> OrderedQuantity - MissingQuantity,
    warehouse |-> warehouse,
    queued |-> MissingQuantity,
    docs |-> {},
    invoice |-> [revision |-> 1, state |-> "HELD", hold |-> "RECEIPT_MISMATCH",
                 otherHolds |-> otherHolds, releasedBy |-> NoOne],
    effects |-> {} ]

SourceEffects(ent, tool) == { f \in ent.effects : f.tool = tool }
EffectsWithKey(ent, key) == { f \in ent.effects : f.key = key }

\* The revision of the record the tool acts on: what its parameters bind.
SourceRevision(ent, tool) ==
  IF tool = Receipt THEN ent.message.revision ELSE ent.invoice.revision

-----------------------------------------------------------------------------
\* externally_completed of restart_receipt_message: the message was consumed
\* by a unique EXTERNAL effect that its one document is linked to.
ReceiptCompletedBy(ent, f) ==
  /\ ent.message.status = "CONSUMED"
  /\ ent.erp = OrderedQuantity
  /\ { g \in SourceEffects(ent, Receipt) : g.type = ExternalType(Receipt) } = {f}
  /\ ent.message.consumedBy = f.exec
  /\ ent.docs = {[exec |-> f.exec, key |-> f.key, quantity |-> MissingQuantity]}
  /\ ent.queued = 0

\* externally_completed of release_invoice.
InvoiceCompletedBy(ent, f) ==
  /\ ent.invoice.state = "RELEASED"
  /\ ent.invoice.hold = "NONE"
  /\ ~ent.invoice.otherHolds
  /\ ent.erp = OrderedQuantity
  /\ { g \in SourceEffects(ent, Invoice) : g.type = ExternalType(Invoice) } = {f}
  /\ ent.invoice.releasedBy = f.exec

ExternallyCompletedBy(ent, tool, f) ==
  IF tool = Receipt THEN ReceiptCompletedBy(ent, f) ELSE InvoiceCompletedBy(ent, f)

\* Mutant of ReceiptPreconditions: only the retry flag is compared.
ReceiptRetryable(ent, revision) == ent.message.retryable

\* "expected" of restart_receipt_message.
ReceiptPreconditions(ent, revision) ==
  /\ ent.message.revision = revision
  /\ ent.message.status = "FAILED"
  /\ ent.message.retryable
  /\ ent.docs = {}
  /\ ent.erp + MissingQuantity = OrderedQuantity
  /\ ent.queued = MissingQuantity

\* "expected" of release_invoice.
InvoicePreconditions(ent, revision) ==
  /\ ent.invoice.revision = revision
  /\ ent.invoice.state = "HELD"
  /\ ent.invoice.hold = "RECEIPT_MISMATCH"
  /\ ~ent.invoice.otherHolds
  /\ ent.erp = OrderedQuantity

Preconditions(ent, tool, revision) ==
  IF tool = Receipt THEN ReceiptPreconditions(ent, revision)
                    ELSE InvoicePreconditions(ent, revision)

NewEffect(tool, exec, key, at) ==
  [exec |-> exec, key |-> key, tool |-> tool, type |-> LocalType(tool), at |-> at]

\* The one transaction of restart_receipt_message.
ReceiptPosted(ent, exec, key, at) ==
  [ message   |-> [revision |-> ent.message.revision + 1, status |-> "CONSUMED",
                   retryable |-> ent.message.retryable, consumedBy |-> exec],
    erp       |-> ent.erp + MissingQuantity,
    warehouse |-> ent.warehouse,
    queued    |-> 0,
    docs      |-> ent.docs \union
                    {[exec |-> exec, key |-> key, quantity |-> MissingQuantity]},
    invoice   |-> ent.invoice,
    effects   |-> ent.effects \union {NewEffect(Receipt, exec, key, at)} ]

\* The one transaction of release_invoice.
InvoiceReleased(ent, exec, key, at) ==
  [ ent EXCEPT
      !.invoice = [revision |-> ent.invoice.revision + 1, state |-> "RELEASED",
                   hold |-> "NONE", otherHolds |-> ent.invoice.otherHolds,
                   releasedBy |-> exec],
      !.effects = @ \union {NewEffect(Invoice, exec, key, at)} ]

Posted(ent, tool, exec, key, at) ==
  IF tool = Receipt THEN ReceiptPosted(ent, exec, key, at)
                    ELSE InvoiceReleased(ent, exec, key, at)

\* Second transaction of simulate_external_*: the effect is relabelled.
Retagged(ent, tool) ==
  [ ent EXCEPT !.effects =
      { IF f.tool = tool /\ f.exec = ExternalId(tool)
        THEN [f EXCEPT !.type = ExternalType(tool)] ELSE f : f \in @ } ]

\* Authoritative drift the code and its tests provoke.
MessageRevisionAdvanced(ent) ==
  [ent EXCEPT !.message = [@ EXCEPT !.revision = ent.message.revision + 1]]
ErpReceiptQuantitySet(ent, q) == [ent EXCEPT !.erp = q]
InvoiceHoldSet(ent) ==
  [ent EXCEPT !.invoice =
     [revision |-> ent.invoice.revision + 1, state |-> "HELD", hold |-> "REVIEW_HOLD",
      otherHolds |-> ent.invoice.otherHolds, releasedBy |-> ent.invoice.releasedBy]]

-----------------------------------------------------------------------------
\* The type the verifier expects: external only for a no-op on external work.
ExpectedType(tool, outcome, f) ==
  IF outcome = "SAFE_NOOP" /\ f.type = ExternalType(tool)
  THEN ExternalType(tool) ELSE LocalType(tool)

\* Conditions both verifiers share: the effect the mutation reported is still
\* the one effect of its source record, typed and owned as expected.
EffectVerified(ent, tool, exec, key, f, outcome) ==
  LET type == ExpectedType(tool, outcome, f) IN
  \E g \in ent.effects :
    /\ SourceEffects(ent, tool) = {g}
    /\ g.exec = f.exec
    /\ g.type = type
    /\ type = LocalType(tool) => g.exec = exec /\ g.key = key

\* Mutant of ReceiptVerified: the two quantities are not read again.
ReceiptVerifiedLoosely(ent, exec, key, revision, f, outcome) ==
  /\ ent.message.status = "CONSUMED"
  /\ ent.message.consumedBy = f.exec
  /\ EffectVerified(ent, Receipt, exec, key, f, outcome)

\* verify_receipt_restart
ReceiptVerified(ent, exec, key, revision, f, outcome) ==
  /\ ent.erp = ent.warehouse
  /\ ent.erp = OrderedQuantity
  /\ ent.message.revision = revision + 1
  /\ ent.message.status = "CONSUMED"
  /\ ent.docs = {[exec |-> f.exec, key |-> f.key, quantity |-> MissingQuantity]}
  /\ ent.message.consumedBy = f.exec
  /\ EffectVerified(ent, Receipt, exec, key, f, outcome)

\* verify_invoice_release
InvoiceVerified(ent, exec, key, f, outcome) ==
  /\ ent.invoice.state = "RELEASED"
  /\ ent.invoice.hold = "NONE"
  /\ ~ent.invoice.otherHolds
  /\ ent.erp = ent.warehouse
  /\ ent.erp = OrderedQuantity
  /\ ent.invoice.releasedBy = f.exec
  /\ EffectVerified(ent, Invoice, exec, key, f, outcome)

Verified(ent, tool, exec, key, revision, f, outcome) ==
  IF tool = Receipt THEN ReceiptVerified(ent, exec, key, revision, f, outcome)
                    ELSE InvoiceVerified(ent, exec, key, f, outcome)

\* Mutant of SatisfiesClosure: the message may still be failed.
QuantitiesClose(ent) ==
  /\ ent.erp = ent.warehouse
  /\ ent.invoice.state = "RELEASED"
  /\ ent.warehouse = OrderedQuantity

\* closure_facts(snapshot).satisfies_closure(), and the expected quantity of
\* the case's discrepancy, which advance_case compares with it.
SatisfiesClosure(ent) ==
  /\ ent.erp = ent.warehouse
  /\ Cardinality(ent.docs) <= 1
  /\ ent.message.status = "CONSUMED"
  /\ ent.invoice.state = "RELEASED"
  /\ ent.warehouse = OrderedQuantity

=============================================================================
