------------------------- MODULE InvestigationPolicy -------------------------
(***************************************************************************)
(* The deterministic side of the ambiguous-receipt case: the facts of each *)
(* counterfactual, the records the five read tools serve for it, the join  *)
(* that turns records into observations, and the policy over them.  Three  *)
(* places of the code classify the same case independently (the label of   *)
(* the packet, the policy over the joined records, the console's own       *)
(* diagnosis); AmbiguousCase relates them.  Last comes what one bounded    *)
(* advisory run may read and which of its answers pass the checks.         *)
(*                                                                         *)
(* Quantities are the ones of the code.  Documents are identified by what  *)
(* the join compares: an order line is in scope or not, a lot is one of    *)
(* three names, a business key is one of two.                              *)
(***************************************************************************)
EXTENDS Integers, FiniteSets, FiniteSetsExt

CONSTANTS None,
          SourceTools  \* the read tools of an advisory run

Variants == {"uncommitted_receipt", "lost_ack", "wrong_quality_lot", "lookup_unavailable",
             "physical_shortage", "transfer_already_present", "evidence_conflict",
             "duplicate_invoice", "unit_price_variance", "uom_conversion_missing",
             "po_revision_race", "supplier_hold", "lot_trace_mismatch", "normal_complete"}

-----------------------------------------------------------------------------
(* The case. *)

PrimaryCase ==
    [arrived |-> 100, available |-> 80, hold |-> 8, unresolved |-> 12, invoice_held |-> TRUE,
     quality |-> "APPROVED", outcome |-> "UNKNOWN", key |-> FALSE, transfer |-> FALSE]

(* reset_variant: half of the counterfactuals share the primary facts and  *)
(* differ only in the records that are served for them.                    *)
CaseOf(v) ==
    CASE v = "lost_ack" -> [PrimaryCase EXCEPT !.key = TRUE]
      [] v = "wrong_quality_lot" -> [PrimaryCase EXCEPT !.quality = "PENDING"]
      [] v = "lookup_unavailable" -> [PrimaryCase EXCEPT !.key = None]
      [] v = "physical_shortage" ->
           [PrimaryCase EXCEPT !.arrived = 80, !.available = 72, !.unresolved = 0]
      [] v = "transfer_already_present" -> [PrimaryCase EXCEPT !.transfer = TRUE]
      [] v = "normal_complete" ->
           [PrimaryCase EXCEPT !.available = 100, !.hold = 0, !.unresolved = 0,
                               !.invoice_held = FALSE, !.outcome = "ACKNOWLEDGED", !.key = TRUE]
      [] OTHER -> PrimaryCase

(* quantities_form_a_complete_visible_state: what the contract model admits. *)
CompleteVisibleState(c) ==
    /\ c.available + c.hold + c.unresolved = c.arrived
    /\ c.unresolved = 0 => c.key # None
    /\ c.outcome = "ACKNOWLEDGED" => c.key = TRUE

EvidenceComplete(c) == c.key # None /\ c.transfer # None

CaseDisposition(c) ==
    CASE ~EvidenceComplete(c) -> "NEEDS_EVIDENCE"
      [] EvidenceComplete(c) /\ c.quality # "APPROVED" -> "SAFE_STOP"
      [] EvidenceComplete(c) /\ c.quality = "APPROVED" /\ (c.key \/ c.transfer) -> "RECONCILE_ONLY"
      [] OTHER -> "RECOVERY_READY"

AllowedActions(c) ==
    IF CaseDisposition(c) # "RECOVERY_READY" THEN {}
    ELSE {a \in {"POST_IDEMPOTENT_RECEIPT", "TRANSFER_APPROVED_QUALITY_STOCK",
                 "REVALIDATE_LINKED_INVOICE"} :
            \/ a = "POST_IDEMPOTENT_RECEIPT" /\ c.unresolved > 0
            \/ a = "TRANSFER_APPROVED_QUALITY_STOCK" /\ c.hold > 0
            \/ a = "REVALIDATE_LINKED_INVOICE" /\ c.invoice_held}

(* What the executor leaves: everything that arrived is available. *)
Recovered(c) ==
    [c EXCEPT !.available = c.arrived, !.hold = 0, !.unresolved = 0, !.invoice_held = FALSE,
              !.outcome = "ACKNOWLEDGED", !.key = TRUE, !.transfer = TRUE]

(* diagnose: the console's decision, by variant first and by facts after. *)
ConsolePolicy(v, c) ==
    CASE v = "physical_shortage" -> [status |-> "BLOCKED", finding |-> "PHYSICAL_SHORTAGE_CONFIRMED"]
      [] v = "evidence_conflict" -> [status |-> "BLOCKED", finding |-> "CROSS_SOURCE_QUANTITY_CONFLICT"]
      [] v = "duplicate_invoice" -> [status |-> "BLOCKED", finding |-> "DUPLICATE_SUPPLIER_INVOICE"]
      [] v = "unit_price_variance" -> [status |-> "BLOCKED", finding |-> "COMMERCIAL_TERMS_MISMATCH"]
      [] v = "uom_conversion_missing" ->
           [status |-> "BLOCKED", finding |-> "UOM_CONVERSION_EVIDENCE_REQUIRED"]
      [] v = "po_revision_race" -> [status |-> "BLOCKED", finding |-> "PO_REVISION_EVIDENCE_REQUIRED"]
      [] v = "supplier_hold" -> [status |-> "BLOCKED", finding |-> "SUPPLIER_COMPLIANCE_HOLD"]
      [] v = "lot_trace_mismatch" -> [status |-> "BLOCKED", finding |-> "LOT_TRACE_MISMATCH"]
      [] v = "normal_complete" -> [status |-> "RECOVERY_COMPLETE", finding |-> "NO_EXCEPTION_REMAINS"]
      [] OTHER ->
           CASE CaseDisposition(c) = "RECOVERY_READY" ->
                  [status |-> "PLAN_READY", finding |-> "AMBIGUOUS_RECEIPT_RESOLVED"]
             [] CaseDisposition(c) = "RECONCILE_ONLY" ->
                  [status |-> "BLOCKED", finding |-> "EFFECT_ALREADY_PRESENT"]
             [] CaseDisposition(c) = "SAFE_STOP" ->
                  [status |-> "BLOCKED", finding |-> "QUALITY_EVIDENCE_INELIGIBLE"]
             [] OTHER -> [status |-> "BLOCKED", finding |-> "NEEDS_ERP_KEY_REREAD"]

(* investigation_case_catalog: the control each hidden cause is there for. *)
ExpectedControl(v) ==
    CASE v = "uncommitted_receipt" -> "MANAGER_REVIEW"
      [] v \in {"lost_ack", "transfer_already_present"} -> "SAFE_NOOP"
      [] v = "physical_shortage" -> "PROTECT"
      [] v \in {"lookup_unavailable", "evidence_conflict", "uom_conversion_missing",
                "po_revision_race"} -> "REQUEST_EVIDENCE"
      [] v = "normal_complete" -> "NO_ACTION"
      [] OTHER -> "HARD_STOP"

-----------------------------------------------------------------------------
(* The packet of one investigation. *)

(* The evaluation label, which no source carries. *)
ExpectedDisposition(v) ==
    CASE v = "normal_complete" -> "RECOVERY_COMPLETE"
      [] v \in {"lookup_unavailable", "evidence_conflict", "uom_conversion_missing",
                "po_revision_race"} -> "NEEDS_EVIDENCE"
      [] v = "uncommitted_receipt" -> "RECOVERY_READY"
      [] OTHER -> "DENY"

ClampedMinus(a, b) == IF a > b THEN a - b ELSE 0

(* The ledger rows an ERP read returns, with the case's quantities laid    *)
(* over them; the row of a posted receipt carries the attempt's key.       *)
LedgerRows(v, c) ==
    CASE v = "lookup_unavailable" -> {}
      [] v = "normal_complete" ->
           {[id |-> 1, quantity |-> c.arrived, stock |-> "AVAILABLE", lot |-> "none", key |-> "attempt"]}
      [] OTHER ->
           {[id |-> 1, quantity |-> c.available, stock |-> "AVAILABLE", lot |-> "none", key |-> "first"],
            [id |-> 2, quantity |-> c.hold, stock |-> "QUALITY", lot |-> "LOT-B", key |-> "none"]}
           \cup IF v = "lost_ack"
                THEN {[id |-> 3, quantity |-> c.unresolved, stock |-> "AVAILABLE",
                       lot |-> "none", key |-> "attempt"]}
                ELSE {}

Scans(v, c) ==
    {[id |-> 1, lot |-> "LOT-A", quantity |-> c.available],
     [id |-> 2, lot |-> IF v = "lot_trace_mismatch" THEN "LOT-UNSCOPED" ELSE "LOT-B",
      quantity |-> c.hold],
     [id |-> 3, lot |-> "LOT-C",
      quantity |-> IF v = "physical_shortage" THEN ClampedMinus(c.unresolved, 1) ELSE c.unresolved]}

(* investigation_packet: the hidden cause is applied after the case's own  *)
(* quantities; the shortage keeps the ordered hundred.                     *)
Sources(v, c) ==
    [invoice |-> [quantity |-> IF v = "physical_shortage" THEN 100 ELSE c.arrived,
                  status |-> IF v = "normal_complete" THEN "OPEN" ELSE "HELD",
                  price |-> IF v = "unit_price_variance" THEN 5450 ELSE 5000],
     po |-> [price |-> 5000, revision |-> 4],
     duplicates |-> v = "duplicate_invoice",
     supplier_active |-> v # "supplier_hold",
     ledger |-> [complete |-> v # "lookup_unavailable", rows |-> LedgerRows(v, c)],
     scans |-> Scans(v, c),
     quality |-> {[lot |-> "LOT-B", quantity |-> c.hold,
                   disposition |-> IF v = "wrong_quality_lot" THEN "PENDING" ELSE "APPROVED"],
                  [lot |-> "LOT-X", quantity |-> 8, disposition |-> "APPROVED"]},
     transfers |-> IF v = "transfer_already_present" THEN {"LOT-B"} ELSE {},
     attempt |-> [quantity |-> CASE v = "evidence_conflict" -> ClampedMinus(c.unresolved, 2)
                                 [] v = "uom_conversion_missing" -> 2
                                 [] v = "normal_complete" -> c.arrived
                                 [] OTHER -> c.unresolved,
                  factor |-> IF v = "uom_conversion_missing" THEN None ELSE 1,
                  revision |-> IF v = "po_revision_race" THEN 3 ELSE 4,
                  key |-> "attempt"]]

Total(rows) == FoldSet(LAMBDA r, acc : acc + r.quantity, 0, rows)

(* correlate_investigation_sources: facts only, never a diagnosis. *)
Correlate(s) ==
    LET held == {r \in s.ledger.rows : r.stock = "QUALITY"}
        lots == {r.lot : r \in held}
        approvals(l) == {q \in s.quality : q.lot = l}
        exact == {q \in s.quality : q.lot \in lots}
        known(l) == Cardinality(approvals(l)) = 1 /\ Total({r \in held : r.lot = l}) > 0
        accepted == Total({r \in s.ledger.rows : r.stock = "AVAILABLE"})
    IN [invoice_quantity |-> s.invoice.quantity,
        invoice_status |-> s.invoice.status,
        physical |-> Total(s.scans),
        accounted |-> accepted + Total(held),
        held |-> Total(held),
        complete |-> s.ledger.complete,
        key_present |-> IF s.ledger.complete
                        THEN \E r \in s.ledger.rows : r.key = s.attempt.key ELSE None,
        attempt |-> IF s.attempt.factor = None THEN None
                    ELSE s.attempt.quantity * s.attempt.factor,
        revision_matches |-> s.attempt.revision = s.po.revision,
        dispositions |-> {q.disposition : q \in exact},
        quantity_known |-> lots # {} /\ \A l \in lots : known(l),
        quantity_matches |-> lots # {} /\ \A l \in lots : known(l) /\ \A q \in approvals(l) :
                                            q.quantity = Total({r \in held : r.lot = l}),
        transfer_present |-> \E l \in s.transfers : l \in lots,
        lots_scanned |-> lots \subseteq {r.lot : r \in s.scans},
        duplicate |-> s.duplicates,
        price_matches |-> s.invoice.price = s.po.price,
        supplier_active |-> s.supplier_active]

(* evaluate_investigation_policy, for a case with no customer order: the   *)
(* first rule that applies decides.                                        *)
EvaluatePolicy(o) ==
    LET gap == ClampedMinus(o.invoice_quantity, o.accounted)
        rules == <<
          <<o.duplicate \/ ~o.price_matches \/ ~o.supplier_active \/ ~o.lots_scanned, "DENY">>,
          <<o.attempt = None \/ ~o.revision_matches, "NEEDS_EVIDENCE">>,
          <<o.complete /\ o.accounted = o.invoice_quantity /\ o.held = 0
              /\ o.invoice_status = "OPEN", "RECOVERY_COMPLETE">>,
          <<o.complete /\ o.accounted = o.invoice_quantity /\ o.held = 0
              /\ o.invoice_status = "PAYMENT_HOLD", "RECOVERY_READY">>,
          <<~o.complete, "NEEDS_EVIDENCE">>,
          <<o.key_present = TRUE, "DENY">>,
          <<o.attempt # gap, "NEEDS_EVIDENCE">>,
          <<o.held > 0 /\ Cardinality(o.dispositions) = 1 /\ o.dispositions # {"APPROVED"}, "DENY">>,
          <<o.held > 0 /\ ~o.quantity_known, "NEEDS_EVIDENCE">>,
          <<o.held > 0 /\ ~(o.dispositions = {"APPROVED"} /\ o.quantity_matches), "DENY">>,
          <<o.physical # o.invoice_quantity \/ o.transfer_present, "DENY">>,
          <<TRUE, "RECOVERY_READY">> >>
        first == CHOOSE i \in DOMAIN rules :
                   rules[i][1] /\ \A j \in 1 .. (i - 1) : ~rules[j][1]
    IN rules[first][2]

(* Sanity of the constant tables: every counterfactual is a complete state. *)
ASSUME CasesAreComplete == \A v \in Variants : CompleteVisibleState(CaseOf(v))

-----------------------------------------------------------------------------
(* The advisory run: what the model may read and in which order, what it   *)
(* may answer, and which answers pass the checks.  An answer is reduced to *)
(* what a check looks at; the prose rules (decisive quantities,            *)
(* contradicted facts) are one flag, `grounded`.                           *)

Required == SourceTools \cup {"reconcile"}

(* The reconciliation tool answers BLOCKED until every source was read. *)
Readable(reads) ==
    {r \in SUBSET Required : reads \subseteq r /\ ("reconcile" \in r => SourceTools \subseteq r)}

Dispositions == {"RECOVERY_READY", "RECOVERY_COMPLETE", "NEEDS_EVIDENCE", "DENY"}

(* What the safe next step says. *)
Steps == [inspects : BOOLEAN, approval : BOOLEAN, writes : BOOLEAN]

Candidates == [disposition : Dispositions, cited : BOOLEAN, wrote : BOOLEAN,
               step : Steps, grounded : BOOLEAN]

(* validate_advisory's rules on the next step. *)
StepAllowed(step, expected, readOnly) ==
    /\ expected = "RECOVERY_READY" /\ ~readOnly => step.approval
    /\ readOnly => step.inspects /\ ~step.writes
    /\ expected = "RECOVERY_COMPLETE" => ~step.approval /\ ~step.writes
    /\ expected \in {"DENY", "NEEDS_EVIDENCE"} => ~step.writes

(* check: reads, citations, disposition, next step and explanation. *)
Valid(c, reads, expected, readOnly) ==
    /\ Required \subseteq reads
    /\ ~c.wrote
    /\ c.disposition = expected
    /\ c.cited
    /\ StepAllowed(c.step, expected, readOnly)
    /\ c.grounded

Accepted(reads, expected, readOnly) ==
    {c \in Candidates : Valid(c, reads, expected, readOnly)}

(* What an accepted answer leaves to say: whether its step proposes a write. *)
Answers == [e \in Dispositions |-> [readOnly \in BOOLEAN |->
              {c.step.writes : c \in Accepted(Required, e, readOnly)}]]
=============================================================================
