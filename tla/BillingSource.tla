------------------------------ MODULE BillingSource ------------------------------
(***************************************************************************)
(* The read a supplier bill is prepared, inserted and submitted on:        *)
(* NormalReceiptBillingSourceReader.read collects the purchase order, the  *)
(* receipt, the native mapper's proposal and, page by page and then one by *)
(* one, every invoice and receipt of the supplier; the preview decides     *)
(* from them whether the receipt line may still be billed, and the context *)
(* compares that with the stored request and the acknowledged draft.  Each *)
(* request is a step: users of the ERP add, submit, cancel, edit and       *)
(* delete documents between any two of them.                               *)
(***************************************************************************)
EXTENDS Naturals, FiniteSets

CONSTANTS
    None,
    PageSize,       \* RELATED_PAGE_SIZE
    MaxPages,       \* MAX_RELATED_PAGES
    MaxDocuments,   \* MAX_RELATED_DOCUMENTS
    Names,          \* the names the ERP may give, in order
    Modes,          \* the ERP at the start, and what the read is for
    NewInvoices,    \* the invoices another user may add
    NewReceipts     \* the receipts another user may add

ASSUME ReadBoundsAssumption ==
    /\ PageSize \in Nat \ {0} /\ MaxPages \in Nat \ {0} /\ MaxDocuments \in Nat
    /\ Names \subseteq Nat /\ IsFiniteSet(Names)

VARIABLES
    enterprise,        \* the ERP's documents
    stored,     \* the bound insert request with the source it was frozen on,
                \* and the acknowledged draft
    reader,     \* the read in progress
    before,     \* history: what concerned the bill when the read began
    reused,     \* history: a name the read had listed was deleted and given again
    edits       \* edits by other users still to come

readVars == <<enterprise, stored, reader, before, reused, edits>>

(***************************************************************************)
(* A Purchase Invoice: the receipt row it names, its number of lines, the  *)
(* order row it names, its supplier bill reference, its document status,   *)
(* whether it is a return or a credit, whether every commercial field      *)
(* agrees with the bill, and the revision that every save of it moves on.  *)
(***************************************************************************)
Invoices ==
    [link : {"row", "receipt", "other", "unknown"}, lines : 1..2,
     po : {"row", "other", "undeclared"}, ref : {"bill", "other"},
     status : 0..2, return : BOOLEAN, fits : BOOLEAN, rev : Nat]

(* A Purchase Receipt, as far as it may return the receipt line. *)
Receipts ==
    [return : BOOLEAN, against : {"target", "other", "none"},
     child : {"row", "other", "undeclared", "none"}]

(* The mapper's proposal, and the part of it that is the clock's. *)
Proposals == [fits : BOOLEAN, body : 0..1, pinned : BOOLEAN, time : 0..1]

(* An order, or the receipt: whether it fits the bill, and its revision. *)
Sources == [fits : BOOLEAN, rev : Nat]
Unread == [fits |-> FALSE, rev |-> 0]

(* The documents read so far, by name. *)
Nothing == [n \in {} |-> None]
With(documents, n, d) ==
    [m \in DOMAIN documents \cup {n} |-> IF m = n THEN d ELSE documents[m]]

NoRead ==
    [pc |-> "idle", order |-> Unread, receipt |-> Unread, mapper |-> None,
     page |-> 0, names |-> [invoice |-> {}, receipt |-> {}],
     invoices |-> Nothing, receipts |-> Nothing, complete |-> FALSE,
     preview |-> None, direct |-> None, result |-> None]

(* The statuses of the preview, and how a read may end. *)
Effects == {"HOLD", "READY", "DRAFT_EXISTS", "ALREADY_SUBMITTED", "ALREADY_BILLED"}
Results ==
    {"NO_HIT", "UNFILTERED_PREVIEW_NOT_READY", "INSERT_REQUEST_MISMATCH",
     "RELATED_SOURCE_INCOMPLETE", "ACKNOWLEDGED_DRAFT_NOT_EXACTLY_ONCE",
     "ACKNOWLEDGED_DRAFT_MISMATCH", "COMPARISON_PREVIEW_NOT_READY", "ready",
     "prepared", "NOT_ADMITTED", "unchanged", "COMMERCIAL_SOURCE_CHANGED"}

ASSUME NoneAssumption ==
    /\ \A n \in Names : None # n
    /\ \A e \in Effects \cup Results : None # e
    /\ None \notin Invoices \cup Receipts

ASSUME DocumentsAssumption == NewInvoices \subseteq Invoices /\ NewReceipts \subseteq Receipts

Existing(doctype) == {n \in Names : enterprise[doctype][n] # None}

----------------------------------------------------------------------------
(* The preview. *)

(* _validate_related_invoice and _validate_related_receipt: a document     *)
(* that cannot be told apart from one on the receipt line fails the read.  *)
InvoiceReadable(d) == d.link # "unknown" /\ (d.link = "row" => d.po # "undeclared")
ReceiptReadable(d) ==
    d.return /\ d.against = "none" => d.child \in {"row", "other"}

IsReceiptReturn(d) == d.against = "target" \/ (d.return /\ d.child = "row")

(* The reasons one related invoice gives for holding the bill. *)
InvoiceHolds(d) ==
    \/ d.link # "row" /\ d.ref = "bill"
    \/ /\ d.link = "row"
       /\ \/ d.lines # 1 \/ d.po # "row" \/ d.return \/ d.status = 2 \/ ~ d.fits
          \/ d.status = 0 /\ d.ref # "bill"

(* Mutant of RelatedEffects: a linked invoice is looked at only when it    *)
(* carries the reference of this bill.                                     *)
EffectsOfReference(invoices, receipts) ==
    LET exact == {i \in DOMAIN invoices : invoices[i].ref = "bill"}
        holds == \/ \E i \in DOMAIN receipts : IsReceiptReturn(receipts[i])
                 \/ \E i \in exact : InvoiceHolds(invoices[i])
                 \/ Cardinality(exact) > 1
    IN  IF holds THEN "HOLD"
        ELSE IF exact = {} THEN "READY"
        ELSE IF \E i \in exact : invoices[i].status = 1 THEN "ALREADY_SUBMITTED"
        ELSE "DRAFT_EXISTS"

(* _related_effects: what the documents already did to the receipt line. *)
RelatedEffects(invoices, receipts) ==
    LET exact  == {i \in DOMAIN invoices : invoices[i].ref = "bill"}
        billed == {i \in DOMAIN invoices :
                      /\ invoices[i].link = "row" /\ invoices[i].lines = 1
                      /\ invoices[i].status = 1}
        holds  == \/ \E i \in DOMAIN receipts : IsReceiptReturn(receipts[i])
                  \/ \E i \in DOMAIN invoices : InvoiceHolds(invoices[i])
                  \/ Cardinality(exact) > 1
                  \/ Cardinality(billed) > 1
                  \/ billed # {} /\ \E i \in exact : invoices[i].status # 1
    IN  IF holds THEN "HOLD"
        ELSE IF \E i \in exact : invoices[i].status = 1 THEN "ALREADY_SUBMITTED"
        ELSE IF exact # {} THEN "DRAFT_EXISTS"
        ELSE IF billed # {} THEN "ALREADY_BILLED"
        ELSE "READY"

(* _validate_sources: order and receipt, with the rows of the bill. *)
SourcesFit(r) == r.order.fits /\ r.receipt.fits

(* validate_native_purchase_invoice of the proposal, or of a document in   *)
(* the state it is expected in.                                            *)
ProposalFits(r) == SourcesFit(r) /\ r.mapper.fits
DocumentFits(r, d, status) == SourcesFit(r) /\ d.fits /\ d.status = status /\ d.ref = "bill"

(* _related_is_complete: both lists to their end, and every document of them. *)
RelatedIsComplete(r) == r.complete

(* validate_billing_preview: an incomplete read, sources or a proposal     *)
(* that do not fit the bill, are held whatever the documents say.          *)
Preview(r, invoices) ==
    IF ~ RelatedIsComplete(r) \/ ~ ProposalFits(r) THEN "HOLD"
    ELSE RelatedEffects(invoices, r.receipts)

----------------------------------------------------------------------------
(* The context. *)

(* _requests_match, _acknowledged_draft_documents_match: only a posting    *)
(* time that the ERP sets by itself may differ.                            *)
RequestsMatch(old, new) ==
    \/ old = new
    \/ /\ ~ old.pinned /\ ~ new.pinned
       /\ [old EXCEPT !.time = 0] = [new EXCEPT !.time = 0]

(* validate_native_draft_acknowledgement of a document read under the      *)
(* acknowledged name, and its comparison with the acknowledged content.    *)
AcknowledgedDraft(r, d) == DocumentFits(r, d, 0) /\ d.rev = stored.rev

(* bind_native_insert_request: the proposal with the bill's reference and  *)
(* date, against the request that is stored, if one is.                    *)
BindsStored(r) ==
    /\ ProposalFits(r)
    /\ stored.request = None \/ RequestsMatch(stored.request, r.mapper)

(* build_normal_receipt_billing_context.  An acknowledged draft must be    *)
(* among the documents exactly once, unchanged there and in the direct     *)
(* read, and is left out of the preview it is compared with.               *)
Context(r) ==
    LET others == [n \in DOMAIN r.invoices \ {stored.draft} |-> r.invoices[n]]
    IN  IF stored.draft = None
        THEN IF Preview(r, r.invoices) # "READY" THEN "UNFILTERED_PREVIEW_NOT_READY"
             ELSE IF ~ BindsStored(r) THEN "INSERT_REQUEST_MISMATCH"
             ELSE "ready"
        ELSE IF ~ RelatedIsComplete(r) THEN "RELATED_SOURCE_INCOMPLETE"
        ELSE IF stored.draft \notin DOMAIN r.invoices THEN "ACKNOWLEDGED_DRAFT_NOT_EXACTLY_ONCE"
        ELSE IF ~ AcknowledgedDraft(r, r.direct)
                  \/ ~ AcknowledgedDraft(r, r.invoices[stored.draft])
        THEN "ACKNOWLEDGED_DRAFT_MISMATCH"
        ELSE IF Preview(r, others) # "READY" THEN "COMPARISON_PREVIEW_NOT_READY"
        ELSE IF ~ BindsStored(r) THEN "INSERT_REQUEST_MISMATCH"
        ELSE "ready"

(* _native_document_local_reason: the frozen body is a draft of this bill  *)
(* on this order and receipt row.  The body is the proposal with the       *)
(* bill's reference and date bound to it.                                  *)
LocalIdentity(r) == SourcesFit(r) /\ r.mapper.fits

(* Mutant of CommercialSource: leaves the related documents out.           *)
CommercialSourceParents(r) ==
    IF stored.source # None /\ r.order.rev = stored.source.order
       /\ r.receipt.rev = stored.source.receipt
    THEN stored.source
    ELSE [order |-> r.order.rev, receipt |-> r.receipt.rev,
          invoices |-> {}, receipts |-> {}]

(* _commercial_source: the fingerprint a version of the intent is frozen   *)
(* on, of order, receipt and every related document that was read, the     *)
(* acknowledged draft apart.                                               *)
CommercialSource(r) ==
    [order |-> r.order.rev, receipt |-> r.receipt.rev,
     invoices |-> {<<n, r.invoices[n]>> : n \in DOMAIN r.invoices \ {stored.draft}},
     receipts |-> {<<n, r.receipts[n]>> : n \in DOMAIN r.receipts}]

(* _admit_envelope: prepare() takes only a ready preview of a complete     *)
(* read, and the request that was bound to it.                             *)
AdmitsEnvelope(r) ==
    /\ r.preview = "READY"
    /\ RelatedIsComplete(r)
    /\ LocalIdentity(r)

----------------------------------------------------------------------------
(* The reader. *)

(* A document that bears on the receipt line or carries this bill's reference. *)
Concerns(d) == d.link = "row" \/ d.ref = "bill"

(* The documents that concern the bill: on the receipt line, under its     *)
(* reference, or returning it; the draft the coordinator owns apart.       *)
Concerning ==
    [invoice |-> {n \in Existing("invoice") \ {stored.draft} : Concerns(enterprise.invoice[n])},
     receipt |-> {n \in Existing("receipt") : IsReceiptReturn(enterprise.receipt[n])}]

FrozenSources ==
    [order : Nat, receipt : Nat, invoices : SUBSET (Names \X Invoices),
     receipts : SUBSET (Names \X Receipts)]

(* What is frozen holds nothing that concerns the bill: prepare() admits   *)
(* only a ready preview.                                                   *)
ClearSource(source) ==
    /\ source \in FrozenSources
    /\ \A e \in source.invoices : ~ Concerns(e[2])
    /\ \A e \in source.receipts : ~ IsReceiptReturn(e[2])

(* A save gives a document a new timestamp: whatever was frozen or         *)
(* acknowledged is older than a document that is added now.                *)
Older(frozen, d) ==
    /\ frozen.request # None => \A e \in frozen.source.invoices : e[2].rev < d.rev
    /\ frozen.draft # None => frozen.rev < d.rev

Enterprises ==
    [order : Sources, target : Sources, mapper : Proposals,
     invoice : [Names -> Invoices \cup {None}], receipt : [Names -> Receipts \cup {None}]]

Stores ==
    [request : Proposals \cup {None}, source : FrozenSources \cup {None},
     draft : Names \cup {None}, rev : Nat]

ASSUME ModesAssumption ==
    \A m \in Modes :
       /\ m.enterprise \in Enterprises /\ m.stored \in Stores /\ m.edits \in Nat
       /\ m.stored.request # None => ClearSource(m.stored.source)
       /\ \A d \in NewInvoices : Older(m.stored, d)

ReadInit ==
    /\ \E m \in Modes :
          /\ enterprise = m.enterprise
          /\ stored = m.stored
          /\ edits = m.edits
    /\ reader = NoRead
    /\ before = [invoice |-> {}, receipt |-> {}]
    /\ reused = FALSE

AllRead ==
    /\ DOMAIN reader.invoices = reader.names.invoice
    /\ DOMAIN reader.receipts = reader.names.receipt

Reading ==
    \/ reader.pc \in {"order", "receipt", "mapper", "invoice", "receipts"}
    \/ reader.pc = "documents" /\ ~ AllRead

StartRead ==
    /\ reader.pc = "idle"
    /\ reader' = [NoRead EXCEPT !.pc = "order"]
    /\ before' = Concerning
    /\ reused' = FALSE
    /\ UNCHANGED <<enterprise, stored, edits>>

(* One answered request takes the reader to pc. *)
Answered(pc) == [reader EXCEPT !.pc = pc]

(* The read ends here: whatever it collected, it is incomplete. *)
Fails == reader' = [Answered("collected") EXCEPT !.complete = FALSE]

ReadSources ==
    /\ \/ /\ reader.pc = "order"
          /\ reader' = [Answered("receipt") EXCEPT !.order = enterprise.order]
       \/ /\ reader.pc = "receipt"
          /\ reader' = [Answered("mapper") EXCEPT !.receipt = enterprise.target]
       \/ /\ reader.pc = "mapper"
          /\ reader' = [Answered("invoice") EXCEPT !.mapper = enterprise.mapper]
    /\ UNCHANGED <<enterprise, stored, before, reused, edits>>

(* Page number p of the names that exist, in name order, by offset. *)
Rank(names, n) == Cardinality({m \in names : m <= n})
Page(names, p) ==
    {n \in names : Rank(names, n) \in p * PageSize + 1 .. (p + 1) * PageSize}

(* Only a page that is not full ends the list. *)
LastPage(rows) == Cardinality(rows) < PageSize

(* The limit on documents is one for both lists. *)
TooMany(doctype, rows) ==
    LET known == IF doctype = "receipt" THEN Cardinality(reader.names.invoice) ELSE 0
    IN  known + Cardinality(reader.names[doctype]) + Cardinality(rows) > MaxDocuments

(* _discover_parent_names, one page: a name that does not come after those *)
(* seen before, too many documents or too many pages fail the read.        *)
DiscoverPage(doctype, pc, next) ==
    LET rows  == Page(Existing(doctype), reader.page)
        names == reader.names[doctype]
    IN  /\ reader.pc = pc
        /\ IF \/ \E n \in rows, m \in names : n <= m
              \/ TooMany(doctype, rows)
              \/ ~ LastPage(rows) /\ reader.page + 1 = MaxPages
           THEN Fails
           ELSE reader' = [Answered(IF LastPage(rows) THEN next ELSE pc) EXCEPT
                             !.names[doctype] = names \cup rows,
                             !.page = IF LastPage(rows) THEN 0 ELSE @ + 1]
        /\ UNCHANGED <<enterprise, stored, before, reused, edits>>

(* The first name that was discovered and not read yet. *)
NextOf(names, documents, n) ==
    /\ n \in names \ DOMAIN documents
    /\ \A m \in names \ DOMAIN documents : n <= m

(* The next discovered invoice or receipt; one that is gone fails the read. *)
ReadInvoice ==
    /\ reader.pc = "documents"
    /\ \E n \in Names :
          /\ NextOf(reader.names.invoice, reader.invoices, n)
          /\ LET d == enterprise.invoice[n]
             IN  IF d = None \/ ~ InvoiceReadable(d) THEN Fails
                 ELSE reader' = [reader EXCEPT !.invoices = With(@, n, d)]
    /\ UNCHANGED <<enterprise, stored, before, reused, edits>>

ReadReceipt ==
    /\ reader.pc = "documents"
    /\ DOMAIN reader.invoices = reader.names.invoice
    /\ \E n \in Names :
          /\ NextOf(reader.names.receipt, reader.receipts, n)
          /\ LET d == enterprise.receipt[n]
             IN  IF d = None \/ ~ ReceiptReadable(d) THEN Fails
                 ELSE reader' = [reader EXCEPT !.receipts = With(@, n, d)]
    /\ UNCHANGED <<enterprise, stored, before, reused, edits>>

Collected ==
    /\ reader.pc = "documents" /\ AllRead
    /\ reader' = [reader EXCEPT !.pc = "collected", !.complete = TRUE]
    /\ UNCHANGED <<enterprise, stored, before, reused, edits>>

(* Transport error, oversized or malformed answer, elapsed budget. *)
RequestFails ==
    /\ Reading
    /\ Fails
    /\ UNCHANGED <<enterprise, stored, before, reused, edits>>

(* The preview; then _direct_get of the acknowledged draft, if there is one. *)
ShowPreview ==
    /\ reader.pc = "collected"
    /\ reader' = [reader EXCEPT !.preview = Preview(reader, reader.invoices),
                    !.pc = IF stored.draft = None THEN "context" ELSE "direct"]
    /\ UNCHANGED <<enterprise, stored, before, reused, edits>>

DirectGet ==
    /\ reader.pc = "direct"
    /\ reader' = IF enterprise.invoice[stored.draft] = None
                 THEN [Answered("done") EXCEPT !.result = "NO_HIT"]
                 ELSE [Answered("context") EXCEPT !.direct = enterprise.invoice[stored.draft]]
    /\ UNCHANGED <<enterprise, stored, before, reused, edits>>

BuildContext ==
    /\ reader.pc = "context"
    /\ reader' = [reader EXCEPT !.result = Context(reader),
                    !.pc = IF Context(reader) = "ready" THEN "journal" ELSE "done"]
    /\ UNCHANGED <<enterprise, stored, before, reused, edits>>

(* The journal has the last word on a ready context: prepare() freezes the *)
(* request and the source it admits; before an insert or a submit,         *)
(* refresh_source() stops an intent whose source is not the frozen one.    *)
Prepare ==
    /\ reader.pc = "journal" /\ stored.request = None
    /\ reader' = [reader EXCEPT !.pc = "done",
                    !.result = IF AdmitsEnvelope(reader) THEN "prepared" ELSE "NOT_ADMITTED"]
    /\ stored' = IF AdmitsEnvelope(reader)
                 THEN [stored EXCEPT !.request = reader.mapper,
                                     !.source = CommercialSource(reader)]
                 ELSE stored
    /\ UNCHANGED <<enterprise, before, reused, edits>>

RefreshSource ==
    /\ reader.pc = "journal" /\ stored.request # None
    /\ reader' = [reader EXCEPT !.pc = "done",
                    !.result = IF CommercialSource(reader) = stored.source THEN "unchanged"
                               ELSE "COMMERCIAL_SOURCE_CHANGED"]
    /\ UNCHANGED <<enterprise, stored, before, reused, edits>>

----------------------------------------------------------------------------
(* Other users of the ERP. *)

(* Before and after the read an edit is just another initial state. *)
Edit ==
    /\ reader.pc \notin {"idle", "done"}
    /\ edits > 0 /\ edits' = edits - 1
    /\ UNCHANGED <<stored, reader>>

AddDocument ==
    /\ Edit
    /\ \/ \E n \in Names \ Existing("invoice"), d \in NewInvoices :
             /\ enterprise' = [enterprise EXCEPT !.invoice[n] = d]
             /\ reused' = (reused \/ n \in reader.names.invoice)
       \/ \E n \in Names \ Existing("receipt"), d \in NewReceipts :
             /\ enterprise' = [enterprise EXCEPT !.receipt[n] = d]
             /\ UNCHANGED reused
    /\ UNCHANGED before

(* A draft is submitted, a submitted invoice cancelled, a draft edited. *)
ChangeInvoice ==
    /\ Edit
    /\ \E n \in Existing("invoice") :
          \/ /\ enterprise.invoice[n].status < 2
             /\ enterprise' = [enterprise EXCEPT !.invoice[n].status = @ + 1]
          \/ /\ enterprise.invoice[n].status = 0
             /\ enterprise' = [enterprise EXCEPT !.invoice[n].rev = @ + 1]
    /\ UNCHANGED <<before, reused>>

(* Drafts and cancelled invoices can be deleted. *)
DeleteInvoice ==
    /\ Edit
    /\ \E n \in Existing("invoice") :
          /\ enterprise.invoice[n].status # 1
          /\ enterprise' = [enterprise EXCEPT !.invoice[n] = None]
          /\ before' = [before EXCEPT !.invoice = @ \ {n}]
    /\ UNCHANGED reused

(* The order or the receipt is edited, or the proposal's time moves on. *)
ChangeSources ==
    /\ Edit
    /\ \/ \E fits \in BOOLEAN :
             \/ enterprise' = [enterprise EXCEPT !.order = [fits |-> fits, rev |-> @.rev + 1]]
             \/ enterprise' = [enterprise EXCEPT !.target = [fits |-> fits, rev |-> @.rev + 1]]
       \/ enterprise' = [enterprise EXCEPT !.mapper.time = 1 - @]
       \/ enterprise' = [enterprise EXCEPT !.mapper.body = 1 - @]
    /\ UNCHANGED <<before, reused>>

Done == reader.pc = "done" /\ UNCHANGED readVars

ReadNext ==
    \/ StartRead
    \/ ReadSources
    \/ DiscoverPage("invoice", "invoice", "receipts")
    \/ DiscoverPage("receipt", "receipts", "documents")
    \/ ReadInvoice
    \/ ReadReceipt
    \/ Collected
    \/ RequestFails
    \/ ShowPreview
    \/ DirectGet
    \/ BuildContext
    \/ Prepare
    \/ RefreshSource
    \/ AddDocument
    \/ ChangeInvoice
    \/ DeleteInvoice
    \/ ChangeSources
    \/ Done

ReadSpec == ReadInit /\ [][ReadNext]_readVars

----------------------------------------------------------------------------
(* Properties. *)

(* No other invoice, draft, credit or return concerned the bill when the   *)
(* read began.                                                             *)
Clear == before.invoice = {} /\ before.receipt = {}

(* A read lets an insert or a submit go on only on a clear bill, however   *)
(* the lists grew, changed and shrank between the pages: a document that   *)
(* slides over a page boundary unread leaves a listed one that is gone,    *)
(* which fails the read, or was given its name again, which leaves a hole  *)
(* in the frozen source.  A first preparation, which has no frozen source  *)
(* to compare with, is clear unless a listed name was given again.         *)
ReadyMeansClear ==
    \/ reader.result = "unchanged"
    \/ reader.result \in {"ready", "prepared"} /\ ~ reused
    => Clear

(* The status the preview shows names the one effect there is: an invoice  *)
(* of this bill, or another's, alone on the receipt line; and only a line  *)
(* on which nothing was read is ready.                                     *)
PreviewIsExact ==
    LET line == {i \in DOMAIN reader.invoices : Concerns(reader.invoices[i])}
        only(status, ref) ==
            \E i \in line :
                /\ line = {i}
                /\ reader.invoices[i].link = "row" /\ reader.invoices[i].fits
                /\ reader.invoices[i].status = status /\ reader.invoices[i].ref = ref
    IN  /\ reader.preview = "READY" => line = {}
        /\ reader.preview = "DRAFT_EXISTS" => only(0, "bill")
        /\ reader.preview = "ALREADY_SUBMITTED" => only(1, "bill")
        /\ reader.preview = "ALREADY_BILLED" => only(1, "other")

================================================================================
