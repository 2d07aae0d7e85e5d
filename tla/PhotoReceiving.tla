--------------------------- MODULE PhotoReceiving ---------------------------
(***************************************************************************)
(* Photo receiving: a capture is photographed, read by a model, matched to *)
(* the purchase order, drafted as a purchase receipt and, once a human     *)
(* confirmed it, submitted.  Several service instances share the store;    *)
(* each does one operation at a time (its `work` lock) and carries its own *)
(* copy of the capture's state, saved only if the version did not move.    *)
(* Scans come in at any time and take no `work` lock.                      *)
(*                                                                         *)
(*   caps    : the captures table            images : capture_images, in   *)
(*   scans   : receiving_scans                        row order            *)
(*   docs    : the ERP's receipts            po     : the order's version  *)
(*   wire    : requests that timed out and may still arrive                *)
(*   inst    : the instances (operation under way, worker cursors)         *)
(*   seen    : the state of a draft an operator is looking at              *)
(***************************************************************************)
EXTENDS Naturals, Sequences, FiniteSets, FiniteSetsExt

CONSTANTS Captures, Units, Events, None, Instances, Photos, MaxEvents, MaxBarcodes, Modes

VARIABLES mode, caps, images, scans, barcodes, docs, po, wire, inst, seen, used

vars == <<mode, caps, images, scans, barcodes, docs, po, wire, inst, seen, used>>

ASSUME CapturesAssumption == Captures \subseteq Nat

(* Scan events of handling units, kept by the identity their source gave   *)
(* them.  An arrival is named by its capture, as in the code, where the    *)
(* capture's identity is derived from it.  stored: the payload first       *)
(* accepted under each event identity; conflicts: other payloads that came *)
(* under the same identity.  A scan here names a unit of its arrival.      *)

Payloads == [arrival : Captures, unit : Units]

NoScans == [stored |-> [e \in Events |-> None], conflicts |-> {}]

(* INSERT OR IGNORE into receiving_scans, then into the conflicts. *)
Scanned(s, e, p) ==
    IF s.stored[e] = None THEN [s EXCEPT !.stored[e] = p]
    ELSE IF s.stored[e] = p THEN s
    ELSE [s EXCEPT !.conflicts = @ \cup {[event |-> e, payload |-> p]}]

(* The arrivals whose work a scan invalidates: its own, and the one that   *)
(* was first recorded under the same event.                                *)
Disturbed(s, e, p) ==
    IF Scanned(s, e, p) = s THEN {}
    ELSE {p.arrival, Scanned(s, e, p).stored[e].arrival}

(* scans(arrival)["status"] = "CONFLICT" *)
Disputed(s, c) ==
    \E x \in s.conflicts : x.payload.arrival = c \/ s.stored[x.event].arrival = c

(* What an operator is shown of an arrival's inputs. *)
Inputs(s, c) ==
    <<{e \in Events : s.stored[e] # None /\ s.stored[e].arrival = c}, Disputed(s, c)>>

-----------------------------------------------------------------------------
(* What the tables and the instances hold. *)

Kinds == {"matching", "unlabelled", "unclear", "damaged"}
Statuses ==
    {"NONE", "AWAITING_PHOTO", "DUPLICATE_EVIDENCE", "ANALYZING", "UNAVAILABLE", "NEEDS_PHOTO",
     "NEEDS_REVIEW", "COUNT_CANDIDATE", "RECEIPT_PREPARED", "DRAFT_UNKNOWN", "DRAFT_VERIFIED",
     "SUBMIT_UNKNOWN", "RECEIPT_SUBMITTED"}
OpSteps == {"idle", "reading", "claim", "lookup", "post", "readback", "confirm", "submit", "verify"}

Shown == (SUBSET Events) \X BOOLEAN
Analyses == [kind : Kinds, image : Nat]
Identities == [image : Nat, barcode : Nat \cup {None}]
Sightings == [version : Nat, image : Nat, inputs : Shown]
Confirmations == [version : Nat, image : Nat, candidate : Nat \cup {None}, inputs : Shown]

CaptureRow ==
    [status : Statuses, version : Nat, image : Nat, digest : Photos \cup {None},
     analysis : Analyses \cup {None}, candidate : Nat \cup {None}, dup : Captures \cup {None},
     identity : Identities \cup {None}, claim : BOOLEAN, attempted : BOOLEAN,
     draft : Nat \cup {None}, confirmed : Confirmations \cup {None}, receipt : BOOLEAN,
     noted : BOOLEAN]
Receipts == [drafts : Nat, docstatus : {0, 1}, rev : Nat, same : BOOLEAN, posted : Nat]
Requests == [kind : {"draft", "submit"}, cap : Captures, rev : Nat]
Ops == [pc : OpSteps, cap : Captures \cup {None}, state : CaptureRow, fresh : BOOLEAN, rev : Nat]

(* None is a value of its own; a mode says which part of the world is used. *)
ASSUME NoneAssumption ==
    None \notin Photos \cup Nat \cup Payloads \cup Analyses \cup Identities \cup Sightings
                 \cup Confirmations
ASSUME ModesAssumption ==
    Modes \subseteq [instances : SUBSET Instances, captures : SUBSET Captures, photos : SUBSET Photos,
                     uploads : Nat, kinds : SUBSET Kinds, leases : BOOLEAN, scans : SUBSET Captures,
                     barcodes : BOOLEAN, auto : BOOLEAN, edits : Nat, unfit : SUBSET Nat,
                     faults : Nat, crashes : Nat]

TypeOK ==
    /\ mode \in Modes
    /\ caps \in [Captures -> CaptureRow]
    /\ images \in Seq([cap : Captures, digest : Photos])
    /\ scans \in [stored : [Events -> Payloads \cup {None}],
                  conflicts : SUBSET [event : Events, payload : Payloads]]
    /\ barcodes \in [Captures -> SUBSET Nat]
    /\ docs \in [Captures -> Receipts]
    /\ po \in Nat
    /\ wire \in SUBSET Requests
    /\ inst \in [Instances -> [op : Ops, submits : Nat, drafts : Nat, turn : {"submit", "draft"}]]
    /\ seen \in [Captures -> Sightings \cup {None}]
    /\ used \in [uploads : Nat, edits : Nat, faults : Nat, crashes : Nat]

-----------------------------------------------------------------------------

(* PhotoReceiptERP: the tenant's receipts.  One is found by the marker its  *)
(* capture puts on it.  For each capture: drafts, the receipts that carry   *)
(* the marker; docstatus, 0 draft, 1 submitted; rev, the document's         *)
(* version; same, whether it still says what the candidate said; posted,    *)
(* how often its quantity went to the stock ledger.                         *)

NoReceipt == [drafts |-> 0, docstatus |-> 0, rev |-> 0, same |-> TRUE, posted |-> 0]

(* POST of a new draft. *)
Drafted(d) == [d EXCEPT !.drafts = @ + 1]

(* frappe.client.submit refuses a document whose version has moved. *)
Accepts(d, rev) == d.drafts = 1 /\ d.docstatus = 0 /\ d.rev = rev
Submitted(d, rev) ==
    IF Accepts(d, rev) THEN [d EXCEPT !.docstatus = 1, !.posted = @ + 1] ELSE d

(* Someone edits the draft in the desk, and it may stop matching. *)
Edited(d, same) == [d EXCEPT !.rev = @ + 1, !.same = same]

(* _verify_receipt on the one receipt that carries the marker. *)
VerifiedReceipt(d, docstatus) == d.drafts = 1 /\ d.docstatus = docstatus /\ d.same

(* submission_document: the draft is the one that was read back. *)
PreflightPasses(d, rev) == VerifiedReceipt(d, 0) /\ d.rev = rev

(* submit's readback: the document and the exact ledger quantity. *)
LedgerVerified(d) == VerifiedReceipt(d, 1) /\ d.posted = 1

-----------------------------------------------------------------------------
NoCapture ==
    [status |-> "NONE", version |-> 0, image |-> 0, digest |-> None, analysis |-> None,
     candidate |-> None, dup |-> None, identity |-> None, claim |-> FALSE, attempted |-> FALSE,
     draft |-> None, confirmed |-> None, receipt |-> FALSE, noted |-> FALSE]

NoOp == [pc |-> "idle", cap |-> None, state |-> NoCapture, fresh |-> FALSE, rev |-> 0]

NoInstance == [op |-> NoOp, submits |-> 0, drafts |-> 0, turn |-> "submit"]

Init ==
    /\ mode \in Modes
    /\ caps = [c \in Captures |-> NoCapture]
    /\ images = <<>> /\ scans = NoScans /\ barcodes = [c \in Captures |-> {}]
    /\ docs = [c \in Captures |-> NoReceipt] /\ po = 0 /\ wire = {}
    /\ inst = [i \in Instances |-> NoInstance]
    /\ seen = [c \in Captures |-> None]
    /\ used = [uploads |-> 0, edits |-> 0, faults |-> 0, crashes |-> 0]

-----------------------------------------------------------------------------
(* One event of a capture. *)

(* _event, in memory. *)
Advanced(s, status) ==
    [s EXCEPT !.status = status, !.version = @ + 1, !.noted = FALSE, !.claim = status = "ANALYZING"]

(* Mutant of Saves: the update does not compare the version. *)
SavesAnyway(c, v, next) == [caps EXCEPT ![c] = next]

(* _event, in the store: nothing is written over a version that moved. *)
Saves(c, v, next) == IF caps[c].version = v THEN [caps EXCEPT ![c] = next] ELSE caps

Won(c, v) == Saves(c, v, [caps[c] EXCEPT !.version = v + 1]) # caps

(* An unchanged uncertain outcome is not noted twice. *)
Noted(s, status) == IF s.noted THEN s ELSE [Advanced(s, status) EXCEPT !.noted = TRUE]

(* _recover_stale_analysis, on every read of a capture. *)
Recovered(s) ==
    IF s.status = "ANALYZING" /\ ~s.claim THEN Advanced(s, "UNAVAILABLE") ELSE s

Idle(i) == i \in mode.instances /\ inst[i].op.pc = "idle"
Op(c, pc, s) == [NoOp EXCEPT !.pc = pc, !.cap = c, !.state = s]
Does(i, op) == inst' = [inst EXCEPT ![i].op = op]

(* PhotoReceiptERP.candidate and check_candidate: the order as it is now   *)
(* has one line for the item, in the counted unit, with enough left and    *)
(* terms that can be copied.                                               *)
OrderFits == po \notin mode.unfit

(* _assessment: an identity that was confirmed is of this photo. *)
Identified(s) == s.identity # None => s.identity.image = s.image

(* _candidate: the order can be matched, and no input is disputed. *)
Matches(c) == OrderFits /\ ~Disputed(scans, c)

(* The rows that hold this exact photo. *)
Rows(digest) == {n \in 1 .. Len(images) : images[n].digest = digest}

(* The capture that held it first, if that is another one. *)
Elsewhere(c, digest) ==
    {images[n].cap : n \in {n \in Rows(digest) : \A k \in Rows(digest) : n <= k}} \ {c}

-----------------------------------------------------------------------------
(* Photos. *)

Create(c) ==
    /\ c \in mode.captures /\ caps[c].status = "NONE"
    /\ caps' = [caps EXCEPT ![c].status = "AWAITING_PHOTO"]
    /\ UNCHANGED <<mode, images, scans, barcodes, docs, po, wire, inst, seen, used>>

(* _upload, up to the request to the reader: one transaction. *)
Upload(i, c, photo) ==
    LET s == Recovered(caps[c])
        others == {n \in Rows(photo) : images[n].cap # c}
        status == IF others # {} THEN "DUPLICATE_EVIDENCE" ELSE "ANALYZING"
        next == [Advanced(s, status) EXCEPT
                   !.analysis = None, !.candidate = None, !.identity = None, !.digest = photo,
                   !.image = @ + 1,
                   !.dup = IF others # {} THEN images[Min(others)].cap ELSE None]
    IN /\ Idle(i) /\ photo \in mode.photos /\ caps[c].status # "NONE" /\ used.uploads < mode.uploads
       /\ ~s.attempted
       /\ s.digest = photo => s.status = "UNAVAILABLE"
       /\ s.version < MaxEvents
       /\ used' = [used EXCEPT !.uploads = @ + 1]
       /\ caps' = [caps EXCEPT ![c] = next]
       /\ images' = Append(images, [cap |-> c, digest |-> photo])
       /\ Does(i, IF others # {} THEN NoOp ELSE Op(c, "reading", next))
       /\ UNCHANGED <<mode, scans, barcodes, docs, po, wire, seen>>

(* What the reader's assessment, or its failure, makes of the capture. *)
Assessed(c, s, kind) ==
    LET read == [s EXCEPT !.analysis = [kind |-> kind, image |-> s.image]] IN
    CASE kind = "failed" -> Advanced(s, "UNAVAILABLE")
      [] kind = "unclear" -> Advanced(read, "NEEDS_PHOTO")
      [] kind = "damaged" -> Advanced(read, "NEEDS_REVIEW")
      [] kind = "unlabelled" -> Advanced(read, "COUNT_CANDIDATE")
      [] kind = "matching" /\ Matches(c) ->
           Advanced([read EXCEPT !.candidate = po], "RECEIPT_PREPARED")
      [] OTHER -> Advanced(read, "NEEDS_REVIEW")

ReadPhoto(i) ==
    LET op == inst[i].op IN
    /\ op.pc = "reading"
    /\ \E kind \in mode.kinds \cup {"failed"} :
         caps' = Saves(op.cap, op.state.version, Assessed(op.cap, op.state, kind))
    /\ Does(i, NoOp)
    /\ UNCHANGED <<mode, images, scans, barcodes, docs, po, wire, seen, used>>

(* The lease of an analysis runs out, whether or not its owner still runs. *)
LeaseEnds(c) ==
    /\ mode.leases /\ caps[c].claim
    /\ caps' = [caps EXCEPT ![c].claim = FALSE]
    /\ UNCHANGED <<mode, images, scans, barcodes, docs, po, wire, inst, seen, used>>

(* Any read of the capture, or the start of an instance. *)
Recover(c) ==
    /\ Recovered(caps[c]) # caps[c]
    /\ caps' = [caps EXCEPT ![c] = Recovered(@)]
    /\ UNCHANGED <<mode, images, scans, barcodes, docs, po, wire, inst, seen, used>>

(* resolve_barcode against the order as it is now, if the order allows it. *)
Resolved == IF OrderFits THEN {po} ELSE {}

(* A barcode is resolved and retained. *)
Barcode(c) ==
    /\ mode.barcodes /\ Resolved # {} /\ po \notin barcodes[c] /\ Cardinality(barcodes[c]) < MaxBarcodes
    /\ barcodes' = [barcodes EXCEPT ![c] = @ \cup {po}]
    /\ UNCHANGED <<mode, caps, images, scans, docs, po, wire, inst, seen, used>>

(* confirm_identity: only the missing label, never a conflict; a barcode   *)
(* that is cited must resolve as it did.                                   *)
ConfirmIdentity(i, c, evidence) ==
    /\ Idle(i)
    /\ caps[c].status \in {"COUNT_CANDIDATE", "NEEDS_REVIEW"}
    /\ ~caps[c].attempted /\ caps[c].dup = None
    /\ caps[c].analysis.kind = "unlabelled" /\ Matches(c)
    /\ evidence # None => evidence \in barcodes[c] \cap Resolved
    /\ caps' = Saves(c, caps[c].version,
                 Advanced([caps[c] EXCEPT !.candidate = po,
                             !.identity = [image |-> caps[c].image, barcode |-> evidence]],
                          "RECEIPT_PREPARED"))
    /\ UNCHANGED <<mode, images, scans, barcodes, docs, po, wire, inst, seen, used>>

(* Mutant of Scan: the input is recorded beside the capture. *)
ScanQuietly(e, p) ==
    /\ p.arrival \in mode.scans /\ Scanned(scans, e, p) # scans
    /\ scans' = Scanned(scans, e, p)
    /\ UNCHANGED <<mode, caps, images, barcodes, docs, po, wire, inst, seen, used>>

(* scan: the event and the versions of the work it bears on move together. *)
Scan(e, p) ==
    /\ p.arrival \in mode.scans /\ Scanned(scans, e, p) # scans
    /\ scans' = Scanned(scans, e, p)
    /\ caps' = [c \in Captures |->
                  IF c \in Disturbed(scans, e, p) /\ caps[c].status # "NONE"
                  THEN [caps[c] EXCEPT !.version = @ + 1, !.noted = FALSE] ELSE caps[c]]
    /\ UNCHANGED <<mode, images, barcodes, docs, po, wire, inst, seen, used>>

-----------------------------------------------------------------------------
(* The draft. *)

(* draft, up to the claim: the store and the operation after it. *)
BeginDraft(c) ==
    LET s == caps[c] IN
    CASE s.attempted -> [caps |-> caps, op |-> Op(c, "lookup", s)]
      [] ~s.attempted /\ Elsewhere(c, s.digest) # {} ->
           [caps |-> Saves(c, s.version,
                       Advanced([s EXCEPT !.dup = CHOOSE d \in Elsewhere(c, s.digest) : TRUE],
                                "DUPLICATE_EVIDENCE")),
            op |-> NoOp]
      [] ~s.attempted /\ Elsewhere(c, s.digest) = {} /\ Matches(c) /\ Identified(s) ->
           IF po = s.candidate THEN [caps |-> caps, op |-> Op(c, "claim", s)]
           ELSE [caps |-> Saves(c, s.version, Advanced(s, "NEEDS_REVIEW")), op |-> NoOp]
      [] OTHER -> [caps |-> caps, op |-> NoOp]

Draftable(c) == caps[c].draft = None /\ caps[c].status \in {"RECEIPT_PREPARED", "DRAFT_UNKNOWN"}

(* The operator's first request; its repetitions are the worker's lookups. *)
Draft(i, c) ==
    /\ Idle(i) /\ Draftable(c) /\ ~caps[c].attempted
    /\ <<BeginDraft(c).caps, BeginDraft(c).op>> # <<caps, NoOp>>
    /\ caps' = BeginDraft(c).caps
    /\ Does(i, BeginDraft(c).op)
    /\ UNCHANGED <<mode, images, scans, barcodes, docs, po, wire, seen, used>>

ClaimDraft(i) ==
    LET op == inst[i].op
        next == Advanced([op.state EXCEPT !.attempted = TRUE], "DRAFT_UNKNOWN")
    IN /\ op.pc = "claim"
       /\ caps' = Saves(op.cap, op.state.version, next)
       /\ Does(i, IF Won(op.cap, op.state.version)
                  THEN [Op(op.cap, "lookup", next) EXCEPT !.fresh = TRUE] ELSE NoOp)
       /\ UNCHANGED <<mode, images, scans, barcodes, docs, po, wire, seen, used>>

(* An outcome that could not be confirmed, saved from the caller's copy. *)
NoteDraft(i) ==
    LET op == inst[i].op IN
    /\ caps' = Saves(op.cap, op.state.version, Noted(op.state, "DRAFT_UNKNOWN"))
    /\ Does(i, NoOp)

(* The lookup by marker that precedes every write. *)
LookupDraft(i) ==
    LET op == inst[i].op IN
    /\ op.pc = "lookup"
    /\ \/ /\ docs[op.cap].drafts = 1
          /\ Does(i, [op EXCEPT !.pc = "readback"]) /\ UNCHANGED caps
       \/ /\ docs[op.cap].drafts = 0 /\ op.fresh
          /\ Does(i, [op EXCEPT !.pc = "post"]) /\ UNCHANGED caps
       \/ /\ docs[op.cap].drafts > 1 \/ (docs[op.cap].drafts = 0 /\ ~op.fresh)
          /\ NoteDraft(i)
    /\ UNCHANGED <<mode, images, scans, barcodes, docs, po, wire, seen, used>>

Fault == used.faults < mode.faults /\ used' = [used EXCEPT !.faults = @ + 1]

(* The draft is created, or the request fails having arrived, not having   *)
(* arrived, or arriving later.                                             *)
PostDraft(i) ==
    LET op == inst[i].op IN
    /\ op.pc = "post"
    /\ \/ /\ docs' = [docs EXCEPT ![op.cap] = Drafted(@)]
          /\ Does(i, [op EXCEPT !.pc = "readback"])
          /\ UNCHANGED <<caps, wire, used>>
       \/ /\ Fault /\ NoteDraft(i)
          /\ \/ docs' = [docs EXCEPT ![op.cap] = Drafted(@)] /\ UNCHANGED wire
             \/ wire' \in {wire, wire \cup {[kind |-> "draft", cap |-> op.cap, rev |-> 0]}}
                /\ UNCHANGED docs
    /\ UNCHANGED <<mode, images, scans, barcodes, po, seen>>

ReadDraft(i) ==
    LET op == inst[i].op IN
    /\ op.pc = "readback"
    /\ \/ /\ VerifiedReceipt(docs[op.cap], 0)
          /\ caps' = Saves(op.cap, op.state.version,
                       Advanced([op.state EXCEPT !.draft = docs[op.cap].rev], "DRAFT_VERIFIED"))
          /\ Does(i, NoOp)
          /\ UNCHANGED used
       \/ ~VerifiedReceipt(docs[op.cap], 0) /\ NoteDraft(i) /\ UNCHANGED used
       \/ Fault /\ NoteDraft(i)
    /\ UNCHANGED <<mode, images, scans, barcodes, docs, po, wire, seen>>

-----------------------------------------------------------------------------
(* The submission. *)

(* An operator opens the draft. *)
Look(c) ==
    /\ caps[c].status = "DRAFT_VERIFIED"
    /\ seen' = [seen EXCEPT ![c] = [version |-> caps[c].version, image |-> caps[c].image,
                                    inputs |-> Inputs(scans, c)]]
    /\ seen' # seen
    /\ UNCHANGED <<mode, caps, images, scans, barcodes, docs, po, wire, inst, used>>

(* submit, up to the claim, for the version the operator confirmed. *)
Submit(i, c) ==
    LET s == caps[c]
        fresh == Matches(c) /\ Identified(s) /\ po = s.candidate
    IN
    /\ Idle(i) /\ s.draft # None /\ s.confirmed = None
    /\ seen[c] # None /\ seen[c].version = s.version
    /\ s.status = "DRAFT_VERIFIED"
    /\ \/ /\ Matches(c) /\ po = s.candidate /\ PreflightPasses(docs[c], s.draft)
          /\ Does(i, [Op(c, "confirm", s) EXCEPT !.rev = docs[c].rev])
          /\ UNCHANGED <<caps, used>>
       \/ /\ ~(fresh /\ PreflightPasses(docs[c], s.draft))
          /\ caps' = Saves(c, s.version, Advanced(s, "NEEDS_REVIEW"))
          /\ UNCHANGED <<inst, used>>
       \/ /\ Fault
          /\ caps' = Saves(c, s.version, Advanced(s, "NEEDS_REVIEW"))
          /\ UNCHANGED inst
    /\ UNCHANGED <<mode, images, scans, barcodes, docs, po, wire, seen>>

(* The durable intent, before the request. *)
ClaimSubmit(i) ==
    LET op == inst[i].op
        next == Advanced([op.state EXCEPT !.confirmed =
                            [version |-> op.state.version, image |-> op.state.image,
                             candidate |-> op.state.candidate, inputs |-> Inputs(scans, op.cap)]],
                         "SUBMIT_UNKNOWN")
    IN /\ op.pc = "confirm"
       /\ caps' = Saves(op.cap, op.state.version, next)
       /\ Does(i, IF Won(op.cap, op.state.version)
                  THEN [Op(op.cap, "submit", next) EXCEPT !.rev = op.rev] ELSE NoOp)
       /\ UNCHANGED <<mode, images, scans, barcodes, docs, po, wire, seen, used>>

(* An unconfirmed submission is noted on the capture as it is now. *)
NoteSubmit(i) ==
    LET c == inst[i].op.cap IN
    /\ caps' = IF caps[c].receipt THEN caps
               ELSE [caps EXCEPT ![c] = Noted(@, "SUBMIT_UNKNOWN")]
    /\ Does(i, NoOp)

(* A submission changes the receipt, and may move the order's version. *)
Lands(c, rev) ==
    /\ docs' = [docs EXCEPT ![c] = Submitted(@, rev)]
    /\ po' \in IF Accepts(docs[c], rev) THEN {po, po + 1} ELSE {po}

PostSubmit(i) ==
    LET op == inst[i].op IN
    /\ op.pc = "submit"
    /\ \/ /\ Accepts(docs[op.cap], op.rev) /\ Lands(op.cap, op.rev)
          /\ Does(i, [op EXCEPT !.pc = "verify"])
          /\ UNCHANGED <<caps, wire, used>>
       \/ /\ ~Accepts(docs[op.cap], op.rev) /\ NoteSubmit(i)
          /\ UNCHANGED <<docs, po, wire, used>>
       \/ /\ Fault /\ NoteSubmit(i)
          /\ \/ Lands(op.cap, op.rev) /\ UNCHANGED wire
             \/ wire' \in {wire, wire \cup {[kind |-> "submit", cap |-> op.cap, rev |-> op.rev]}}
                /\ UNCHANGED <<docs, po>>
    /\ UNCHANGED <<mode, images, scans, barcodes, seen>>

(* The readback of the original receipt: all that is ever repeated. *)
VerifySubmit(i) ==
    LET op == inst[i].op IN
    /\ op.pc = "verify"
    /\ \/ /\ LedgerVerified(docs[op.cap])
          /\ caps' = IF caps[op.cap].receipt THEN caps
                     ELSE [caps EXCEPT ![op.cap] =
                             Advanced([@ EXCEPT !.receipt = TRUE], "RECEIPT_SUBMITTED")]
          /\ Does(i, NoOp) /\ UNCHANGED used
       \/ ~LedgerVerified(docs[op.cap]) /\ NoteSubmit(i) /\ UNCHANGED used
       \/ Fault /\ NoteSubmit(i)
    /\ UNCHANGED <<mode, images, scans, barcodes, docs, po, wire, seen>>

-----------------------------------------------------------------------------
(* The worker of an instance. *)

(* Mutant of NextRow: the lowest identity every time. *)
FirstRow(rows, cursor) == Min(rows)

(* The row after the cursor, else the first. *)
NextRow(rows, cursor) ==
    IF \E c \in rows : c > cursor THEN Min({c \in rows : c > cursor}) ELSE Min(rows)

Unconfirmed == {c \in Captures : caps[c].status = "SUBMIT_UNKNOWN"}
Preparable == {c \in Captures : mode.auto /\ Draftable(c)}

(* reconcile_next_submission: only ever the readback. *)
ReconcileNext(i) ==
    LET c == NextRow(Unconfirmed, inst[i].submits) IN
    /\ Idle(i) /\ Unconfirmed # {}
    /\ inst[i].turn = "submit" \/ Preparable = {}
    /\ inst' = [inst EXCEPT ![i] = [@ EXCEPT !.turn = "draft", !.submits = c,
                                             !.op = Op(c, "verify", caps[c])]]
    /\ UNCHANGED <<mode, caps, images, scans, barcodes, docs, po, wire, seen, used>>

(* prepare_next_draft: an order that cannot be read sends a candidate back *)
(* for review.                                                             *)
PrepareNext(i) ==
    LET c == NextRow(Preparable, inst[i].drafts)
        begins(store, op) ==
            /\ caps' = store
            /\ inst' = [inst EXCEPT ![i] = [@ EXCEPT !.turn = "submit", !.drafts = c, !.op = op]]
    IN /\ Idle(i) /\ Preparable # {}
       /\ inst[i].turn = "draft" \/ Unconfirmed = {}
       /\ \/ begins(BeginDraft(c).caps, BeginDraft(c).op) /\ UNCHANGED used
          \/ /\ Fault /\ ~caps[c].attempted
             /\ begins(Saves(c, caps[c].version, Advanced(caps[c], "NEEDS_REVIEW")), NoOp)
       /\ UNCHANGED <<mode, images, scans, barcodes, docs, po, wire, seen>>

-----------------------------------------------------------------------------
(* The world. *)

(* A request that timed out arrives after all. *)
Arrive(m) ==
    /\ m \in wire /\ wire' = wire \ {m}
    /\ IF m.kind = "submit" THEN Lands(m.cap, m.rev)
       ELSE docs' = [docs EXCEPT ![m.cap] = Drafted(@)] /\ UNCHANGED po
    /\ UNCHANGED <<mode, caps, images, scans, barcodes, inst, seen, used>>

EditOrder ==
    /\ used.edits < mode.edits /\ used' = [used EXCEPT !.edits = @ + 1]
    /\ po' = po + 1
    /\ UNCHANGED <<mode, caps, images, scans, barcodes, docs, wire, inst, seen>>

EditDraft(c, same) ==
    /\ used.edits < mode.edits /\ used' = [used EXCEPT !.edits = @ + 1]
    /\ docs[c].drafts = 1 /\ docs[c].docstatus = 0
    /\ docs' = [docs EXCEPT ![c] = Edited(@, same)]
    /\ UNCHANGED <<mode, caps, images, scans, barcodes, po, wire, inst, seen>>

(* An instance dies and is started again on the same store. *)
Crash(i) ==
    /\ used.crashes < mode.crashes /\ used' = [used EXCEPT !.crashes = @ + 1]
    /\ inst[i] # NoInstance
    /\ inst' = [inst EXCEPT ![i] = NoInstance]
    /\ UNCHANGED <<mode, caps, images, scans, barcodes, docs, po, wire, seen>>

Step(i) ==
    \/ ReadPhoto(i) \/ ClaimDraft(i) \/ LookupDraft(i) \/ PostDraft(i) \/ ReadDraft(i)
    \/ ClaimSubmit(i) \/ PostSubmit(i) \/ VerifySubmit(i)

Worker(i) == ReconcileNext(i) \/ PrepareNext(i)

Next ==
    \/ \E c \in Captures : Create(c) \/ Look(c) \/ LeaseEnds(c) \/ Recover(c) \/ Barcode(c)
    \/ \E i \in Instances : Step(i) \/ Worker(i) \/ Crash(i)
    \/ \E i \in Instances, c \in Captures : Draft(i, c) \/ Submit(i, c)
    \/ \E i \in Instances, c \in Captures, photo \in Photos : Upload(i, c, photo)
    \/ \E i \in Instances, c \in Captures : \E e \in barcodes[c] \cup {None} : ConfirmIdentity(i, c, e)
    \/ \E e \in Events, p \in Payloads : Scan(e, p)
    \/ \E m \in wire : Arrive(m)
    \/ EditOrder
    \/ \E c \in Captures, same \in BOOLEAN : EditDraft(c, same)

(* A request runs to its end (every wait in it is bounded), and the worker *)
(* thread of an instance keeps making its rounds.                          *)
Spec == Init /\ [][Next]_vars /\ \A i \in Instances : WF_vars(Step(i)) /\ WF_vars(Worker(i))

-----------------------------------------------------------------------------
(* Properties. *)

(* However many instances, crashes, retries and late requests: one draft   *)
(* and one stock posting per capture (draft_attempted and submit_attempted *)
(* are claimed by version before the first write), and the same photo      *)
(* never backs the receipts of two captures.                               *)
OneReceiptPerPhoto ==
    /\ \A c \in Captures : docs[c].drafts <= 1 /\ docs[c].posted <= 1
    /\ \A c, d \in Captures :
         c # d /\ caps[c].attempted /\ caps[d].attempted => caps[c].digest # caps[d].digest

(* Stock is posted only for a receipt an operator confirmed, and what the  *)
(* operator was looking at had every input that was in the store when the  *)
(* confirmation was claimed.  What a capture shows is about the photo last *)
(* uploaded for it, also when the reader of an earlier one answers late.   *)
ConfirmedWhatWasSeen ==
    \A c \in Captures :
      /\ docs[c].posted > 0 => caps[c].confirmed # None
      /\ caps[c].confirmed # None =>
           /\ seen[c].inputs = caps[c].confirmed.inputs
           /\ seen[c].image = caps[c].image
      /\ caps[c].image = Cardinality({n \in 1 .. Len(images) : images[n].cap = c})
      /\ caps[c].analysis # None => caps[c].analysis.image = caps[c].image
      /\ caps[c].identity # None => caps[c].identity.image = caps[c].image

(* A posted receipt is learned by its capture, and so is a draft where     *)
(* drafts are prepared automatically, although other captures may stay     *)
(* uncertain for ever.                                                     *)
EffectsAreLearned ==
    \A c \in Captures :
      /\ docs[c].posted > 0 ~> caps[c].receipt
      /\ (docs[c].drafts > 0 /\ mode.auto) ~> (caps[c].draft # None \/ ~docs[c].same)

=============================================================================
