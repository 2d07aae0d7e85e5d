-------------------------- MODULE NormalReceiptBilling --------------------------
(***************************************************************************)
(* NormalReceiptBillingCoordinator with the console that drives it: from a *)
(* supplier bill's basis, one draft Purchase Invoice is inserted in the    *)
(* ERP and submitted.  Requests of the console run in worker threads; each *)
(* is a program of journal transactions and ERP requests, and other        *)
(* threads, the ERP's own users, the network and a server restart come     *)
(* between any two of them.  The ERP is external: it may execute, refuse   *)
(* or lose a POST, and execute one after its client gave up waiting.       *)
(***************************************************************************)
EXTENDS BillingJournal, Sequences, FiniteSets

CONSTANTS
  Workers,       \* request threads
  MaxEdits,      \* bound on revisions other users give a document
  MaxRestarts    \* bound on restarts of the server

ASSUME BillingBoundAssumption == MaxEdits \in Nat /\ MaxRestarts \in Nat

VARIABLES
  calls,      \* worker -> the request it is serving
  tokens,     \* intent version -> raw token in this process's memory, 0: none
  source,     \* current commercial revision of purchase order and receipt
  docs,       \* the ERP's Purchase Invoices on the receipt line, by name
  wire,       \* POSTs on their way to the ERP, insert responses on their way back
  restarts

journal == <<row, issued>>
erp == <<source, docs, wire>>
vars == <<row, issued, calls, tokens, source, docs, wire, restarts>>

Versions == 1..MaxVersion
Steps == {"idle", "prepare", "approve", "keep_token", "insert_start", "insert_read",
          "insert_refresh", "insert_claim", "insert_post", "insert_wait", "insert_admit",
          "inserted", "submit_start", "submit_read", "submit_refresh", "submit_claim",
          "submit_post", "submit_wait", "reconcile_start", "reconcile_read",
          "reconcile_admit", "hold"}

\* What a request remembers between its transactions: the manager and version
\* it was called with, the token it holds, the version whose bound insert
\* request it read, the observed source revision, the document of an
\* acknowledgement or readback, and the readback kind of a pending hold.
Idle == [pc |-> "idle", mgr |-> NoManager, version |-> 0, token |-> 0, request |-> 0,
         obs |-> 0, doc |-> 0, rev |-> 0, kind |-> "none", back |-> "idle"]
Call == [pc : Steps, mgr : Managers \cup {NoManager}, version : 0..MaxVersion,
         token : Nat, request : 0..MaxVersion, obs : 0..MaxSource,
         doc : Nat, rev : Nat, kind : Readbacks, back : {"idle", "inserted"}]

\* A Purchase Invoice: the intent version whose request created it, its native
\* status and the revision of its content.
Doc == [version : Versions, status : {"draft", "submitted", "deleted"}, rev : Nat]

InsertPosts == [kind : {"insert"}, by : Workers, version : Versions]
SubmitPosts == [kind : {"submit"}, doc : Nat, rev : Nat]
InsertReplies == [kind : {"reply"}, by : Workers, doc : Nat]

\* The shape of the state.
TypeOK ==
  /\ row \in Row
  /\ issued \in Nat
  /\ calls \in [Workers -> Call]
  /\ tokens \in [Versions -> Nat]
  /\ source \in 1..MaxSource
  /\ docs \in Seq(Doc)
  /\ wire \subseteq InsertPosts \cup SubmitPosts \cup InsertReplies
  /\ restarts \in 0..MaxRestarts

Init ==
  /\ JournalInit
  /\ calls = [w \in Workers |-> Idle]
  /\ tokens = [v \in Versions |-> 0]
  /\ source = 1
  /\ docs = <<>>
  /\ wire = {}
  /\ restarts = 0

At(w, pc) == calls[w].pc = pc
Goto(w, pc) == calls' = [calls EXCEPT ![w].pc = pc]
Return(w) == calls' = [calls EXCEPT ![w] = Idle]
\* Enters an operation for manager m with none of its locals set.
Enter(w, pc, m) == calls' = [calls EXCEPT ![w] = [Idle EXCEPT !.pc = pc, !.mgr = m]]

\* _hold: the next transaction records kind and ends coordinator.insert (the
\* console then goes on with "inserted") or the whole request.
Hold(w, kind, back) ==
  calls' = [calls EXCEPT ![w].pc = "hold", ![w].kind = kind, ![w].back = back]

\* Invoices a source read discovers on the receipt line.
Linked == { n \in DOMAIN docs : docs[n].status # "deleted" }

--------------------------------------------------------------------------------
(* Console.prepare and coordinator.prepare.                                *)

\* Reads the source.  A bill that is not READY is not prepared: a linked
\* invoice, among other reasons, makes the preview something else.
PrepareStart(w) ==
  /\ At(w, "idle")
  /\ Linked = {}
  /\ calls' = [calls EXCEPT ![w].pc = "prepare", ![w].obs = source]
  /\ UNCHANGED <<journal, tokens, erp, restarts>>

PrepareIntent(w) ==
  /\ At(w, "prepare")
  /\ PrepareRow(calls[w].obs)
  /\ Return(w)
  /\ UNCHANGED <<issued, tokens, erp, restarts>>

--------------------------------------------------------------------------------
(* Console.approve.                                                        *)

\* The caller's version is compared with the row's here, before approve().
\* MaxTokens bounds the approvals asked for, so that none asked for is stuck.
ApproveStart(w, m) ==
  /\ At(w, "idle")
  /\ Prepared
  /\ issued + Cardinality({u \in Workers : At(u, "approve")}) < MaxTokens
  /\ calls' = [calls EXCEPT ![w].pc = "approve", ![w].mgr = m, ![w].version = row.version]
  /\ UNCHANGED <<journal, tokens, erp, restarts>>

ApproveGranted(w) ==
  /\ At(w, "approve")
  /\ MayApprove \/ MayRenew(calls[w].mgr)
  /\ ApproveRow(calls[w].mgr)
  /\ calls' = [calls EXCEPT ![w].pc = "keep_token", ![w].token = issued']
  /\ UNCHANGED <<tokens, erp, restarts>>

ApproveDenied(w) ==
  /\ At(w, "approve")
  /\ ~MayApprove /\ ~MayRenew(calls[w].mgr)
  /\ Return(w)
  /\ UNCHANGED <<journal, tokens, erp, restarts>>

\* The raw token is kept only in memory, under the version the call compared.
KeepToken(w) ==
  /\ At(w, "keep_token")
  /\ tokens' = [tokens EXCEPT ![calls[w].version] = calls[w].token]
  /\ Return(w)
  /\ UNCHANGED <<journal, erp, restarts>>

--------------------------------------------------------------------------------
(* Console.execute: which coordinator operation the snapshot asks for.     *)

ExecuteStart(w, m) ==
  /\ At(w, "idle")
  /\ Prepared
  /\ LET token == tokens[row.version]
         next  == IF row.submit # 0 THEN "reconcile_start" ELSE "submit_start"
     IN  \/ /\ row.insert # 0 /\ (row.submit # 0 \/ row.draft # 0)
            /\ Enter(w, next, m)
         \/ /\ row.insert = 0 /\ row.submit = 0
            /\ row.token # 0 /\ token # 0
            /\ calls' = [calls EXCEPT ![w].pc = "insert_start", ![w].mgr = m, ![w].token = token]
  /\ UNCHANGED <<journal, tokens, erp, restarts>>

\* Console.reconcile.
ReconcileCall(w) ==
  /\ At(w, "idle")
  /\ Prepared
  /\ Enter(w, "reconcile_start", NoManager)
  /\ UNCHANGED <<journal, tokens, erp, restarts>>

--------------------------------------------------------------------------------
(* coordinator.insert.                                                     *)

\* The snapshot, the bound request and the stored acknowledgement.
InsertStart(w) ==
  /\ At(w, "insert_start")
  /\ IF row.insert # 0 \/ row.draft # 0
     THEN Goto(w, "inserted")
     ELSE calls' = [calls EXCEPT ![w].pc = "insert_read", ![w].request = row.version]
  /\ UNCHANGED <<journal, tokens, erp, restarts>>

\* _ready_context: reads the source; ready only without linked invoices, and
\* not always then (a failed read, a mapper that no longer matches).
InsertObserved(w) ==
  /\ At(w, "insert_read")
  /\ Linked = {}
  /\ calls' = [calls EXCEPT ![w].pc = "insert_refresh", ![w].obs = source]
  /\ UNCHANGED <<journal, tokens, erp, restarts>>

InsertNotReady(w) ==
  /\ At(w, "insert_read")
  /\ Hold(w, "UNKNOWN", "inserted")
  /\ UNCHANGED <<journal, tokens, erp, restarts>>

\* refresh_source for either stage: a change ends the operation.
RefreshFor(w, stage, claim, stopped) ==
  /\ At(w, stage)
  /\ row' = Refreshed(calls[w].obs)
  /\ calls' = [calls EXCEPT ![w] = IF ~row'.changed THEN [@ EXCEPT !.pc = claim]
                                   ELSE IF stopped = "idle" THEN Idle
                                   ELSE [@ EXCEPT !.pc = stopped]]
  /\ UNCHANGED <<issued, tokens, erp, restarts>>

InsertRefresh(w) == RefreshFor(w, "insert_refresh", "insert_claim", "inserted")

\* The request in the marker is the one this request read before.
MarkedRequest(w) == calls[w].request = row'.insert

\* claim_insert, then the comparison of the marked with the read request.
ClaimInsert(w) ==
  /\ At(w, "insert_claim")
  /\ MayInsert(calls[w].mgr, calls[w].token)
  /\ row' = InsertClaimed
  /\ IF MarkedRequest(w) THEN Goto(w, "insert_post") ELSE Hold(w, "UNKNOWN", "inserted")
  /\ UNCHANGED <<issued, tokens, erp, restarts>>

ClaimInsertDenied(w) ==
  /\ At(w, "insert_claim")
  /\ ~MayInsert(calls[w].mgr, calls[w].token)
  /\ Goto(w, "inserted")
  /\ UNCHANGED <<journal, tokens, erp, restarts>>

InsertPost(w) ==
  /\ At(w, "insert_post")
  /\ wire' = wire \cup {[kind |-> "insert", by |-> w, version |-> calls[w].request]}
  /\ Goto(w, "insert_wait")
  /\ UNCHANGED <<journal, tokens, source, docs, restarts>>

\* The response names the document it created and validates as its draft.
InsertAnswered(w) ==
  /\ At(w, "insert_wait")
  /\ \E msg \in wire :
       /\ msg.kind = "reply" /\ msg.by = w
       /\ wire' = wire \ {msg}
       /\ calls' = [calls EXCEPT ![w].pc = "insert_admit", ![w].doc = msg.doc, ![w].rev = 0]
  /\ UNCHANGED <<journal, tokens, source, docs, restarts>>

\* Transport error, timeout, malformed or inadmissible response.
InsertUnanswered(w) ==
  /\ At(w, "insert_wait")
  /\ Hold(w, "UNKNOWN", "inserted")
  /\ UNCHANGED <<journal, tokens, erp, restarts>>

AdmitInsertAcknowledgement(w) ==
  /\ At(w, "insert_admit")
  /\ row' = DraftAdmitted(calls[w].doc, calls[w].rev)
  /\ Goto(w, "inserted")
  /\ UNCHANGED <<issued, tokens, erp, restarts>>

\* Back in execute: the spent token is dropped, an acknowledged draft is
\* submitted in the same request.
InsertReturned(w) ==
  /\ At(w, "inserted")
  /\ tokens' = IF row.insert = 0 THEN tokens ELSE [tokens EXCEPT ![row.version] = 0]
  /\ IF row.insert # 0 /\ row.draft # 0 THEN Enter(w, "submit_start", calls[w].mgr) ELSE Return(w)
  /\ UNCHANGED <<journal, erp, restarts>>

--------------------------------------------------------------------------------
(* coordinator.submit.                                                     *)

SubmitStart(w) ==
  /\ At(w, "submit_start")
  /\ IF row.submit # 0 THEN Enter(w, "reconcile_start", NoManager)
     ELSE IF row.draft = 0 THEN Return(w)
     ELSE calls' = [calls EXCEPT ![w].pc = "submit_read", ![w].doc = row.draft,
                                 ![w].rev = row.draftRev]
  /\ UNCHANGED <<journal, tokens, erp, restarts>>

\* _ready_context with the acknowledged draft: it alone may be linked, and must
\* be read, twice, exactly as it was acknowledged.
SubmitObserved(w) ==
  /\ At(w, "submit_read")
  /\ Linked = {calls[w].doc}
  /\ docs[calls[w].doc].status = "draft"
  /\ docs[calls[w].doc].rev = calls[w].rev
  /\ calls' = [calls EXCEPT ![w].pc = "submit_refresh", ![w].obs = source]
  /\ UNCHANGED <<journal, tokens, erp, restarts>>

SubmitNotReady(w) ==
  /\ At(w, "submit_read")
  /\ \/ Hold(w, "UNKNOWN", "idle")
     \/ calls[w].doc \notin Linked /\ Hold(w, "NO_HIT", "idle")
  /\ UNCHANGED <<journal, tokens, erp, restarts>>

SubmitRefresh(w) == RefreshFor(w, "submit_refresh", "submit_claim", "idle")

ClaimSubmit(w) ==
  /\ At(w, "submit_claim")
  /\ MaySubmit(calls[w].mgr)
  /\ row' = SubmitClaimed
  /\ Goto(w, "submit_post")
  /\ UNCHANGED <<issued, tokens, erp, restarts>>

ClaimSubmitDenied(w) ==
  /\ At(w, "submit_claim")
  /\ ~MaySubmit(calls[w].mgr)
  /\ Return(w)
  /\ UNCHANGED <<journal, tokens, erp, restarts>>

\* The whole acknowledged draft is sent back for submission.
SubmitPost(w) ==
  /\ At(w, "submit_post")
  /\ wire' = wire \cup {[kind |-> "submit", doc |-> calls[w].doc, rev |-> calls[w].rev]}
  /\ Goto(w, "submit_wait")
  /\ UNCHANGED <<journal, tokens, source, docs, restarts>>

\* Answered or not: the response is not looked at, the document is read back.
SubmitReturned(w) ==
  /\ At(w, "submit_wait")
  /\ Enter(w, "reconcile_start", NoManager)
  /\ UNCHANGED <<journal, tokens, erp, restarts>>

--------------------------------------------------------------------------------
(* coordinator._reconcile.                                                 *)

ReconcileStart(w) ==
  /\ At(w, "reconcile_start")
  /\ IF row.submit = 0 \/ row.draft = 0 THEN Return(w)
     ELSE calls' = [calls EXCEPT ![w].pc = "reconcile_read", ![w].doc = row.draft]
  /\ UNCHANGED <<journal, tokens, erp, restarts>>

\* Mutant of ReconcileObserved: any document under the name is a proof.
ReconcileObservedUnchecked(w) ==
  /\ At(w, "reconcile_read")
  /\ calls[w].doc \in Linked
  /\ calls' = [calls EXCEPT ![w].pc = "reconcile_admit", ![w].rev = docs[calls[w].doc].rev]
  /\ UNCHANGED <<journal, tokens, erp, restarts>>

\* A submitted document, under the acknowledged name, that validates.
ReconcileObserved(w) ==
  /\ At(w, "reconcile_read")
  /\ calls[w].doc \in Linked
  /\ docs[calls[w].doc].status = "submitted"
  /\ calls' = [calls EXCEPT ![w].pc = "reconcile_admit", ![w].rev = docs[calls[w].doc].rev]
  /\ UNCHANGED <<journal, tokens, erp, restarts>>

\* Failed or malformed reads and invalid documents; NO_HIT only for a read that
\* finds no document.
ReconcileNotRead(w) ==
  /\ At(w, "reconcile_read")
  /\ \/ Hold(w, "UNKNOWN", "idle")
     \/ calls[w].doc \notin Linked /\ Hold(w, "NO_HIT", "idle")
  /\ UNCHANGED <<journal, tokens, erp, restarts>>

\* The proof is built on the stored acknowledgement that _reconcile read, whose
\* name and digest are immutable once stored.
AdmitSubmittedReadback(w) ==
  /\ At(w, "reconcile_admit")
  /\ row' = SubmittedAdmitted(calls[w].doc, row.draftRev, calls[w].rev)
  /\ Return(w)
  /\ UNCHANGED <<issued, tokens, erp, restarts>>
\* The kind of the hold is recorded; nothing is retried.
RecordHold(w) ==
  /\ At(w, "hold")
  /\ row' = ReadbackRecorded(calls[w].kind)
  /\ IF calls[w].back = "idle" THEN Return(w) ELSE Goto(w, calls[w].back)
  /\ UNCHANGED <<issued, tokens, erp, restarts>>

--------------------------------------------------------------------------------
(* The ERP, its other users, time, other journal callers and the server.   *)

\* External: the ERP executes an insert and answers with the named draft.
ErpInsert ==
  /\ \E msg \in wire :
       /\ msg.kind = "insert"
       /\ docs' = Append(docs, [version |-> msg.version, status |-> "draft", rev |-> 0])
       /\ wire' = (wire \ {msg}) \cup
                  {[kind |-> "reply", by |-> msg.by, doc |-> Len(docs) + 1]}
  /\ UNCHANGED <<journal, calls, tokens, source, restarts>>

\* External: the ERP submits the document it was sent.
ErpSubmit ==
  /\ \E msg \in wire :
       /\ msg.kind = "submit"
       /\ msg.doc \in Linked /\ docs[msg.doc].status = "draft"
       /\ docs' = [docs EXCEPT ![msg.doc].status = "submitted", ![msg.doc].rev = msg.rev]
       /\ wire' = wire \ {msg}
  /\ UNCHANGED <<journal, calls, tokens, source, restarts>>

\* External: a request or response is refused or lost.
ErpLoss ==
  /\ \E msg \in wire : wire' = wire \ {msg}
  /\ UNCHANGED <<journal, calls, tokens, source, docs, restarts>>

\* External: another user changes the purchase order or receipt.
SourceEdited ==
  /\ source < MaxSource
  /\ source' = source + 1
  /\ UNCHANGED <<journal, calls, tokens, docs, wire, restarts>>

\* External: another user edits an invoice, or deletes a draft.
InvoiceEdited ==
  /\ \E n \in Linked :
       \/ /\ docs[n].rev < MaxEdits
          /\ docs' = [docs EXCEPT ![n].rev = @ + 1]
       \/ /\ docs[n].status = "draft"
          /\ docs' = [docs EXCEPT ![n].status = "deleted"]
  /\ UNCHANGED <<journal, calls, tokens, source, wire, restarts>>

\* Callers of the journal alone: a reprepare uses some source read so far.
JournalOnly ==
  /\ \/ \E r \in 1..source : Reprepare(r)
     \/ \E m \in Managers : Refuse(m)
     \/ Expire
  /\ UNCHANGED <<calls, tokens, erp, restarts>>

\* Requests and tokens in memory are gone; the journal and the ERP are not.
Restart ==
  /\ restarts < MaxRestarts
  /\ restarts' = restarts + 1
  /\ calls' = [w \in Workers |-> Idle]
  /\ tokens' = [v \in Versions |-> 0]
  /\ UNCHANGED <<journal, erp>>

Begin(w) ==
  \/ PrepareStart(w) \/ ReconcileCall(w)
  \/ \E m \in Managers : ApproveStart(w, m) \/ ExecuteStart(w, m)

InsertStep(w) ==
  \/ InsertStart(w) \/ InsertObserved(w) \/ InsertNotReady(w) \/ InsertRefresh(w)
  \/ ClaimInsert(w) \/ ClaimInsertDenied(w) \/ InsertPost(w) \/ InsertAnswered(w)
  \/ InsertUnanswered(w) \/ AdmitInsertAcknowledgement(w) \/ InsertReturned(w)

SubmitStep(w) ==
  \/ SubmitStart(w) \/ SubmitObserved(w) \/ SubmitNotReady(w) \/ SubmitRefresh(w)
  \/ ClaimSubmit(w) \/ ClaimSubmitDenied(w) \/ SubmitPost(w) \/ SubmitReturned(w)

ReconcileStep(w) ==
  \/ ReconcileStart(w) \/ ReconcileObserved(w) \/ ReconcileNotRead(w)
  \/ AdmitSubmittedReadback(w)

\* One step of a running request.
Step(w) ==
  \/ PrepareIntent(w) \/ ApproveGranted(w) \/ ApproveDenied(w) \/ KeepToken(w)
  \/ InsertStep(w) \/ SubmitStep(w) \/ ReconcileStep(w) \/ RecordHold(w)

Environment ==
  ErpInsert \/ ErpSubmit \/ ErpLoss \/ SourceEdited \/ InvoiceEdited \/ JournalOnly \/ Restart

Next == (\E w \in Workers : Begin(w) \/ Step(w)) \/ Environment

Spec == Init /\ [][Next]_vars

--------------------------------------------------------------------------------
(* Properties.                                                             *)

\* An invoice exists only for the version the manager approved: the row is
\* still at that version, its token is spent, and its insert is marked.
InvoiceIsApproved ==
  \A n \in DOMAIN docs :
    /\ docs[n].version = row.insert
    /\ row.insert = row.version
    /\ row.token # 0 /\ row.used

\* An identity conflict is raised only when another user really changed the
\* submitted invoice: no order of this program's own readbacks raises one.
ConflictMeansEdited ==
  row.conflict => \E n \in DOMAIN docs : docs[n].rev > row.draftRev

\* A token still known to this process: kept, or in the hands of a request.
TokenKnown ==
  \/ \E v \in Versions : tokens[v] = row.token
  \/ \E w \in Workers : calls[w].token = row.token

\* An approval whose raw token nobody holds any more, before its insert.
LostApproval ==
  ApprovalGranted /\ ~InsertAttempted /\ ~TokenKnown

\* What stops a bill stops it for good, whatever older observations other
\* requests still hold.  A refusal, a source change or a conflict recorded
\* while the draft is not yet under a submit marker stays, and no marker
\* follows (and, by ImplementsPromise, nothing is submitted without one).
\* And once the raw token of an approval is lost (a restart before the
\* insert), the approved version never inserts: only a new version ends that.
StoppedStaysStopped ==
  [][/\ row.insert # 0 /\ row.submit = 0 /\ Held => Held' /\ row'.submit = 0
     /\ LostApproval => LostApproval' \/ row'.version > row.version]_vars

\* The detailed program implements the promise of OneInvoicePerBill: markers
\* stand for what was asked, the one document for the invoice; a second one
\* is a state OneInvoicePerBill does not have.
Promise == INSTANCE OneInvoicePerBill WITH
  asked   <- IF row.submit # 0 THEN "submit" ELSE IF row.insert # 0 THEN "insert" ELSE "nothing",
  invoice <- IF docs = <<>> THEN "none" ELSE IF Len(docs) = 1 THEN docs[1].status ELSE "two",
  known   <- IF row.submitted # 0 THEN "submitted" ELSE IF row.draft # 0 THEN "draft" ELSE "nothing"

\* Every interleaving of requests, ERP and restarts is one insert asked for,
\* then one submit of the acknowledged invoice, each executed at most once and
\* admitted by the journal only after the ERP executed it: the markers are
\* committed before the POSTs and never taken back.
ImplementsPromise == Promise!Spec

=============================================================================
