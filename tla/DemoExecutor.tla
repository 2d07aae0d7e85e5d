----------------------------- MODULE DemoExecutor -----------------------------
(***************************************************************************)
(* ERPNextDemoExecutor.execute (adapters/demo_executor.py): release the    *)
(* quality hold with one stock transfer, unblock the purchase invoice and, *)
(* when the case has a customer order, deliver and bill it.  Every request *)
(* to the ERP may fail, before or after it took effect; a failure ends the *)
(* call, and the next call resumes from what the ERP then shows.           *)
(***************************************************************************)
EXTENDS Naturals

CONSTANTS
  MaxTransfers,   \* bound on stock entries ever created
  MaxFailures,    \* bound on failing requests
  LateInserts     \* whether an insert may take effect after its timeout

ASSUME ExecutorAssumption ==
  /\ LateInserts \in BOOLEAN
  /\ MaxTransfers \in Nat /\ MaxFailures \in Nat

VARIABLES
  transfers,   \* the case's stock entries in the ERP
  created,     \* how many stock entries were ever created
  late,        \* an insert whose caller gave up: "none", "pending" or "landed"
  blocked,     \* the purchase invoice is on hold
  order,       \* the sales order, if any: held, deliveries and invoices submitted
  exec,        \* the running execute() call
  failures

tenant == <<transfers, created, late, blocked, order>>
executorVars == <<tenant, exec, failures>>

Transfer == [id : 1..MaxTransfers, submitted : BOOLEAN, modified : Nat]
ExecSteps == {"idle", "read", "find", "discard", "insert", "submit", "unblock", "resume",
              "deliver", "bill", "check", "done"}
NoExecution == [pc |-> "idle", doc |-> 0, wasBlocked |-> FALSE, verified |-> FALSE]

ExecutorTypeOK ==
  /\ transfers \subseteq Transfer
  /\ created \in 0..MaxTransfers
  /\ late \in {"none", "pending", "landed"}
  /\ blocked \in BOOLEAN
  /\ order \in [scoped : BOOLEAN, held : BOOLEAN, delivered : 0..1, billed : 0..1]
  /\ exec \in [pc : ExecSteps, doc : 0..MaxTransfers, wasBlocked : BOOLEAN, verified : BOOLEAN]
  /\ failures \in 0..MaxFailures

\* The case has a customer sales order or not, and its purchase invoice starts
\* on hold or not.
ExecutorInit(scoped, hold) ==
  /\ transfers = {}
  /\ created = 0
  /\ late = "none"
  /\ blocked = hold
  /\ order = [scoped |-> scoped, held |-> scoped, delivered |-> 0, billed |-> 0]
  /\ exec = NoExecution
  /\ failures = 0

InStep(pc) == exec.pc = pc
Submitted == { t \in transfers : t.submitted }

\* The entry a lookup returns, rows[0], is the one modified last.
ShownFirst(t) == \A u \in transfers : u.modified <= t.modified
TransferShown == \E t \in Submitted : ShownFirst(t)

\* The n-th insert, and a submission after n inserts, in the order of their times.
Draft(n) == [id |-> n, submitted |-> FALSE, modified |-> 2 * n]
Final(id, n) == [id |-> id, submitted |-> TRUE, modified |-> 2 * n + 1]

Without(id) == { t \in transfers : t.id # id }

\* A request is answered and the call goes on, or its answer is lost.
Continue(e) ==
  \/ exec' = e /\ UNCHANGED failures
  \/ failures < MaxFailures /\ failures' = failures + 1 /\ exec' = NoExecution

To(pc) == [exec EXCEPT !.pc = pc]
AfterTransfer == [exec EXCEPT !.pc = IF exec.wasBlocked THEN "unblock"
                                     ELSE IF order.scoped THEN "resume" ELSE "check"]

--------------------------------------------------------------------------------
\* The receipt and the invoice are read, and on_hold is remembered.
ReadDocuments ==
  /\ InStep("read")
  /\ Continue([exec EXCEPT !.pc = "find", !.wasBlocked = blocked])
  /\ UNCHANGED tenant

\* Mutant of FindTransfer: forgets the transfer of an earlier call.
FindTransferNever ==
  /\ InStep("find")
  /\ Continue(To("insert"))
  /\ UNCHANGED tenant

\* _existing_transfer, and the docstatus of the one it returned.
FindTransfer ==
  /\ InStep("find")
  /\ \/ transfers = {} /\ Continue(To("insert"))
     \/ \E t \in transfers :
          /\ ShownFirst(t)
          /\ Continue(IF t.submitted THEN [AfterTransfer EXCEPT !.doc = t.id]
                      ELSE [To("discard") EXCEPT !.doc = t.id])
  /\ UNCHANGED tenant

\* _discard_unsubmitted_transfer
DiscardTransfer ==
  /\ InStep("discard")
  /\ transfers' = Without(exec.doc)
  /\ Continue(To("insert"))
  /\ UNCHANGED <<created, late, blocked, order>>

\* _submit_transfer: the draft, then its submission.
InsertTransfer ==
  /\ InStep("insert")
  /\ created < MaxTransfers
  /\ created' = created + 1
  /\ transfers' = transfers \cup {Draft(created + 1)}
  /\ Continue([To("submit") EXCEPT !.doc = created + 1])
  /\ UNCHANGED <<late, blocked, order>>

SubmitTransfer ==
  /\ InStep("submit")
  /\ transfers' = Without(exec.doc) \cup {Final(exec.doc, created)}
  /\ Continue(AfterTransfer)
  /\ UNCHANGED <<created, late, blocked, order>>

UnblockInvoice ==
  /\ InStep("unblock")
  /\ blocked' = FALSE
  /\ Continue(To(IF order.scoped THEN "resume" ELSE "check"))
  /\ UNCHANGED <<transfers, created, late, order>>

\* _fulfill_sales_order: resume, then each document unless it exists.
ResumeOrder ==
  /\ InStep("resume")
  /\ order' = [order EXCEPT !.held = FALSE]
  /\ Continue(To("deliver"))
  /\ UNCHANGED <<transfers, created, late, blocked>>

DeliverOrder ==
  /\ InStep("deliver")
  /\ order' = [order EXCEPT !.delivered = IF @ = 0 THEN 1 ELSE @]
  /\ Continue(To("bill"))
  /\ UNCHANGED <<transfers, created, late, blocked>>

BillOrder ==
  /\ InStep("bill")
  /\ order' = [order EXCEPT !.billed = IF @ = 0 THEN 1 ELSE @]
  /\ Continue(To("check"))
  /\ UNCHANGED <<transfers, created, late, blocked>>

ReleaseShown == ~blocked /\ \E t \in Submitted : t.id = exec.doc

\* The final reads; an order that is not fulfilled raises instead.
CheckResult ==
  /\ InStep("check")
  /\ order.scoped => order.delivered > 0 /\ order.billed > 0
  /\ Continue([To("done") EXCEPT !.verified = ReleaseShown])
  /\ UNCHANGED tenant

\* A request that had no effect fails, or an insert is still on its way.
RequestFails ==
  /\ exec.pc \notin {"idle", "done"}
  /\ failures < MaxFailures
  /\ failures' = failures + 1
  /\ exec' = NoExecution
  /\ \/ UNCHANGED late
     \/ InStep("insert") /\ LateInserts /\ late = "none" /\ late' = "pending"
  /\ UNCHANGED <<transfers, created, blocked, order>>

\* External: the delayed insert reaches the ERP.
LateInsert ==
  /\ late = "pending"
  /\ created < MaxTransfers
  /\ late' = "landed"
  /\ created' = created + 1
  /\ transfers' = transfers \cup {Draft(created + 1)}
  /\ UNCHANGED <<blocked, order, exec, failures>>

ExecutorStep ==
  \/ ReadDocuments \/ FindTransfer \/ DiscardTransfer \/ InsertTransfer \/ SubmitTransfer
  \/ UnblockInvoice \/ ResumeOrder \/ DeliverOrder \/ BillOrder \/ CheckResult
  \/ RequestFails

--------------------------------------------------------------------------------
\* "Perform exactly one material transfer [...] per case": however calls fail
\* and are repeated, the quality stock is released by one submitted transfer.
\* A draft that lands after its timeout is excepted: it hides the submitted
\* transfer from _existing_transfer, and the next call submits another.
OneTransfer == late # "landed" => \A s, t \in Submitted : s = t

=============================================================================
