---------------------- MODULE AutomaticInvestigationProofs ----------------------
(***************************************************************************)
(* The console with its executor and its automation, for every deployment, *)
(* budget, number of runs, restarts, failing requests and permissions: an  *)
(* approval binds what was investigated, a recovery happens once and is    *)
(* closed on proof, and the automation does only what it was permitted.    *)
(*                                                                         *)
(* The executor and the console share no variable but the executor's own,  *)
(* so each half of the invariant is preserved by what a step may do to its *)
(* half: ExecutorAct for the ERP, ControlAct for the investigation and the *)
(* approval, and the journal's own actions for the permission.             *)
(***************************************************************************)
EXTENDS AutomaticInvestigation, FiniteSetTheorems, TLAPS

ExecRecord == [pc : ExecSteps, doc : 0..MaxTransfers, wasBlocked : BOOLEAN, verified : BOOLEAN]
OrderRecord == [scoped : BOOLEAN, held : BOOLEAN, delivered : 0..1, billed : 0..1]

(* Entries have numbers of their own; while no delayed insert has landed   *)
(* there is at most one, none when the call inserts; and the call deletes  *)
(* or submits a draft.                                                     *)
ErpInv ==
  /\ \A t \in transfers : t.id <= created
  /\ \A s, t \in transfers : s.id = t.id => s = t
  /\ late # "landed" => \A s, t \in transfers : s = t
  /\ late # "landed" /\ InStep("insert") => transfers = {}
  /\ exec.pc \in {"discard", "submit"} => \E t \in transfers : t.id = exec.doc /\ ~t.submitted

(* What the executor checks at its end. *)
Recovered ==
  /\ Submitted # {}
  /\ ~blocked
  /\ order.scoped => order.delivered > 0 /\ order.billed > 0

(* What a step may do to the executor's variables. *)
ExecutorAct ==
  \/ ExecutorStep
  \/ LateInsert
  \/ /\ UNCHANGED <<tenant, failures>>
     /\ exec' \in {exec, NoExecution, [exec EXCEPT !.pc = "read"]}

-----------------------------------------------------------------------------
(* The executor. *)

\* A call goes on as asked or ends.
LEMMA ContinueType ==
  ASSUME ExecutorTypeOK, NEW e \in ExecRecord, Continue(e)
  PROVE  /\ exec' \in ExecRecord
         /\ failures' \in 0..MaxFailures
         /\ exec'.pc \in {e.pc, "idle"}
         /\ exec'.pc # "idle" => exec' = e
<1>1. NoExecution \in ExecRecord /\ NoExecution.pc = "idle"
  BY ExecutorAssumption DEF NoExecution, ExecRecord, ExecSteps
<1>2. exec' \in {e, NoExecution} /\ failures' \in 0..MaxFailures
  BY ExecutorAssumption DEF Continue, ExecutorTypeOK
<1> QED BY <1>1, <1>2

\* Where a call goes on.
LEMMA StepTypes ==
  ASSUME ExecutorTypeOK
  PROVE  /\ \A pc \in ExecSteps : To(pc) \in ExecRecord /\ To(pc).pc = pc /\ To(pc).doc = exec.doc
         /\ AfterTransfer \in ExecRecord
         /\ AfterTransfer.pc \in {"unblock", "resume", "check"}
         /\ \A pc \in ExecSteps, n \in 0..MaxTransfers :
              /\ [To(pc) EXCEPT !.doc = n] \in ExecRecord
              /\ [To(pc) EXCEPT !.doc = n].pc = pc
              /\ [To(pc) EXCEPT !.doc = n].doc = n
         /\ \A n \in 0..MaxTransfers :
              /\ [AfterTransfer EXCEPT !.doc = n] \in ExecRecord
              /\ [AfterTransfer EXCEPT !.doc = n].pc \in {"unblock", "resume", "check"}
         /\ LET e == [To("done") EXCEPT !.verified = ReleaseShown]
            IN e \in ExecRecord /\ e.pc = "done" /\ (e.verified <=> ReleaseShown)
         /\ LET e == [exec EXCEPT !.pc = "find", !.wasBlocked = blocked]
            IN e \in ExecRecord /\ e.pc = "find"
<1>1. exec \in ExecRecord
  BY DEF ExecutorTypeOK, ExecRecord
<1>2. \A pc \in ExecSteps : To(pc) \in ExecRecord /\ To(pc).pc = pc /\ To(pc).doc = exec.doc
  BY <1>1 DEF To, ExecRecord
<1>3. AfterTransfer \in ExecRecord /\ AfterTransfer.pc \in {"unblock", "resume", "check"}
  BY <1>1 DEF AfterTransfer, ExecRecord, ExecSteps
<1>4. ReleaseShown \in BOOLEAN /\ blocked \in BOOLEAN
  BY DEF ReleaseShown, ExecutorTypeOK
<1>5. \A b \in BOOLEAN :
        LET e == [To("done") EXCEPT !.verified = b]
        IN e \in ExecRecord /\ e.pc = "done" /\ (e.verified <=> b)
  BY <1>2 DEF ExecRecord, ExecSteps
<1>6. LET e == [exec EXCEPT !.pc = "find", !.wasBlocked = blocked]
      IN e \in ExecRecord /\ e.pc = "find"
  BY <1>1, <1>4 DEF ExecRecord, ExecSteps
<1>7. \A n \in 0..MaxTransfers :
        /\ [AfterTransfer EXCEPT !.doc = n] \in ExecRecord
        /\ [AfterTransfer EXCEPT !.doc = n].pc \in {"unblock", "resume", "check"}
  BY <1>3 DEF ExecRecord
<1>8. \A pc \in ExecSteps, n \in 0..MaxTransfers :
        /\ [To(pc) EXCEPT !.doc = n] \in ExecRecord
        /\ [To(pc) EXCEPT !.doc = n].pc = pc
        /\ [To(pc) EXCEPT !.doc = n].doc = n
  BY <1>2 DEF ExecRecord
<1> QED BY <1>2, <1>3, <1>4, <1>5, <1>6, <1>7, <1>8

\* A call that goes on with another entry.
LEMMA NamedStep ==
  ASSUME ExecutorTypeOK, NEW pc \in ExecSteps, NEW n \in 0..MaxTransfers,
         Continue([To(pc) EXCEPT !.doc = n])
  PROVE  \E e \in ExecRecord : Continue(e) /\ e.pc = pc /\ e.doc = n
<1> DEFINE d == [To(pc) EXCEPT !.doc = n]
<1>1. d \in ExecRecord /\ d.pc = pc /\ d.doc = n
  BY StepTypes DEF ExecRecord
<1>2. Continue(d)
  OBVIOUS
<1> HIDE DEF d
<1> QED BY <1>1, <1>2

\* Every step of the executor keeps its types.
LEMMA ExecutorTypes ==
  ASSUME ExecutorTypeOK, ErpInv, ExecutorAct
  PROVE  ExecutorTypeOK'
<1> USE ExecutorAssumption
<1>0. exec \in ExecRecord /\ NoExecution \in ExecRecord /\ order \in OrderRecord
  BY DEF ExecutorTypeOK, ExecRecord, OrderRecord, NoExecution, ExecSteps
<1>1. CASE ReadDocuments
  <2> QED BY <1>1, StepTypes, ContinueType DEF ReadDocuments, ExecutorTypeOK, ExecRecord, tenant
<1>2. CASE FindTransfer
  <2>1. \A t \in transfers : t.id \in 0..MaxTransfers
    BY DEF ExecutorTypeOK, Transfer
  <2>2. exec' \in ExecRecord /\ failures' \in 0..MaxFailures
    <3>1. CASE transfers = {} /\ Continue(To("insert"))
      BY <3>1, StepTypes, ContinueType DEF ExecSteps
    <3>2. ASSUME NEW t \in transfers,
                 Continue(IF t.submitted THEN [AfterTransfer EXCEPT !.doc = t.id]
                          ELSE [To("discard") EXCEPT !.doc = t.id])
          PROVE  exec' \in ExecRecord /\ failures' \in 0..MaxFailures
      <4>1. [AfterTransfer EXCEPT !.doc = t.id] \in ExecRecord
        BY <2>1, StepTypes
      <4>2. [To("discard") EXCEPT !.doc = t.id] \in ExecRecord
        BY <2>1, StepTypes DEF ExecSteps
      <4> QED BY <3>2, <4>1, <4>2, ContinueType
    <3> QED BY <1>2, <3>1, <3>2 DEF FindTransfer
  <2> QED BY <1>2, <2>2 DEF FindTransfer, ExecutorTypeOK, ExecRecord, tenant
<1>3. CASE DiscardTransfer
  <2>1. exec' \in ExecRecord /\ failures' \in 0..MaxFailures
    BY <1>3, StepTypes, ContinueType DEF DiscardTransfer, ExecSteps
  <2> QED BY <1>3, <2>1 DEF DiscardTransfer, Without, ExecutorTypeOK, ExecRecord
<1>4. CASE InsertTransfer
  <2>1. created + 1 \in 0..MaxTransfers /\ created + 1 \in 1..MaxTransfers
    BY <1>4 DEF InsertTransfer, ExecutorTypeOK
  <2>2. exec' \in ExecRecord /\ failures' \in 0..MaxFailures
    BY <1>4, <2>1, StepTypes, ContinueType DEF InsertTransfer, ExecSteps
  <2>3. Draft(created + 1) \in Transfer
    BY <2>1 DEF Draft, Transfer
  <2> QED BY <1>4, <2>1, <2>2, <2>3 DEF InsertTransfer, ExecutorTypeOK, ExecRecord
<1>5. CASE SubmitTransfer
  <2>1. exec' \in ExecRecord /\ failures' \in 0..MaxFailures
    BY <1>5, StepTypes, ContinueType DEF SubmitTransfer
  <2>2. exec.doc \in 1..MaxTransfers
    BY <1>5 DEF SubmitTransfer, ErpInv, InStep, ExecutorTypeOK, Transfer
  <2>3. Final(exec.doc, created) \in Transfer
    BY <2>2 DEF Final, Transfer, ExecutorTypeOK
  <2> QED BY <1>5, <2>1, <2>3 DEF SubmitTransfer, Without, ExecutorTypeOK, ExecRecord
<1>6. CASE UnblockInvoice
  <2>1. exec' \in ExecRecord /\ failures' \in 0..MaxFailures
    BY <1>6, StepTypes, ContinueType DEF UnblockInvoice, ExecSteps
  <2> QED BY <1>6, <2>1 DEF UnblockInvoice, ExecutorTypeOK, ExecRecord
<1>7. CASE ResumeOrder \/ DeliverOrder \/ BillOrder
  <2>1. exec' \in ExecRecord /\ failures' \in 0..MaxFailures
    BY <1>7, StepTypes, ContinueType DEF ResumeOrder, DeliverOrder, BillOrder, ExecSteps
  <2>2. order' \in OrderRecord
    <3>1. CASE ResumeOrder
      BY <1>0, <3>1 DEF ResumeOrder, OrderRecord
    <3>2. CASE DeliverOrder
      BY <1>0, <3>2 DEF DeliverOrder, OrderRecord
    <3>3. CASE BillOrder
      BY <1>0, <3>3 DEF BillOrder, OrderRecord
    <3> QED BY <1>7, <3>1, <3>2, <3>3
  <2> QED BY <1>7, <2>1, <2>2
      DEF ResumeOrder, DeliverOrder, BillOrder, ExecutorTypeOK, ExecRecord, OrderRecord
<1>8. CASE CheckResult
  <2> QED BY <1>8, StepTypes, ContinueType DEF CheckResult, ExecutorTypeOK, ExecRecord, tenant
<1>9. CASE RequestFails
  BY <1>0, <1>9 DEF RequestFails, ExecutorTypeOK, ExecRecord
<1>10. CASE LateInsert
  <2>1. created + 1 \in 0..MaxTransfers /\ created + 1 \in 1..MaxTransfers
    BY <1>10 DEF LateInsert, ExecutorTypeOK
  <2>2. Draft(created + 1) \in Transfer
    BY <2>1 DEF Draft, Transfer
  <2> QED BY <1>10, <2>1, <2>2 DEF LateInsert, ExecutorTypeOK
<1>11. CASE UNCHANGED <<tenant, failures>> /\ exec' \in {exec, NoExecution, [exec EXCEPT !.pc = "read"]}
  <2>1. [exec EXCEPT !.pc = "read"] \in ExecRecord
    BY <1>0 DEF ExecRecord, ExecSteps
  <2> QED BY <1>0, <1>11, <2>1 DEF ExecutorTypeOK, ExecRecord, tenant
<1> QED BY <1>1, <1>2, <1>3, <1>4, <1>5, <1>6, <1>7, <1>8, <1>9, <1>10, <1>11
    DEF ExecutorAct, ExecutorStep

\* Every step of the executor keeps the invariant of the ERP's entries.
LEMMA ErpPreserved ==
  ASSUME ExecutorTypeOK, ErpInv, ExecutorAct
  PROVE  ErpInv'
<1> USE ExecutorAssumption
<1>1. CASE UNCHANGED tenant /\ exec'.pc \notin {"discard", "submit", "insert"}
  BY <1>1 DEF ErpInv, InStep, tenant
<1>2. CASE ReadDocuments
  <2>1. PICK e \in ExecRecord : Continue(e) /\ e.pc = "find"
    BY <1>2, StepTypes DEF ReadDocuments
  <2>2. exec'.pc \in {"find", "idle"}
    BY <2>1, ContinueType
  <2> QED BY <1>1, <1>2, <2>2 DEF ReadDocuments
<1>3. CASE FindTransfer
  <2>0. \A t \in transfers : t.id \in 0..MaxTransfers /\ t.submitted \in BOOLEAN
    BY DEF ExecutorTypeOK, Transfer
  <2>1. CASE transfers = {} /\ Continue(To("insert"))
    <3>1. exec'.pc \in {"insert", "idle"}
      BY <2>1, StepTypes, ContinueType DEF NoExecution, ExecSteps
    <3> QED BY <1>3, <2>1, <3>1 DEF FindTransfer, ErpInv, InStep, tenant
  <2>2. ASSUME NEW t \in transfers,
               Continue(IF t.submitted THEN [AfterTransfer EXCEPT !.doc = t.id]
                        ELSE [To("discard") EXCEPT !.doc = t.id])
        PROVE  ErpInv'
    <3>1. CASE t.submitted
      <4>1. exec'.pc \in {"unblock", "resume", "check", "idle"}
        <5>1. PICK e \in ExecRecord : Continue(e) /\ e.pc \in {"unblock", "resume", "check"}
          BY <2>0, <2>2, <3>1, StepTypes
        <5> QED BY <5>1, ContinueType
      <4> QED BY <1>1, <1>3, <4>1 DEF FindTransfer
    <3>2. CASE ~t.submitted
      <4>1. exec'.pc \in {"discard", "idle"} /\ (exec'.pc = "discard" => exec'.doc = t.id)
        <5>1. PICK e \in ExecRecord : Continue(e) /\ e.pc = "discard" /\ e.doc = t.id
          BY <2>0, <2>2, <3>2, NamedStep DEF ExecSteps
        <5>2. exec'.pc \in {e.pc, "idle"} /\ (exec'.pc # "idle" => exec' = e)
          BY <5>1, ContinueType
        <5> QED BY <5>1, <5>2
      <4> QED BY <1>3, <3>2, <4>1 DEF FindTransfer, ErpInv, InStep, tenant
    <3> QED BY <3>1, <3>2
  <2> QED BY <1>3, <2>1, <2>2 DEF FindTransfer
<1>4. CASE DiscardTransfer
  <2>1. exec'.pc \in {"insert", "idle"}
    BY <1>4, StepTypes, ContinueType DEF DiscardTransfer, NoExecution, ExecSteps
  <2>2. late' # "landed" => transfers' = {}
    BY <1>4 DEF DiscardTransfer, ErpInv, Without, InStep
  <2> QED BY <1>4, <2>1, <2>2 DEF DiscardTransfer, ErpInv, Without, InStep
<1>5. CASE InsertTransfer
  <2>1. created + 1 \in 0..MaxTransfers
    BY <1>5 DEF InsertTransfer, ExecutorTypeOK
  <2>2. exec'.pc \in {"submit", "idle"} /\ (exec'.pc = "submit" => exec'.doc = created + 1)
    <3>1. PICK e \in ExecRecord : Continue(e) /\ e.pc = "submit" /\ e.doc = created + 1
      BY <1>5, <2>1, NamedStep DEF InsertTransfer, ExecSteps
    <3>2. exec'.pc \in {e.pc, "idle"} /\ (exec'.pc # "idle" => exec' = e)
      BY <3>1, ContinueType
    <3> QED BY <3>1, <3>2
  <2>3. Draft(created + 1).id = created + 1 /\ ~Draft(created + 1).submitted
    BY DEF Draft
  <2>4. \A t \in transfers : t.id # created + 1 /\ t.id <= created + 1
    BY DEF ErpInv, ExecutorTypeOK, Transfer
  <2> QED BY <1>5, <2>1, <2>2, <2>3, <2>4 DEF InsertTransfer, ErpInv, InStep
<1>6. CASE SubmitTransfer
  <2>1. exec'.pc \in {"unblock", "resume", "check", "idle"}
    BY <1>6, StepTypes, ContinueType DEF SubmitTransfer, NoExecution
  <2>2. Final(exec.doc, created).id = exec.doc
    BY DEF Final
  <2>3. exec.doc <= created /\ (late # "landed" => Without(exec.doc) = {})
    BY <1>6 DEF SubmitTransfer, ErpInv, InStep, Without
  <2>4. \A t \in Without(exec.doc) : t.id # exec.doc /\ t \in transfers
    BY DEF Without
  <2> QED BY <1>6, <2>1, <2>2, <2>3, <2>4 DEF SubmitTransfer, ErpInv, InStep
<1>7. CASE UnblockInvoice \/ ResumeOrder \/ DeliverOrder \/ BillOrder
  <2>1. exec'.pc \in {"resume", "check", "deliver", "bill", "idle"}
    BY <1>7, StepTypes, ContinueType
    DEF UnblockInvoice, ResumeOrder, DeliverOrder, BillOrder, NoExecution, ExecSteps
  <2> QED BY <1>7, <2>1 DEF UnblockInvoice, ResumeOrder, DeliverOrder, BillOrder, ErpInv, InStep
<1>8. CASE CheckResult
  <2>1. PICK e \in ExecRecord : Continue(e) /\ e.pc = "done"
    BY <1>8, StepTypes DEF CheckResult
  <2>2. exec'.pc \in {"done", "idle"}
    BY <2>1, ContinueType
  <2> QED BY <1>1, <1>8, <2>2 DEF CheckResult
<1>9. CASE RequestFails
  BY <1>9 DEF RequestFails, ErpInv, InStep, NoExecution
<1>10. CASE LateInsert
  <2>3. Draft(created + 1).id = created + 1 /\ ~Draft(created + 1).submitted
    BY DEF Draft
  <2>4. \A t \in transfers : t.id # created + 1 /\ t.id <= created + 1
    BY DEF ErpInv, ExecutorTypeOK, Transfer
  <2> QED BY <1>10, <2>3, <2>4 DEF LateInsert, ErpInv, InStep, ExecutorTypeOK
<1>11. CASE UNCHANGED <<tenant, failures>> /\ exec' \in {exec, NoExecution, [exec EXCEPT !.pc = "read"]}
  <2>1. CASE exec' = exec
    BY <1>11, <2>1 DEF ErpInv, InStep, tenant
  <2>2. CASE exec' # exec
    BY <1>1, <1>11, <2>2 DEF NoExecution, ExecutorTypeOK
  <2> QED BY <2>1, <2>2
<1> QED BY <1>2, <1>3, <1>4, <1>5, <1>6, <1>7, <1>8, <1>9, <1>10, <1>11
    DEF ExecutorAct, ExecutorStep

\* Only the last step of a call ends it with an answer.
LEMMA OnlyCheckAnswers ==
  ASSUME ExecutorTypeOK, ExecutorStep, exec'.pc = "done"
  PROVE  CheckResult
<1> USE ExecutorAssumption
<1>1. ASSUME ReadDocuments PROVE FALSE
  <2>1. PICK e \in ExecRecord : Continue(e) /\ e.pc = "find"
    BY <1>1, StepTypes DEF ReadDocuments
  <2> QED BY <2>1, ContinueType
<1>2. ASSUME FindTransfer PROVE FALSE
  <2>1. CASE transfers = {} /\ Continue(To("insert"))
    BY <2>1, StepTypes, ContinueType DEF ExecSteps
  <2>2. ASSUME NEW t \in transfers,
               Continue(IF t.submitted THEN [AfterTransfer EXCEPT !.doc = t.id]
                        ELSE [To("discard") EXCEPT !.doc = t.id])
        PROVE  FALSE
    <3>0. t.id \in 0..MaxTransfers
      BY DEF ExecutorTypeOK, Transfer
    <3>1. CASE t.submitted
      <4>1. PICK e \in ExecRecord : Continue(e) /\ e.pc \in {"unblock", "resume", "check"}
        BY <2>2, <3>0, <3>1, StepTypes
      <4> QED BY <4>1, ContinueType
    <3>2. CASE ~t.submitted
      <4>1. PICK e \in ExecRecord : Continue(e) /\ e.pc = "discard"
        BY <2>2, <3>0, <3>2, NamedStep DEF ExecSteps
      <4> QED BY <4>1, ContinueType
    <3> QED BY <3>1, <3>2
  <2> QED BY <1>2, <2>1, <2>2 DEF FindTransfer
<1>3. ASSUME DiscardTransfer PROVE FALSE
  BY <1>3, StepTypes, ContinueType DEF DiscardTransfer, ExecSteps
<1>4. ASSUME InsertTransfer PROVE FALSE
  <2>1. created + 1 \in 0..MaxTransfers
    BY <1>4 DEF InsertTransfer, ExecutorTypeOK
  <2>2. PICK e \in ExecRecord : Continue(e) /\ e.pc = "submit"
    BY <1>4, <2>1, NamedStep DEF InsertTransfer, ExecSteps
  <2> QED BY <2>2, ContinueType
<1>5. ASSUME SubmitTransfer PROVE FALSE
  BY <1>5, StepTypes, ContinueType DEF SubmitTransfer
<1>6. ASSUME UnblockInvoice \/ ResumeOrder \/ DeliverOrder \/ BillOrder PROVE FALSE
  BY <1>6, StepTypes, ContinueType
  DEF UnblockInvoice, ResumeOrder, DeliverOrder, BillOrder, ExecSteps
<1>7. ASSUME RequestFails PROVE FALSE
  BY <1>7 DEF RequestFails, NoExecution
<1> QED BY <1>1, <1>2, <1>3, <1>4, <1>5, <1>6, <1>7 DEF ExecutorStep

\* What was recovered stays so: only a draft is ever deleted.
LEMMA RecoveredKept ==
  ASSUME ExecutorTypeOK, ErpInv, ExecutorAct, Recovered
  PROVE  Recovered'
<1> USE ExecutorAssumption
<1>0. order \in OrderRecord
  BY DEF ExecutorTypeOK, OrderRecord
<1>1. Submitted' # {}
  <2>0. PICK s \in transfers : s.submitted
    BY DEF Recovered, Submitted
  <2>1. CASE s \in transfers'
    BY <2>0, <2>1 DEF Submitted
  <2>2. CASE DiscardTransfer
    <3>1. s.id # exec.doc
      BY <2>0, <2>2 DEF DiscardTransfer, ErpInv, InStep
    <3> QED BY <2>1, <2>2, <3>1 DEF DiscardTransfer, Without
  <2>3. CASE SubmitTransfer
    <3>1. s.id # exec.doc
      BY <2>0, <2>3 DEF SubmitTransfer, ErpInv, InStep
    <3> QED BY <2>1, <2>3, <3>1 DEF SubmitTransfer, Without
  <2>4. CASE InsertTransfer \/ LateInsert
    BY <2>1, <2>4 DEF InsertTransfer, LateInsert
  <2>5. CASE UNCHANGED transfers
    BY <2>1, <2>5
  <2> QED BY <2>2, <2>3, <2>4, <2>5
      DEF ExecutorAct, ExecutorStep, ReadDocuments, FindTransfer, UnblockInvoice, ResumeOrder,
          DeliverOrder, BillOrder, CheckResult, RequestFails, tenant
<1>2. ~blocked'
  BY DEF Recovered, ExecutorAct, ExecutorStep, ReadDocuments, FindTransfer, DiscardTransfer,
         InsertTransfer, SubmitTransfer, LateInsert, UnblockInvoice, ResumeOrder,
         DeliverOrder, BillOrder, CheckResult, RequestFails, tenant
<1>3. order'.scoped => order'.delivered > 0 /\ order'.billed > 0
  <2>1. CASE ResumeOrder
    BY <1>0, <2>1 DEF ResumeOrder, OrderRecord, Recovered
  <2>2. CASE DeliverOrder
    BY <1>0, <2>2 DEF DeliverOrder, OrderRecord, Recovered
  <2>3. CASE BillOrder
    BY <1>0, <2>3 DEF BillOrder, OrderRecord, Recovered
  <2>4. CASE order' = order
    BY <2>4 DEF Recovered
  <2> QED BY <2>1, <2>2, <2>3, <2>4
      DEF ExecutorAct, ExecutorStep, ReadDocuments, FindTransfer, DiscardTransfer,
          InsertTransfer, SubmitTransfer, LateInsert, UnblockInvoice, CheckResult,
          RequestFails, tenant
<1> QED BY <1>1, <1>2, <1>3 DEF Recovered

\* A call that answers "verified" left the case recovered.
LEMMA AnswerIsRecovered ==
  ASSUME ExecutorTypeOK, ErpInv, ExecutorAct, InStep("done") /\ exec.verified => Recovered,
         exec'.pc = "done", exec'.verified
  PROVE  Recovered'
<1>1. CASE ExecutorStep
  <2>1. CheckResult
    BY <1>1, OnlyCheckAnswers
  <2>2. PICK e \in ExecRecord : Continue(e) /\ (e.verified <=> ReleaseShown)
    BY <2>1, StepTypes DEF CheckResult
  <2>3. exec' = e
    BY <2>2, ContinueType
  <2>4. ReleaseShown
    BY <2>2, <2>3
  <2>5. Recovered
    BY <2>1, <2>4 DEF CheckResult, ReleaseShown, Recovered
  <2> QED BY <2>5, RecoveredKept
<1>2. CASE ~ExecutorStep
  <2>1. exec' = exec
    BY <1>2 DEF ExecutorAct, LateInsert, NoExecution, ExecutorTypeOK
  <2> QED BY <2>1, RecoveredKept DEF InStep
<1> QED BY <1>1, <1>2

-----------------------------------------------------------------------------
(* The investigation and its approval. *)

RunRecord == [n : 0..MaxRuns, state : RunStates]
GateRecord == [status : GateStatuses, live : BOOLEAN, candidate : Candidates, digest : Facts]
ApprovalRecord == [run : 0..MaxRuns, digest : Facts]

ControlTypeOK ==
  /\ seen \in Reads
  /\ run \in RunRecord
  /\ gate \in GateRecord
  /\ approval \subseteq ApprovalRecord

(* A live plan is a validated one: what approve() relies on. *)
PlanIsValidated ==
  run.state = "PLAN_READY" /\ gate.live => gate.status = "VALIDATED"

(* A stopped run awaits no report, so verify() revives none. *)
StoppedIsOver == run.state = "STOPPED" => gate.status # "PENDING"

ControlInv == PlanIsValidated /\ StoppedIsOver /\ ApprovalBindsInvestigation

\* verify() closes the run, or leaves it as it is.
Settle == \E s \in {run.state, "VERIFIED"} :
  Project(Now, [run EXCEPT !.state = s], gate, approval)

\* configure(True) of a stopped case.
Resume ==
  /\ seen' \in CachedReads
  /\ run' = [run EXCEPT !.state = "IDLE"]
  /\ gate' = NoGate
  /\ UNCHANGED approval

ApprovePlan ==
  /\ run.state = "PLAN_READY"
  /\ gate.status = "VALIDATED" => gate.digest = Now.facts
  /\ Project(Now, run, gate, {[run |-> run.n, digest |-> Now.facts]})

(* What a step may do to the investigation and the approval. *)
ControlAct ==
  \/ seen' \in CachedReads /\ UNCHANGED <<run, gate, approval>>
  \/ \E e \in CachedReads : Project(e, run, gate, approval)
  \/ \E e \in CachedReads, release \in BOOLEAN : Diagnose(e, release)
  \/ \E e \in CachedReads, outcome \in Outcomes : Record(e, outcome)
  \/ \E e \in CachedReads : Halt(e)
  \/ ApprovePlan \/ Settle \/ Resume
  \/ CancelRun /\ UNCHANGED seen
  \/ Reload /\ seen' = Now

\* The run a step leaves behind is an active one.
ActiveNext(n) == n = run'.n /\ n # 0 /\ gate'.status = "PENDING" /\ run'.state # "STOPPED"

\* What the sources show has the type of a read.
LEMMA NowType ==
  ASSUME ExecutorTypeOK, deployment \in Deployments, source \in SourceStates
  PROVE  Now \in Reads /\ (seen \in Reads => CachedReads \subseteq Reads)
<1>1. source \in [rev : Nat, linked : BOOLEAN, up : BOOLEAN, celigo : BOOLEAN]
  BY PlatformAssumption DEF SourceStates
<1>2. source.rev \in Revisions
  BY DEF Revisions
<1>3. order \in OrderRecord /\ blocked \in BOOLEAN /\ TransferShown \in BOOLEAN
  BY DEF ExecutorTypeOK, OrderRecord, TransferShown
<1>4. (source.linked /\ source.up) \in BOOLEAN /\ source.up \in BOOLEAN
  BY <1>1
<1>5. ASSUME NEW l \in BOOLEAN, NEW t \in BOOLEAN
      PROVE  [rev |-> source.rev, linked |-> l, celigo |-> source.celigo, transfer |-> t,
              blocked |-> blocked, held |-> order.held, delivered |-> order.delivered,
              billed |-> order.billed] \in Facts
  BY <1>1, <1>2, <1>3 DEF Facts, OrderRecord
<1>6. Now.facts \in Facts /\ Now.fresh \in BOOLEAN /\ Now = [fresh |-> Now.fresh, facts |-> Now.facts]
  BY <1>3, <1>4, <1>5 DEF Now
<1>7. Now \in Reads
  BY <1>6 DEF Reads
<1> QED BY <1>7 DEF CachedReads

LEMMA NoGateType == NoGate \in GateRecord /\ NoFacts \in Facts
  BY DEF NoGate, NoFacts, GateRecord, GateStatuses, Candidates, Facts, Revisions

\* The end of a method: what it says, or the revocation of a stale plan.
LEMMA ProjectResult ==
  ASSUME NEW e, NEW r \in RunRecord, NEW g \in GateRecord, NEW a, Project(e, r, g, a)
  PROVE  /\ seen' = e
         /\ run' \in RunRecord /\ gate' \in GateRecord
         /\ run'.n = r.n
         /\ \/ run' = r /\ gate' = g /\ approval' = a
            \/ run'.state = "BLOCKED" /\ gate'.status = "STALE_EVIDENCE" /\ approval' = {}
<1>1. [r EXCEPT !.state = "BLOCKED"] \in RunRecord /\ [r EXCEPT !.state = "BLOCKED"].n = r.n
      /\ [r EXCEPT !.state = "BLOCKED"].state = "BLOCKED"
  BY DEF RunRecord, RunStates
<1>2. [g EXCEPT !.status = "STALE_EVIDENCE"] \in GateRecord
      /\ [g EXCEPT !.status = "STALE_EVIDENCE"].status = "STALE_EVIDENCE"
  BY DEF GateRecord, GateStatuses
<1> QED BY <1>1, <1>2 DEF Project

\* diagnose(): a new run without an approval.
LEMMA DiagnoseResult ==
  ASSUME run \in RunRecord, PlatformAssumption, NEW e \in Reads, NEW release \in BOOLEAN,
         Diagnose(e, release)
  PROVE  /\ seen' = e /\ approval' = {} /\ execution' = "NONE"
         /\ run' \in RunRecord /\ gate' \in GateRecord
         /\ run'.n = run.n + 1
         /\ run'.state # "STOPPED"
         /\ run'.state = "PLAN_READY" /\ gate'.live => gate'.status = "VALIDATED"
<1>0. run.n + 1 \in 0..MaxRuns /\ e.facts \in Facts /\ Candidate(e) \in Candidates
  BY PlatformAssumption DEF Diagnose, RunRecord, Reads, Candidate, Candidates
<1> DEFINE r == [n |-> run.n + 1, state |-> IF release THEN Candidate(e) ELSE "REASONING"]
           g == [status |-> IF release THEN "OFFLINE" ELSE "PENDING", live |-> ~release,
                 candidate |-> Candidate(e), digest |-> e.facts]
<1>1. r \in RunRecord /\ r.n = run.n + 1 /\ r.state # "STOPPED" /\ (r.state = "PLAN_READY" => release)
  BY <1>0 DEF RunRecord, RunStates, Candidates
<1>2. g \in GateRecord
  <2>1. CASE release
    BY <1>0, <2>1 DEF GateRecord, GateStatuses
  <2>2. CASE ~release
    BY <1>0, <2>2 DEF GateRecord, GateStatuses
  <2> QED BY <2>1, <2>2
<1>3. release => ~g.live
  OBVIOUS
<1>4. Project(e, r, g, {}) /\ execution' = "NONE"
  BY DEF Diagnose
<1> HIDE DEF r, g
<1> QED BY <1>1, <1>2, <1>3, <1>4, ProjectResult

\* A report: a validated plan, or none; never an approval or a pending run.
LEMMA RecordResult ==
  ASSUME run \in RunRecord, gate \in GateRecord, NEW e \in Reads, NEW outcome \in Outcomes,
         Record(e, outcome)
  PROVE  /\ seen' = e /\ approval' = {} /\ execution' = execution
         /\ run' \in RunRecord /\ gate' \in GateRecord
         /\ run'.n = run.n
         /\ run'.state \in {"PLAN_READY", "VERIFIED", "BLOCKED"}
         /\ run'.state = "PLAN_READY" => gate'.status = "VALIDATED"
         /\ gate'.status # "PENDING"
<1> DEFINE valid == /\ outcome = gate.candidate /\ outcome # "BLOCKED"
                    /\ e.fresh /\ e.facts.linked /\ gate.digest = e.facts
           state == IF valid THEN outcome ELSE "BLOCKED"
           status == IF valid THEN "VALIDATED"
                     ELSE IF outcome = "UNAVAILABLE" THEN "AGENT_UNAVAILABLE" ELSE "VALIDATION_FAILED"
           r == [run EXCEPT !.state = state]
           g == [gate EXCEPT !.status = status]
<1>1. state \in {"PLAN_READY", "VERIFIED", "BLOCKED"}
  BY DEF Outcomes, GateRecord, Candidates
<1>2. status \in {"VALIDATED", "AGENT_UNAVAILABLE", "VALIDATION_FAILED"}
      /\ (state = "PLAN_READY" => status = "VALIDATED")
  OBVIOUS
<1>3. Project(e, r, g, {}) /\ execution' = execution
  BY DEF Record
<1> HIDE DEF state, status
<1>4. r \in RunRecord /\ r.n = run.n /\ r.state = state
  BY <1>1 DEF RunRecord, RunStates
<1>5. g \in GateRecord /\ g.status = status
  BY <1>2 DEF GateRecord, GateStatuses
<1> HIDE DEF r, g
<1> QED BY <1>1, <1>2, <1>3, <1>4, <1>5, ProjectResult

\* No step leaves an approval behind that does not bind the investigation, or
\* makes a run active that was not.
LEMMA ControlPreserved ==
  ASSUME ExecutorTypeOK, deployment \in Deployments, source \in SourceStates,
         ControlTypeOK, ControlInv, ControlAct
  PROVE  /\ seen' \in Reads
         /\ run' \in RunRecord /\ gate' \in GateRecord /\ approval' \subseteq ApprovalRecord
         /\ ControlInv'
         /\ run.n <= run'.n
         /\ \A n \in 0..run.n : ActiveNext(n) => Active(n)
<1> USE PlatformAssumption
<1> DEFINE Goal == /\ seen' \in Reads
                   /\ run' \in RunRecord /\ gate' \in GateRecord /\ approval' \subseteq ApprovalRecord
                   /\ ControlInv'
                   /\ run.n <= run'.n
                   /\ \A n \in 0..run.n : ActiveNext(n) => Active(n)
<1>0. /\ seen \in Reads /\ run \in RunRecord /\ gate \in GateRecord
      /\ approval \subseteq ApprovalRecord
      /\ Now \in Reads /\ CachedReads \subseteq Reads /\ Now.facts \in Facts
      /\ run.n \in 0..MaxRuns
  BY NowType DEF ControlTypeOK, Reads, RunRecord
<1>1. ASSUME UNCHANGED <<run, gate, approval>>, seen' \in CachedReads PROVE Goal
  BY <1>0, <1>1 DEF ControlInv, PlanIsValidated, StoppedIsOver, ApprovalBindsInvestigation, ActiveNext, Active, Pending
<1>2. ASSUME NEW e \in CachedReads, Project(e, run, gate, approval) PROVE Goal
  <2>1. /\ seen' \in Reads /\ run' \in RunRecord /\ gate' \in GateRecord /\ run'.n = run.n
        /\ \/ run' = run /\ gate' = gate /\ approval' = approval
           \/ run'.state = "BLOCKED" /\ gate'.status = "STALE_EVIDENCE" /\ approval' = {}
    BY <1>0, <1>2, ProjectResult
  <2> QED BY <1>0, <2>1
      DEF ControlInv, PlanIsValidated, StoppedIsOver, ApprovalBindsInvestigation, ActiveNext, Active, Pending
<1>3. ASSUME NEW e \in CachedReads, NEW release \in BOOLEAN, Diagnose(e, release) PROVE Goal
  <2>1. /\ seen' = e /\ approval' = {} /\ run' \in RunRecord /\ gate' \in GateRecord
        /\ run'.n = run.n + 1
        /\ run'.state # "STOPPED"
        /\ run'.state = "PLAN_READY" /\ gate'.live => gate'.status = "VALIDATED"
    BY <1>0, <1>3, DiagnoseResult
  <2> QED BY <1>0, <2>1
      DEF ControlInv, PlanIsValidated, StoppedIsOver, ApprovalBindsInvestigation, ActiveNext
<1>4. ASSUME NEW e \in CachedReads, NEW outcome \in Outcomes, Record(e, outcome) PROVE Goal
  <2>1. /\ seen' = e /\ approval' = {} /\ run' \in RunRecord /\ gate' \in GateRecord
        /\ run'.n = run.n /\ (run'.state = "PLAN_READY" => gate'.status = "VALIDATED")
        /\ gate'.status # "PENDING"
    BY <1>0, <1>4, RecordResult
  <2> QED BY <1>0, <2>1
      DEF ControlInv, PlanIsValidated, StoppedIsOver, ApprovalBindsInvestigation, ActiveNext
<1>5. ASSUME NEW e \in CachedReads, Halt(e) PROVE Goal
  <2>1. PICK r \in RunRecord, g \in GateRecord :
          /\ Project(e, r, g, {}) /\ r.n = run.n
          /\ r.state = "STOPPED" /\ g.status = "STOPPED"
    <3>1. [run EXCEPT !.state = "STOPPED"] \in RunRecord /\ [run EXCEPT !.state = "STOPPED"].n = run.n
          /\ [run EXCEPT !.state = "STOPPED"].state = "STOPPED"
      BY <1>0 DEF RunRecord, RunStates
    <3>2. [gate EXCEPT !.status = "STOPPED"] \in GateRecord
          /\ [gate EXCEPT !.status = "STOPPED"].status = "STOPPED"
      BY <1>0 DEF GateRecord, GateStatuses
    <3> QED BY <1>5, <3>1, <3>2 DEF Halt
  <2>2. /\ seen' = e /\ run' \in RunRecord /\ gate' \in GateRecord /\ run'.n = run.n
        /\ approval' = {}
        /\ run'.state \in {"STOPPED", "BLOCKED"} /\ gate'.status \in {"STOPPED", "STALE_EVIDENCE"}
    BY <2>1, ProjectResult
  <2> QED BY <1>0, <2>2
      DEF ControlInv, PlanIsValidated, StoppedIsOver, ApprovalBindsInvestigation, ActiveNext
<1>6. ASSUME ApprovePlan PROVE Goal
  <2> DEFINE a == [run |-> run.n, digest |-> Now.facts]
  <2>1. a \in ApprovalRecord /\ a.run = run.n /\ a.digest = Now.facts
    BY <1>0 DEF ApprovalRecord
  <2>2. gate.live => gate.status = "VALIDATED" /\ a.digest = gate.digest
    BY <1>6, <2>1 DEF ApprovePlan, ControlInv, PlanIsValidated
  <2>3. Project(Now, run, gate, {a})
    BY <1>6 DEF ApprovePlan
  <2> HIDE DEF a
  <2>4. /\ seen' \in Reads /\ run' \in RunRecord /\ gate' \in GateRecord /\ run'.n = run.n
        /\ \/ run' = run /\ gate' = gate /\ approval' = {a}
           \/ run'.state = "BLOCKED" /\ gate'.status = "STALE_EVIDENCE" /\ approval' = {}
    BY <1>0, <2>3, ProjectResult
  <2>5. CASE run' = run /\ gate' = gate /\ approval' = {a}
    BY <1>0, <2>1, <2>2, <2>4, <2>5
    DEF ControlInv, PlanIsValidated, StoppedIsOver, ApprovalBindsInvestigation, ActiveNext, Active, Pending
  <2>6. CASE run'.state = "BLOCKED" /\ gate'.status = "STALE_EVIDENCE" /\ approval' = {}
    BY <1>0, <2>4, <2>6
    DEF ControlInv, PlanIsValidated, StoppedIsOver, ApprovalBindsInvestigation, ActiveNext
  <2> QED BY <2>4, <2>5, <2>6
<1>7. ASSUME Settle PROVE Goal
  <2>1. PICK s \in {run.state, "VERIFIED"} : Project(Now, [run EXCEPT !.state = s], gate, approval)
    BY <1>7 DEF Settle
  <2>2. PICK r \in RunRecord :
          /\ Project(Now, r, gate, approval) /\ r.n = run.n
          /\ r.state = run.state \/ r.state = "VERIFIED"
    <3>1. [run EXCEPT !.state = s] \in RunRecord /\ [run EXCEPT !.state = s].n = run.n
          /\ [run EXCEPT !.state = s].state = s
      BY <1>0 DEF RunRecord, RunStates
    <3> QED BY <2>1, <3>1
  <2>3. /\ seen' \in Reads /\ run' \in RunRecord /\ gate' \in GateRecord /\ run'.n = run.n
        /\ \/ run' = r /\ gate' = gate /\ approval' = approval
           \/ run'.state = "BLOCKED" /\ gate'.status = "STALE_EVIDENCE" /\ approval' = {}
    BY <1>0, <2>2, ProjectResult
  <2>4. CASE run' = r /\ gate' = gate /\ approval' = approval
    <3>1. run'.n = run.n /\ run'.state \in {run.state, "VERIFIED"}
      BY <2>2, <2>4
    <3>2. PlanIsValidated' /\ StoppedIsOver' /\ ApprovalBindsInvestigation'
      BY <2>4, <3>1 DEF ControlInv, PlanIsValidated, StoppedIsOver, ApprovalBindsInvestigation
    <3>3. \A n \in 0..run.n : ActiveNext(n) => Active(n)
      <4>1. ASSUME NEW n \in 0..run.n, ActiveNext(n) PROVE Active(n)
        <5>1. gate.status = "PENDING" /\ n = run.n /\ n # 0
          BY <2>4, <3>1, <4>1 DEF ActiveNext
        <5>2. run.state # "STOPPED"
          BY <5>1 DEF ControlInv, StoppedIsOver
        <5> QED BY <5>1, <5>2 DEF Active, Pending
      <4> QED BY <4>1
    <3> QED BY <1>0, <2>3, <2>4, <3>1, <3>2, <3>3 DEF ControlInv
  <2>5. CASE run'.state = "BLOCKED" /\ gate'.status = "STALE_EVIDENCE" /\ approval' = {}
    BY <1>0, <2>3, <2>5
    DEF ControlInv, PlanIsValidated, StoppedIsOver, ApprovalBindsInvestigation, ActiveNext
  <2> QED BY <2>3, <2>4, <2>5
<1>8. ASSUME Resume PROVE Goal
  <2>1. /\ run' \in RunRecord /\ run'.n = run.n /\ run'.state = "IDLE"
        /\ gate' \in GateRecord /\ ~gate'.live /\ gate'.status = "NONE"
        /\ approval' = approval /\ seen' \in Reads
    BY <1>0, <1>8, NoGateType DEF Resume, RunRecord, RunStates, NoGate
  <2> QED BY <1>0, <2>1
      DEF ControlInv, PlanIsValidated, StoppedIsOver, ApprovalBindsInvestigation, ActiveNext
<1>9. ASSUME CancelRun, seen' = seen PROVE Goal
  <2>1. CASE Active(autoRun)
    <3>1. /\ run' \in RunRecord /\ run'.n = run.n /\ run'.state = "STOPPED"
          /\ gate' \in GateRecord /\ gate'.status = "STOPPED" /\ approval' = {}
      BY <1>0, <1>9, <2>1 DEF CancelRun, RunRecord, RunStates, GateRecord, GateStatuses
    <3> QED BY <1>0, <1>9, <3>1
        DEF ControlInv, PlanIsValidated, StoppedIsOver, ApprovalBindsInvestigation, ActiveNext
  <2>2. CASE ~Active(autoRun)
    BY <1>0, <1>1, <1>9, <2>2 DEF CancelRun, CachedReads
  <2> QED BY <2>1, <2>2
<1>10. ASSUME Reload, seen' = Now PROVE Goal
  <2>1. CASE UNCHANGED <<run, gate, approval>>
    BY <1>1, <1>10, <2>1 DEF CachedReads
  <2>2. ASSUME NEW status \in {"INTERRUPTED", "REVALIDATION_REQUIRED"},
               run' = [run EXCEPT !.state = "BLOCKED"],
               gate' = [gate EXCEPT !.status = status], approval' = {}
        PROVE  Goal
    <3>1. /\ run' \in RunRecord /\ run'.n = run.n /\ run'.state = "BLOCKED"
          /\ gate' \in GateRecord /\ gate'.status = status
      BY <1>0, <2>2 DEF RunRecord, RunStates, GateRecord, GateStatuses
    <3> QED BY <1>0, <1>10, <2>2, <3>1
        DEF ControlInv, PlanIsValidated, StoppedIsOver, ApprovalBindsInvestigation, ActiveNext
  <2> HIDE DEF Goal
  <2>3. CASE Pending
    BY <1>10, <2>2, <2>3 DEF Reload
  <2>4. CASE ~Pending /\ run.state = "PLAN_READY" /\ gate.status # "VALIDATED"
    BY <1>10, <2>2, <2>4 DEF Reload
  <2>5. CASE ~Pending /\ ~(run.state = "PLAN_READY" /\ gate.status # "VALIDATED")
    BY <1>10, <2>1, <2>5 DEF Reload
  <2> QED BY <2>3, <2>4, <2>5
<1> HIDE DEF Goal
<1>11. Goal
  BY <1>1, <1>2, <1>3, <1>4, <1>5, <1>6, <1>7, <1>8, <1>9, <1>10 DEF ControlAct
<1> QED BY <1>11 DEF Goal

-----------------------------------------------------------------------------
(* What a step of the console or of its automation may do to each part. *)

StepFrame ==
  /\ ExecutorAct
  /\ ControlAct
  /\ deployment' = deployment
  /\ source' = source \/ SourceChanges
  /\ execution' = execution \/ execution' = "NONE" \/ FinishExecute \/ Verify
  /\ flying' \subseteq flying \/ (run.n < MaxRuns /\ flying' = flying \cup {run.n + 1})
  /\ restarts' = restarts \/ (restarts < deployment.restarts /\ restarts' = restarts + 1)

\* The requests of the console.
LEMMA PlatformFrame == PlatformNext => StepFrame
<1> SUFFICES ASSUME PlatformNext PROVE StepFrame
  OBVIOUS
<1> USE DEF executorVars
<1>1. CASE Poll
  <2>1. ExecutorAct
    BY <1>1 DEF Poll, ExecutorAct
  <2> QED BY <1>1, <2>1 DEF Poll, StepFrame, ControlAct
<1>2. CASE ClaimDiagnosis
  <2>1. ExecutorAct
    BY <1>2 DEF ClaimDiagnosis, ExecutorAct
  <2>2. PICK e \in CachedReads : Diagnose(e, FALSE)
    BY <1>2 DEF ClaimDiagnosis
  <2>3. ControlAct
    BY <2>2 DEF ControlAct
  <2>4. execution' = "NONE" /\ run.n < MaxRuns
    BY <2>2 DEF Diagnose
  <2> QED BY <1>2, <2>1, <2>3, <2>4 DEF ClaimDiagnosis, StepFrame
<1>3. CASE DiagnoseOffline
  <2>1. ExecutorAct
    BY <1>3 DEF DiagnoseOffline, ExecutorAct
  <2>2. PICK e \in CachedReads : Diagnose(e, TRUE)
    BY <1>3 DEF DiagnoseOffline
  <2>3. ControlAct
    BY <2>2 DEF ControlAct
  <2>4. execution' = "NONE"
    BY <2>2 DEF Diagnose
  <2> QED BY <1>3, <2>1, <2>3, <2>4 DEF DiagnoseOffline, StepFrame
<1>4. CASE RecordOffline
  <2>1. ExecutorAct
    BY <1>4 DEF RecordOffline, ExecutorAct
  <2>2. ControlAct
    BY <1>4 DEF RecordOffline, ControlAct
  <2>3. execution' = execution
    BY <1>4 DEF RecordOffline, Record
  <2> QED BY <1>4, <2>1, <2>2, <2>3 DEF RecordOffline, StepFrame
<1>5. ASSUME NEW n \in flying, RecordLive(n) PROVE StepFrame
  <2>1. ExecutorAct
    BY <1>5 DEF RecordLive, ExecutorAct
  <2>2. CASE Active(n)
    <3>1. PICK e \in CachedReads, outcome \in Outcomes : Record(e, outcome)
      BY <1>5, <2>2 DEF RecordLive
    <3>2. ControlAct
      BY <3>1 DEF ControlAct
    <3>3. execution' = execution
      BY <3>1 DEF Record
    <3> QED BY <1>5, <2>1, <3>2, <3>3 DEF RecordLive, StepFrame
  <2>3. CASE ~Active(n)
    <3>1. PICK e \in CachedReads : Project(e, run, gate, approval) /\ UNCHANGED execution
      BY <1>5, <2>3 DEF RecordLive
    <3>2. ControlAct
      BY <3>1 DEF ControlAct
    <3> QED BY <1>5, <2>1, <3>1, <3>2 DEF RecordLive, StepFrame
  <2> QED BY <2>2, <2>3
<1>6. CASE Approve
  <2>1. ExecutorAct
    BY <1>6 DEF Approve, ExecutorAct
  <2>2. ControlAct
    BY <1>6 DEF Approve, ControlAct, ApprovePlan
  <2> QED BY <1>6, <2>1, <2>2 DEF Approve, StepFrame
<1>7. CASE BeginExecute
  <2>1. ExecutorAct
    BY <1>7 DEF BeginExecute, ExecutorAct
  <2>2. ControlAct
    BY <1>7 DEF BeginExecute, ControlAct, CachedReads, control
  <2> QED BY <1>7, <2>1, <2>2 DEF BeginExecute, StepFrame, control
<1>8. CASE Executing
  <2>1. ExecutorAct
    BY <1>8 DEF Executing, ExecutorAct
  <2>2. ControlAct
    BY <1>8 DEF Executing, ControlAct, CachedReads, control
  <2> QED BY <1>8, <2>1, <2>2 DEF Executing, StepFrame, control
<1>9. CASE FinishExecute
  <2>1. ExecutorAct
    BY <1>9 DEF FinishExecute, ExecutorAct
  <2>2. ControlAct
    BY <1>9 DEF FinishExecute, ControlAct, CachedReads
  <2> QED BY <1>9, <2>1, <2>2 DEF FinishExecute, StepFrame
<1>10. CASE Verify
  <2>1. ExecutorAct
    BY <1>10 DEF Verify, ExecutorAct
  <2>2. Settle
    <3>1. PICK s \in {run.state, "VERIFIED"} :
            Project(Now, [run EXCEPT !.state = s], gate, approval)
      BY <1>10 DEF Verify
    <3> QED BY <3>1 DEF Settle
  <2>3. ControlAct
    BY <2>2 DEF ControlAct
  <2> QED BY <1>10, <2>1, <2>3 DEF Verify, StepFrame
<1>11. CASE Stop
  <2>1. ExecutorAct
    BY <1>11 DEF Stop, ExecutorAct
  <2>2. ControlAct
    BY <1>11 DEF Stop, ControlAct
  <2>3. execution' = execution
    BY <1>11 DEF Stop, Halt
  <2> QED BY <1>11, <2>1, <2>2, <2>3 DEF Stop, StepFrame
<1>12. CASE SourceChanges
  <2>1. ExecutorAct
    BY <1>12 DEF SourceChanges, ExecutorAct
  <2>2. ControlAct
    BY <1>12 DEF SourceChanges, ControlAct, CachedReads, control
  <2> QED BY <1>12, <2>1, <2>2 DEF SourceChanges, StepFrame, control
<1>13. CASE LateInsertLands
  <2>1. ExecutorAct
    BY <1>13 DEF LateInsertLands, ExecutorAct
  <2>2. ControlAct
    BY <1>13 DEF LateInsertLands, ControlAct, CachedReads, control
  <2> QED BY <1>13, <2>1, <2>2 DEF LateInsertLands, StepFrame, control
<1> QED BY <1>1, <1>2, <1>3, <1>4, <1>5, <1>6, <1>7, <1>8, <1>9, <1>10, <1>11, <1>12, <1>13
    DEF PlatformNext

\* The automation, its operator and the restart.
LEMMA AutoFrame == AutoNext => StepFrame
<1> SUFFICES ASSUME AutoNext PROVE StepFrame
  OBVIOUS
<1> USE DEF executorVars, PlatformRest
<1>1. ASSUME UNCHANGED platformVars PROVE StepFrame
  <2>1. ExecutorAct
    BY <1>1 DEF platformVars, ExecutorAct
  <2>2. ControlAct
    BY <1>1 DEF platformVars, ControlAct, CachedReads, control
  <2> QED BY <1>1, <2>1, <2>2 DEF platformVars, StepFrame, control
<1>2. ASSUME UNCHANGED PlatformRest, ControlAct PROVE StepFrame
  <2>1. ExecutorAct
    BY <1>2 DEF ExecutorAct
  <2> QED BY <1>2, <2>1 DEF StepFrame
<1>3. CASE Observe
  <2>1. ControlAct
    BY <1>3 DEF Observe, ControlAct, CachedReads
  <2> QED BY <1>2, <1>3, <2>1 DEF Observe
<1>4. CASE Decide \/ Refund \/ RecordAttempt
  BY <1>1, <1>4 DEF Decide, Refund, RecordAttempt
<1>5. CASE GiveUp
  <2>1. CASE UNCHANGED platformVars
    BY <1>1, <2>1
  <2>2. CASE CancelRun /\ UNCHANGED <<PlatformRest, seen>>
    <3>1. ControlAct
      BY <2>2 DEF ControlAct
    <3> QED BY <1>2, <2>2, <3>1
  <2> QED BY <1>5, <2>1, <2>2 DEF GiveUp
<1>6. CASE Claim
  <2>1. ExecutorAct
    BY <1>6 DEF Claim, ExecutorAct
  <2>2. PICK e \in CachedReads :
          IF Observation(e) = "READY" /\ e.facts = tick.digest
          THEN \E later \in {e, Now} : Diagnose(later, FALSE)
          ELSE seen' = e /\ UNCHANGED control
    BY <1>6 DEF Claim
  <2>3. CASE Observation(e) = "READY" /\ e.facts = tick.digest
    <3>1. PICK later \in {e, Now} : Diagnose(later, FALSE)
      BY <2>2, <2>3
    <3>2. ControlAct
      BY <3>1 DEF ControlAct, CachedReads
    <3>3. execution' = "NONE"
      BY <3>1 DEF Diagnose
    <3> QED BY <1>6, <2>1, <3>2, <3>3 DEF Claim, StepFrame
  <2>4. CASE ~(Observation(e) = "READY" /\ e.facts = tick.digest)
    <3>1. seen' \in CachedReads /\ UNCHANGED <<run, gate, approval, execution>>
      BY <2>2, <2>4 DEF control
    <3>2. ControlAct
      BY <3>1 DEF ControlAct
    <3> QED BY <1>6, <2>1, <3>1, <3>2 DEF Claim, StepFrame
  <2> QED BY <2>3, <2>4
<1>7. CASE Report
  <2>1. ExecutorAct
    BY <1>7 DEF Report, ExecutorAct
  <2>2. CASE Active(autoRun)
    <3>1. PICK e \in CachedReads, outcome \in Outcomes : Record(e, outcome)
      BY <1>7, <2>2 DEF Report
    <3>2. ControlAct
      BY <3>1 DEF ControlAct
    <3>3. execution' = execution
      BY <3>1 DEF Record
    <3> QED BY <1>7, <2>1, <3>2, <3>3 DEF Report, StepFrame
  <2>3. CASE ~Active(autoRun)
    <3>1. UNCHANGED <<seen, run, gate, approval, execution>>
      BY <1>7, <2>3 DEF Report, control
    <3>2. ControlAct
      BY <3>1 DEF ControlAct, CachedReads
    <3> QED BY <1>7, <2>1, <3>1, <3>2 DEF Report, StepFrame
  <2> QED BY <2>2, <2>3
<1>8. CASE TickFails \/ CancelDisabled \/ Pause \/ Close
  <2>1. CancelRun /\ UNCHANGED <<PlatformRest, seen>>
    BY <1>8 DEF TickFails, CancelDisabled, Pause, Close
  <2>2. ControlAct
    BY <2>1 DEF ControlAct
  <2> QED BY <1>2, <2>1, <2>2
<1>9. CASE Enable
  <2>1. CASE run.state = "STOPPED"
    <3>1. Resume
      BY <1>9, <2>1 DEF Enable, Resume
    <3> QED BY <1>2, <1>9, <3>1 DEF Enable, ControlAct
  <2>2. CASE run.state # "STOPPED"
    BY <1>2, <1>9, <2>2 DEF Enable, ControlAct
  <2> QED BY <2>1, <2>2
<1>10. CASE Disable
  BY <1>2, <1>10 DEF Disable, ControlAct
<1>11. CASE Restart
  <2>1. ExecutorAct
    BY <1>11 DEF Restart, RestartPlatform, ExecutorAct
  <2>2. ControlAct
    BY <1>11 DEF Restart, RestartPlatform, ControlAct
  <2> QED BY <1>11, <2>1, <2>2 DEF Restart, RestartPlatform, StepFrame
<1>12. CASE PlatformStep
  BY <1>12, PlatformFrame DEF PlatformStep
<1> QED BY <1>3, <1>4, <1>5, <1>6, <1>7, <1>8, <1>9, <1>10, <1>11, <1>12
    DEF AutoNext, TickStep

-----------------------------------------------------------------------------
(* The console. *)

(* A verified answer, and what the console made of it, stand for a recovered *)
(* case; VERIFIED for the integration receipt too.                           *)
RecoveryInv ==
  /\ InStep("done") /\ exec.verified => Recovered
  /\ execution \in {"VERIFYING", "VERIFIED"} => Recovered
  /\ execution = "VERIFIED" => source.celigo

\* The type invariant by its parts.
LEMMA TypeParts ==
  TypeOK <=> /\ ExecutorTypeOK /\ ControlTypeOK
             /\ deployment \in Deployments /\ source \in SourceStates
             /\ execution \in {"NONE", "VERIFYING", "VERIFIED", "FAILED"}
             /\ flying \subseteq 1..MaxRuns
             /\ restarts \in 0..deployment.restarts
  BY DEF TypeOK, ControlTypeOK, RunRecord, GateRecord, ApprovalRecord

\* A deployment never changes, nor what evidence can be.
LEMMA SameFacts ==
  ASSUME deployment' = deployment
  PROVE  /\ SourceStates' = SourceStates /\ Facts' = Facts /\ Reads' = Reads
         /\ GateRecord' = GateRecord /\ ApprovalRecord' = ApprovalRecord
<1>1. SourceStates' = SourceStates
  BY DEF SourceStates
<1>2. Revisions' = Revisions
  BY <1>1 DEF Revisions
<1>3. Facts' = Facts
  BY <1>2 DEF Facts
<1> QED BY <1>1, <1>3 DEF Reads, GateRecord, ApprovalRecord

\* Every step keeps the console's types.
LEMMA PlatformTypes ==
  ASSUME TypeOK, ErpInv, ControlInv, StepFrame
  PROVE  TypeOK'
<1> USE PlatformAssumption
<1>0. /\ ExecutorTypeOK /\ ControlTypeOK
      /\ deployment \in Deployments /\ source \in SourceStates
      /\ execution \in {"NONE", "VERIFYING", "VERIFIED", "FAILED"}
      /\ flying \subseteq 1..MaxRuns
      /\ restarts \in 0..deployment.restarts
  BY TypeParts
<1>1. ExecutorTypeOK'
  BY <1>0, ExecutorTypes DEF StepFrame
<1>2. seen' \in Reads /\ run' \in RunRecord /\ gate' \in GateRecord /\ approval' \subseteq ApprovalRecord
  BY <1>0, ControlPreserved DEF StepFrame
<1>3. deployment' = deployment
  BY DEF StepFrame
<1>4. ControlTypeOK'
  BY <1>2, <1>3, SameFacts DEF ControlTypeOK, RunRecord
<1>5. deployment' \in Deployments' /\ source' \in SourceStates'
  BY <1>0, <1>3, SameFacts DEF StepFrame, SourceChanges
<1>6. execution' \in {"NONE", "VERIFYING", "VERIFIED", "FAILED"}
  <2>1. CASE execution' = execution \/ execution' = "NONE"
    BY <1>0, <2>1
  <2>2. CASE FinishExecute
    BY <2>2 DEF FinishExecute
  <2>3. CASE Verify
    BY <2>3 DEF Verify
  <2> QED BY <2>1, <2>2, <2>3 DEF StepFrame
<1>7. flying' \subseteq 1..MaxRuns
  <2>1. run.n \in 0..MaxRuns
    BY <1>0 DEF ControlTypeOK, RunRecord
  <2>2. run.n < MaxRuns => run.n + 1 \in 1..MaxRuns
    BY <2>1
  <2> QED BY <1>0, <2>2 DEF StepFrame
<1>8. restarts' \in 0..deployment'.restarts
  BY <1>0, <1>3 DEF StepFrame
<1> QED BY <1>1, <1>4, <1>5, <1>6, <1>7, <1>8
    DEF TypeOK, ControlTypeOK, RunRecord, GateRecord, ApprovalRecord

\* Every step keeps what VERIFIED stands for.
LEMMA RecoveryPreserved ==
  ASSUME TypeOK, ErpInv, RecoveryInv, StepFrame
  PROVE  RecoveryInv'
<1>0. ExecutorTypeOK /\ ExecutorAct
  BY TypeParts DEF StepFrame
<1>1. Recovered => Recovered'
  BY <1>0, RecoveredKept
<1>2. InStep("done")' /\ exec'.verified => Recovered'
  BY <1>0, AnswerIsRecovered DEF RecoveryInv, InStep
<1>3. source' = source \/ SourceChanges
  BY DEF StepFrame
<1>4. CASE execution' = execution \/ execution' = "NONE"
  BY <1>1, <1>2, <1>3, <1>4 DEF RecoveryInv, SourceChanges
<1>5. CASE FinishExecute
  <2>1. execution' = "VERIFYING" => Recovered
    BY <1>5 DEF FinishExecute, RecoveryInv
  <2>2. execution' # "VERIFIED"
    BY <1>5 DEF FinishExecute
  <2> QED BY <1>1, <1>2, <1>5, <2>1, <2>2 DEF FinishExecute, RecoveryInv
<1>6. CASE Verify
  <2>1. Recovered
    BY <1>6 DEF Verify, RecoveryInv
  <2>2. execution' = "VERIFIED" => Now.facts.celigo
    BY <1>6 DEF Verify, Receipted
  <2>3. Now.facts.celigo = source.celigo
    BY DEF Now
  <2>4. source' = source
    BY <1>6 DEF Verify
  <2> QED BY <1>1, <1>2, <2>1, <2>2, <2>3, <2>4 DEF RecoveryInv
<1> QED BY <1>4, <1>5, <1>6 DEF StepFrame

-----------------------------------------------------------------------------
(* The permission, its budget and its attempts. *)

Dispatching == tick.pc \in {"claim", "refund"}

(* Who owns an active run, and what a withdrawn permission leaves to do. *)
OwnerInv ==
  /\ autoRun <= run.n
  /\ Dispatching => permission.enabled
  /\ Active(autoRun) => Ticking("investigate")
  /\ Active(autoRun) /\ ~permission.enabled => ctl = "cancel"

(* A run is reserved before it is claimed, and refunded before it is not. *)
BudgetInv == paid + permission.remaining + (IF Dispatching THEN 1 ELSE 0) <= Budget

(* Evidence has a row for each permission at most; what may be attempted    *)
(* again has one less.                                                      *)
AttemptInv ==
  /\ IsFiniteSet(attempts)
  /\ permission.enabled => enables > 0
  /\ \A d \in Facts : Cardinality(Rows(d)) <= enables
  /\ \A d \in retries : Cardinality(Rows(d)) < enables

PermissionRecord == [enabled : BOOLEAN, remaining : 0..Budget]
AttemptRecord == [digest : Facts, attempt : Nat, status : AttemptStatuses]
TickRecord == [pc : TickSteps, status : Observations, digest : Facts, attempt : Nat,
               terminal : AttemptStatuses]

\* The type invariant by its parts.
LEMMA AutoTypeParts ==
  AutoTypeOK <=> /\ TypeOK
                 /\ permission \in PermissionRecord
                 /\ attempts \subseteq AttemptRecord
                 /\ retries \subseteq Facts
                 /\ tick \in TickRecord
                 /\ ctl \in {"free", "cancel"}
                 /\ autoRun \in 0..MaxRuns
                 /\ closed \in BOOLEAN
                 /\ paid \in Nat /\ enables \in Nat
  BY DEF AutoTypeOK, PermissionRecord, AttemptRecord, TickRecord

\* What a withdrawal of the permission makes of it.
LEMMA DisabledType ==
  ASSUME permission \in PermissionRecord, Disabled
  PROVE  permission' \in PermissionRecord /\ ~permission'.enabled
         /\ permission'.remaining = permission.remaining
  BY DEF PermissionRecord, Disabled

LEMMA NoTickType == NoTick \in TickRecord /\ NoTick.pc = "idle"
  BY NoGateType DEF NoTick, TickRecord, TickSteps, Observations, AttemptStatuses

\* Every step keeps the types of the permission.
LEMMA PermissionType ==
  ASSUME AutoTypeOK, BudgetInv, AutoNext
  PROVE  permission' \in PermissionRecord
<1> USE BudgetAssumption
<1>0. permission \in PermissionRecord /\ paid \in Nat
  BY AutoTypeParts
<1>1. CASE permission' = permission
  BY <1>0, <1>1
<1>2. CASE Disabled
  BY <1>0, <1>2, DisabledType
<1>3. CASE Decide
  BY <1>0, <1>3 DEF Decide, PermissionRecord
<1>4. CASE Refund
  <2>1. permission.remaining + 1 <= Budget
    BY <1>0, <1>4 DEF Refund, Ticking, BudgetInv, Dispatching, PermissionRecord
  <2> QED BY <1>0, <1>4, <2>1 DEF Refund, PermissionRecord
<1>5. CASE Enable
  BY <1>0, <1>5 DEF Enable, PermissionRecord
<1> QED BY <1>1, <1>2, <1>3, <1>4, <1>5
    DEF AutoNext, TickStep, Observe, GiveUp, Claim, Report, RecordAttempt, TickFails, Disable,
        CancelDisabled, Pause, Close, Restart, Interrupt, PlatformStep, journal, autoVars

\* Every step keeps the types of the attempts table and of the retries.
LEMMA AttemptTypes ==
  ASSUME AutoTypeOK, AttemptInv, AutoNext
  PROVE  attempts' \subseteq AttemptRecord /\ retries' \subseteq Facts
<1>0. attempts \subseteq AttemptRecord /\ retries \subseteq Facts /\ tick \in TickRecord
  BY AutoTypeParts
<1>1. CASE attempts' = attempts /\ retries' = retries
  BY <1>0, <1>1
<1>2. CASE Decide
  <2>1. Cardinality(Rows(tick.digest)) \in Nat
    BY FS_Subset, FS_CardinalityType DEF AttemptInv, Rows
  <2>2. tick.digest \in Facts
    BY <1>0 DEF TickRecord
  <2>3. [digest |-> tick.digest, attempt |-> Cardinality(Rows(tick.digest)) + 1,
         status |-> "RUNNING"] \in AttemptRecord
    BY <2>1, <2>2 DEF AttemptRecord, AttemptStatuses
  <2> QED BY <1>0, <1>2, <2>3 DEF Decide
<1>3. CASE Refund
  BY <1>0, <1>3 DEF Refund
<1>5. CASE RecordAttempt
  <2>1. tick.terminal \in AttemptStatuses
    BY <1>0 DEF TickRecord
  <2>2. \A a \in AttemptRecord : [a EXCEPT !.status = tick.terminal] \in AttemptRecord
    BY <2>1 DEF AttemptRecord
  <2> QED BY <1>0, <1>5, <2>2 DEF RecordAttempt
<1>6. CASE Enable
  <2>1. \A a \in attempts : a.digest \in Facts
    BY <1>0 DEF AttemptRecord
  <2> QED BY <1>0, <1>6, <2>1 DEF Enable
<1>7. CASE Restart
  <2>1. \A a \in AttemptRecord : [a EXCEPT !.status = "INTERRUPTED"] \in AttemptRecord
    BY DEF AttemptRecord, AttemptStatuses
  <2> QED BY <1>0, <1>7, <2>1 DEF Restart, Interrupt
<1> QED BY <1>1, <1>2, <1>3, <1>5, <1>6, <1>7
    DEF AutoNext, TickStep, Observe, GiveUp, Claim, Report, TickFails, Disable,
        CancelDisabled, Pause, Close, PlatformStep, journal, autoVars

\* Every step keeps the type of the tick in progress.
LEMMA TickType ==
  ASSUME AutoTypeOK, AttemptInv, AutoNext
  PROVE  tick' \in TickRecord
<1>0. /\ tick \in TickRecord /\ TypeOK
      /\ ExecutorTypeOK /\ deployment \in Deployments /\ source \in SourceStates /\ ControlTypeOK
  BY AutoTypeParts, TypeParts
<1>1. CASE tick' = tick \/ tick' = NoTick
  BY <1>0, <1>1, NoTickType
<1>2. CASE Observe
  <2>1. Now.facts \in Facts
    BY <1>0, NowType DEF Reads, ControlTypeOK
  <2>2. Observation(Now) \in Observations
    BY DEF Observation, Observations
  <2> QED BY <1>0, <1>2, <2>1, <2>2 DEF Observe, TickRecord, TickSteps
<1>3. CASE Decide
  <2>1. Cardinality(Rows(tick.digest)) + 1 \in Nat
    BY FS_Subset, FS_CardinalityType DEF AttemptInv, Rows
  <2> QED BY <1>0, <1>3, <2>1 DEF Decide, TickRecord, TickSteps
<1>4. CASE Claim
  BY <1>0, <1>4 DEF Claim, TickGoto, TickRecord, TickSteps
<1>5. CASE Report
  <2>1. CASE Active(autoRun)
    <3>1. PICK e \in CachedReads, outcome \in Outcomes : Record(e, outcome)
      BY <1>5, <2>1 DEF Report
    <3>2. e \in Reads /\ run \in RunRecord /\ gate \in GateRecord
      BY <1>0, <3>1, NowType DEF ControlTypeOK
    <3>3. run'.state \in AttemptStatuses
      BY <3>1, <3>2, RecordResult DEF AttemptStatuses
    <3>4. tick' = [tick EXCEPT !.pc = "record", !.terminal = run'.state]
      BY <1>5, <2>1 DEF Report
    <3> QED BY <1>0, <3>3, <3>4 DEF TickRecord, TickSteps
  <2>2. CASE ~Active(autoRun)
    BY <1>0, <1>5, <2>2 DEF Report, TickRecord, TickSteps, AttemptStatuses
  <2> QED BY <2>1, <2>2
<1> QED BY <1>1, <1>2, <1>3, <1>4, <1>5
    DEF AutoNext, TickStep, GiveUp, Refund, RecordAttempt, TickFails, Enable, Disable,
        CancelDisabled, Pause, Close, Restart, PlatformStep, autoVars

\* cancel_automatic_investigation leaves no active run of the automation.
LEMMA CancelStops ==
  ASSUME run \in RunRecord, gate \in GateRecord, CancelRun
  PROVE  ~ActiveNext(autoRun)
  BY DEF CancelRun, Active, ActiveNext, Pending, RunRecord, GateRecord, RunStates, GateStatuses

\* Who owns an active run stays known, whatever interleaves.
LEMMA OwnerPreserved ==
  ASSUME AutoTypeOK, ControlInv, OwnerInv, AutoNext
  PROVE  OwnerInv'
<1>0. /\ run \in RunRecord /\ gate \in GateRecord /\ run.n \in 0..MaxRuns /\ autoRun \in 0..MaxRuns
      /\ tick \in TickRecord /\ permission \in PermissionRecord
      /\ ExecutorTypeOK /\ deployment \in Deployments /\ source \in SourceStates /\ ControlTypeOK
  BY AutoTypeParts, TypeParts DEF ControlTypeOK, RunRecord
<1>1. run.n <= run'.n /\ (ActiveNext(autoRun) => Active(autoRun)) /\ run'.n \in 0..MaxRuns
  <2>1. autoRun \in 0..run.n
    BY <1>0, PlatformAssumption DEF OwnerInv
  <2>2. run.n <= run'.n /\ run' \in RunRecord /\ \A n \in 0..run.n : ActiveNext(n) => Active(n)
    BY <1>0, AutoFrame, ControlPreserved DEF StepFrame
  <2> QED BY <2>1, <2>2 DEF RunRecord
<1>2. autoRun' = autoRun => autoRun' <= run'.n /\ (Active(autoRun)' <=> ActiveNext(autoRun))
  BY <1>0, <1>1 DEF OwnerInv, Active, ActiveNext, Pending
<1>3. ASSUME autoRun' = autoRun, ~ActiveNext(autoRun), Dispatching' => permission'.enabled
      PROVE  OwnerInv'
  BY <1>2, <1>3 DEF OwnerInv
<1>4. ASSUME ~Ticking("investigate") PROVE ~ActiveNext(autoRun)
  BY <1>1, <1>4 DEF OwnerInv
<1>5. NoTick.pc = "idle"
  BY NoTickType
<1>6. CASE Observe
  <2>1. tick'.pc = "observed"
    BY <1>0, <1>6 DEF Observe, TickRecord
  <2> QED BY <1>3, <1>4, <1>6, <2>1 DEF Observe, Ticking, Dispatching
<1>7. CASE Decide
  <2>1. permission'.enabled
    BY <1>0, <1>7 DEF Decide, PermissionRecord
  <2> QED BY <1>3, <1>4, <1>7, <2>1 DEF Decide, Ticking
<1>8. CASE GiveUp
  <2>1. ~Dispatching'
    BY <1>5, <1>8 DEF GiveUp, Dispatching
  <2> QED BY <1>3, <1>4, <1>8, <2>1 DEF GiveUp, Ticking
<1>9. CASE Claim
  <2>1. permission' = permission /\ permission.enabled
    BY <1>9 DEF Claim, journal, OwnerInv, Dispatching, Ticking
  <2>2. CASE autoRun' = autoRun
    BY <1>3, <1>4, <1>9, <2>1, <2>2 DEF Claim, Ticking
  <2>3. CASE autoRun' # autoRun
    <3>1. autoRun' = run.n + 1 /\ tick'.pc = "investigate" /\ \E e \in Reads : Diagnose(e, FALSE)
      <4>1. PICK e \in CachedReads :
              /\ Observation(e) = "READY" /\ e.facts = tick.digest
              /\ \E later \in {e, Now} : Diagnose(later, FALSE)
              /\ autoRun' = run.n + 1
              /\ TickGoto("investigate")
        BY <1>9, <2>3 DEF Claim
      <4>2. Now \in Reads /\ CachedReads \subseteq Reads
        BY <1>0, NowType DEF ControlTypeOK
      <4>3. tick'.pc = "investigate"
        BY <1>0, <4>1 DEF TickGoto, TickRecord
      <4> QED BY <4>1, <4>2, <4>3
    <3>2. run'.n = run.n + 1
      BY <1>0, <3>1, DiagnoseResult, PlatformAssumption
    <3> QED BY <1>0, <2>1, <3>1, <3>2 DEF OwnerInv, Dispatching, Ticking
  <2> QED BY <2>2, <2>3
<1>10. CASE Refund \/ RecordAttempt
  <2>1. ~Dispatching'
    BY <1>5, <1>10 DEF Refund, RecordAttempt, Dispatching
  <2> QED BY <1>3, <1>4, <1>10, <2>1 DEF Refund, RecordAttempt, Ticking
<1>11. CASE Report
  <2>1. tick'.pc = "record"
    BY <1>0, <1>11 DEF Report, TickRecord
  <2>2. ~ActiveNext(autoRun)
    <3>1. CASE Active(autoRun)
      <4>1. PICK e \in CachedReads, outcome \in Outcomes : Record(e, outcome)
        BY <1>11, <3>1 DEF Report
      <4>2. e \in Reads
        BY <1>0, <4>1, NowType DEF ControlTypeOK
      <4> QED BY <1>0, <4>1, <4>2, RecordResult DEF ActiveNext
    <3>2. CASE ~Active(autoRun)
      BY <1>1, <3>2
    <3> QED BY <3>1, <3>2
  <2> QED BY <1>3, <1>11, <2>1, <2>2 DEF Report, Dispatching
<1>12. CASE TickFails
  <2>1. ~Dispatching'
    BY <1>5, <1>12 DEF TickFails, Dispatching
  <2>2. ~ActiveNext(autoRun)
    BY <1>0, <1>12, CancelStops DEF TickFails
  <2> QED BY <1>3, <1>12, <2>1, <2>2 DEF TickFails
<1>13. CASE Enable
  <2>1. permission'.enabled
    BY <1>0, <1>13 DEF Enable, PermissionRecord
  <2> QED BY <1>1, <1>2, <1>13, <2>1 DEF Enable, OwnerInv, Ticking
<1>14. CASE Disable
  <2>1. ~Dispatching'
    BY <1>14 DEF Disable, ControlFree, Dispatching
  <2> QED BY <1>1, <1>2, <1>14, <2>1 DEF Disable, OwnerInv, Ticking
<1>15. CASE CancelDisabled \/ Close
  <2>1. ~ActiveNext(autoRun)
    BY <1>0, <1>15, CancelStops DEF CancelDisabled, Close
  <2> QED BY <1>3, <1>15, <2>1 DEF CancelDisabled, Close, OwnerInv, Dispatching, journal
<1>16. CASE Pause
  <2>1. ~ActiveNext(autoRun)
    BY <1>0, <1>16, CancelStops DEF Pause
  <2> QED BY <1>3, <1>16, <2>1 DEF Pause, ControlFree, Dispatching
<1>17. CASE Restart
  <2>1. ~Dispatching' /\ autoRun' = 0
    BY <1>5, <1>17 DEF Restart, Dispatching
  <2> QED BY <1>0, <1>1, <2>1 DEF OwnerInv, Active
<1>18. CASE PlatformStep
  BY <1>1, <1>2, <1>18 DEF PlatformStep, autoVars, journal, OwnerInv, Dispatching, Ticking
<1> QED BY <1>6, <1>7, <1>8, <1>9, <1>10, <1>11, <1>12, <1>13, <1>14, <1>15, <1>16, <1>17, <1>18
    DEF AutoNext, TickStep

\* The budget is neither overdrawn nor refunded twice.
LEMMA BudgetPreserved ==
  ASSUME AutoTypeOK, BudgetInv, AutoNext
  PROVE  BudgetInv' /\ paid' \in Nat
<1> USE BudgetAssumption
<1>0. /\ permission \in PermissionRecord /\ tick \in TickRecord /\ paid \in Nat
      /\ permission.remaining \in Nat
  BY AutoTypeParts DEF PermissionRecord
<1>1. ASSUME paid' = paid, permission'.remaining = permission.remaining,
             tick'.pc \notin {"claim", "refund"} \/ tick' = tick
      PROVE  BudgetInv' /\ paid' \in Nat
  BY <1>0, <1>1 DEF BudgetInv, Dispatching
<1>2. NoTick.pc = "idle"
  BY NoTickType
<1>3. Disabled => permission'.remaining = permission.remaining
  BY <1>0, DisabledType
<1>4. CASE Observe \/ Report
  <2>1. tick'.pc \in {"observed", "record"}
    BY <1>0, <1>4 DEF Observe, Report, TickRecord
  <2> QED BY <1>1, <1>4, <2>1 DEF Observe, Report, journal, history
<1>5. CASE Decide
  <2>1. permission'.remaining = permission.remaining - 1 /\ tick'.pc = "claim" /\ paid' = paid
    BY <1>0, <1>5 DEF Decide, PermissionRecord, TickRecord, history
  <2>2. ~Dispatching
    BY <1>5 DEF Decide, Ticking, Dispatching
  <2> QED BY <1>0, <2>1, <2>2 DEF BudgetInv, Dispatching
<1>6. CASE GiveUp \/ RecordAttempt \/ TickFails
  <2>1. tick'.pc = "idle" /\ paid' = paid
    BY <1>2, <1>6 DEF GiveUp, RecordAttempt, TickFails, history
  <2>2. permission'.remaining = permission.remaining
    BY <1>3, <1>6 DEF GiveUp, RecordAttempt, TickFails
  <2> QED BY <1>1, <2>1, <2>2
<1>7. CASE Claim
  <2>1. permission' = permission /\ Dispatching
    BY <1>7 DEF Claim, journal, Dispatching, Ticking
  <2>2. \/ paid' = paid + 1 /\ TickGoto("investigate")
        \/ paid' = paid /\ TickGoto("refund")
    BY <1>7 DEF Claim
  <2>3. TickGoto("investigate") => ~Dispatching'
    BY <1>0 DEF TickGoto, TickRecord, Dispatching
  <2> QED BY <1>0, <2>1, <2>2, <2>3 DEF BudgetInv
<1>8. CASE Refund
  <2>1. permission'.remaining = permission.remaining + 1 /\ paid' = paid
    BY <1>0, <1>8 DEF Refund, PermissionRecord, history
  <2>2. Dispatching /\ ~Dispatching'
    BY <1>2, <1>8 DEF Refund, Ticking, Dispatching
  <2> QED BY <1>0, <2>1, <2>2 DEF BudgetInv
<1>9. CASE Enable
  <2>1. permission'.remaining = permission.remaining
    BY <1>0, <1>9 DEF Enable, PermissionRecord
  <2> QED BY <1>1, <1>9, <2>1 DEF Enable
<1>10. CASE Disable \/ Pause
  BY <1>1, <1>3, <1>10 DEF Disable, Pause, history
<1>11. CASE CancelDisabled \/ Close
  BY <1>1, <1>11 DEF CancelDisabled, Close, journal, history
<1>12. CASE Restart
  <2>1. permission'.remaining = permission.remaining
    BY <1>3, <1>12 DEF Restart, Interrupt
  <2> QED BY <1>1, <1>2, <1>12, <2>1 DEF Restart, history
<1>13. CASE PlatformStep
  BY <1>1, <1>13 DEF PlatformStep, autoVars, journal, history
<1> QED BY <1>4, <1>5, <1>6, <1>7, <1>8, <1>9, <1>10, <1>11, <1>12, <1>13
    DEF AutoNext, TickStep

RowsOf(S, d) == { a \in S : a.digest = d }

\* Rows deleted from the table.
LEMMA RowsDeleted ==
  ASSUME NEW S, NEW T, IsFiniteSet(S), T \subseteq S, NEW d
  PROVE  /\ IsFiniteSet(T)
         /\ Cardinality(RowsOf(T, d)) \in Nat /\ Cardinality(RowsOf(S, d)) \in Nat
         /\ Cardinality(RowsOf(T, d)) <= Cardinality(RowsOf(S, d))
<1>1. IsFiniteSet(T) /\ IsFiniteSet(RowsOf(S, d)) /\ RowsOf(T, d) \in SUBSET RowsOf(S, d)
  <2>1. RowsOf(S, d) \in SUBSET S /\ T \in SUBSET S /\ RowsOf(T, d) \in SUBSET RowsOf(S, d)
    BY DEF RowsOf
  <2> QED BY <2>1, FS_Subset
<1> QED BY <1>1, FS_Subset, FS_CardinalityType

\* Rows rewritten in place, their evidence kept.
LEMMA RowsRewritten ==
  ASSUME NEW S, NEW T, NEW f, IsFiniteSet(S), T = { f[a] : a \in S },
         \A a \in S : f[a].digest = a.digest, NEW d
  PROVE  /\ IsFiniteSet(T)
         /\ Cardinality(RowsOf(T, d)) \in Nat /\ Cardinality(RowsOf(S, d)) \in Nat
         /\ Cardinality(RowsOf(T, d)) <= Cardinality(RowsOf(S, d))
<1> DEFINE all == [a \in S |-> f[a]]
           some == [a \in RowsOf(S, d) |-> f[a]]
<1>1. all \in Surjection(S, T)
  BY DEF Surjection
<1>2. some \in Surjection(RowsOf(S, d), RowsOf(T, d))
  BY DEF Surjection, RowsOf
<1>3. IsFiniteSet(RowsOf(S, d))
  BY FS_Subset DEF RowsOf
<1>4. IsFiniteSet(T)
  BY <1>1, FS_Surjection
<1>5. IsFiniteSet(RowsOf(T, d)) /\ Cardinality(RowsOf(T, d)) <= Cardinality(RowsOf(S, d))
  BY <1>2, <1>3, FS_Surjection
<1> QED BY <1>3, <1>4, <1>5, FS_CardinalityType

\* Evidence is never attempted more often than the automation was enabled.
LEMMA AttemptsPreserved ==
  ASSUME AutoTypeOK, AttemptInv, AutoNext, deployment' = deployment
  PROVE  AttemptInv' /\ enables' \in Nat
<1>0. /\ attempts \subseteq AttemptRecord /\ retries \subseteq Facts /\ tick \in TickRecord
      /\ permission \in PermissionRecord /\ enables \in Nat /\ Facts' = Facts
  BY AutoTypeParts, SameFacts
<1>1. /\ IsFiniteSet(attempts)
      /\ permission.enabled => enables > 0
      /\ \A d \in Facts : Cardinality(RowsOf(attempts, d)) <= enables
      /\ \A d \in retries : Cardinality(RowsOf(attempts, d)) < enables
  BY DEF AttemptInv, Rows, RowsOf
<1>1a. ASSUME IsFiniteSet(attempts'), permission'.enabled => enables' > 0,
              \A d \in Facts : Cardinality(RowsOf(attempts', d)) <= enables',
              \A d \in retries' : Cardinality(RowsOf(attempts', d)) < enables'
       PROVE  AttemptInv'
  <2>1. \A d : Rows(d)' = RowsOf(attempts', d)
    BY DEF Rows, RowsOf
  <2> QED BY <1>0, <1>1a, <2>1 DEF AttemptInv
<1>2. ASSUME IsFiniteSet(attempts'), enables' = enables, retries' \subseteq retries,
             permission'.enabled => permission.enabled,
             \A d : /\ Cardinality(RowsOf(attempts', d)) \in Nat
                    /\ Cardinality(RowsOf(attempts, d)) \in Nat
                    /\ Cardinality(RowsOf(attempts', d)) <= Cardinality(RowsOf(attempts, d))
      PROVE  AttemptInv' /\ enables' \in Nat
  <2>1. \A d \in Facts : Cardinality(RowsOf(attempts', d)) <= enables
    BY <1>0, <1>1, <1>2
  <2>2. \A d \in retries' : Cardinality(RowsOf(attempts', d)) < enables
    BY <1>0, <1>1, <1>2
  <2> QED BY <1>0, <1>1, <1>2, <1>1a, <2>1, <2>2
<1>3. ASSUME attempts' \subseteq attempts, enables' = enables, retries' \subseteq retries,
             permission'.enabled => permission.enabled
      PROVE  AttemptInv' /\ enables' \in Nat
  <2>1. IsFiniteSet(attempts') /\ \A d : /\ Cardinality(RowsOf(attempts', d)) \in Nat
                    /\ Cardinality(RowsOf(attempts, d)) \in Nat
                    /\ Cardinality(RowsOf(attempts', d)) <= Cardinality(RowsOf(attempts, d))
    BY <1>1, <1>3, RowsDeleted
  <2> QED BY <1>2, <1>3, <2>1
<1>4. Disabled => ~permission'.enabled
  BY <1>0, DisabledType
<1>5. CASE Observe \/ Claim \/ Report \/ CancelDisabled \/ Close
  BY <1>3, <1>5 DEF Observe, Claim, Report, CancelDisabled, Close, journal, history
<1>6. CASE GiveUp \/ TickFails \/ Disable \/ Pause
  BY <1>3, <1>4, <1>6 DEF GiveUp, TickFails, Disable, Pause, history
<1>7. CASE Refund
  <2>1. permission'.enabled = permission.enabled
    BY <1>0, <1>7 DEF Refund, PermissionRecord
  <2> QED BY <1>3, <1>7, <2>1 DEF Refund, history
<1>8. CASE PlatformStep
  BY <1>3, <1>8 DEF PlatformStep, autoVars, journal, history
<1>9. CASE RecordAttempt
  <2> DEFINE f == [a \in attempts |-> IF a.digest = tick.digest /\ a.attempt = tick.attempt
                                      THEN [a EXCEPT !.status = tick.terminal] ELSE a]
  <2>1. \A a \in attempts : f[a].digest = a.digest
    BY <1>0 DEF AttemptRecord
  <2>2. attempts' = { f[a] : a \in attempts }
    BY <1>9 DEF RecordAttempt
  <2> HIDE DEF f
  <2>3. IsFiniteSet(attempts') /\ \A d : /\ Cardinality(RowsOf(attempts', d)) \in Nat
                    /\ Cardinality(RowsOf(attempts, d)) \in Nat
                    /\ Cardinality(RowsOf(attempts', d)) <= Cardinality(RowsOf(attempts, d))
    BY <1>1, <2>1, <2>2, RowsRewritten
  <2> QED BY <1>2, <1>9, <2>3 DEF RecordAttempt, history
<1>10. CASE Restart
  <2> DEFINE f == [a \in attempts |-> IF a.status = "RUNNING"
                                      THEN [a EXCEPT !.status = "INTERRUPTED"] ELSE a]
  <2>1. \A a \in attempts : f[a].digest = a.digest
    BY <1>0 DEF AttemptRecord
  <2>2. attempts' = { f[a] : a \in attempts }
    BY <1>10 DEF Restart, Interrupt
  <2> HIDE DEF f
  <2>3. IsFiniteSet(attempts') /\ \A d : /\ Cardinality(RowsOf(attempts', d)) \in Nat
                    /\ Cardinality(RowsOf(attempts, d)) \in Nat
                    /\ Cardinality(RowsOf(attempts', d)) <= Cardinality(RowsOf(attempts, d))
    BY <1>1, <2>1, <2>2, RowsRewritten
  <2>4. permission'.enabled => permission.enabled
    BY <1>4, <1>10 DEF Restart, Interrupt
  <2> QED BY <1>2, <1>10, <2>3, <2>4 DEF Restart, Interrupt, history
<1>11. CASE Enable
  <2>1. attempts' = attempts /\ enables' = enables + 1
    BY <1>11 DEF Enable
  <2>2. \A d : Cardinality(RowsOf(attempts, d)) \in Nat
    BY <1>1, RowsDeleted
  <2>3. \A a \in attempts : a.digest \in Facts
    BY <1>0 DEF AttemptRecord
  <2>4. retries' \subseteq Facts
    BY <1>0, <1>11, <2>3 DEF Enable
  <2>5. \A d \in Facts : Cardinality(RowsOf(attempts', d)) <= enables
    BY <1>1, <2>1
  <2>6. \A d \in Facts : Cardinality(RowsOf(attempts', d)) < enables'
    BY <1>0, <2>1, <2>2, <2>5
  <2>7. \A d \in Facts : Cardinality(RowsOf(attempts', d)) <= enables'
    BY <1>0, <2>1, <2>2, <2>5
  <2>8. \A d \in retries' : Cardinality(RowsOf(attempts', d)) < enables'
    BY <2>4, <2>6
  <2>9. IsFiniteSet(attempts') /\ enables' > 0 /\ enables' \in Nat
    BY <1>0, <1>1, <2>1
  <2> QED BY <1>1a, <2>7, <2>8, <2>9
<1>12. CASE Decide
  <2> DEFINE d == tick.digest
             row == [digest |-> d, attempt |-> Cardinality(Rows(d)) + 1, status |-> "RUNNING"]
  <2>1. /\ attempts' = attempts \cup {row} /\ retries' = retries \ {d} /\ enables' = enables
        /\ permission'.enabled = permission.enabled /\ permission.enabled
        /\ MayAttempt(d)
    BY <1>0, <1>12 DEF Decide, history, PermissionRecord
  <2>2. row.digest = d
    OBVIOUS
  <2>3. \A x : Cardinality(RowsOf(attempts, x)) \in Nat
    BY <1>1, RowsDeleted
  <2>4. IsFiniteSet(RowsOf(attempts, d)) /\ IsFiniteSet(attempts)
    BY <1>1, FS_Subset DEF RowsOf
  <2>5. Cardinality(RowsOf(attempts, d)) < enables
    <3>1. CASE Rows(d) = {}
      <4>1. RowsOf(attempts, d) = {}
        BY <3>1 DEF Rows, RowsOf
      <4> QED BY <1>0, <1>1, <2>1, <4>1, FS_EmptySet
    <3>2. CASE d \in retries
      BY <1>1, <3>2
    <3> QED BY <2>1, <3>1, <3>2 DEF MayAttempt
  <2> HIDE DEF row, d
  <2>6. RowsOf(attempts', d) = RowsOf(attempts, d) \cup {row}
    BY <2>1, <2>2 DEF RowsOf
  <2>7. \A x : x # d => RowsOf(attempts', x) = RowsOf(attempts, x)
    BY <2>1, <2>2 DEF RowsOf
  <2>8. IsFiniteSet(attempts')
    BY <2>1, <2>4, FS_AddElement
  <2>9. Cardinality(RowsOf(attempts', d)) \in {Cardinality(RowsOf(attempts, d)), Cardinality(RowsOf(attempts, d)) + 1}
    BY <2>4, <2>6, FS_AddElement
  <2>10. \A x \in Facts : Cardinality(RowsOf(attempts', x)) <= enables
    <3>1. Cardinality(RowsOf(attempts', d)) <= enables
      BY <1>0, <2>3, <2>5, <2>9
    <3> QED BY <1>1, <2>7, <3>1
  <2>11. \A x \in retries' : Cardinality(RowsOf(attempts', x)) < enables
    BY <1>1, <2>1, <2>7
  <2> QED BY <1>0, <1>1, <1>1a, <2>1, <2>8, <2>10, <2>11
<1> QED BY <1>5, <1>6, <1>7, <1>8, <1>9, <1>10, <1>11, <1>12
    DEF AutoNext, TickStep

-----------------------------------------------------------------------------
(* The inductive invariant and what follows from it. *)

IInv ==
  /\ AutoTypeOK
  /\ ErpInv /\ ControlInv /\ RecoveryInv
  /\ OwnerInv /\ BudgetInv /\ AttemptInv

\* A console starts with a held case, no approval and an unused permission.
LEMMA InitInv == AutoInit => IInv
<1> SUFFICES ASSUME AutoInit PROVE IInv
  OBVIOUS
<1> USE ExecutorAssumption, PlatformAssumption, BudgetAssumption
<1>1. PlatformInit /\ ExecutorInit(deployment.scoped, deployment.hold) /\ deployment \in Deployments
  BY DEF AutoInit, PlatformInit
<1>2. deployment.scoped \in BOOLEAN /\ deployment.hold \in BOOLEAN /\ deployment.restarts \in Nat
  BY <1>1
<1>3. exec = NoExecution /\ NoExecution \in ExecRecord /\ NoExecution.pc = "idle"
  BY <1>1 DEF ExecutorInit, NoExecution, ExecRecord, ExecSteps
<1>4. ExecutorTypeOK
  BY <1>1, <1>2, <1>3 DEF ExecutorInit, ExecutorTypeOK, ExecRecord
<1>5. source \in SourceStates
  BY <1>1 DEF PlatformInit
<1>6. Now \in Reads
  BY <1>1, <1>4, <1>5, NowType
<1>7. run \in RunRecord /\ run.n = 0 /\ run.state = "IDLE"
  BY <1>1 DEF PlatformInit, RunRecord, RunStates
<1>8. gate = NoGate /\ NoGate \in GateRecord /\ ~gate.live /\ gate.status = "NONE" /\ approval = {}
  BY <1>1, NoGateType DEF PlatformInit, NoGate
<1>9. ControlTypeOK
  BY <1>1, <1>6, <1>7, <1>8 DEF PlatformInit, ControlTypeOK
<1>10. TypeOK
  BY <1>1, <1>2, <1>4, <1>5, <1>9, TypeParts DEF PlatformInit
<1>11. permission \in PermissionRecord /\ ~permission.enabled /\ permission.remaining = Budget
  BY DEF AutoInit, PermissionRecord
<1>12. tick \in TickRecord /\ tick.pc = "idle"
  BY NoTickType DEF AutoInit
<1>13. AutoTypeOK
  <2>1. attempts = {} /\ retries = {} /\ ctl = "free" /\ autoRun = 0 /\ paid = 0 /\ enables = 0
    BY DEF AutoInit
  <2>3. closed \in BOOLEAN
    BY DEF AutoInit
  <2>4. autoRun \in 0..MaxRuns /\ paid \in Nat /\ enables \in Nat
    BY <2>1
  <2>2. attempts \subseteq AttemptRecord /\ retries \subseteq Facts
    BY <2>1
  <2> QED BY <1>10, <1>11, <1>12, <2>1, <2>2, <2>3, <2>4, AutoTypeParts
<1>14. ErpInv /\ RecoveryInv
  <2>1. transfers = {} /\ execution = "NONE" /\ exec.pc = "idle"
    BY <1>1, <1>3 DEF ExecutorInit, PlatformInit
  <2> QED BY <2>1 DEF ErpInv, RecoveryInv, InStep
<1>15. ControlInv
  BY <1>7, <1>8 DEF ControlInv, PlanIsValidated, StoppedIsOver, ApprovalBindsInvestigation
<1>16. OwnerInv
  BY <1>7, <1>12 DEF AutoInit, OwnerInv, Active, Dispatching
<1>17. BudgetInv
  BY <1>11, <1>12 DEF AutoInit, BudgetInv, Dispatching
<1>18. AttemptInv
  <2>1. attempts = {} /\ retries = {} /\ enables = 0 /\ \A d : Rows(d) = {}
    BY DEF AutoInit, Rows
  <2> QED BY <1>11, <2>1, FS_EmptySet DEF AttemptInv
<1> QED BY <1>13, <1>14, <1>15, <1>16, <1>17, <1>18 DEF IInv

\* Every step keeps every part of the invariant.
LEMMA NextInv == IInv /\ [AutoNext]_vars => IInv'
<1> SUFFICES ASSUME IInv, [AutoNext]_vars PROVE IInv'
  OBVIOUS
<1>1. CASE AutoNext
  <2>0. /\ AutoTypeOK /\ ErpInv /\ ControlInv /\ RecoveryInv
        /\ OwnerInv /\ BudgetInv /\ AttemptInv
        /\ TypeOK /\ StepFrame /\ deployment' = deployment
    BY <1>1, AutoTypeParts, AutoFrame DEF IInv, StepFrame
  <2>1. /\ ExecutorTypeOK /\ ControlTypeOK /\ ExecutorAct /\ ControlAct
        /\ deployment \in Deployments /\ source \in SourceStates
    BY <2>0, TypeParts DEF StepFrame
  <2>2. TypeOK'
    BY <2>0, PlatformTypes
  <2>3. ErpInv'
    BY <2>0, <2>1, ErpPreserved
  <2>4. ControlInv' /\ run' \in RunRecord
    BY <2>0, <2>1, ControlPreserved
  <2>5. RecoveryInv'
    BY <2>0, RecoveryPreserved
  <2>6. OwnerInv'
    BY <1>1, <2>0, OwnerPreserved
  <2>7. BudgetInv' /\ paid' \in Nat
    BY <1>1, <2>0, BudgetPreserved
  <2>8. AttemptInv' /\ enables' \in Nat
    BY <1>1, <2>0, AttemptsPreserved
  <2>9. /\ permission' \in PermissionRecord /\ tick' \in TickRecord
        /\ attempts' \subseteq AttemptRecord /\ retries' \subseteq Facts
    BY <1>1, <2>0, PermissionType, TickType, AttemptTypes
  <2>10. ctl' \in {"free", "cancel"} /\ closed' \in BOOLEAN
    <3>1. ctl \in {"free", "cancel"} /\ closed \in BOOLEAN
      BY <2>0, AutoTypeParts
    <3> QED BY <1>1, <3>1
        DEF AutoNext, TickStep, Observe, Decide, GiveUp, Claim, Refund, Report, RecordAttempt,
            TickFails, Enable, Disable, CancelDisabled, Pause, Close, Restart, PlatformStep, autoVars
  <2>11. autoRun' \in 0..MaxRuns
    <3>1. autoRun \in 0..MaxRuns /\ run.n \in 0..MaxRuns
      BY <2>0, <2>1, AutoTypeParts DEF ControlTypeOK, RunRecord
    <3>2. CASE autoRun' \in {autoRun, 0}
      BY <3>1, <3>2, PlatformAssumption
    <3>3. CASE autoRun' = run.n + 1
      <4>1. autoRun' <= run'.n /\ run'.n \in 0..MaxRuns
        BY <2>4, <2>6 DEF OwnerInv, RunRecord
      <4> QED BY <3>1, <3>3, <4>1, PlatformAssumption
    <3> QED BY <1>1, <3>2, <3>3
        DEF AutoNext, TickStep, Observe, Decide, GiveUp, Claim, Refund, Report, RecordAttempt,
            TickFails, Enable, Disable, CancelDisabled, Pause, Close, Restart, PlatformStep, autoVars
  <2>12. Facts' = Facts
    BY <2>0, SameFacts
  <2>13. AutoTypeOK'
    BY <2>2, <2>7, <2>8, <2>9, <2>10, <2>11, <2>12
    DEF AutoTypeOK, PermissionRecord, AttemptRecord, TickRecord
  <2> QED BY <2>3, <2>4, <2>5, <2>6, <2>7, <2>8, <2>13 DEF IInv
<1>2. CASE UNCHANGED vars
  BY <1>2
  DEF IInv, vars, platformVars, autoVars, executorVars, tenant, control, journal, history,
      AutoTypeOK, TypeOK, ExecutorTypeOK, ErpInv, ControlInv, PlanIsValidated, StoppedIsOver,
      ApprovalBindsInvestigation, RecoveryInv, Recovered, Submitted, OwnerInv, BudgetInv, AttemptInv,
      Dispatching, Active, Pending, Ticking, InStep, Rows, Facts, Revisions, Reads, SourceStates
<1> QED BY <1>1, <1>2

\* The invariant holds throughout, however the console, its executor, its
\* automation, its operators and its restarts interleave.
THEOREM Invariance == AutoSpec => []IInv
<1>1. AutoInit => IInv
  BY InitInv
<1>2. IInv /\ [AutoNext]_vars => IInv'
  BY NextInv
<1> QED BY <1>1, <1>2, PTL DEF AutoSpec

\* Every variable of the console, its executor and its automation keeps its type.
THEOREM TypeCorrect == AutoSpec => []AutoTypeOK
<1>1. IInv => AutoTypeOK
  BY DEF IInv
<1> QED BY <1>1, Invariance, PTL

\* approve(): an approval binds the evidence the model of the current run
\* validated, in every deployment of the console.
THEOREM ApprovalBinds == AutoSpec => []ApprovalBindsInvestigation
<1>1. IInv => ApprovalBindsInvestigation
  BY DEF IInv, ControlInv
<1> QED BY <1>1, Invariance, PTL

\* execute() and verify(): one submitted transfer while no delayed insert has
\* landed, and VERIFIED only over a recovered case and its receipt.
THEOREM RecoveryHappensOnce == AutoSpec => []RecoveredOnce
<1>1. IInv => RecoveredOnce
  <2> SUFFICES ASSUME IInv PROVE RecoveredOnce
    OBVIOUS
  <2>1. OneTransfer
    BY DEF IInv, ErpInv, OneTransfer, Submitted
  <2>2. execution = "VERIFIED" => Recovered /\ source.celigo
    BY DEF IInv, RecoveryInv
  <2> QED BY <2>1, <2>2 DEF RecoveredOnce, Recovered
<1> QED BY <1>1, Invariance, PTL

\* The automation spends its budget at most once, attempts evidence at most
\* once for each permission, and owns no active run once it is withdrawn.
THEOREM SpendingIsPermitted == AutoSpec => []SpendsAsPermitted
<1>1. IInv => SpendsAsPermitted
  <2> SUFFICES ASSUME IInv PROVE SpendsAsPermitted
    OBVIOUS
  <2>0. /\ paid \in Nat /\ permission \in PermissionRecord /\ attempts \subseteq AttemptRecord
        /\ permission.remaining \in Nat /\ Budget \in Nat
    BY AutoTypeParts, BudgetAssumption DEF IInv, PermissionRecord
  <2>1. paid + permission.remaining <= Budget
    BY <2>0 DEF IInv, BudgetInv
  <2>2. \A a \in attempts : a.digest \in Facts
    BY <2>0 DEF AttemptRecord
  <2>3. \A a \in attempts : Cardinality(Rows(a.digest)) <= enables
    BY <2>2 DEF IInv, AttemptInv
  <2>4. ControlFree /\ ~permission.enabled => ~Active(autoRun)
    BY DEF IInv, OwnerInv, ControlFree
  <2> QED BY <2>1, <2>3, <2>4 DEF SpendsAsPermitted
<1> QED BY <1>1, Invariance, PTL

===============================================================================
