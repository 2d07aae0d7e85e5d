---------------------------- MODULE ReceivingHandoff ----------------------------
(***************************************************************************)
(* ReceivingHandoffWorker.tick with JiraReceivingReview.sync: the one      *)
(* worker thread that tells each destination of a posted receipt and keeps *)
(* a Jira review task for a capture that needed review, closing it only    *)
(* after every destination was verified.  One capture; deliveries are the  *)
(* steps of HandoffJournal.                                                *)
(***************************************************************************)
EXTENDS HandoffJournal, Sequences

CONSTANTS
  Worker,
  NumDestinations,   \* how many destinations are configured
  MaxRevision        \* bound on the capture's versions

Destinations == 1..NumDestinations   \* in tick order
DestKey(i) == <<"destination", i>>
DestKeys == { DestKey(i) : i \in Destinations }
Create == <<"create", 0>>
Evidence == <<"evidence", 0>>
Resolve == <<"resolve", 0>>
Comment(v) == <<"comment", v>>
JiraKeys == {Create, Evidence, Resolve} \cup { Comment(v) : v \in 1..MaxRevision }
EffectKeys == DestKeys \cup JiraKeys

ASSUME HandoffKeysAssumption ==
  /\ Threads = {Worker}
  /\ NumDestinations \in Nat \ {0}
  /\ MaxRevision \in Nat \ {0}
  /\ Keys = EffectKeys

VARIABLES
  capture,    \* the capture's status and version
  erp,        \* its ERP receipt: "none", "posted", "cancelled"
  job         \* what this tick is doing, and what it read when it began

vars == <<journalVars, capture, erp, job>>

Stages == {"idle", "destination", "create", "comment", "recheck", "evidence", "resolve"}
NoJob == [stage |-> "idle", dest |-> 0, version |-> 0, open |-> FALSE,
          resolving |-> FALSE, uncertain |-> FALSE]
Job == [stage : Stages, dest : {0} \cup Destinations, version : 0..MaxRevision,
        open : BOOLEAN, resolving : BOOLEAN, uncertain : BOOLEAN]

TypeOK ==
  /\ HandoffTypeOK
  /\ capture \in [status : {"COUNTED", "NEEDS_REVIEW", "RECEIPT_SUBMITTED"},
                  version : 1..MaxRevision]
  /\ erp \in {"none", "posted", "cancelled"}
  /\ job \in Job

Init ==
  /\ HandoffInit
  /\ capture \in [status : {"COUNTED", "NEEDS_REVIEW"}, version : {1}]
  /\ erp = "none"
  /\ job = NoJob

Status(k) == handoff[k].status
Verified(ks) == \A k \in ks : Status(k) = "VERIFIED"

\* receipt_event(state) is not None.
HasEvent == capture.status = "RECEIPT_SUBMITTED"

\* A review task was opened and its resolution is not verified yet.
JiraOpen == Status(Create) # "ABSENT" /\ Status(Resolve) # "VERIFIED"

--------------------------------------------------------------------------------
\* tick() of a capture without a posted receipt: sync() opens a task only for
\* a capture that needs review, and keeps an open one up to date.
TickReview ==
  /\ job.stage = "idle" /\ At(Worker, "idle")
  /\ ~HasEvent
  /\ capture.status = "NEEDS_REVIEW" \/ \E k \in JiraKeys : Status(k) # "ABSENT"
  /\ job' = [NoJob EXCEPT !.stage = "create", !.version = capture.version]
  /\ UNCHANGED <<journalVars, capture, erp>>

\* tick() of a posted receipt: only while the ERP still shows it unchanged.
TickReceipt ==
  /\ job.stage = "idle" /\ At(Worker, "idle")
  /\ HasEvent
  /\ ~(Verified(DestKeys) /\ ~JiraOpen)
  /\ erp = "posted"
  /\ job' = [NoJob EXCEPT !.stage = "destination", !.dest = 1,
                          !.version = capture.version, !.open = JiraOpen]
  /\ UNCHANGED <<journalVars, capture, erp>>

\* The business key the current stage delivers.
JobKey ==
  CASE job.stage = "destination" -> DestKey(job.dest)
    [] job.stage = "create" -> Create
    [] job.stage = "comment" -> Comment(job.version)
    [] job.stage = "evidence" -> Evidence
    [] OTHER -> Resolve

Deliver ==
  /\ job.stage # "idle"
  /\ Open(Worker, JobKey)
  /\ UNCHANGED <<capture, erp, job>>

\* Mutant of AfterDestinations: closes the review without the destinations.
AfterDestinationsAnyway ==
  IF job.open
  THEN [job EXCEPT !.stage = "create", !.resolving = TRUE,
                   !.uncertain = Status(Resolve) = "UNKNOWN"]
  ELSE NoJob

\* sync(state, verified_resolution=event), once every destination is verified.
AfterDestinations ==
  IF job.open /\ Verified(DestKeys)
  THEN [job EXCEPT !.stage = "create", !.resolving = TRUE,
                   !.uncertain = Status(Resolve) = "UNKNOWN"]
  ELSE NoJob

\* What follows a delivery, from the status deliver() returned.
NextJob ==
  LET ok == Status(JobKey) = "VERIFIED"
      If(cond, stage) == IF cond THEN [job EXCEPT !.stage = stage] ELSE NoJob
  IN CASE job.stage = "destination" ->
            IF job.dest + 1 \in Destinations THEN [job EXCEPT !.dest = @ + 1]
                                             ELSE AfterDestinations
       [] job.stage = "create" -> If(ok, "comment")
       [] job.stage = "comment" ->
            If(ok /\ job.resolving, IF job.uncertain THEN "recheck" ELSE "evidence")
       [] job.stage = "recheck" -> If(~ok, "evidence")
       [] job.stage = "evidence" -> If(ok, "resolve")
       [] OTHER -> NoJob

Advance ==
  /\ At(Worker, "done")
  /\ Finish(Worker)
  /\ job' = NextJob
  /\ UNCHANGED <<handoff, provider, outages, restarts, capture, erp>>

Step == DeliveryStep(Worker) /\ UNCHANGED <<capture, erp, job>>

--------------------------------------------------------------------------------
\* Photo receiving moves the capture on; each change is a new version.
CaptureChanges ==
  /\ ~HasEvent
  /\ capture.version < MaxRevision
  /\ \E s \in {"COUNTED", "NEEDS_REVIEW", "RECEIPT_SUBMITTED"} :
       /\ capture' = [status |-> s, version |-> capture.version + 1]
       /\ erp' = IF s = "RECEIPT_SUBMITTED" THEN "posted" ELSE erp
  /\ UNCHANGED <<journalVars, job>>

\* External: the posted receipt is cancelled in the ERP.
ReceiptCancelled ==
  /\ erp = "posted"
  /\ erp' = "cancelled"
  /\ UNCHANGED <<journalVars, capture, job>>

\* External: a person closes the review task by hand.
ReviewClosedByHand ==
  /\ records[Create] > 0 /\ records[Resolve] = 0
  /\ records' = [records EXCEPT ![Resolve] = 1]
  /\ UNCHANGED <<handoff, delivery, flights, sends, outages, restarts, capture, erp, job>>

Restart ==
  /\ restarts < MaxRestarts
  /\ restarts' = restarts + 1
  /\ delivery' = [t \in Threads |-> NoDelivery]
  /\ job' = NoJob
  /\ UNCHANGED <<handoff, provider, outages, capture, erp>>

WorkerStep == TickReview \/ TickReceipt \/ Deliver \/ Step \/ Advance

Next ==
  \/ WorkerStep
  \/ CaptureChanges \/ ReceiptCancelled \/ ReviewClosedByHand \/ Restart
  \/ (Provider /\ UNCHANGED <<capture, erp, job>>)

\* The worker loop ticks for ever; failing requests and restarts are finite
\* (MaxOutages, MaxRestarts).  Nothing makes the provider execute a send.
Spec == Init /\ [][Next]_vars /\ WF_vars(WorkerStep)

--------------------------------------------------------------------------------
(* Properties.                                                             *)

\* Posted receipt, notices, evidence, closed review, in this order: no
\* destination is told of a receipt the ERP never posted, and this program
\* closes the review task only after every destination holds its notice and
\* the task its evidence.
ReviewClosesLast ==
  /\ \A k \in DestKeys : sends[k] > 0 => erp # "none"
  /\ sends[Resolve] > 0 =>
       /\ erp # "none"
       /\ records[Evidence] > 0
       /\ \A k \in DestKeys : records[k] > 0

\* A finite outage delays a notice and never loses it, unless the receipt is
\* cancelled: a posted receipt is eventually claimed for every destination
\* (sent once, or found), and an effect the provider holds is eventually
\* verified, an uncertain send being looked up again on every tick.
EffectIsLearned ==
  \A k \in DestKeys :
    /\ erp = "posted" ~> (Status(k) \in {"UNKNOWN", "VERIFIED"} \/ erp = "cancelled")
    /\ records[k] > 0 ~> (Status(k) = "VERIFIED" \/ erp = "cancelled")

=============================================================================
