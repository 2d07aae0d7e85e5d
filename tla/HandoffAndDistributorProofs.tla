---------------------- MODULE HandoffAndDistributorProofs ----------------------
(***************************************************************************)
(* The receiving handoff with its one worker thread, for any number of     *)
(* destinations, capture versions, outages and restarts: an effect is sent *)
(* at most once, and the review is closed last.                            *)
(*                                                                         *)
(* The first fact rests on the one thread: the status it writes back after *)
(* a failure or a cleared warning is still the status of the row.  (With a *)
(* second thread it need not be; see the run of ConcurrentSpec.)  The     *)
(* second rests on the order of the stages of a tick, and on a verified    *)
(* row staying verified.                                                   *)
(*                                                                         *)
(* Below it, the distributor's operations with their photos, for any lots, *)
(* orders, events, photos, outages and crashes: an approval is closed with *)
(* the result of its event, and the photos form one evidence chain.  Both  *)
(* rest on what the method holding the lock has not done yet.              *)
(***************************************************************************)
EXTENDS ReceivingHandoff, DistributorPhotos, FiniteSetTheorems, TLAPS

Claimed == {"UNKNOWN", "VERIFIED"}

(* A send leaves a claimed row behind; a verified row has an effect. *)
SentInv ==
  \A k \in Keys :
    /\ sends[k] <= 1
    /\ sends[k] > 0 => Status(k) \in Claimed
    /\ Status(k) = "VERIFIED" => records[k] > 0

(* The delivery in progress is the one of the stage; what it read is true. *)
DeliveryInv ==
  LET d == delivery[Worker] IN
  /\ d.pc # "idle" => job.stage # "idle" /\ d.key = JobKey
  /\ d.pc = "send" => sends[d.key] = 0 /\ Status(d.key) \in Claimed /\ job.stage # "recheck"
  /\ d.pc \in {"clear", "failed"} => d.seen = Status(d.key)

(* What a tick has established when it reaches a stage. *)
JobInv ==
  /\ job.stage # "idle" => job.version # 0
  /\ job.stage = "destination" => job.dest # 0 /\ erp # "none"
  /\ job.stage \in {"recheck", "evidence", "resolve"} => job.resolving
  /\ job.resolving => erp # "none" /\ Verified(DestKeys)
  /\ job.stage = "recheck" => job.uncertain
  /\ job.uncertain => Status(Resolve) \in Claimed
  /\ job.stage = "resolve" => Status(Evidence) = "VERIFIED"

IInv == TypeOK /\ SentInv /\ DeliveryInv /\ JobInv /\ ReviewClosesLast

-----------------------------------------------------------------------------
(* Keys and deliveries. *)

\* The effects of a capture have different keys.
LEMMA KeyFacts ==
  /\ Create \in Keys /\ Evidence \in Keys /\ Resolve \in Keys
  /\ \A v \in 1..MaxRevision : Comment(v) \in Keys /\ Comment(v) # Resolve
  /\ \A i \in Destinations : DestKey(i) \in Keys /\ DestKey(i) \in DestKeys
  /\ \A k \in DestKeys : k \in Keys /\ k # Create /\ k # Evidence /\ k # Resolve
  /\ \A k \in DestKeys, v \in 1..MaxRevision : k # Comment(v)
  /\ Create # Resolve /\ Evidence # Resolve
<1>1. Create \in Keys /\ Evidence \in Keys /\ Resolve \in Keys
  BY HandoffKeysAssumption DEF EffectKeys, JiraKeys
<1>2. \A v \in 1..MaxRevision : Comment(v) \in Keys
  BY HandoffKeysAssumption DEF EffectKeys, JiraKeys
<1>3. \A i \in Destinations : DestKey(i) \in DestKeys
  BY DEF DestKeys
<1>4. \A k \in DestKeys : k \in Keys
  BY HandoffKeysAssumption DEF EffectKeys
<1>5. Create # Resolve /\ Evidence # Resolve /\ \A v \in 1..MaxRevision : Comment(v) # Resolve
  BY DEF Create, Evidence, Resolve, Comment
<1>6. \A k \in DestKeys : k # Create /\ k # Evidence /\ k # Resolve
  BY DEF DestKeys, DestKey, Create, Evidence, Resolve
<1>7. \A k \in DestKeys, v \in 1..MaxRevision : k # Comment(v)
  BY DEF DestKeys, DestKey, Comment
<1>8. QED
  BY <1>1, <1>2, <1>3, <1>4, <1>5, <1>6, <1>7

LEMMA NoDeliveryFacts ==
  NoDelivery \in Delivery /\ NoDelivery.pc = "idle"
<1>1. (CHOOSE k \in Keys : TRUE) \in Keys
  BY KeyFacts
<1>2. QED
  BY <1>1 DEF NoDelivery, IdleDelivery, Delivery, DeliverySteps, Statuses, Phases

\* The key of a stage, and the stages a key may belong to.
LEMMA JobKeyFacts ==
  ASSUME IInv, job.stage # "idle"
  PROVE  /\ JobKey \in Keys
         /\ JobKey \in DestKeys => job.stage = "destination"
         /\ JobKey = Resolve => job.stage \in {"recheck", "resolve"}
<1>1. job \in Job /\ job.version \in 1..MaxRevision
  <2>1. job \in Job
    BY DEF IInv, TypeOK
  <2>2. job.version \in 0..MaxRevision /\ job.version # 0
    BY <2>1 DEF IInv, JobInv, Job
  <2>3. QED
    BY <2>1, <2>2, HandoffKeysAssumption
<1>2. job.stage \in Stages
  BY <1>1 DEF Job
<1>3. CASE job.stage = "destination"
  <2>1. job.dest \in Destinations
    BY <1>1, <1>3 DEF IInv, JobInv, Job
  <2>2. QED
    BY <1>3, <2>1, KeyFacts DEF JobKey
<1>4. CASE job.stage = "create"
  BY <1>4, KeyFacts DEF JobKey
<1>5. CASE job.stage = "comment"
  BY <1>1, <1>5, KeyFacts DEF JobKey
<1>6. CASE job.stage = "evidence"
  BY <1>6, KeyFacts DEF JobKey
<1>7. CASE job.stage \in {"recheck", "resolve"}
  BY <1>7, KeyFacts DEF JobKey
<1>8. QED
  BY <1>2, <1>3, <1>4, <1>5, <1>6, <1>7 DEF Stages

LEMMA TypeFacts ==
  ASSUME IInv
  PROVE  /\ Worker \in Threads /\ Threads = {Worker}
         /\ delivery \in [Threads -> Delivery] /\ delivery[Worker] \in Delivery
         /\ handoff \in [Keys -> [status : Statuses, failure : Phases]]
         /\ KeyOf(Worker) \in Keys
         /\ delivery[Worker].seen \in Statuses /\ delivery[Worker].phase \in Phases
         /\ delivery[Worker].pc \in DeliverySteps
         /\ sends \in [Keys -> Nat] /\ records \in [Keys -> Nat] /\ flights \in [Keys -> Nat]
BY HandoffKeysAssumption DEF IInv, TypeOK, HandoffTypeOK, Delivery, KeyOf

-----------------------------------------------------------------------------
(* Steps that keep the tick's stage and send nothing. *)

\* A row only moves on: inserted, claimed, or verified of an effect there is.
Grown ==
  \A k \in Keys :
    \/ handoff'[k].status = handoff[k].status
    \/ handoff[k].status = "ABSENT" /\ handoff'[k].status = "PENDING"
    \/ handoff[k].status = "PENDING" /\ handoff'[k].status = "UNKNOWN"
    \/ handoff'[k].status = "VERIFIED" /\ records[k] > 0

LEMMA CalmStep ==
  ASSUME IInv, TypeOK', DeliveryInv', Grown, sends' = sends, job' = job,
         \A k \in Keys : records'[k] >= records[k],
         erp # "none" => erp' # "none"
  PROVE  IInv'
<1>1. records' \in [Keys -> Nat] /\ records \in [Keys -> Nat] /\ sends \in [Keys -> Nat]
  BY DEF IInv, TypeOK, HandoffTypeOK
<1>2. SentInv'
  <2>1. ASSUME NEW k \in Keys
        PROVE  /\ sends'[k] <= 1
               /\ sends'[k] > 0 => handoff'[k].status \in Claimed
               /\ handoff'[k].status = "VERIFIED" => records'[k] > 0
    <3>1. /\ sends[k] <= 1 /\ (sends[k] > 0 => handoff[k].status \in Claimed)
          /\ handoff[k].status = "VERIFIED" => records[k] > 0
      BY DEF IInv, SentInv, Status
    <3>2. handoff'[k].status = "VERIFIED" => records[k] > 0
      BY <3>1 DEF Grown
    <3>3. sends[k] > 0 => handoff'[k].status \in Claimed
      BY <3>1 DEF Grown, Claimed
    <3>4. records[k] \in Nat /\ records'[k] \in Nat /\ records'[k] >= records[k]
      BY <1>1
    <3>5. QED
      BY <3>1, <3>2, <3>3, <3>4
  <2>2. QED
    BY <2>1 DEF SentInv, Status
<1>3. \A k \in Keys : handoff[k].status = "VERIFIED" => handoff'[k].status = "VERIFIED"
  BY DEF Grown
<1>4. \A k \in Keys : handoff[k].status \in Claimed => handoff'[k].status \in Claimed
  BY DEF Grown, Claimed
<1>5. JobInv'
  BY <1>3, <1>4, KeyFacts DEF IInv, JobInv, Verified, Status
<1>6. ReviewClosesLast'
  <2>1. \A k \in Keys : records[k] > 0 => records'[k] > 0
    BY <1>1
  <2>2. QED
    BY <2>1, KeyFacts DEF IInv, ReviewClosesLast
<1>7. QED
  BY <1>2, <1>5, <1>6 DEF IInv

\* The worker's delivery goes on to record d, the journal's statuses as they were.
LEMMA OwnStep ==
  ASSUME IInv, NEW d \in Delivery, delivery' = [delivery EXCEPT ![Worker] = d],
         d.pc # "idle" => job.stage # "idle" /\ d.key = JobKey,
         d.pc # "send",
         d.pc \in {"clear", "failed"} => d.seen = handoff'[d.key].status,
         handoff' \in [Keys -> [status : Statuses, failure : Phases]], Grown,
         outages' \in 0..MaxOutages,
         UNCHANGED <<provider, restarts, capture, erp, job>>
  PROVE  IInv'
<1>1. delivery' \in [Threads -> Delivery] /\ delivery'[Worker] = d
  BY TypeFacts
<1>2. /\ records' = records /\ sends' = sends /\ flights' = flights /\ restarts' = restarts
      /\ capture' = capture /\ erp' = erp /\ job' = job
  BY DEF provider
<1>3. TypeOK'
  BY <1>1, <1>2 DEF IInv, TypeOK, HandoffTypeOK
<1>4. JobKey' = JobKey
  BY <1>2 DEF JobKey
<1>5. DeliveryInv'
  BY <1>1, <1>2, <1>4 DEF DeliveryInv, Status
<1>6. \A k \in Keys : records'[k] >= records[k]
  BY <1>2, TypeFacts
<1>7. QED
  BY <1>2, <1>3, <1>5, <1>6, CalmStep

\* Only pc, and perhaps what was seen, changes.
LEMMA MovedFacts ==
  ASSUME IInv, NEW pc \in DeliverySteps, delivery[Worker].pc # "idle"
  PROVE  LET d == [delivery[Worker] EXCEPT !.pc = pc]
         IN  /\ d \in Delivery /\ d.pc = pc /\ d.key = JobKey /\ job.stage # "idle"
             /\ d.seen = delivery[Worker].seen
<1>1. delivery[Worker] \in Delivery
  BY TypeFacts
<1>2. delivery[Worker].key = JobKey /\ job.stage # "idle"
  BY DEF IInv, DeliveryInv
<1>3. QED
  BY <1>1, <1>2 DEF Delivery

\* A row left as it is, or moved on under the rules, is a row.
LEMMA KeptRows ==
  ASSUME IInv
  PROVE  handoff' = handoff => handoff' \in [Keys -> [status : Statuses, failure : Phases]] /\ Grown
BY DEF IInv, TypeOK, HandoffTypeOK, Grown

\* _transition writes the status it is given, and never over VERIFIED.
LEMMA TransitionRows ==
  ASSUME IInv, NEW k \in Keys, NEW status \in Statuses, NEW failure \in Phases,
         Transition(k, status, failure),
         status = Status(k) \/ (status = "VERIFIED" /\ records[k] > 0)
  PROVE  /\ handoff' \in [Keys -> [status : Statuses, failure : Phases]]
         /\ Grown
         /\ status = Status(k) => \A j \in Keys : handoff'[j].status = handoff[j].status
<1> DEFINE r == IF handoff[k].status = "VERIFIED" THEN handoff[k]
                ELSE [status |-> status, failure |-> IF status = "VERIFIED" THEN "none" ELSE failure]
<1>1. handoff \in [Keys -> [status : Statuses, failure : Phases]]
  BY TypeFacts
<1>2. handoff' = [handoff EXCEPT ![k] = r]
  BY <1>1 DEF Transition
<1>3. r \in [status : Statuses, failure : Phases]
  BY <1>1 DEF Phases
<1>4. /\ status = Status(k) => r.status = handoff[k].status
      /\ r.status = handoff[k].status \/ (r.status = "VERIFIED" /\ records[k] > 0)
  BY DEF Status
<1> HIDE DEF r
<1>5. /\ handoff' \in [Keys -> [status : Statuses, failure : Phases]]
      /\ handoff'[k] = r /\ \A j \in Keys : j # k => handoff'[j] = handoff[j]
  BY <1>1, <1>2, <1>3
<1>6. QED
  BY <1>4, <1>5 DEF Grown

-----------------------------------------------------------------------------
(* HandoffJournal.deliver. *)

LEMMA DeliverStep ==
  ASSUME IInv, Deliver
  PROVE  IInv'
<1>1. job.stage # "idle" /\ JobKey \in Keys
  BY JobKeyFacts DEF Deliver
<1> DEFINE r == [handoff[JobKey] EXCEPT !.status = IF @ = "ABSENT" THEN "PENDING" ELSE @]
           p == IF handoff'[JobKey].status = "VERIFIED" THEN "done" ELSE "lookup"
           d == [IdleDelivery(JobKey) EXCEPT !.pc = p]
<1>2. handoff \in [Keys -> [status : Statuses, failure : Phases]]
  BY TypeFacts
<1>3. r \in [status : Statuses, failure : Phases]
      /\ (r.status = handoff[JobKey].status
           \/ (handoff[JobKey].status = "ABSENT" /\ r.status = "PENDING"))
  BY <1>1, <1>2 DEF Statuses
<1>4. handoff' = [handoff EXCEPT ![JobKey] = r] /\ delivery' = [delivery EXCEPT ![Worker] = d]
  BY <1>1, <1>2 DEF Deliver, Open
<1>5. d \in Delivery /\ d.pc \in {"done", "lookup"} /\ d.key = JobKey
  BY <1>1 DEF IdleDelivery, Delivery, DeliverySteps, Statuses, Phases
<1> HIDE DEF r, d
<1>6. handoff' \in [Keys -> [status : Statuses, failure : Phases]] /\ Grown
  BY <1>1, <1>2, <1>3, <1>4 DEF Grown
<1>7. outages' \in 0..MaxOutages /\ UNCHANGED <<provider, restarts, capture, erp, job>>
  BY DEF Deliver, Open, IInv, TypeOK, HandoffTypeOK
<1>8. QED
  BY <1>1, <1>4, <1>5, <1>6, <1>7, OwnStep

\* The steps that leave the statuses as they are, or verify a found effect.
LEMMA LookupSteps ==
  ASSUME IInv, UNCHANGED <<capture, erp, job>>,
         Found(Worker) \/ NotFound(Worker) \/ ClearWarning(Worker) \/ Answered(Worker)
           \/ RecordFailure(Worker)
  PROVE  IInv'
<1> DEFINE D(pc) == [delivery[Worker] EXCEPT !.pc = pc]
<1>1. delivery[Worker].pc # "idle"
  BY DEF Found, NotFound, ClearWarning, Answered, RecordFailure, At
<1>2. ASSUME NEW pc \in DeliverySteps
      PROVE  D(pc) \in Delivery /\ D(pc).pc = pc /\ D(pc).key = JobKey /\ job.stage # "idle"
  BY <1>1, MovedFacts
<1>3. \A pc : Goto(Worker, pc) => delivery' = [delivery EXCEPT ![Worker] = D(pc)]
  BY TypeFacts DEF Goto
<1> HIDE DEF D
<1>4. KeyOf(Worker) \in Keys /\ delivery[Worker].seen \in Statuses /\ delivery[Worker].phase \in Phases
  BY TypeFacts
<1>5. outages \in 0..MaxOutages
  BY DEF IInv, TypeOK, HandoffTypeOK
<1>6. CASE Found(Worker)
  <2>1. handoff' \in [Keys -> [status : Statuses, failure : Phases]] /\ Grown
    BY <1>4, <1>6, TransitionRows DEF Found, Statuses, Phases
  <2>2. "done" \in DeliverySteps
    BY DEF DeliverySteps
  <2>3. QED
    BY <1>2, <1>3, <1>5, <1>6, <2>1, <2>2, OwnStep DEF Found
<1>7. CASE NotFound(Worker)
  <2>1. PICK pc \in {"recovered", "done"} : Goto(Worker, pc)
    BY <1>7 DEF NotFound
  <2>2. pc \in DeliverySteps
    BY DEF DeliverySteps
  <2>3. QED
    BY <1>2, <1>3, <1>5, <1>7, <2>1, <2>2, KeptRows, OwnStep DEF NotFound
<1>8. CASE Answered(Worker)
  <2>1. "readback" \in DeliverySteps
    BY DEF DeliverySteps
  <2>2. QED
    BY <1>2, <1>3, <1>5, <1>8, <2>1, KeptRows, OwnStep DEF Answered
<1>9. CASE ClearWarning(Worker)
  <2>1. delivery[Worker].seen = Status(KeyOf(Worker))
    BY <1>9 DEF ClearWarning, At, IInv, DeliveryInv, KeyOf
  <2>2. handoff' \in [Keys -> [status : Statuses, failure : Phases]] /\ Grown
    BY <1>4, <1>9, <2>1, TransitionRows DEF ClearWarning, Phases
  <2>3. "claim" \in DeliverySteps
    BY DEF DeliverySteps
  <2>4. QED
    BY <1>2, <1>3, <1>5, <1>9, <2>2, <2>3, OwnStep DEF ClearWarning
<1>10. CASE RecordFailure(Worker)
  <2>1. delivery[Worker].seen = Status(KeyOf(Worker))
    BY <1>10 DEF RecordFailure, At, IInv, DeliveryInv, KeyOf
  <2>2. handoff' \in [Keys -> [status : Statuses, failure : Phases]] /\ Grown
    BY <1>4, <1>10, <2>1, TransitionRows DEF RecordFailure
  <2>3. "done" \in DeliverySteps
    BY DEF DeliverySteps
  <2>4. QED
    BY <1>2, <1>3, <1>5, <1>10, <2>2, <2>3, OwnStep DEF RecordFailure
<1>11. QED
  BY <1>6, <1>7, <1>8, <1>9, <1>10

\* The steps that remember the status they read.
LEMMA SeenSteps ==
  ASSUME IInv, UNCHANGED <<capture, erp, job>>, ReadPrior(Worker) \/ Fails(Worker)
  PROVE  IInv'
<1>1. /\ delivery[Worker] \in Delivery /\ delivery[Worker].key = JobKey /\ job.stage # "idle"
      /\ JobKey \in Keys
  <2>1. delivery[Worker].pc # "idle"
    BY DEF ReadPrior, Fails, At
  <2>2. QED
    BY <2>1, TypeFacts, JobKeyFacts DEF IInv, DeliveryInv
<1>2. handoff[JobKey].status \in Statuses /\ RowOf(Worker) = handoff[JobKey]
  BY <1>1, TypeFacts DEF RowOf, KeyOf
<1>3. CASE ReadPrior(Worker)
  <2> DEFINE p == IF RowOf(Worker).failure = "lookup" THEN "clear" ELSE "claim"
             d == [delivery[Worker] EXCEPT !.pc = p, !.seen = handoff[JobKey].status]
  <2>1. p \in DeliverySteps /\ p # "send" /\ p # "idle"
    BY DEF DeliverySteps
  <2>2. d \in Delivery /\ d.pc = p /\ d.key = JobKey /\ d.seen = handoff[JobKey].status
    BY <1>1, <1>2, <2>1 DEF Delivery
  <2>3. delivery' = [delivery EXCEPT ![Worker] = d]
    BY <1>2, <1>3, TypeFacts DEF ReadPrior
  <2>4. outages' \in 0..MaxOutages /\ handoff' = handoff /\ UNCHANGED <<provider, restarts>>
    BY <1>3 DEF ReadPrior, IInv, TypeOK, HandoffTypeOK
  <2> HIDE DEF d
  <2>5. QED
    BY <1>1, <2>1, <2>2, <2>3, <2>4, KeptRows, OwnStep
<1>4. CASE Fails(Worker)
  <2> DEFINE f == IF At(Worker, "sent") THEN "send" ELSE delivery[Worker].pc
             d == [delivery[Worker] EXCEPT !.pc = "failed", !.seen = handoff[JobKey].status, !.phase = f]
  <2>1. f \in Phases
    BY <1>4 DEF Fails, At, Phases
  <2>2. d \in Delivery /\ d.pc = "failed" /\ d.key = JobKey /\ d.seen = handoff[JobKey].status
    BY <1>1, <1>2, <2>1 DEF Delivery, DeliverySteps
  <2>3. delivery' = [delivery EXCEPT ![Worker] = d]
    BY <1>2, <1>4, TypeFacts DEF Fails
  <2>4. outages' \in 0..MaxOutages
    BY <1>4, HandoffBoundAssumption DEF Fails, IInv, TypeOK, HandoffTypeOK
  <2>5. handoff' = handoff /\ UNCHANGED <<provider, restarts>>
    BY <1>4 DEF Fails
  <2> HIDE DEF d
  <2>6. QED
    BY <1>1, <2>2, <2>3, <2>4, <2>5, KeptRows, OwnStep
<1>5. QED
  BY <1>3, <1>4

\* A claim is made only of a row that never led to a send.
LEMMA ClaimStep ==
  ASSUME IInv, UNCHANGED <<capture, erp, job>>, Claim(Worker)
  PROVE  IInv'
<1>1. /\ delivery[Worker] \in Delivery /\ delivery[Worker].key = JobKey /\ job.stage # "idle"
      /\ JobKey \in Keys
  <2>1. delivery[Worker].pc # "idle"
    BY DEF Claim, At
  <2>2. QED
    BY <2>1, TypeFacts, JobKeyFacts DEF IInv, DeliveryInv
<1>2. RowOf(Worker) = handoff[JobKey] /\ handoff \in [Keys -> [status : Statuses, failure : Phases]]
  BY <1>1, TypeFacts DEF RowOf, KeyOf
<1>3. outages \in 0..MaxOutages
  BY DEF IInv, TypeOK, HandoffTypeOK
<1>4. CASE handoff[JobKey].status = "PENDING"
  <2> DEFINE d == [delivery[Worker] EXCEPT !.pc = "send"]
             r == [handoff[JobKey] EXCEPT !.status = "UNKNOWN"]
  <2>1. delivery' = [delivery EXCEPT ![Worker] = d] /\ handoff' = [handoff EXCEPT ![JobKey] = r]
    BY <1>1, <1>2, <1>4, TypeFacts DEF Claim, Goto, KeyOf
  <2>2. d \in Delivery /\ d.pc = "send" /\ d.key = JobKey
    BY <1>1 DEF Delivery, DeliverySteps
  <2>3. r \in [status : Statuses, failure : Phases] /\ r.status = "UNKNOWN"
    BY <1>1, <1>2 DEF Statuses
  <2> HIDE DEF d, r
  <2>4. /\ handoff' \in [Keys -> [status : Statuses, failure : Phases]] /\ Grown
        /\ handoff'[JobKey].status = "UNKNOWN"
    BY <1>1, <1>2, <1>4, <2>1, <2>3 DEF Grown
  <2>5. delivery' \in [Threads -> Delivery] /\ delivery'[Worker] = d
    BY <2>1, <2>2, TypeFacts
  <2>6. /\ records' = records /\ sends' = sends /\ flights' = flights /\ restarts' = restarts
        /\ outages' = outages /\ capture' = capture /\ erp' = erp /\ job' = job
    BY DEF Claim, provider
  <2>7. TypeOK'
    BY <2>4, <2>5, <2>6 DEF IInv, TypeOK, HandoffTypeOK
  <2>8. sends[JobKey] = 0
    <3>1. ~(sends[JobKey] > 0)
      BY <1>1, <1>4 DEF IInv, SentInv, Status, Claimed
    <3>2. QED
      BY <1>1, <3>1, TypeFacts
  <2>9. job.stage # "recheck"
    <3>1. job.stage = "recheck" => JobKey = Resolve /\ job.uncertain
      BY DEF JobKey, IInv, JobInv
    <3>2. job.uncertain => handoff[Resolve].status # "PENDING"
      BY DEF IInv, JobInv, Status, Claimed
    <3>3. QED
      BY <1>4, <3>1, <3>2
  <2>10. JobKey' = JobKey
    BY <2>6 DEF JobKey
  <2>11. DeliveryInv'
    BY <1>1, <2>2, <2>4, <2>5, <2>6, <2>8, <2>9, <2>10 DEF DeliveryInv, Status, Claimed
  <2>12. \A k \in Keys : records'[k] >= records[k]
    BY <2>6, TypeFacts
  <2>13. QED
    BY <2>4, <2>6, <2>7, <2>11, <2>12, CalmStep
<1>5. CASE handoff[JobKey].status # "PENDING"
  <2> DEFINE d == [delivery[Worker] EXCEPT !.pc = "done"]
  <2>1. delivery' = [delivery EXCEPT ![Worker] = d] /\ handoff' = handoff
    BY <1>1, <1>2, <1>5, TypeFacts DEF Claim, Goto
  <2>2. d \in Delivery /\ d.pc = "done" /\ d.key = JobKey
    BY <1>1 DEF Delivery, DeliverySteps
  <2> HIDE DEF d
  <2>3. QED
    BY <1>1, <1>3, <2>1, <2>2, KeptRows, OwnStep DEF Claim
<1>6. QED
  BY <1>4, <1>5

\* The one send of a key: of a destination after a posted receipt, of the
\* resolution after every notice and the evidence.
LEMMA SendStep ==
  ASSUME IInv, UNCHANGED <<capture, erp, job>>, Send(Worker)
  PROVE  IInv'
<1> DEFINE k0 == delivery[Worker].key
           d == [delivery[Worker] EXCEPT !.pc = "sent"]
<1>1. /\ delivery[Worker] \in Delivery /\ k0 = JobKey /\ job.stage # "idle" /\ k0 \in Keys
      /\ sends[k0] = 0 /\ Status(k0) \in Claimed /\ job.stage # "recheck"
  <2>1. delivery[Worker].pc = "send"
    BY DEF Send, At
  <2>2. QED
    BY <2>1, TypeFacts, JobKeyFacts DEF IInv, DeliveryInv
<1>2. d \in Delivery /\ d.pc = "sent" /\ d.key = k0
  BY <1>1 DEF Delivery, DeliverySteps
<1>3. delivery' \in [Threads -> Delivery] /\ delivery'[Worker] = d
  BY <1>2, TypeFacts DEF Send, Goto
<1> HIDE DEF d
<1>4. /\ sends' = [sends EXCEPT ![k0] = sends[k0] + 1] /\ flights' = [flights EXCEPT ![k0] = flights[k0] + 1]
      /\ records' = records /\ handoff' = handoff /\ outages' = outages /\ restarts' = restarts
      /\ capture' = capture /\ erp' = erp /\ job' = job
  BY DEF Send, KeyOf
<1>5. /\ sends' \in [Keys -> Nat] /\ flights' \in [Keys -> Nat] /\ sends'[k0] = 1
      /\ \A k \in Keys : k # k0 => sends'[k] = sends[k]
  BY <1>1, <1>4, TypeFacts
<1> HIDE DEF k0
<1>6. TypeOK'
  BY <1>3, <1>4, <1>5 DEF IInv, TypeOK, HandoffTypeOK
<1>7. SentInv'
  BY <1>1, <1>4, <1>5 DEF IInv, SentInv, Status
<1>8. JobKey' = JobKey
  BY <1>4 DEF JobKey
<1>9. DeliveryInv'
  BY <1>1, <1>2, <1>3, <1>4, <1>8 DEF DeliveryInv
<1>10. JobInv'
  BY <1>4 DEF IInv, JobInv, Verified, Status
<1>11. ReviewClosesLast'
  <2>1. k0 \in DestKeys => erp # "none"
    BY <1>1, JobKeyFacts DEF IInv, JobInv
  <2>2. k0 = Resolve => job.stage = "resolve"
    BY <1>1, JobKeyFacts
  <2>3. job.stage = "resolve" =>
          erp # "none" /\ Status(Evidence) = "VERIFIED" /\ \A k \in DestKeys : Status(k) = "VERIFIED"
    BY DEF IInv, JobInv, Verified
  <2>4. job.stage = "resolve" => records[Evidence] > 0 /\ \A k \in DestKeys : records[k] > 0
    BY <2>3, KeyFacts DEF IInv, SentInv
  <2>5. \A k \in DestKeys : sends'[k] > 0 => erp' # "none"
    BY <1>4, <1>5, <2>1, KeyFacts DEF IInv, ReviewClosesLast
  <2>6. sends'[Resolve] > 0 =>
          erp' # "none" /\ records'[Evidence] > 0 /\ \A k \in DestKeys : records'[k] > 0
    BY <1>4, <1>5, <2>2, <2>3, <2>4, KeyFacts DEF IInv, ReviewClosesLast
  <2>7. QED
    BY <2>5, <2>6 DEF ReviewClosesLast
<1>12. QED
  BY <1>6, <1>7, <1>9, <1>10, <1>11 DEF IInv

LEMMA StepKeeps ==
  ASSUME IInv, Step
  PROVE  IInv'
BY LookupSteps, SeenSteps, ClaimStep, SendStep DEF Step, DeliveryStep

-----------------------------------------------------------------------------
(* ReceivingHandoffWorker.tick. *)

\* A step that changes only the stage of the tick and ends the delivery.
LEMMA StageStep ==
  ASSUME IInv, job' \in Job, JobInv',
         delivery' \in [Threads -> Delivery], delivery'[Worker].pc = "idle",
         restarts' \in 0..MaxRestarts, UNCHANGED <<handoff, provider, outages, capture, erp>>
  PROVE  IInv'
<1>1. /\ handoff' = handoff /\ records' = records /\ sends' = sends /\ flights' = flights
      /\ outages' = outages /\ capture' = capture /\ erp' = erp
  BY DEF provider
<1>2. TypeOK'
  BY <1>1 DEF IInv, TypeOK, HandoffTypeOK
<1>3. SentInv' /\ ReviewClosesLast'
  BY <1>1 DEF IInv, SentInv, ReviewClosesLast, Status
<1>4. DeliveryInv'
  BY DEF DeliveryInv
<1>5. QED
  BY <1>2, <1>3, <1>4 DEF IInv

LEMMA NoJobFacts == NoJob \in Job /\ NoJob.stage = "idle" /\ NoJob.resolving = FALSE /\ NoJob.uncertain = FALSE
BY HandoffKeysAssumption DEF NoJob, Job, Stages

LEMMA TickStep ==
  ASSUME IInv, TickReview \/ TickReceipt
  PROVE  IInv'
<1>1. /\ delivery' = delivery /\ delivery[Worker].pc = "idle" /\ restarts' = restarts
      /\ UNCHANGED <<handoff, provider, outages, capture, erp>>
  BY DEF TickReview, TickReceipt, journalVars, At, provider
<1>2. delivery' \in [Threads -> Delivery] /\ restarts' \in 0..MaxRestarts
  BY <1>1 DEF IInv, TypeOK, HandoffTypeOK
<1>3. capture.version \in 1..MaxRevision /\ capture.version # 0
  BY HandoffKeysAssumption DEF IInv, TypeOK
<1>4. /\ job' \in Job /\ job'.stage \in {"create", "destination"} /\ job'.version # 0
      /\ job'.resolving = FALSE /\ job'.uncertain = FALSE
      /\ job'.stage = "destination" => job'.dest = 1 /\ erp # "none"
  <2>1. CASE TickReview
    <3> DEFINE j == [NoJob EXCEPT !.stage = "create", !.version = capture.version]
    <3>1. job' = j
      BY <2>1 DEF TickReview
    <3>2. capture.version \in 0..MaxRevision
      BY <1>3, HandoffKeysAssumption
    <3>3. j \in Job
      BY <3>2, NoJobFacts DEF Job, Stages
    <3>4. /\ j.stage = "create" /\ j.version = capture.version
          /\ j.resolving = NoJob.resolving /\ j.uncertain = NoJob.uncertain
      BY NoJobFacts DEF Job
    <3>5. QED
      BY <1>3, <3>1, <3>3, <3>4, NoJobFacts
  <2>2. CASE TickReceipt
    <3>1. 1 \in Destinations
      BY HandoffKeysAssumption DEF Destinations
    <3>2. JiraOpen \in BOOLEAN
      BY DEF JiraOpen
    <3> DEFINE o == JiraOpen
               j == [NoJob EXCEPT !.stage = "destination", !.dest = 1,
                                  !.version = capture.version, !.open = o]
    <3>3. job' = j /\ erp = "posted"
      BY <2>2 DEF TickReceipt
    <3>4. o \in BOOLEAN /\ capture.version \in 0..MaxRevision
      BY <1>3, <3>2, HandoffKeysAssumption
    <3> HIDE DEF o
    <3>5. j \in Job
      BY <3>1, <3>4, NoJobFacts DEF Job, Stages
    <3>6. /\ j.stage = "destination" /\ j.dest = 1 /\ j.version = capture.version
          /\ j.resolving = NoJob.resolving /\ j.uncertain = NoJob.uncertain
      BY NoJobFacts DEF Job
    <3>7. QED
      BY <1>3, <3>3, <3>5, <3>6, NoJobFacts
  <2>3. QED
    BY <2>1, <2>2
<1>5. JobInv'
  BY <1>1, <1>4 DEF JobInv
<1>6. QED
  BY <1>1, <1>2, <1>4, <1>5, StageStep

\* What the next stage of a tick presupposes.
LEMMA NextJobFacts ==
  ASSUME IInv, job.stage # "idle", job' = NextJob, handoff' = handoff, erp' = erp
  PROVE  job' \in Job /\ JobInv'
<1>1. job \in Job /\ job.stage \in Stages /\ job.version # 0
  BY DEF IInv, TypeOK, Job, JobInv
<1>2. CASE job' = NoJob
  BY <1>2, NoJobFacts DEF JobInv
<1> DEFINE J(stage) == [job EXCEPT !.stage = stage]
<1>3. ASSUME NEW stage \in Stages
      PROVE  /\ J(stage) \in Job /\ J(stage).stage = stage /\ J(stage).version = job.version
             /\ J(stage).resolving = job.resolving /\ J(stage).uncertain = job.uncertain
  BY <1>1 DEF Job
<1>4. Verified(DestKeys)' = Verified(DestKeys) /\ \A k : Status(k)' = Status(k)
  BY DEF Verified, Status
<1>5. CASE job.stage = "destination"
  <2>1. job.dest \in Destinations /\ erp # "none"
    BY <1>1, <1>5 DEF Job, IInv, JobInv
  <2>2. CASE job.dest + 1 \in Destinations
    <3>1. job' = [job EXCEPT !.dest = job.dest + 1]
      BY <1>5, <2>2 DEF NextJob
    <3>2. /\ job' \in Job /\ job'.stage = "destination" /\ job'.version = job.version
          /\ job'.dest = job.dest + 1
          /\ job'.resolving = job.resolving /\ job'.uncertain = job.uncertain
      BY <1>1, <1>5, <2>2, <3>1 DEF Job
    <3>3. job.dest + 1 # 0
      BY <2>2, HandoffKeysAssumption DEF Destinations
    <3>4. JobInv'
      BY <1>1, <1>4, <2>1, <3>2, <3>3 DEF IInv, JobInv
    <3>5. QED
      BY <3>2, <3>4
  <2>3. CASE job.dest + 1 \notin Destinations /\ job.open /\ Verified(DestKeys)
    <3> DEFINE u == Status(Resolve) = "UNKNOWN"
    <3>1. job' = [job EXCEPT !.stage = "create", !.resolving = TRUE, !.uncertain = u]
      BY <1>5, <2>3 DEF NextJob, AfterDestinations
    <3>2. u \in BOOLEAN
      OBVIOUS
    <3> HIDE DEF u
    <3>3. /\ job' \in Job /\ job'.stage = "create" /\ job'.version = job.version
          /\ job'.resolving = TRUE /\ job'.uncertain = u
      BY <1>1, <3>1, <3>2 DEF Job, Stages
    <3>4. u => Status(Resolve) \in Claimed
      BY DEF u, Claimed
    <3>5. JobInv'
      BY <1>1, <1>4, <2>1, <2>3, <3>3, <3>4 DEF JobInv
    <3>6. QED
      BY <3>3, <3>5
  <2>4. CASE job.dest + 1 \notin Destinations /\ ~(job.open /\ Verified(DestKeys))
    BY <1>2, <1>5, <2>4 DEF NextJob, AfterDestinations
  <2>5. QED
    BY <2>2, <2>3, <2>4
<1>6. CASE job.stage = "create"
  <2>1. job' = NoJob \/ job' = J("comment")
    BY <1>6 DEF NextJob
  <2>2. "comment" \in Stages
    BY DEF Stages
  <2>3. CASE job' = J("comment")
    BY <1>1, <1>3, <1>4, <2>2, <2>3 DEF IInv, JobInv
  <2>4. QED
    BY <1>2, <2>1, <2>3
<1>7. CASE job.stage = "comment"
  <2>1. \/ job' = NoJob
        \/ job.resolving /\ job.uncertain /\ job' = J("recheck")
        \/ job.resolving /\ job' = J("evidence")
    BY <1>7 DEF NextJob
  <2>2. "recheck" \in Stages /\ "evidence" \in Stages
    BY DEF Stages
  <2>3. CASE job.resolving /\ job.uncertain /\ job' = J("recheck")
    BY <1>1, <1>3, <1>4, <2>2, <2>3 DEF IInv, JobInv
  <2>4. CASE job.resolving /\ job' = J("evidence")
    BY <1>1, <1>3, <1>4, <2>2, <2>4 DEF IInv, JobInv
  <2>5. QED
    BY <1>2, <2>1, <2>3, <2>4
<1>8. CASE job.stage = "recheck"
  <2>1. job' = NoJob \/ job' = J("evidence")
    BY <1>8 DEF NextJob
  <2>2. "evidence" \in Stages
    BY DEF Stages
  <2>3. CASE job' = J("evidence")
    BY <1>1, <1>3, <1>4, <1>8, <2>2, <2>3 DEF IInv, JobInv
  <2>4. QED
    BY <1>2, <2>1, <2>3
<1>9. CASE job.stage = "evidence"
  <2>1. job' = NoJob \/ (Status(Evidence) = "VERIFIED" /\ job' = J("resolve"))
    BY <1>9 DEF NextJob, JobKey
  <2>2. "resolve" \in Stages
    BY DEF Stages
  <2>3. CASE Status(Evidence) = "VERIFIED" /\ job' = J("resolve")
    BY <1>1, <1>3, <1>4, <1>9, <2>2, <2>3 DEF IInv, JobInv
  <2>4. QED
    BY <1>2, <2>1, <2>3
<1>10. CASE job.stage = "resolve"
  BY <1>2, <1>10 DEF NextJob
<1>11. QED
  BY <1>1, <1>5, <1>6, <1>7, <1>8, <1>9, <1>10 DEF Stages

LEMMA AdvanceStep ==
  ASSUME IInv, Advance
  PROVE  IInv'
<1>1. job.stage # "idle"
  BY DEF Advance, At, IInv, DeliveryInv
<1>2. job' \in Job /\ JobInv'
  BY <1>1, NextJobFacts DEF Advance
<1>3. delivery' \in [Threads -> Delivery] /\ delivery'[Worker].pc = "idle"
  BY TypeFacts, NoDeliveryFacts DEF Advance, Finish
<1>4. restarts' \in 0..MaxRestarts /\ UNCHANGED <<handoff, provider, outages, capture, erp>>
  BY DEF Advance, IInv, TypeOK, HandoffTypeOK
<1>5. QED
  BY <1>2, <1>3, <1>4, StageStep

LEMMA RestartStep ==
  ASSUME IInv, Restart
  PROVE  IInv'
<1>1. job' \in Job /\ JobInv'
  BY NoJobFacts DEF Restart, JobInv
<1>2. delivery' \in [Threads -> Delivery] /\ delivery'[Worker].pc = "idle"
  BY TypeFacts, NoDeliveryFacts DEF Restart
<1>3. restarts' \in 0..MaxRestarts
  BY HandoffBoundAssumption DEF Restart, IInv, TypeOK, HandoffTypeOK
<1>4. QED
  BY <1>1, <1>2, <1>3, StageStep DEF Restart

-----------------------------------------------------------------------------
(* The capture, the ERP, the provider and people. *)

LEMMA OutsideStep ==
  ASSUME IInv, TypeOK', UNCHANGED <<handoff, delivery, sends, job>>,
         \A k \in Keys : records'[k] >= records[k],
         erp # "none" => erp' # "none"
  PROVE  IInv'
<1>1. Grown
  BY DEF Grown
<1>2. JobKey' = JobKey
  BY DEF JobKey
<1>3. DeliveryInv'
  BY <1>2 DEF IInv, DeliveryInv, Status
<1>4. QED
  BY <1>1, <1>3, CalmStep

LEMMA EnvironmentStep ==
  ASSUME IInv, \/ CaptureChanges \/ ReceiptCancelled \/ ReviewClosedByHand
               \/ (Provider /\ UNCHANGED <<capture, erp, job>>)
  PROVE  IInv'
<1>1. records \in [Keys -> Nat] /\ flights \in [Keys -> Nat] /\ Resolve \in Keys
  BY TypeFacts, KeyFacts
<1>2. CASE CaptureChanges
  <2>1. TypeOK'
    BY <1>2, HandoffKeysAssumption DEF CaptureChanges, journalVars, IInv, TypeOK, HandoffTypeOK
  <2>2. QED
    BY <1>1, <1>2, <2>1, OutsideStep DEF CaptureChanges, journalVars
<1>3. CASE ReceiptCancelled
  <2>1. TypeOK'
    BY <1>3 DEF ReceiptCancelled, journalVars, IInv, TypeOK, HandoffTypeOK
  <2>2. QED
    BY <1>1, <1>3, <2>1, OutsideStep DEF ReceiptCancelled, journalVars
<1>4. CASE ReviewClosedByHand
  <2>1. TypeOK'
    BY <1>1, <1>4 DEF ReviewClosedByHand, IInv, TypeOK, HandoffTypeOK
  <2>2. QED
    BY <1>1, <1>4, <2>1, OutsideStep DEF ReviewClosedByHand
<1>5. ASSUME NEW k \in Keys, Execute(k) \/ LoseSend(k), UNCHANGED <<capture, erp, job>>
      PROVE  IInv'
  <2>1. records' \in [Keys -> Nat] /\ flights' \in [Keys -> Nat]
        /\ \A j \in Keys : records'[j] >= records[j]
    BY <1>1, <1>5 DEF Execute, LoseSend
  <2>2. TypeOK'
    BY <1>5, <2>1 DEF Execute, LoseSend, IInv, TypeOK, HandoffTypeOK
  <2>3. QED
    BY <1>5, <2>1, <2>2, OutsideStep DEF Execute, LoseSend
<1>6. QED
  BY <1>2, <1>3, <1>4, <1>5 DEF Provider

-----------------------------------------------------------------------------
(* The theorems. *)

LEMMA InitInv == Init => IInv
<1> SUFFICES ASSUME Init PROVE IInv
  OBVIOUS
<1>1. TypeOK
  BY NoDeliveryFacts, NoJobFacts, HandoffKeysAssumption, HandoffBoundAssumption
  DEF Init, HandoffInit, TypeOK, HandoffTypeOK, Statuses, Phases
<1>2. SentInv /\ ReviewClosesLast
  BY KeyFacts DEF Init, HandoffInit, SentInv, ReviewClosesLast, Status
<1>3. DeliveryInv
  BY NoDeliveryFacts, HandoffKeysAssumption DEF Init, HandoffInit, DeliveryInv
<1>4. JobInv
  BY NoJobFacts DEF Init, JobInv
<1>5. QED
  BY <1>1, <1>2, <1>3, <1>4 DEF IInv

LEMMA NextInv == IInv /\ [Next]_vars => IInv'
<1> SUFFICES ASSUME IInv, [Next]_vars PROVE IInv'
  OBVIOUS
<1>1. CASE UNCHANGED vars
  BY <1>1 DEF vars, journalVars, IInv, TypeOK, HandoffTypeOK, SentInv, DeliveryInv, JobInv,
              ReviewClosesLast, Status, Verified, JobKey
<1>2. CASE WorkerStep
  BY <1>2, TickStep, DeliverStep, StepKeeps, AdvanceStep DEF WorkerStep
<1>3. CASE ~WorkerStep /\ Next
  BY <1>3, EnvironmentStep, RestartStep DEF Next
<1>4. QED
  BY <1>1, <1>2, <1>3

\* The inductive invariant holds of every reachable state.
THEOREM Invariance == Spec => []IInv
<1>1. Init => IInv
  BY InitInv
<1>2. IInv /\ [Next]_vars => IInv'
  BY NextInv
<1>3. QED
  BY <1>1, <1>2, PTL DEF Spec

\* The state keeps its shape under every step of the worker.
THEOREM TypeCorrect == Spec => []TypeOK
<1>1. IInv => TypeOK
  BY DEF IInv
<1>2. QED
  BY <1>1, Invariance, PTL

\* "Uncertain effect: lookup only, never a second send": with the one worker
\* thread, deliver() calls send() at most once for a business key.
THEOREM OneSend == Spec => []NeverSecondSend
<1>1. IInv => NeverSecondSend
  BY DEF IInv, SentInv, NeverSecondSend
<1>2. QED
  BY <1>1, Invariance, PTL

\* Posted receipt, notices, evidence, closed review, in this order.
THEOREM ClosedLast == Spec => []ReviewClosesLast
<1>1. IInv => ReviewClosesLast
  BY DEF IInv
<1>2. QED
  BY <1>1, Invariance, PTL


-----------------------------------------------------------------------------
(***************************************************************************)
(* The distributor's operations and the photos bound to them.              *)
(***************************************************************************)

(* The shape of the tables; a row in use has an insertion number. *)
RowShape(r) ==
  /\ r = [at |-> r.at, for |-> r.for, result |-> r.result, state |-> r.state]
  /\ r.at \in Nat
RowsInv ==
  /\ rows = [e \in Events |-> rows[e]]
  /\ retries = [r \in Retries |-> retries[r]]
  /\ \A e \in Events : RowShape(rows[e]) /\ (rows[e] = NoRow \/ rows[e].at > 0)
  /\ \A r \in Retries : RowShape(retries[r])
  /\ faults \in Nat

ProposalShape(q) ==
  /\ q = [revision |-> q.revision, source |-> q.source, photo |-> q.photo, result |-> q.result]
  /\ q.photo \in Photos \cup {None}
ProposalsInv ==
  /\ proposals = [e \in Events |-> proposals[e]]
  /\ \A e \in Events : ProposalShape(proposals[e])

AnalysisShape(a) ==
  a = [status |-> a.status, purpose |-> a.purpose, lot |-> a.lot, source |-> a.source,
       safe |-> a.safe, supersedes |-> a.supersedes]
PhotoShape(x) ==
  /\ x = [image |-> x.image, proposal |-> x.proposal, event |-> x.event, analysis |-> x.analysis]
  /\ AnalysisShape(x.analysis)
  /\ x.proposal \in Events \cup {None}
  /\ x = NoPhoto \/ x.image # None
PhotosInv ==
  /\ photos = [p \in Photos |-> photos[p]]
  /\ \A p \in Photos : PhotoShape(photos[p])

(* The insertion numbers of both tables have a greatest one. *)
Ats == {r.at : r \in Table}
TopInv == Ats # {} => \E m \in Ats : \A a \in Ats : a <= m

(* The method that holds the lock. *)
Fields == {"pc", "id", "retry", "proposal", "st", "base", "ops", "todo", "after", "status"}
Preparing == {"select", "reserve", "prepare"}
Resting == {"idle", "bind", "confirm"}
Afters == {"settle", "repick", "retried"}

(* An event runs once: its row has no result before its method stores one. *)
Running ==
  /\ DOMAIN op = Fields
  /\ op.proposal \in BOOLEAN /\ (op.proposal => op.retry = None)
  /\ op.retry = None => op.id \in Events /\ rows[op.id].at > 0
  /\ op.pc \in Preparing => op.after \in Afters
Underway ==
  /\ Running /\ op.pc \notin Resting
  /\ op.retry = None => rows[op.id].result = None /\ proposals[op.id].result = None
Confirming ==
  /\ Running /\ op.pc = "confirm" /\ op.retry = None
  /\ \/ op.status = rows[op.id].result
     \/ op.status = "UNKNOWN_OUTCOME" /\ rows[op.id].result = None
Binding ==
  /\ op.pc = "bind" /\ op.id \in Events
  /\ proposals[op.id].photo \in Photos
  /\ LET x == photos[proposals[op.id].photo]
     IN  x.image # None /\ x.proposal = None /\ x.event = None
MethodInv == op = Idle \/ Underway \/ Confirming \/ Binding

(* What a photo is bound to, and what it replaces. *)
HeldInv ==
  \A p \in Photos :
    LET e == photos[p].proposal
    IN  /\ e # None => proposals[e].photo = p
        /\ photos[p].event # None => photos[p].event = e /\ rows[e].at > 0
NamedInv ==
  faults = 0 =>
    \A e \in Events : proposals[e].photo # None =>
      \/ photos[proposals[e].photo].proposal = e
      \/ op.pc = "bind" /\ op.id = e
SoleSuccessor == \A p \in Photos : \A q, r \in Successors(p) : q = r

TableInv == RowsInv /\ ProposalsInv /\ PhotosInv /\ TopInv
PhotoInv ==
  TableInv /\ MethodInv /\ ConfirmedIsTold /\ HeldInv /\ NamedInv /\ NoCircle /\ SoleSuccessor

-----------------------------------------------------------------------------
(* Where a method goes. *)

Moves ==
  /\ DOMAIN op' = Fields
  /\ op'.id = op.id /\ op'.retry = op.retry /\ op'.proposal = op.proposal
  /\ op'.pc \notin Resting
  /\ op'.pc \in Preparing => op'.after \in Afters

LEMMA ProceedMoves ==
  ASSUME DOMAIN op = Fields, NEW pc \in {"submit"}, NEW st, Proceed(pc, st)
  PROVE  Moves
BY DEF Moves, Proceed, Fields, Resting, Preparing

LEMMA CloseMoves ==
  ASSUME DOMAIN op = Fields, NEW st, NEW status, NEW ops, Close(st, status, ops)
  PROVE  Moves
BY DEF Moves, Close, Fields, Resting, Preparing

LEMMA SettleMoves ==
  ASSUME DOMAIN op = Fields, NEW st, NEW ops, Settle(st, ops)
  PROVE  Moves
BY DEF Moves, Settle, Fields, Resting, Preparing

LEMMA AfterPrepareMoves ==
  ASSUME DOMAIN op = Fields, op.after \in Afters, NEW st, NEW ops, AfterPrepare(st, ops)
  PROVE  Moves
BY DEF Moves, AfterPrepare, Fields, Resting, Preparing, Afters

LEMMA StartPicksMoves ==
  ASSUME DOMAIN op = Fields, op.after \in Afters, NEW st, NEW ops, StartPicks(st, ops)
  PROVE  Moves
<1>1. CASE ToPrepare(st) = <<>>
  BY <1>1, AfterPrepareMoves DEF StartPicks
<1>2. CASE ToPrepare(st) # <<>>
  <2>1. op' = [op EXCEPT !.pc = IF policy.reservation THEN "reserve" ELSE "prepare",
                         !.st = st, !.ops = ops, !.todo = ToPrepare(st)]
    BY <1>2 DEF StartPicks
  <2>2. QED  BY <2>1 DEF Moves, Fields, Resting, Preparing
<1>3. QED  BY <1>1, <1>2

LEMMA BeginPrepareMoves ==
  ASSUME DOMAIN op = Fields, NEW st, NEW ops, NEW after \in Afters,
         BeginPrepare(st, ops, after)
  PROVE  Moves
<1> DEFINE goto(pc) == op' = [op EXCEPT !.pc = pc, !.st = st, !.ops = ops, !.after = after,
                                        !.todo = ToPrepare(st)]
<1>1. PICK pc \in Preparing \cup {after} : goto(pc)
  BY DEF BeginPrepare, Preparing
<1>2. QED  BY <1>1 DEF Moves, Fields, Resting, Preparing, Afters

(* A row in use keeps its number, its event and its result. *)
StateOnly(r, q) == \E st : q = [r EXCEPT !.state = st]
RowsKept ==
  /\ rows' = [e \in Events |-> rows'[e]]
  /\ retries' = [r \in Retries |-> retries'[r]]
  /\ \A e \in Events : rows'[e] = rows[e] \/ (rows[e].at > 0 /\ StateOnly(rows[e], rows'[e]))
  /\ \A r \in Retries : retries'[r] = retries[r] \/ StateOnly(retries[r], retries'[r])
Proceeds == RowsKept /\ UNCHANGED <<proposals, photos>> /\ faults' \in {faults, faults + 1}

(* One step of a method that is neither its last nor its confirmation. *)
MethodStep == Underway /\ Moves /\ Proceeds

LEMMA SameRows ==
  ASSUME RowsInv, UNCHANGED <<rows, retries>>
  PROVE  RowsKept
BY DEF RowsInv, RowsKept

StatePut(f, g, k, st) == g = [f EXCEPT ![k].state = st]
LEMMA StateSet ==
  ASSUME NEW S, NEW f, NEW g, NEW k, NEW st, f = [x \in S |-> f[x]], StatePut(f, g, k, st)
  PROVE  g = [x \in S |-> g[x]] /\ \A x \in S : g[x] = f[x] \/ (x = k /\ StateOnly(f[x], g[x]))
<1>1. g = [x \in S |-> IF x = k THEN [f[k] EXCEPT !.state = st] ELSE f[x]]
  BY DEF StatePut
<1>2. QED  BY <1>1 DEF StateOnly

LEMMA NativeFaults ==
  ASSUME NEW outcomes, NEW out \in outcomes,
         faults' = IF out.fault THEN faults + 1 ELSE faults
  PROVE  faults' \in {faults, faults + 1}
OBVIOUS

LEMMA UnderwayFields == ASSUME Underway PROVE DOMAIN op = Fields
BY DEF Underway, Running

LEMMA AtMethod ==
  ASSUME MethodInv, op.pc \notin Resting
  PROVE  Underway
BY DEF MethodInv, Confirming, Binding, Resting, Idle

LEMMA ReadSourceMoves ==
  ASSUME MethodInv, RowsInv, NEW readable \in BOOLEAN, ReadSource(readable), UNCHANGED photos
  PROVE  MethodStep
<1>1. op.pc = "read" /\ Underway /\ DOMAIN op = Fields
  BY AtMethod, UnderwayFields DEF ReadSource, Resting
<1>2. faults' \in {faults, faults + 1} /\ UNCHANGED <<rows, retries, proposals>>
  BY DEF ReadSource
<1>3. Moves
  <2> DEFINE begun == [op EXCEPT !.st = Latest, !.base = Latest]
  <2>1. CASE \E status : Close(Latest, status, {})
    BY <1>1, <2>1, CloseMoves
  <2>2. CASE \E pc \in {"receive", "inspect", "pick", "carrier"} : op' = [begun EXCEPT !.pc = pc]
    BY <1>1, <2>2 DEF Moves, Fields, Resting, Preparing
  <2>3. QED  BY <2>1, <2>2 DEF ReadSource
<1>4. QED  BY <1>1, <1>2, <1>3, SameRows DEF MethodStep, Proceeds

LEMMA RetryReadMoves ==
  ASSUME MethodInv, RowsInv, NEW readable \in BOOLEAN, RetryRead(readable), UNCHANGED photos
  PROVE  MethodStep
<1>1. op.pc = "read" /\ Underway /\ DOMAIN op = Fields
  BY AtMethod, UnderwayFields DEF RetryRead, Resting
<1>2. faults' \in {faults, faults + 1} /\ UNCHANGED <<rows, retries, proposals>>
  BY DEF RetryRead
<1>3. Moves
  <2>1. CASE \E st, status : Close(st, status, {})
    BY <1>1, <2>1, CloseMoves
  <2>2. CASE \E st : BeginPrepare(st, {}, "retried")
    BY <1>1, <2>2, BeginPrepareMoves DEF Afters
  <2>3. QED  BY <2>1, <2>2 DEF RetryRead
<1>4. QED  BY <1>1, <1>2, <1>3, SameRows DEF MethodStep, Proceeds

LEMMA SelectPlanMoves ==
  ASSUME MethodInv, RowsInv, SelectPlan, UNCHANGED photos
  PROVE  MethodStep
<1>1. op.pc = "select" /\ Underway /\ DOMAIN op = Fields /\ op.after \in Afters
  BY AtMethod, UnderwayFields DEF SelectPlan, Resting, Underway, Running, Preparing
<1>2. PICK st :
        /\ IF op.retry = None
           THEN rows' = [rows EXCEPT ![op.id].state = st] /\ UNCHANGED retries
           ELSE retries' = [retries EXCEPT ![op.retry].state = st] /\ UNCHANGED rows
        /\ StartPicks(st, op.ops) \/ AfterPrepare(st, op.ops)
  BY DEF SelectPlan
<1>3. Moves
  BY <1>1, <1>2, StartPicksMoves, AfterPrepareMoves
<1>4. RowsKept
  <2>1. CASE op.retry = None
    <3>1. rows[op.id].at > 0
      BY <1>1, <2>1 DEF Underway, Running
    <3>2. QED  BY <1>2, <2>1, <3>1, StateSet DEF StatePut, RowsInv, RowsKept
  <2>2. CASE op.retry # None
    BY <1>2, <2>2, StateSet DEF StatePut, RowsInv, RowsKept
  <2>3. QED  BY <2>1, <2>2
<1>5. UNCHANGED <<proposals, faults>>
  BY DEF SelectPlan
<1>6. QED  BY <1>1, <1>3, <1>4, <1>5 DEF MethodStep, Proceeds

LEMMA ReserveMoves ==
  ASSUME MethodInv, RowsInv, Reserve, UNCHANGED photos
  PROVE  MethodStep
<1>1. Underway /\ DOMAIN op = Fields /\ op.after \in Afters
  BY AtMethod, UnderwayFields DEF Reserve, Resting, Underway, Running, Preparing
<1>2. faults' \in {faults, faults + 1} /\ UNCHANGED <<rows, retries, proposals>>
  BY DEF Reserve, Native
<1>3. Moves
  <2>1. PICK ops : AfterPrepare(op.st, ops)
    BY DEF Reserve, Native
  <2>2. QED  BY <1>1, <2>1, AfterPrepareMoves
<1>4. QED  BY <1>1, <1>2, <1>3, SameRows DEF MethodStep, Proceeds

LEMMA PrepareNextMoves ==
  ASSUME MethodInv, RowsInv, PrepareNext, UNCHANGED photos
  PROVE  MethodStep
<1>1. Underway /\ DOMAIN op = Fields /\ op.after \in Afters
  BY AtMethod, UnderwayFields DEF PrepareNext, Resting, Underway, Running, Preparing
<1>2. faults' \in {faults, faults + 1} /\ UNCHANGED <<rows, retries, proposals>>
  BY DEF PrepareNext, Native
<1>3. Moves
  <2> DEFINE rest == Tail(op.todo)
             pc   == IF rest = <<>> THEN op.after ELSE "prepare"
  <2>1. PICK st, ops : op' = [op EXCEPT !.st = st, !.todo = rest, !.ops = ops, !.pc = pc]
    BY DEF PrepareNext, Native
  <2> HIDE DEF rest
  <2>2. QED  BY <1>1, <2>1 DEF Moves, Fields, Resting, Preparing, Afters
<1>4. QED  BY <1>1, <1>2, <1>3, SameRows DEF MethodStep, Proceeds

LEMMA ReceiveMoves ==
  ASSUME MethodInv, RowsInv, ReceiveArrival, UNCHANGED photos
  PROVE  MethodStep
<1>1. Underway /\ DOMAIN op = Fields
  BY AtMethod, UnderwayFields DEF ReceiveArrival, Resting
<1>2. faults' \in {faults, faults + 1} /\ UNCHANGED <<rows, retries, proposals>>
  BY DEF ReceiveArrival, Native
<1>3. Moves
  <2>1. PICK st, status, ops : \/ Close(st, status, ops)
                               \/ Settle(st, ops)
                               \/ BeginPrepare(st, ops, "settle")
    BY DEF ReceiveArrival, Native
  <2>2. QED  BY <1>1, <2>1, CloseMoves, SettleMoves, BeginPrepareMoves DEF Afters
<1>4. QED  BY <1>1, <1>2, <1>3, SameRows DEF MethodStep, Proceeds

LEMMA InspectMoves ==
  ASSUME MethodInv, RowsInv, Inspect, UNCHANGED photos
  PROVE  MethodStep
<1>1. Underway /\ DOMAIN op = Fields
  BY AtMethod, UnderwayFields DEF Inspect, Resting
<1>2. faults' \in {faults, faults + 1} /\ UNCHANGED <<rows, retries, proposals>>
  BY DEF Inspect, Native
<1>3. Moves
  <2>1. PICK st, status, ops : \/ Close(st, status, ops)
                               \/ Settle(st, ops)
                               \/ op' = [op EXCEPT !.pc = "release", !.ops = ops]
    BY DEF Inspect, Native
  <2>2. CASE op' = [op EXCEPT !.pc = "release", !.ops = ops]
    BY <1>1, <2>2 DEF Moves, Fields, Resting, Preparing
  <2>3. QED  BY <1>1, <2>1, <2>2, CloseMoves, SettleMoves
<1>4. QED  BY <1>1, <1>2, <1>3, SameRows DEF MethodStep, Proceeds

LEMMA ReleaseMoves ==
  ASSUME MethodInv, RowsInv, Release, UNCHANGED photos
  PROVE  MethodStep
<1>1. Underway /\ DOMAIN op = Fields
  BY AtMethod, UnderwayFields DEF Release, Resting
<1>2. faults' \in {faults, faults + 1} /\ UNCHANGED <<rows, retries, proposals>>
  BY DEF Release, Native
<1>3. Moves
  <2>1. PICK st, ops : BeginPrepare(st, ops, "settle") \/ Settle(st, ops)
    BY DEF Release, Native
  <2>2. QED  BY <1>1, <2>1, SettleMoves, BeginPrepareMoves DEF Afters
<1>4. QED  BY <1>1, <1>2, <1>3, SameRows DEF MethodStep, Proceeds

LEMMA SettleEventMoves ==
  ASSUME MethodInv, RowsInv, SettleEvent, UNCHANGED photos
  PROVE  MethodStep
<1>1. Underway /\ DOMAIN op = Fields
  BY AtMethod, UnderwayFields DEF SettleEvent, Resting
<1>2. faults' \in {faults, faults + 1} /\ UNCHANGED <<rows, retries, proposals>>
  BY DEF SettleEvent
<1>3. Moves
  BY <1>1, SettleMoves DEF SettleEvent
<1>4. QED  BY <1>1, <1>2, <1>3, SameRows DEF MethodStep, Proceeds

LEMMA PickMoves ==
  ASSUME MethodInv, RowsInv, NEW retried \in BOOLEAN, Pick(retried), UNCHANGED photos
  PROVE  MethodStep
<1>1. Underway /\ DOMAIN op = Fields
  BY AtMethod, UnderwayFields DEF Pick, Resting
<1>2. faults' \in {faults, faults + 1} /\ UNCHANGED <<rows, retries, proposals>>
  BY DEF Pick
<1>3. Moves
  <2>1. PICK st, status, ops : \/ Proceed("submit", st)
                               \/ BeginPrepare(st, ops, "repick")
                               \/ Close(st, status, ops)
    BY DEF Pick
  <2>2. QED  BY <1>1, <2>1, ProceedMoves, CloseMoves, BeginPrepareMoves DEF Afters
<1>4. QED  BY <1>1, <1>2, <1>3, SameRows DEF MethodStep, Proceeds

LEMMA SubmitMoves ==
  ASSUME MethodInv, RowsInv, Submit, UNCHANGED photos
  PROVE  MethodStep
<1>1. Underway /\ DOMAIN op = Fields
  BY AtMethod, UnderwayFields DEF Submit, Resting
<1>2. faults' \in {faults, faults + 1} /\ UNCHANGED <<rows, retries, proposals>>
  BY DEF Submit, Native
<1>3. Moves
  <2>1. PICK st, status, ops : \/ op' = [op EXCEPT !.pc = "note", !.ops = ops]
                               \/ Close(st, status, ops)
    BY DEF Submit, Native
  <2>2. CASE op' = [op EXCEPT !.pc = "note", !.ops = ops]
    BY <1>1, <2>2 DEF Moves, Fields, Resting, Preparing
  <2>3. QED  BY <1>1, <2>1, <2>2, CloseMoves
<1>4. QED  BY <1>1, <1>2, <1>3, SameRows DEF MethodStep, Proceeds

LEMMA DeliveryNoteMoves ==
  ASSUME MethodInv, RowsInv, DeliveryNote, UNCHANGED photos
  PROVE  MethodStep
<1>1. Underway /\ DOMAIN op = Fields
  BY AtMethod, UnderwayFields DEF DeliveryNote, Resting
<1>2. faults' \in {faults, faults + 1} /\ UNCHANGED <<rows, retries, proposals>>
  BY DEF DeliveryNote, Native
<1>3. Moves
  <2>1. PICK st, status, ops : \/ op' = [op EXCEPT !.pc = "ship", !.ops = ops, !.st = st]
                               \/ Close(st, status, ops)
    BY DEF DeliveryNote, Native
  <2>2. CASE op' = [op EXCEPT !.pc = "ship", !.ops = ops, !.st = st]
    BY <1>1, <2>2 DEF Moves, Fields, Resting, Preparing
  <2>3. QED  BY <1>1, <2>1, <2>2, CloseMoves
<1>4. QED  BY <1>1, <1>2, <1>3, SameRows DEF MethodStep, Proceeds

LEMMA CreateShipmentMoves ==
  ASSUME MethodInv, RowsInv, CreateShipment, UNCHANGED photos
  PROVE  MethodStep
<1>1. Underway /\ DOMAIN op = Fields
  BY AtMethod, UnderwayFields DEF CreateShipment, Resting
<1>2. faults' \in {faults, faults + 1} /\ UNCHANGED <<rows, retries, proposals>>
  BY DEF CreateShipment, Native
<1>3. Moves
  <2>1. PICK st, status, ops : Close(st, status, ops) \/ Settle(st, ops)
    BY DEF CreateShipment, Native
  <2>2. QED  BY <1>1, <2>1, CloseMoves, SettleMoves
<1>4. QED  BY <1>1, <1>2, <1>3, SameRows DEF MethodStep, Proceeds

LEMMA ResumeMoves ==
  ASSUME MethodInv, RowsInv, Resume, UNCHANGED photos
  PROVE  MethodStep
<1>1. Underway /\ DOMAIN op = Fields
  BY AtMethod, UnderwayFields DEF Resume, Resting
<1>2. faults' \in {faults, faults + 1} /\ UNCHANGED <<rows, retries, proposals>>
  BY DEF Resume, Native
<1>3. Moves
  <2>1. PICK st, status : op' = [op EXCEPT !.pc = "store", !.status = status, !.st = st]
    BY DEF Resume, Native
  <2>2. QED  BY <1>1, <2>1 DEF Moves, Fields, Resting, Preparing
<1>4. QED  BY <1>1, <1>2, <1>3, SameRows DEF MethodStep, Proceeds

LEMMA CarrierMoves ==
  ASSUME MethodInv, RowsInv, Carrier, UNCHANGED photos
  PROVE  MethodStep
<1>1. Underway /\ DOMAIN op = Fields
  BY AtMethod, UnderwayFields DEF Carrier, Resting
<1>2. faults' \in {faults, faults + 1} /\ UNCHANGED <<rows, retries, proposals>>
  BY DEF Carrier
<1>3. Moves
  <2>1. PICK st, status, ops : Close(st, status, ops)
    BY DEF Carrier
  <2>2. QED  BY <1>1, <2>1, CloseMoves
<1>4. QED  BY <1>1, <1>2, <1>3, SameRows DEF MethodStep, Proceeds

LEMMA RetryDoneMoves ==
  ASSUME MethodInv, RowsInv, RetryDone, UNCHANGED photos
  PROVE  MethodStep
<1>1. Underway /\ DOMAIN op = Fields
  BY AtMethod, UnderwayFields DEF RetryDone, Resting
<1>2. faults' \in {faults, faults + 1} /\ UNCHANGED <<rows, retries, proposals>>
  BY DEF RetryDone
<1>3. Moves
  <2>1. PICK st, status, ops : Close(st, status, ops)
    BY DEF RetryDone
  <2>2. QED  BY <1>1, <2>1, CloseMoves
<1>4. QED  BY <1>1, <1>2, <1>3, SameRows DEF MethodStep, Proceeds

-----------------------------------------------------------------------------
(* What the steps of a method leave as it was. *)

LEMMA StateOnlyRow ==
  ASSUME NEW r, NEW q, RowShape(r), StateOnly(r, q)
  PROVE  RowShape(q) /\ q.at = r.at /\ q.result = r.result
<1>1. PICK st : q = [r EXCEPT !.state = st]
  BY DEF StateOnly
<1>2. r = [at |-> r.at, for |-> r.for, result |-> r.result, state |-> r.state]
  BY DEF RowShape
<1>3. q = [at |-> r.at, for |-> r.for, result |-> r.result, state |-> st]
  BY <1>1, <1>2
<1>4. QED  BY <1>3 DEF RowShape

LEMMA RowsCarried ==
  ASSUME RowsInv, RowsKept
  PROVE  /\ \A e \in Events :
              /\ RowShape(rows'[e])
              /\ rows'[e].at = rows[e].at /\ rows'[e].result = rows[e].result
              /\ rows'[e] = NoRow \/ rows'[e].at > 0
              /\ rows[e] # NoRow => rows'[e] # NoRow
         /\ \A r \in Retries : RowShape(retries'[r]) /\ retries'[r].at = retries[r].at
<1>1. ASSUME NEW e \in Events
      PROVE  /\ RowShape(rows'[e])
             /\ rows'[e].at = rows[e].at /\ rows'[e].result = rows[e].result
             /\ rows'[e] = NoRow \/ rows'[e].at > 0
             /\ rows[e] # NoRow => rows'[e] # NoRow
  <2>1. CASE rows'[e] = rows[e]
    BY <2>1 DEF RowsInv
  <2>2. CASE rows[e].at > 0 /\ StateOnly(rows[e], rows'[e])
    <3>1. RowShape(rows'[e]) /\ rows'[e].at = rows[e].at /\ rows'[e].result = rows[e].result
      BY <2>2, StateOnlyRow DEF RowsInv
    <3>2. rows'[e] # NoRow
      BY <2>2, <3>1 DEF NoRow
    <3>3. QED  BY <2>2, <3>1, <3>2
  <2>3. QED  BY <2>1, <2>2 DEF RowsKept
<1>2. ASSUME NEW r \in Retries
      PROVE  RowShape(retries'[r]) /\ retries'[r].at = retries[r].at
  BY StateOnlyRow DEF RowsInv, RowsKept
<1>3. QED  BY <1>1, <1>2

LEMMA KeptAts ==
  ASSUME \A e \in Events : rows'[e].at = rows[e].at,
         \A r \in Retries : retries'[r].at = retries[r].at
  PROVE  Ats' = Ats
<1>1. Ats = {rows[e].at : e \in Events} \cup {retries[r].at : r \in Retries}
  BY DEF Ats, Table
<1>2. Ats' = {rows'[e].at : e \in Events} \cup {retries'[r].at : r \in Retries}
  BY DEF Ats, Table
<1>3. QED  BY <1>1, <1>2

LEMMA KeptTables ==
  ASSUME TableInv, Proceeds
  PROVE  TableInv'
<1>1. RowsInv'
  <2>1. RowsInv /\ RowsKept /\ faults' \in {faults, faults + 1}
    BY DEF TableInv, Proceeds
  <2>2. \A e \in Events : RowShape(rows'[e]) /\ (rows'[e] = NoRow \/ rows'[e].at > 0)
    BY <2>1, RowsCarried
  <2>3. \A r \in Retries : RowShape(retries'[r])
    BY <2>1, RowsCarried
  <2>4. faults' \in Nat
    BY <2>1 DEF RowsInv
  <2>5. rows' = [e \in Events |-> rows'[e]] /\ retries' = [r \in Retries |-> retries'[r]]
    BY <2>1 DEF RowsKept
  <2>6. QED  BY <2>2, <2>3, <2>4, <2>5 DEF RowsInv, RowShape, NoRow
<1>2. ProposalsInv' /\ PhotosInv'
  BY DEF TableInv, ProposalsInv, PhotosInv, Proceeds
<1>3. TopInv'
  <2>1. RowsInv /\ RowsKept /\ TopInv
    BY DEF TableInv, Proceeds
  <2>2. Ats' = Ats
    BY <2>1, RowsCarried, KeptAts
  <2>3. QED  BY <2>1, <2>2 DEF TopInv
<1>4. QED  BY <1>1, <1>2, <1>3 DEF TableInv

(* Whatever does not change a photo leaves the chain alone. *)
LEMMA KeptChain ==
  ASSUME NoCircle, SoleSuccessor, UNCHANGED photos
  PROVE  NoCircle' /\ SoleSuccessor'
BY DEF NoCircle, SoleSuccessor, Attached, Parent, Successors, Analysis

LEMMA KeptBindings ==
  ASSUME TableInv, MethodInv, ConfirmedIsTold, HeldInv, Proceeds
  PROVE  ConfirmedIsTold' /\ HeldInv'
<1>0. RowsInv /\ RowsKept /\ UNCHANGED <<proposals, photos>>
  BY DEF TableInv, Proceeds
<1>1. ConfirmedIsTold'
  <2>1. \A e \in Events :
          rows'[e].result = rows[e].result /\ (rows[e] # NoRow => rows'[e] # NoRow)
    BY <1>0, RowsCarried
  <2>2. QED  BY <1>0, <2>1 DEF ConfirmedIsTold, NoRow
<1>2. HeldInv'
  <2> SUFFICES ASSUME NEW p \in Photos, NEW e, e = photos[p].proposal
               PROVE  /\ e # None => proposals[e].photo = p
                      /\ photos[p].event # None => photos[p].event = e /\ rows'[e].at > 0
    BY DEF HeldInv, Proceeds
  <2>1. photos[p].event # None => e \in Events
    BY PhotoAssumption DEF TableInv, PhotosInv, PhotoShape, HeldInv
  <2>2. \A f \in Events : rows'[f].at = rows[f].at
    BY <1>0, RowsCarried
  <2>3. QED  BY <2>1, <2>2 DEF HeldInv
<1>3. QED  BY <1>1, <1>2

LEMMA MethodSteps ==
  ASSUME PhotoInv, MethodStep
  PROVE  PhotoInv'
<1> USE DEF PhotoInv
<1>1. TableInv' /\ NoCircle' /\ SoleSuccessor' /\ ConfirmedIsTold' /\ HeldInv'
  BY KeptTables, KeptChain, KeptBindings DEF MethodStep, Proceeds
<1>2. Underway'
  <2>1. RowsInv /\ RowsKept /\ UNCHANGED proposals
    BY DEF TableInv, MethodStep, Proceeds
  <2>2. \A e \in Events : rows'[e].at = rows[e].at /\ rows'[e].result = rows[e].result
    BY <2>1, RowsCarried
  <2>3. QED  BY <2>1, <2>2 DEF MethodStep, Underway, Running, Moves, Resting, Preparing, Fields, Afters
<1>3. NamedInv'
  BY DEF MethodStep, Proceeds, NamedInv, Underway, Resting, TableInv, RowsInv
<1>4. QED  BY <1>1, <1>2, <1>3 DEF MethodInv

-----------------------------------------------------------------------------
(* Steps that change nothing of it, and the end of a method. *)

LEMMA QuietSteps ==
  ASSUME PhotoInv, UNCHANGED <<rows, retries, proposals, op, faults, photos>>
  PROVE  PhotoInv'
<1> USE DEF PhotoInv
<1>1. TableInv'
  BY DEF TableInv, RowsInv, ProposalsInv, PhotosInv, TopInv, Ats, Table
<1>2. MethodInv'
  BY DEF MethodInv, Underway, Confirming, Binding, Running
<1>3. ConfirmedIsTold' /\ HeldInv' /\ NamedInv'
  BY DEF ConfirmedIsTold, HeldInv, NamedInv
<1>4. QED  BY <1>1, <1>2, <1>3, KeptChain

LEMMA IdleSteps ==
  ASSUME PhotoInv, Proceeds, op' = Idle, op.pc = "bind" => faults' # faults
  PROVE  PhotoInv'
<1> USE DEF PhotoInv
<1>1. TableInv' /\ NoCircle' /\ SoleSuccessor' /\ ConfirmedIsTold' /\ HeldInv'
  BY KeptTables, KeptChain, KeptBindings DEF Proceeds
<1>2. MethodInv'
  BY DEF MethodInv, Idle
<1>3. NamedInv'
  BY DEF Proceeds, NamedInv, TableInv, RowsInv
<1>4. QED  BY <1>1, <1>2, <1>3

LEMMA CrashStep ==
  ASSUME PhotoInv, Crash, UNCHANGED photos
  PROVE  PhotoInv'
<1>1. Proceeds /\ faults' # faults
  BY SameRows DEF Crash, Proceeds, PhotoInv, TableInv, RowsInv
<1>2. QED  BY <1>1, IdleSteps DEF Crash

LEMMA ReconcileStep ==
  ASSUME PhotoInv, NEW e \in Events, Reconcile(e), UNCHANGED photos
  PROVE  PhotoInv'
<1>1. PICK st :
      /\ op = Idle /\ op' = Idle /\ rows[e] # NoRow
      /\ rows' = [rows EXCEPT ![e].state = st]
      /\ UNCHANGED <<retries, proposals, faults>>
  BY DEF Reconcile
<1>2. rows[e].at > 0
  BY <1>1 DEF PhotoInv, TableInv, RowsInv
<1>3. RowsKept
  <2>1. rows = [x \in Events |-> rows[x]] /\ retries = [r \in Retries |-> retries[r]]
    BY DEF PhotoInv, TableInv, RowsInv
  <2>2. /\ rows' = [x \in Events |-> rows'[x]]
        /\ \A x \in Events : rows'[x] = rows[x] \/ (x = e /\ StateOnly(rows[x], rows'[x]))
    <3>1. StatePut(rows, rows', e, st)
      BY <1>1 DEF StatePut
    <3>2. QED  BY <2>1, <3>1, StateSet
  <2>3. QED  BY <1>1, <1>2, <2>1, <2>2 DEF RowsKept
<1>4. QED  BY <1>1, <1>3, IdleSteps DEF Proceeds, Idle

ResultPut(r, q, x, y) == q = [r EXCEPT !.result = x, !.state = y]
LEMMA RowSet ==
  ASSUME NEW r, RowShape(r), NEW x, NEW y, NEW q, ResultPut(r, q, x, y)
  PROVE  RowShape(q) /\ q.at = r.at /\ q.result = x
<1>1. r = [at |-> r.at, for |-> r.for, result |-> r.result, state |-> r.state]
  BY DEF RowShape
<1>2. q = [at |-> r.at, for |-> r.for, result |-> x, state |-> y]
  BY <1>1 DEF ResultPut
<1>3. QED  BY <1>2 DEF RowShape

LEMMA StoreStep ==
  ASSUME PhotoInv, Store, UNCHANGED photos
  PROVE  PhotoInv'
<1> USE DEF PhotoInv
<1>1. Underway
  BY AtMethod DEF Store, Resting
<1>2. /\ IF op.retry = None
         THEN /\ rows' = [rows EXCEPT ![op.id].result = op.status, ![op.id].state = op.st]
              /\ UNCHANGED retries
         ELSE /\ retries' = [retries EXCEPT ![op.retry].result = op.status,
                                            ![op.retry].state = op.st]
              /\ UNCHANGED rows
      /\ op' = IF op.proposal THEN [op EXCEPT !.pc = "confirm"] ELSE Idle
      /\ UNCHANGED <<proposals, faults, photos>>
  BY DEF Store
<1>3. /\ rows' = [e \in Events |-> rows'[e]]
      /\ \A e \in Events :
           /\ RowShape(rows'[e]) /\ rows'[e].at = rows[e].at
           /\ rows'[e] = rows[e] \/ rows[e].at > 0
           /\ IF op.retry = None /\ e = op.id THEN rows'[e].result = op.status
              ELSE rows'[e] = rows[e]
  <2>1. CASE op.retry = None
    <3>1. op.id \in Events /\ rows[op.id].at > 0
      BY <1>1, <2>1 DEF Underway, Running
    <3>2. rows' = [e \in Events |->
                     IF e = op.id THEN [rows[op.id] EXCEPT !.result = op.status, !.state = op.st]
                     ELSE rows[e]]
      BY <1>2, <2>1 DEF TableInv, RowsInv
    <3>3. \A e \in Events : RowShape(rows[e])
      BY DEF TableInv, RowsInv
    <3>4. ResultPut(rows[op.id], rows'[op.id], op.status, op.st)
      BY <3>1, <3>2 DEF ResultPut
    <3>5. RowShape(rows'[op.id]) /\ rows'[op.id].at = rows[op.id].at
          /\ rows'[op.id].result = op.status
      BY <3>1, <3>3, <3>4, RowSet
    <3>6. QED  BY <2>1, <3>1, <3>2, <3>3, <3>5
  <2>2. CASE op.retry # None
    BY <1>2, <2>2 DEF TableInv, RowsInv
  <2>3. QED  BY <2>1, <2>2
<1>4. /\ retries' = [r \in Retries |-> retries'[r]]
      /\ \A r \in Retries : RowShape(retries'[r]) /\ retries'[r].at = retries[r].at
  <2>1. CASE op.retry = None
    BY <1>2, <2>1 DEF TableInv, RowsInv
  <2>2. CASE op.retry # None
    <3>1. retries' = [r \in Retries |->
                        IF r = op.retry
                        THEN [retries[r] EXCEPT !.result = op.status, !.state = op.st]
                        ELSE retries[r]]
      BY <1>2, <2>2 DEF TableInv, RowsInv
    <3>2. \A r \in Retries : RowShape(retries[r])
      BY DEF TableInv, RowsInv
    <3>3. ASSUME NEW r \in Retries
          PROVE  RowShape(retries'[r]) /\ retries'[r].at = retries[r].at
      <4>1. retries'[r] = retries[r] \/ ResultPut(retries[r], retries'[r], op.status, op.st)
        BY <3>1 DEF ResultPut
      <4>2. QED  BY <3>2, <4>1, RowSet
    <3>4. QED  BY <3>1, <3>3
  <2>3. QED  BY <2>1, <2>2
<1>5. TableInv'
  <2>1. RowsInv'
    <3>1. \A e \in Events : rows'[e] = NoRow \/ rows'[e].at > 0
      BY <1>3 DEF TableInv, RowsInv
    <3>2. faults' \in Nat
      BY <1>2 DEF TableInv, RowsInv
    <3>3. QED  BY <1>3, <1>4, <3>1, <3>2 DEF RowsInv, RowShape, NoRow
  <2>2. TopInv'
    BY <1>3, <1>4, KeptAts DEF TableInv, TopInv
  <2>3. ProposalsInv' /\ PhotosInv'
    BY <1>2 DEF TableInv, ProposalsInv, PhotosInv
  <2>4. QED  BY <2>1, <2>2, <2>3 DEF TableInv
<1>6. ConfirmedIsTold'
  BY <1>1, <1>2, <1>3 DEF ConfirmedIsTold, Underway, NoRow
<1>7. HeldInv'
  <2>1. ASSUME NEW p \in Photos, photos[p].event # None PROVE photos[p].event \in Events
    BY <2>1, PhotoAssumption DEF TableInv, PhotosInv, PhotoShape, HeldInv
  <2>2. QED  BY <1>2, <1>3, <2>1 DEF HeldInv
<1>8. MethodInv'
  <2>1. CASE op.proposal
    <3>1. op.retry = None /\ op.id \in Events /\ rows[op.id].at > 0 /\ DOMAIN op = Fields
      BY <1>1, <2>1 DEF Underway, Running
    <3>2. op' = [op EXCEPT !.pc = "confirm"] /\ rows'[op.id].result = op.status /\ rows'[op.id].at > 0
      BY <1>2, <1>3, <2>1, <3>1
    <3>3. QED  BY <1>1, <3>1, <3>2 DEF MethodInv, Confirming, Underway, Running, Fields, Preparing
  <2>2. CASE ~op.proposal
    BY <1>2, <2>2 DEF MethodInv, Idle
  <2>3. QED  BY <2>1, <2>2
<1>9. NamedInv'
  BY <1>1, <1>2 DEF NamedInv, Underway, Resting
<1>10. QED  BY <1>2, <1>5, <1>6, <1>7, <1>8, <1>9, KeptChain

-----------------------------------------------------------------------------
(* A new row gets the greatest insertion number of both tables. *)

LEMMA NextAtTop ==
  ASSUME RowsInv, TopInv, Ats # {}
  PROVE  NextAt \in Nat /\ NextAt > 0 /\ \A a \in Ats : a <= NextAt
<1>1. Ats \subseteq Nat
  BY DEF Ats, Table, RowsInv, RowShape
<1>2. PICK m \in Ats : \A a \in Ats : a <= m
  BY DEF TopInv
<1> DEFINE max == CHOOSE x \in Ats : \A y \in Ats : x >= y
<1>3. max \in Ats /\ \A y \in Ats : max >= y
  BY <1>1, <1>2
<1>4. NextAt = 1 + max
  BY DEF NextAt, Max, Ats
<1> HIDE DEF max
<1>5. QED  BY <1>1, <1>3, <1>4

LEMMA TopOfNew ==
  ASSUME RowsInv, TopInv, Ats # {}, NextAt \in Ats', Ats' \subseteq Ats \cup {NextAt}
  PROVE  TopInv'
BY NextAtTop DEF TopInv

NewRow == [NoRow EXCEPT !.at = NextAt]

LEMMA InsertKeeps ==
  ASSUME PhotoInv, NEW e \in Events, rows[e] = NoRow, InsertRow(e),
         UNCHANGED <<retries, proposals, faults, photos>>
  PROVE  /\ TableInv' /\ ConfirmedIsTold' /\ HeldInv'
         /\ rows'[e].at > 0 /\ rows'[e].result = None /\ proposals[e].result = None
<1> USE DEF PhotoInv
<1>1. rows' = [x \in Events |-> IF x = e THEN NewRow ELSE rows[x]]
  BY DEF InsertRow, NewRow, TableInv, RowsInv
<1>2. Ats # {} /\ RowsInv /\ TopInv
  BY DEF TableInv, Ats, Table
<1>3. NextAt \in Nat /\ NextAt > 0
  BY <1>2, NextAtTop
<1>4. NewRow = [at |-> NextAt, for |-> None, result |-> None, state |-> None]
  BY DEF NewRow, NoRow
<1>5. RowShape(NewRow) /\ NewRow.at = NextAt /\ NewRow.result = None
  BY <1>3, <1>4 DEF RowShape
<1> HIDE DEF NewRow
<1>6. RowsInv'
  <2>1. \A x \in Events : RowShape(rows'[x]) /\ (rows'[x] = NoRow \/ rows'[x].at > 0)
    BY <1>1, <1>2, <1>3, <1>5 DEF RowsInv
  <2>2. rows' = [x \in Events |-> rows'[x]]
    BY <1>1
  <2>3. QED  BY <1>2, <2>1, <2>2 DEF RowsInv, RowShape, NoRow
<1>7. TopInv'
  <2>1. Ats = {rows[x].at : x \in Events} \cup {retries[r].at : r \in Retries}
    BY DEF Ats, Table
  <2>2. Ats' = {rows'[x].at : x \in Events} \cup {retries[r].at : r \in Retries}
    BY DEF Ats, Table
  <2>3. rows'[e].at = NextAt /\ \A x \in Events : rows'[x].at \in {rows[x].at, NextAt}
    BY <1>1, <1>5
  <2>4. QED  BY <1>2, <2>1, <2>2, <2>3, TopOfNew
<1>8. TableInv'
  BY <1>6, <1>7 DEF TableInv, ProposalsInv, PhotosInv
<1>9. rows'[e].at > 0 /\ rows'[e].result = None
  BY <1>1, <1>3, <1>5
<1>10. proposals[e].result = None
  BY DEF ConfirmedIsTold, NoRow
<1>11. ConfirmedIsTold'
  BY <1>1, <1>10 DEF ConfirmedIsTold, NoRow
<1>12. HeldInv'
  <2>1. ASSUME NEW p \in Photos, photos[p].event # None
        PROVE  photos[p].event \in Events \ {e}
    BY <2>1, PhotoAssumption DEF TableInv, PhotosInv, PhotoShape, HeldInv, NoRow
  <2>2. QED  BY <1>1, <2>1 DEF HeldInv
<1>13. QED  BY <1>8, <1>9, <1>10, <1>11, <1>12

LEMMA InsertStep ==
  ASSUME PhotoInv, op = Idle, NEW e \in Events, rows[e] = NoRow, InsertRow(e),
         NEW flag \in BOOLEAN, op' = Method(e, None, flag),
         UNCHANGED <<retries, proposals, faults, photos>>
  PROVE  PhotoInv'
<1>1. /\ TableInv' /\ ConfirmedIsTold' /\ HeldInv'
      /\ rows'[e].at > 0 /\ rows'[e].result = None /\ proposals[e].result = None
  BY InsertKeeps
<1>2. DOMAIN op' = Fields /\ op'.pc = "read" /\ op'.id = e /\ op'.retry = None /\ op'.proposal = flag
  BY DEF Method, Fields
<1>3. MethodInv'
  BY <1>1, <1>2 DEF MethodInv, Underway, Running, Resting, Preparing, Fields
<1>4. NamedInv'
  BY DEF PhotoInv, NamedInv, Idle
<1>5. QED  BY <1>1, <1>3, <1>4, KeptChain DEF PhotoInv

LEMMA RecordEventStep ==
  ASSUME PhotoInv, NEW e \in Events, RecordEvent(e), UNCHANGED photos
  PROVE  PhotoInv'
BY InsertStep DEF RecordEvent

LEMMA RetryAllocationStep ==
  ASSUME PhotoInv, NEW r \in Retries, RetryAllocation(r), UNCHANGED photos
  PROVE  PhotoInv'
<1> USE DEF PhotoInv
<1>0. PICK ev : retries' = [retries EXCEPT ![r] = [NoRow EXCEPT !.at = NextAt, !.for = ev]]
  BY DEF RetryAllocation
<1> DEFINE new == [NoRow EXCEPT !.at = NextAt, !.for = ev]
<1>1. /\ retries' = [x \in Retries |-> IF x = r THEN new ELSE retries[x]]
      /\ UNCHANGED <<rows, proposals, faults, photos>> /\ op = Idle
  BY <1>0 DEF RetryAllocation, TableInv, RowsInv
<1>2. Ats # {} /\ RowsInv /\ TopInv
  BY DEF TableInv, Ats, Table
<1>3. NextAt \in Nat
  BY <1>2, NextAtTop
<1>4. new = [at |-> NextAt, for |-> ev, result |-> None, state |-> None]
  <2>1. ASSUME NEW q, q = new PROVE q = [at |-> NextAt, for |-> ev, result |-> None, state |-> None]
    BY <2>1 DEF NoRow
  <2>2. QED  BY <2>1
<1> HIDE DEF new
<1>5. RowShape(new) /\ new.at = NextAt
  BY <1>3, <1>4 DEF RowShape
<1>6. RowsInv'
  BY <1>1, <1>2, <1>5 DEF RowsInv, RowShape, NoRow
<1>7. TopInv'
  <2>1. Ats = {rows[x].at : x \in Events} \cup {retries[x].at : x \in Retries}
    BY DEF Ats, Table
  <2>2. Ats' = {rows[x].at : x \in Events} \cup {retries'[x].at : x \in Retries}
    BY <1>1 DEF Ats, Table
  <2>3. retries'[r].at = NextAt /\ \A x \in Retries : retries'[x].at \in {retries[x].at, NextAt}
    BY <1>1, <1>5
  <2>4. QED  BY <1>2, <2>1, <2>2, <2>3, TopOfNew
<1>8. TableInv'
  BY <1>1, <1>6, <1>7 DEF TableInv, ProposalsInv, PhotosInv
<1>9. DOMAIN op' = Fields /\ op'.pc = "read" /\ op'.retry = r /\ op'.proposal = FALSE /\ r # None
  BY PhotoAssumption DEF RetryAllocation, Method, Fields
<1>10. MethodInv'
  BY <1>9 DEF MethodInv, Underway, Running, Resting, Preparing, Fields
<1>11. ConfirmedIsTold' /\ HeldInv' /\ NamedInv'
  BY <1>1 DEF ConfirmedIsTold, HeldInv, NamedInv, Idle
<1>12. QED  BY <1>1, <1>8, <1>10, <1>11, KeptChain

-----------------------------------------------------------------------------
(* Approvals and proposals. *)

ResultOnly(a, b) == \E x : b = [a EXCEPT !.result = x]

LEMMA ResultOnlyProposal ==
  ASSUME NEW a, NEW b, ProposalShape(a), ResultOnly(a, b)
  PROVE  ProposalShape(b) /\ b.photo = a.photo
<1>1. PICK x : b = [a EXCEPT !.result = x]
  BY DEF ResultOnly
<1>2. a = [revision |-> a.revision, source |-> a.source, photo |-> a.photo, result |-> a.result]
  BY DEF ProposalShape
<1>3. b = [revision |-> a.revision, source |-> a.source, photo |-> a.photo, result |-> x]
  BY <1>1, <1>2
<1>4. QED  BY <1>3 DEF ProposalShape

(* A confirmation tells what the row holds, and leaves the method at rest. *)
LEMMA ConfirmStep ==
  ASSUME PhotoInv, NEW e \in Events, NEW status, Confirm(e, status),
         \/ status = rows[e].result
         \/ status = "UNKNOWN_OUTCOME" /\ rows[e].at > 0 /\ rows[e].result = None,
         op = Idle \/ op.pc = "confirm", op' = Idle,
         UNCHANGED <<rows, retries, faults, photos>>
  PROVE  PhotoInv'
<1> USE DEF PhotoInv
<1>1. proposals' = [x \in Events |-> IF x = e THEN [proposals[e] EXCEPT !.result = status]
                                    ELSE proposals[x]]
  BY DEF Confirm, TableInv, ProposalsInv
<1>2. \A x \in Events : ProposalShape(proposals[x])
  BY DEF TableInv, ProposalsInv
<1>3. ResultOnly(proposals[e], proposals'[e])
  BY <1>1 DEF ResultOnly
<1>4. \A x \in Events : ProposalShape(proposals'[x]) /\ proposals'[x].photo = proposals[x].photo
  <2>1. ProposalShape(proposals'[e]) /\ proposals'[e].photo = proposals[e].photo
    BY <1>2, <1>3, ResultOnlyProposal
  <2>2. QED  BY <1>1, <1>2, <2>1
<1>5. proposals'[e].result = status
  <2>1. proposals[e] = [revision |-> proposals[e].revision, source |-> proposals[e].source,
                        photo |-> proposals[e].photo, result |-> proposals[e].result]
    BY <1>2 DEF ProposalShape
  <2>2. QED  BY <1>1, <2>1
<1>6. TableInv'
  <2>1. ProposalsInv'
    BY <1>1, <1>4 DEF ProposalsInv, ProposalShape
  <2>2. RowsInv' /\ PhotosInv' /\ TopInv'
    BY DEF TableInv, RowsInv, PhotosInv, TopInv, Ats, Table
  <2>3. QED  BY <2>1, <2>2 DEF TableInv
<1>7. ConfirmedIsTold'
  BY <1>1, <1>5 DEF ConfirmedIsTold, NoRow
<1>8. HeldInv'
  <2>1. ASSUME NEW p \in Photos, photos[p].proposal # None
        PROVE  photos[p].proposal \in Events
    BY <2>1 DEF TableInv, PhotosInv, PhotoShape
  <2>2. QED  BY <1>4, <2>1 DEF HeldInv
<1>9. NamedInv'
  BY <1>4 DEF NamedInv, Idle
<1>10. QED  BY <1>6, <1>7, <1>8, <1>9, KeptChain DEF MethodInv

LEMMA ConfirmApprovalStep ==
  ASSUME PhotoInv, ConfirmApproval, UNCHANGED photos
  PROVE  PhotoInv'
<1>1. Confirming /\ op.id \in Events /\ rows[op.id].at > 0
  BY DEF PhotoInv, MethodInv, Underway, Confirming, Running, Binding, Resting, Idle, ConfirmApproval
<1>2. QED  BY <1>1, ConfirmStep DEF ConfirmApproval, Confirming

LEMMA ApproveStep ==
  ASSUME PhotoInv, NEW e \in Events, Approve(e), UNCHANGED photos
  PROVE  PhotoInv'
<1>1. op = Idle /\ UNCHANGED <<retries, faults>>
  BY DEF Approve
<1>2. \/ Confirm(e, rows[e].result) /\ UNCHANGED <<rows, op>>
      \/ rows[e] = NoRow /\ InsertRow(e) /\ op' = Method(e, None, TRUE) /\ UNCHANGED proposals
      \/ /\ rows[e] # NoRow /\ rows[e].result = None
         /\ op' = [Method(e, None, TRUE) EXCEPT !.pc = "confirm", !.status = "UNKNOWN_OUTCOME"]
         /\ UNCHANGED <<rows, proposals>>
  BY DEF Approve
<1>3. CASE Confirm(e, rows[e].result) /\ UNCHANGED <<rows, op>>
  BY <1>1, <1>3, ConfirmStep
<1>4. CASE rows[e] = NoRow /\ InsertRow(e) /\ op' = Method(e, None, TRUE) /\ UNCHANGED proposals
  BY <1>1, <1>4, InsertStep
<1>5. CASE /\ rows[e] # NoRow /\ rows[e].result = None
           /\ op' = [Method(e, None, TRUE) EXCEPT !.pc = "confirm", !.status = "UNKNOWN_OUTCOME"]
           /\ UNCHANGED <<rows, proposals>>
  <2> USE DEF PhotoInv
  <2>1. /\ DOMAIN op' = Fields /\ op'.pc = "confirm" /\ op'.id = e /\ op'.retry = None
        /\ op'.proposal = TRUE /\ op'.status = "UNKNOWN_OUTCOME"
    BY <1>5 DEF Method, Fields
  <2>2. rows[e].at > 0
    BY <1>5 DEF TableInv, RowsInv
  <2>3. Confirming'
    BY <1>5, <2>1, <2>2 DEF Confirming, Running, Fields, Preparing
  <2>4. TableInv'
    BY <1>1, <1>5 DEF TableInv, RowsInv, ProposalsInv, PhotosInv, TopInv, Ats, Table
  <2>5. ConfirmedIsTold' /\ HeldInv' /\ NamedInv'
    BY <1>1, <1>5 DEF ConfirmedIsTold, HeldInv, NamedInv, Idle
  <2>6. QED  BY <2>3, <2>4, <2>5, KeptChain DEF MethodInv
<1>6. QED  BY <1>2, <1>3, <1>4, <1>5

(* An event gets one proposal; before it names a photo, no photo holds it. *)
LEMMA NewProposalKeeps ==
  ASSUME PhotoInv, NEW e, NEW source, NEW photo \in Photos \cup {None}, op = Idle,
         e \in Events => proposals[e] = NoProposal,
         NewProposal(e, source, photo), UNCHANGED <<rows, retries, faults, photos>>
  PROVE  /\ TableInv' /\ ConfirmedIsTold' /\ HeldInv'
         /\ \A x \in Events : proposals'[x].photo = IF x = e THEN photo ELSE proposals[x].photo
<1> USE DEF PhotoInv
<1>1. PICK rev : proposals' = [x \in Events |->
                     IF x = e THEN [revision |-> rev, source |-> source, photo |-> photo,
                                    result |-> None]
                     ELSE proposals[x]]
  BY DEF NewProposal, Proposal, TableInv, ProposalsInv
<1>2. TableInv'
  <2>1. ProposalsInv'
    BY <1>1 DEF TableInv, ProposalsInv, ProposalShape
  <2>2. RowsInv' /\ PhotosInv' /\ TopInv'
    BY DEF TableInv, RowsInv, PhotosInv, TopInv, Ats, Table
  <2>3. QED  BY <2>1, <2>2 DEF TableInv
<1>3. ConfirmedIsTold'
  BY <1>1 DEF ConfirmedIsTold
<1>4. \A x \in Events : proposals'[x].photo = IF x = e THEN photo ELSE proposals[x].photo
  BY <1>1
<1>5. HeldInv'
  <2>1. ASSUME NEW p \in Photos, photos[p].proposal # None
        PROVE  photos[p].proposal \in Events \ {e}
    BY <2>1, PhotoAssumption DEF TableInv, PhotosInv, PhotoShape, HeldInv, NoProposal
  <2>2. QED  BY <1>4, <2>1 DEF HeldInv
<1>6. QED  BY <1>2, <1>3, <1>4, <1>5

LEMMA ProposalStep ==
  ASSUME PhotoInv, NEW e, NEW source, op = Idle, proposals[e] = NoProposal,
         NewProposal(e, source, None), UNCHANGED <<rows, retries, op, faults, photos>>
  PROVE  PhotoInv'
<1>1. /\ TableInv' /\ ConfirmedIsTold' /\ HeldInv'
      /\ \A x \in Events : proposals'[x].photo = IF x = e THEN None ELSE proposals[x].photo
  BY NewProposalKeeps
<1>2. NamedInv'
  BY <1>1 DEF PhotoInv, NamedInv, Idle
<1>3. QED  BY <1>1, <1>2, KeptChain DEF PhotoInv, MethodInv

LEMMA PrepareAnswerStep ==
  ASSUME PhotoInv, PrepareAnswer, UNCHANGED photos
  PROVE  PhotoInv'
<1>1. CASE UNCHANGED proposals
  BY <1>1, QuietSteps DEF PrepareAnswer
<1>2. CASE \E source : MayPropose(turn.event) /\ NewProposal(turn.event, source, None)
  BY <1>2, ProposalStep DEF PrepareAnswer, MayPropose
<1>3. QED  BY <1>1, <1>2 DEF PrepareAnswer

LEMMA PrepareStep ==
  ASSUME PhotoInv, PrepareEconomic \/ \E e \in Events : PrepareProposal(e), UNCHANGED photos
  PROVE  PhotoInv'
BY ProposalStep DEF PrepareEconomic, PrepareProposal, MayPropose

-----------------------------------------------------------------------------
(* Steps of the photos. *)

LEMMA ShapeOfPhoto ==
  ASSUME NEW image, image # None, NEW proposal \in Events \cup {None}, NEW event,
         NEW analysis, AnalysisShape(analysis), NEW x,
         x = [image |-> image, proposal |-> proposal, event |-> event, analysis |-> analysis]
  PROVE  PhotoShape(x)
<1>1. /\ x.image = image /\ x.proposal = proposal /\ x.event = event /\ x.analysis = analysis
  OBVIOUS
<1>2. QED  BY <1>1 DEF PhotoShape

LEMMA AttachedImages ==
  ASSUME PhotosInv
  PROVE  Attached = {p \in Photos : photos[p].image # None}
BY DEF PhotosInv, PhotoShape, Attached, NoPhoto

LEMMA AttachedImagesAfter ==
  ASSUME PhotosInv'
  PROVE  Attached' = {p \in Photos : photos'[p].image # None}
BY DEF PhotosInv, PhotoShape, Attached, NoPhoto

(* A photo changed in its bindings only: the chain is what it was. *)
LEMMA SameAnalyses ==
  ASSUME PhotosInv, PhotosInv', NoCircle, SoleSuccessor,
         \A p \in Photos : /\ photos'[p].image = photos[p].image
                           /\ photos'[p].analysis = photos[p].analysis
  PROVE  NoCircle' /\ SoleSuccessor'
<1>1. Attached' = Attached /\ Attached \subseteq Photos
  BY AttachedImages, AttachedImagesAfter
<1>3. \A p \in Attached : photos'[p].analysis = photos[p].analysis
  BY <1>1
<1>4. NoCircle'
  BY <1>1, <1>3 DEF NoCircle, Parent, Analysis
<1>5. SoleSuccessor'
  BY <1>1, <1>3 DEF SoleSuccessor, Successors, Parent, Analysis
<1>6. QED  BY <1>4, <1>5

LEMMA AttachStep ==
  ASSUME PhotoInv, NEW p \in Photos, AttachPhoto(p)
  PROVE  PhotoInv'
<1> USE DEF PhotoInv
<1>1. /\ photos[p] = NoPhoto /\ Image[p] # None
      /\ photos' = [x \in Photos |-> IF x = p THEN [NoPhoto EXCEPT !.image = Image[p]] ELSE photos[x]]
      /\ UNCHANGED <<rows, retries, proposals, op, faults>>
  BY PhotoAssumption DEF AttachPhoto, Attached, operationVars, TableInv, PhotosInv
<1> DEFINE new == [image |-> Image[p], proposal |-> None, event |-> None, analysis |-> NoAnalysis]
<1>2. photos' = [x \in Photos |-> IF x = p THEN new ELSE photos[x]]
  BY <1>1 DEF NoPhoto
<1>3. PhotosInv'
  <2>1. AnalysisShape(NoAnalysis)
    BY DEF AnalysisShape, NoAnalysis
  <2>2. PhotoShape(new)
    BY <1>1, <2>1, ShapeOfPhoto
  <2>3. \A x \in Photos : PhotoShape(photos'[x])
    BY <1>2, <2>2 DEF TableInv, PhotosInv
  <2>4. QED  BY <1>2, <2>3 DEF PhotosInv, PhotoShape, AnalysisShape, NoPhoto, NoAnalysis
<1>4. TableInv'
  BY <1>1, <1>3 DEF TableInv, RowsInv, ProposalsInv, TopInv, Ats, Table
<1>5. ConfirmedIsTold' /\ HeldInv'
  BY <1>1, <1>2 DEF ConfirmedIsTold, HeldInv
<1>6. MethodInv'
  <2>1. op = Idle
    BY DEF AttachPhoto
  <2>2. QED  BY <1>1, <2>1 DEF MethodInv
<1>7. NamedInv'
  <2>1. \A e \in Events : proposals[e].photo \in Photos \cup {None}
    BY DEF TableInv, ProposalsInv, ProposalShape
  <2>2. ASSUME NEW e \in Events, photos[p].proposal = e PROVE FALSE
    BY <1>1, <2>2, PhotoAssumption DEF NoPhoto
  <2>3. QED  BY <1>1, <1>2, <2>1, <2>2 DEF NamedInv
<1>8. NoCircle' /\ SoleSuccessor'
  <2>1. Attached' = Attached \cup {p} /\ p \notin Attached /\ Attached \subseteq Photos
    BY <1>1, <1>2, <1>3, AttachedImages, AttachedImagesAfter DEF TableInv, NoPhoto
  <2>2. /\ \A x \in Attached : photos'[x] = photos[x]
        /\ photos'[p].analysis = NoAnalysis
    BY <1>2, <2>1
  <2>3. NoCircle'
    <3> SUFFICES ASSUME NEW S \in SUBSET (Attached \cup {p}), S # {},
                        \A x \in S : photos'[x].analysis.supersedes \in S
                 PROVE  FALSE
      BY <2>1 DEF NoCircle, Parent, Analysis
    <3>1. p \notin S
      BY <2>1, <2>2, PhotoAssumption DEF NoAnalysis
    <3>2. S \in SUBSET Attached /\ \A x \in S : photos[x].analysis.supersedes \in S
      BY <2>2, <3>1
    <3>3. QED  BY <3>2 DEF NoCircle, Parent, Analysis
  <2>4. SoleSuccessor'
    <3> SUFFICES ASSUME NEW x \in Photos, NEW q \in Successors(x)', NEW r \in Successors(x)'
                 PROVE  q = r
      BY DEF SoleSuccessor
    <3>1. x # None
      BY PhotoAssumption
    <3>2. q \in Attached /\ r \in Attached
      BY <2>1, <2>2, <3>1 DEF Successors, Parent, Analysis, NoAnalysis
    <3>3. q \in Successors(x) /\ r \in Successors(x)
      BY <2>2, <3>2 DEF Successors, Parent, Analysis
    <3>4. QED  BY <3>3 DEF SoleSuccessor
  <2>5. QED  BY <2>3, <2>4
<1>9. QED  BY <1>4, <1>5, <1>6, <1>7, <1>8

LEMMA BindPhotoStep ==
  ASSUME PhotoInv, BindPhoto
  PROVE  PhotoInv'
<1> USE DEF PhotoInv
<1> DEFINE p == proposals[op.id].photo
<1>1. op.pc = "bind" /\ op' = Idle /\ UNCHANGED <<rows, retries, proposals, faults>>
  BY DEF BindPhoto
<1>2. Binding
  BY <1>1 DEF MethodInv, Underway, Confirming, Resting, Idle
<1>3. /\ p \in Photos /\ op.id \in Events
      /\ photos[p].image # None /\ photos[p].proposal = None /\ photos[p].event = None
  BY <1>2 DEF Binding
<1>4. photos' = [x \in Photos |-> IF x = p THEN [photos[p] EXCEPT !.proposal = op.id] ELSE photos[x]]
  BY <1>3 DEF BindPhoto, TableInv, PhotosInv
<1>5. \A x \in Photos : PhotoShape(photos[x])
  BY DEF TableInv, PhotosInv
<1>6. photos'[p] = [image |-> photos[p].image, proposal |-> op.id, event |-> None,
                    analysis |-> photos[p].analysis]
  <2>1. photos[p] = [image |-> photos[p].image, proposal |-> photos[p].proposal,
                     event |-> photos[p].event, analysis |-> photos[p].analysis]
    BY <1>3, <1>5 DEF PhotoShape
  <2>2. photos'[p] = [photos[p] EXCEPT !.proposal = op.id]
    BY <1>3, <1>4
  <2>3. QED  BY <1>3, <2>1, <2>2
<1>7. \A x \in Photos \ {p} : photos'[x] = photos[x]
  BY <1>4
<1> HIDE DEF p
<1>8. PhotosInv'
  <2>1. PhotoShape(photos'[p])
    <3>1. AnalysisShape(photos[p].analysis)
      BY <1>3, <1>5 DEF PhotoShape
    <3>2. QED  BY <1>3, <1>6, <3>1, ShapeOfPhoto
  <2>2. photos' = [x \in Photos |-> photos'[x]]
    BY <1>4
  <2>3. \A x \in Photos : PhotoShape(photos'[x])
    BY <1>5, <1>7, <2>1
  <2>4. QED  BY <2>2, <2>3 DEF PhotosInv, PhotoShape, AnalysisShape, NoPhoto, NoAnalysis
<1>9. TableInv'
  BY <1>1, <1>8 DEF TableInv, RowsInv, ProposalsInv, TopInv, Ats, Table
<1>10. ConfirmedIsTold' /\ MethodInv'
  BY <1>1 DEF ConfirmedIsTold, MethodInv, Idle
<1>11. HeldInv'
  BY <1>1, <1>3, <1>6, <1>7 DEF HeldInv, p
<1>12. NamedInv'
  <2> SUFFICES ASSUME faults = 0, NEW e \in Events, proposals[e].photo # None
               PROVE  photos'[proposals[e].photo].proposal = e
    BY <1>1 DEF NamedInv
  <2>1. proposals[e].photo \in Photos
    BY DEF TableInv, ProposalsInv, ProposalShape
  <2>2. CASE e = op.id
    BY <1>6, <2>2 DEF p
  <2>3. CASE e # op.id
    <3>1. photos[proposals[e].photo].proposal = e
      BY <2>3 DEF NamedInv
    <3>2. proposals[e].photo # p
      BY <1>3, <3>1, PhotoAssumption
    <3>3. QED  BY <1>7, <2>1, <3>1, <3>2
  <2>4. QED  BY <2>2, <2>3
<1>13. NoCircle' /\ SoleSuccessor'
  <2>1. \A x \in Photos : photos'[x].image = photos[x].image /\ photos'[x].analysis = photos[x].analysis
    BY <1>6, <1>7
  <2>2. QED  BY <1>8, <2>1, SameAnalyses DEF TableInv
<1>14. QED  BY <1>9, <1>10, <1>11, <1>12, <1>13

LEMMA BindEventStep ==
  ASSUME PhotoInv, BindEvent
  PROVE  PhotoInv'
<1> USE DEF PhotoInv
<1> DEFINE p == proposals[op.id].photo
<1>1. /\ op.pc = "confirm" /\ UNCHANGED <<rows, retries, proposals, op, faults>>
      /\ p # None /\ photos[p].proposal = op.id
  BY DEF BindEvent, ToBindEvent, operationVars
<1>2. Confirming
  BY <1>1 DEF MethodInv, Underway, Binding, Resting, Idle
<1>3. op.id \in Events /\ rows[op.id].at > 0
  BY <1>2 DEF Confirming, Running
<1>4. p \in Photos
  BY <1>1, <1>3 DEF TableInv, ProposalsInv, ProposalShape
<1>5. photos' = [x \in Photos |-> IF x = p THEN [photos[p] EXCEPT !.event = op.id] ELSE photos[x]]
  BY <1>4 DEF BindEvent, TableInv, PhotosInv
<1>6. \A x \in Photos : PhotoShape(photos[x])
  BY DEF TableInv, PhotosInv
<1>7. photos'[p] = [image |-> photos[p].image, proposal |-> op.id, event |-> op.id,
                    analysis |-> photos[p].analysis]
  <2>1. photos[p] = [image |-> photos[p].image, proposal |-> photos[p].proposal,
                     event |-> photos[p].event, analysis |-> photos[p].analysis]
    BY <1>4, <1>6 DEF PhotoShape
  <2>2. photos'[p] = [photos[p] EXCEPT !.event = op.id]
    BY <1>4, <1>5
  <2>3. QED  BY <1>1, <2>1, <2>2
<1>8. \A x \in Photos \ {p} : photos'[x] = photos[x]
  BY <1>5
<1>9. photos[p].image # None
  <2>1. PhotoShape(photos[p])
    BY <1>4, <1>6
  <2>2. photos[p] # NoPhoto
    BY <1>1, <1>3, PhotoAssumption DEF NoPhoto
  <2>3. QED  BY <2>1, <2>2 DEF PhotoShape
<1> HIDE DEF p
<1>10. PhotosInv'
  <2>1. PhotoShape(photos'[p])
    <3>1. AnalysisShape(photos[p].analysis)
      BY <1>4, <1>6 DEF PhotoShape
    <3>2. QED  BY <1>3, <1>7, <1>9, <3>1, ShapeOfPhoto
  <2>2. photos' = [x \in Photos |-> photos'[x]]
    BY <1>5
  <2>3. \A x \in Photos : PhotoShape(photos'[x])
    BY <1>6, <1>8, <2>1
  <2>4. QED  BY <2>2, <2>3 DEF PhotosInv, PhotoShape, AnalysisShape, NoPhoto, NoAnalysis
<1>11. TableInv'
  BY <1>1, <1>10 DEF TableInv, RowsInv, ProposalsInv, TopInv, Ats, Table
<1>12. ConfirmedIsTold'
  BY <1>1 DEF ConfirmedIsTold
<1>13. MethodInv'
  BY <1>1, <1>2 DEF MethodInv, Confirming, Running
<1>14. HeldInv'
  BY <1>1, <1>3, <1>4, <1>7, <1>8 DEF HeldInv, p
<1>15. NamedInv'
  <2>1. \A x \in Photos : photos'[x].proposal = photos[x].proposal
    BY <1>1, <1>7, <1>8 DEF p
  <2>2. \A e \in Events : proposals[e].photo \in Photos \cup {None}
    BY DEF TableInv, ProposalsInv, ProposalShape
  <2>3. QED  BY <1>1, <2>1, <2>2 DEF NamedInv
<1>16. NoCircle' /\ SoleSuccessor'
  <2>1. \A x \in Photos : photos'[x].image = photos[x].image /\ photos'[x].analysis = photos[x].analysis
    BY <1>7, <1>8
  <2>2. QED  BY <1>10, <2>1, SameAnalyses DEF TableInv
<1>17. QED  BY <1>11, <1>12, <1>13, <1>14, <1>15, <1>16

LEMMA PrepareWithPhotoStep ==
  ASSUME PhotoInv, NEW e \in Events, NEW p \in Photos, PrepareWithPhoto(e, p)
  PROVE  PhotoInv'
<1>1. /\ op = Idle /\ proposals[e] = NoProposal /\ NewProposal(e, "OPERATOR_DECLARED", p)
      /\ p \in Attached /\ photos[p].proposal = None /\ photos[p].event = None
      /\ op' = [pc |-> "bind", id |-> e]
      /\ UNCHANGED <<rows, retries, faults, photos>>
  BY DEF PrepareWithPhoto, MayPropose, Unbound, photoVars
<1>2. /\ TableInv' /\ ConfirmedIsTold' /\ HeldInv'
      /\ \A x \in Events : proposals'[x].photo = IF x = e THEN p ELSE proposals[x].photo
  BY <1>1, NewProposalKeeps
<1>3. photos[p].image # None
  BY <1>1, AttachedImages DEF PhotoInv, TableInv
<1>4. Binding'
  BY <1>1, <1>2, <1>3 DEF Binding
<1>5. NamedInv'
  BY <1>1, <1>2 DEF PhotoInv, NamedInv, Idle
<1>6. QED  BY <1>1, <1>2, <1>4, <1>5, KeptChain DEF PhotoInv, MethodInv

(* The lineage of a photo has it, and with a photo the one it replaces. *)
LEMMA LineageCloses ==
  ASSUME NEW q \in Attached
  PROVE  /\ q \in Lineage(q) /\ Lineage(q) \subseteq Attached
         /\ \A y \in Lineage(q) : Parent(y) \in Attached => Parent(y) \in Lineage(q)
BY DEF Lineage

(* What a new analysis may replace: nothing, or a photo of another line    *)
(* that no other trusted photo replaces.                                   *)
LEMMA MayReplace ==
  ASSUME NEW p, NEW parent, NEW lot, MaySupersede(p, parent, lot)
  PROVE  \/ parent = None
         \/ /\ parent \in Attached /\ parent # p
            /\ Successors(parent) \subseteq {p}
            /\ p \notin Lineage(parent)
BY DEF MaySupersede

LEMMA NewAnalysis ==
  ASSUME PhotosInv, NEW p \in Photos, NEW purpose, NEW requested, NEW parent, NEW readable,
         AnalyzePhoto(p, purpose, requested, parent, readable)
  PROVE  \E a : /\ AnalysisShape(a) /\ a.supersedes = parent
               /\ photos' = [photos EXCEPT ![p].analysis = a]
<1> DEFINE Fits(a) == AnalysisShape(a) /\ a.supersedes = parent
<1>1. ASSUME NEW lot, NEW source PROVE Fits(Unavailable(purpose, lot, source, parent))
  <2>1. ASSUME NEW b, b = Unavailable(purpose, lot, source, parent) PROVE Fits(b)
    <3>1. b = [status |-> "UNAVAILABLE", purpose |-> purpose, lot |-> lot, source |-> source,
               safe |-> FALSE, supersedes |-> parent]
      BY <2>1 DEF Unavailable, NoAnalysis
    <3>2. QED  BY <3>1 DEF AnalysisShape
  <2>2. QED  BY <2>1
<1>2. ASSUME NEW lot, NEW seen PROVE Fits(Completed(purpose, lot, seen, parent))
  BY DEF Completed, AnalysisShape
<1>3. ASSUME NEW lot, NEW a \in CachedAnalyses(p, purpose, lot)
      PROVE  Fits([a EXCEPT !.supersedes = parent])
  <2>1. AnalysisShape(a)
    BY DEF CachedAnalyses, Analysis, Attached, PhotosInv, PhotoShape
  <2>2. a = [status |-> a.status, purpose |-> a.purpose, lot |-> a.lot, source |-> a.source,
             safe |-> a.safe, supersedes |-> a.supersedes]
    BY <2>1 DEF AnalysisShape
  <2>3. ASSUME NEW b, b = [a EXCEPT !.supersedes = parent] PROVE Fits(b)
    <3>1. b = [status |-> a.status, purpose |-> a.purpose, lot |-> a.lot, source |-> a.source,
               safe |-> a.safe, supersedes |-> parent]
      BY <2>2, <2>3
    <3>2. QED  BY <3>1 DEF AnalysisShape
  <2>4. QED  BY <2>3
<1>4. PICK lot : \/ \E source : photos' = [photos EXCEPT ![p].analysis =
                                           Unavailable(purpose, lot, source, parent)]
                 \/ \E seen : photos' = [photos EXCEPT ![p].analysis =
                                         Completed(purpose, lot, seen, parent)]
                 \/ \E a \in CachedAnalyses(p, purpose, lot) :
                      photos' = [photos EXCEPT ![p].analysis = [a EXCEPT !.supersedes = parent]]
  BY DEF AnalyzePhoto
<1> HIDE DEF Fits
<1>5. PICK a : Fits(a) /\ photos' = [photos EXCEPT ![p].analysis = a]
  BY <1>1, <1>2, <1>3, <1>4
<1>6. QED  BY <1>5 DEF Fits

LEMMA AnalyzeStep ==
  ASSUME PhotoInv, NEW p \in Photos, NEW purpose, NEW requested, NEW parent \in Photos \cup {None},
         NEW readable \in BOOLEAN, AnalyzePhoto(p, purpose, requested, parent, readable)
  PROVE  PhotoInv'
<1> USE DEF PhotoInv
<1>1. PICK a : /\ AnalysisShape(a) /\ a.supersedes = parent
               /\ photos' = [photos EXCEPT ![p].analysis = a]
  BY NewAnalysis DEF TableInv
<1>2. PICK lot : MaySupersede(p, parent, lot)
  BY DEF AnalyzePhoto
<1>3. /\ p \in Attached /\ op = Idle /\ op' = Idle
      /\ UNCHANGED <<rows, retries, proposals>> /\ faults' \in {faults, faults + 1}
  BY DEF AnalyzePhoto
<1>4. photos[p].image # None
  BY <1>3, AttachedImages DEF TableInv
<1>5. photos' = [x \in Photos |-> IF x = p THEN [photos[p] EXCEPT !.analysis = a] ELSE photos[x]]
  BY <1>1 DEF TableInv, PhotosInv
<1>6. PhotoShape(photos[p])
  BY DEF TableInv, PhotosInv
<1>7. photos'[p] = [image |-> photos[p].image, proposal |-> photos[p].proposal,
                    event |-> photos[p].event, analysis |-> a]
  <2>1. photos[p] = [image |-> photos[p].image, proposal |-> photos[p].proposal,
                     event |-> photos[p].event, analysis |-> photos[p].analysis]
    BY <1>6 DEF PhotoShape
  <2>2. photos'[p] = [photos[p] EXCEPT !.analysis = a]
    BY <1>5
  <2>3. QED  BY <2>1, <2>2
<1>8. \A x \in Photos \ {p} : photos'[x] = photos[x]
  BY <1>5
<1>9. PhotosInv'
  <2>1. PhotoShape(photos'[p])
    BY <1>1, <1>4, <1>6, <1>7, ShapeOfPhoto DEF PhotoShape
  <2>2. photos' = [x \in Photos |-> photos'[x]]
    BY <1>5
  <2>3. \A x \in Photos : PhotoShape(photos'[x])
    BY <1>8, <2>1 DEF TableInv, PhotosInv
  <2>4. QED  BY <2>2, <2>3 DEF PhotosInv, PhotoShape, AnalysisShape, NoPhoto, NoAnalysis
<1>10. TableInv'
  <2>1. faults' \in Nat
    BY <1>3 DEF TableInv, RowsInv
  <2>2. RowsInv'
    BY <1>3, <2>1 DEF TableInv, RowsInv
  <2>3. ProposalsInv'
    BY <1>3 DEF TableInv, ProposalsInv
  <2>4. Ats' = Ats
    BY <1>3 DEF Ats, Table
  <2>5. TopInv'
    BY <2>4 DEF TableInv, TopInv
  <2>6. QED  BY <1>9, <2>2, <2>3, <2>5 DEF TableInv
<1>11. ConfirmedIsTold' /\ MethodInv'
  BY <1>3 DEF ConfirmedIsTold, MethodInv, Idle
<1>12. \A x \in Photos : /\ photos'[x].image = photos[x].image
                         /\ photos'[x].proposal = photos[x].proposal
                         /\ photos'[x].event = photos[x].event
  BY <1>7, <1>8
<1>13. HeldInv'
  BY <1>3, <1>12 DEF HeldInv
<1>14. NamedInv'
  <2>1. \A e \in Events : proposals[e].photo \in Photos \cup {None}
    BY DEF TableInv, ProposalsInv, ProposalShape
  <2>2. QED  BY <1>3, <1>12, <2>1 DEF NamedInv, Idle, TableInv, RowsInv
<1>15. Attached' = Attached /\ Attached \subseteq Photos
  BY <1>9, <1>12, AttachedImages, AttachedImagesAfter DEF TableInv
<1>16. /\ photos'[p].analysis = a
       /\ \A x \in Photos \ {p} : photos'[x].analysis = photos[x].analysis
  BY <1>7, <1>8
<1>17. NoCircle'
  <2> SUFFICES ASSUME NEW S \in SUBSET Attached, S # {},
                      \A x \in S : photos'[x].analysis.supersedes \in S
               PROVE  FALSE
    BY <1>15 DEF NoCircle, Parent, Analysis
  <2>1. CASE p \notin S
    <3>1. \A x \in S : photos[x].analysis.supersedes \in S
      BY <1>15, <1>16, <2>1
    <3>2. QED  BY <3>1 DEF NoCircle, Parent, Analysis
  <2>2. CASE p \in S
    <3>1. parent \in S /\ parent # None
      BY <1>1, <1>15, <1>16, <2>2, PhotoAssumption
    <3>2. parent \in Attached /\ p \notin Lineage(parent)
      BY <1>2, <3>1, MayReplace
    <3> DEFINE T == S \cap Lineage(parent)
    <3>3. T \in SUBSET Attached /\ T # {} /\ p \notin T
      BY <3>1, <3>2, LineageCloses
    <3>4. ASSUME NEW x \in T PROVE Parent(x) \in T
      <4>1. Parent(x) \in S
        BY <1>15, <1>16, <3>3 DEF Parent, Analysis
      <4>2. QED  BY <3>2, <4>1, LineageCloses
    <3>5. QED  BY <3>3, <3>4 DEF NoCircle
  <2>3. QED  BY <2>1, <2>2
<1>18. SoleSuccessor'
  <2> SUFFICES ASSUME NEW x \in Photos, NEW q \in Successors(x)', NEW r \in Successors(x)'
               PROVE  q = r
    BY DEF SoleSuccessor
  <2>1. ASSUME NEW y \in Successors(x)', y # p PROVE y \in Successors(x)
    BY <1>15, <1>16, <2>1 DEF Successors, Parent, Analysis
  <2>2. ASSUME p \in Successors(x)' PROVE x = parent
    BY <1>1, <1>16, <2>2 DEF Successors, Parent, Analysis
  <2>3. CASE x = parent
    <3>1. Successors(x) \subseteq {p}
      BY <1>2, <2>3, MayReplace, PhotoAssumption
    <3>2. QED  BY <2>1, <3>1
  <2>4. CASE x # parent
    <3>1. q \in Successors(x) /\ r \in Successors(x)
      BY <2>1, <2>2, <2>4
    <3>2. QED  BY <3>1 DEF SoleSuccessor
  <2>5. QED  BY <2>3, <2>4
<1>19. QED  BY <1>10, <1>11, <1>13, <1>14, <1>17, <1>18

-----------------------------------------------------------------------------
(* The invariant, and what it says. *)

LEMMA PhotoInitInv ==
  ASSUME PhotoInit
  PROVE  PhotoInv
<1> USE DEF PhotoInit, CaseInit
<1>1. RowsInv /\ ProposalsInv
  BY DEF RowsInv, RowShape, NoRow, ProposalsInv, ProposalShape, NoProposal
<1>2. PhotosInv
  <2>1. PhotoShape(NoPhoto)
    BY DEF PhotoShape, AnalysisShape, NoPhoto, NoAnalysis
  <2>2. QED  BY <2>1 DEF PhotosInv
<1>3. TopInv
  <2>1. Ats \subseteq {0}
    <3>1. \A e \in Events : rows[e] = NoRow
      OBVIOUS
    <3>2. \A r \in Retries : retries[r] = NoRow
      OBVIOUS
    <3>3. \A r \in Table : r.at = 0
      BY <3>1, <3>2 DEF Table, NoRow
    <3>4. QED  BY <3>3 DEF Ats
  <2>2. ASSUME NEW x \in Ats PROVE \A y \in Ats : y <= x
    <3>1. x = 0 /\ \A y \in Ats : y = 0
      BY <2>1
    <3>2. QED  BY <3>1
  <2>3. QED  BY <2>2 DEF TopInv
<1>4. MethodInv /\ ConfirmedIsTold /\ HeldInv /\ NamedInv
  BY DEF MethodInv, ConfirmedIsTold, HeldInv, NamedInv, NoProposal, NoPhoto
<1>5. Attached = {}
  BY DEF Attached
<1>6. NoCircle /\ SoleSuccessor
  BY <1>5 DEF NoCircle, SoleSuccessor, Successors
<1>7. QED  BY <1>1, <1>2, <1>3, <1>4, <1>6 DEF PhotoInv, TableInv

LEMMA HandlerStep ==
  ASSUME PhotoInv, Handler, UNCHANGED photos
  PROVE  PhotoInv'
<1>1. MethodInv /\ RowsInv
  BY DEF PhotoInv, TableInv
<1>2. CASE Store
  BY <1>2, StoreStep
<1>3. CASE ConfirmApproval
  BY <1>3, ConfirmApprovalStep
<1>4. CASE SelectPlan \/ Reserve \/ PrepareNext \/ ReceiveArrival \/ Inspect \/ Release \/ SettleEvent
  BY <1>1, <1>4, MethodSteps, SelectPlanMoves, ReserveMoves, PrepareNextMoves, ReceiveMoves,
     InspectMoves, ReleaseMoves, SettleEventMoves
<1>5. CASE Pick(FALSE) \/ Pick(TRUE) \/ Submit \/ DeliveryNote \/ CreateShipment
  BY <1>1, <1>5, MethodSteps, PickMoves, SubmitMoves, DeliveryNoteMoves, CreateShipmentMoves
<1>6. CASE Resume \/ Carrier \/ RetryDone
  BY <1>1, <1>6, MethodSteps, ResumeMoves, CarrierMoves, RetryDoneMoves
<1>7. QED  BY <1>2, <1>3, <1>4, <1>5, <1>6 DEF Handler

LEMMA CaseStep ==
  ASSUME PhotoInv, CaseNext, UNCHANGED photos
  PROVE  PhotoInv'
<1>1. MethodInv /\ RowsInv
  BY DEF PhotoInv, TableInv
<1>2. CASE \E e \in Events : RecordEvent(e) \/ PrepareProposal(e) \/ Approve(e) \/ Reconcile(e)
  BY <1>2, RecordEventStep, PrepareStep, ApproveStep, ReconcileStep
<1>3. CASE \E r \in Retries : RetryAllocation(r)
  BY <1>3, RetryAllocationStep
<1>4. CASE \E readable \in BOOLEAN : ReadSource(readable) \/ RetryRead(readable)
  BY <1>1, <1>4, ReadSourceMoves, RetryReadMoves, MethodSteps
<1>5. CASE PrepareEconomic \/ PrepareAnswer
  BY <1>5, PrepareStep, PrepareAnswerStep
<1>6. CASE DeadlinePasses \/ AskAssistant \/ AssistantAnswers
  BY <1>6, QuietSteps DEF DeadlinePasses, AskAssistant, AssistantAnswers
<1>7. CASE Handler
  BY <1>7, HandlerStep
<1>8. CASE Crash
  BY <1>8, CrashStep
<1>9. QED  BY <1>2, <1>3, <1>4, <1>5, <1>6, <1>7, <1>8 DEF CaseNext

LEMMA PhotoNextInv ==
  ASSUME PhotoInv, [PhotoNext]_<<operationVars, photoVars>>
  PROVE  PhotoInv'
<1>1. CASE CaseNext /\ UNCHANGED photoVars
  BY <1>1, CaseStep DEF photoVars
<1>2. CASE Crash /\ UNCHANGED photoVars
  BY <1>2, CrashStep DEF photoVars
<1>3. CASE \E p \in Photos : AttachPhoto(p) \/ \E e \in Events : PrepareWithPhoto(e, p)
  BY <1>3, AttachStep, PrepareWithPhotoStep
<1>4. CASE \E p \in Photos, purpose \in Purposes, lot \in Lots \cup {None},
              parent \in Photos \cup {None}, readable \in BOOLEAN :
             AnalyzePhoto(p, purpose, lot, parent, readable)
  BY <1>4, AnalyzeStep
<1>5. CASE BindPhoto \/ BindEvent
  BY <1>5, BindPhotoStep, BindEventStep
<1>6. CASE UNCHANGED <<operationVars, photoVars>>
  BY <1>6, QuietSteps DEF operationVars, photoVars
<1>7. QED  BY <1>1, <1>2, <1>3, <1>4, <1>5, <1>6 DEF PhotoNext

(* However record_event, approve_event_proposal, retry_allocation, attach  *)
(* and analyze interleave with crashes and failing reads, an event's row   *)
(* has no result while its method runs, and photos, proposals and events   *)
(* name each other as PhotoInv says.                                       *)
THEOREM PhotoInvariance == PhotoSpec => []PhotoInv
<1>1. PhotoInit => PhotoInv
  BY PhotoInitInv
<1>2. PhotoInv /\ [PhotoNext]_<<operationVars, photoVars>> => PhotoInv'
  BY PhotoNextInv
<1>3. QED  BY <1>1, <1>2, PTL DEF PhotoSpec

(* approve_event_proposal closes a proposal only with the result its event *)
(* has in the rows: no crash or uncertain outcome leaves another there.    *)
THEOREM ApprovalIsTold == PhotoSpec => []ConfirmedIsTold
<1>1. PhotoInv => ConfirmedIsTold
  BY DEF PhotoInv
<1>2. QED  BY <1>1, PhotoInvariance, PTL

LEMMA AtMostOne ==
  ASSUME NEW S, \A x, y \in S : x = y
  PROVE  Cardinality(S) <= 1
<1>1. CASE S = {}
  BY <1>1, FS_EmptySet
<1>2. CASE S # {}
  <2>1. PICK x : S = {x}
    BY <1>2
  <2>2. QED  BY <2>1, FS_Singleton
<1>3. QED  BY <1>1, <1>2

LEMMA ChainOfInv ==
  ASSUME PhotoInv
  PROVE  EvidenceChain
<1> USE DEF PhotoInv
<1>1. Attached \subseteq Photos
  BY DEF Attached
<1>2. OneSuccessor
  BY <1>1, AtMostOne DEF OneSuccessor, SoleSuccessor
<1>3. LastIsCited
  <2> SUFFICES ASSUME NEW p \in CurrentObservations, NEW q \in CurrentObservations, Parent(p) = q
               PROVE  FALSE
    BY DEF LastIsCited
  <2>1. p \in Successors(q)
    BY DEF CurrentObservations, Successors
  <2>2. QED  BY <2>1 DEF CurrentObservations
<1>4. HeldIsNamed
  <2>1. ASSUME NEW e \in Events, rows[e].at > 0 PROVE rows[e] # NoRow
    BY <2>1 DEF NoRow
  <2>2. ASSUME NEW p \in Photos, photos[p].event # None PROVE photos[p].event \in Events
    BY <2>2 DEF TableInv, PhotosInv, PhotoShape, HeldInv
  <2>3. QED  BY <1>1, <2>1, <2>2 DEF HeldIsNamed, HeldInv
<1>5. NamedOnce
  <2> SUFFICES ASSUME NEW e \in Events, NEW f \in Events \ {e}, proposals[e].photo # None,
                      proposals[e].photo = proposals[f].photo, faults = 0
               PROVE  FALSE
    BY DEF NamedOnce, TableInv, RowsInv
  <2>1. CASE op.pc = "bind" /\ op.id \in {e, f}
    <3>1. Binding
      BY <2>1 DEF MethodInv, Underway, Confirming, Resting, Idle
    <3>2. photos[proposals[e].photo].proposal = None
      BY <2>1, <3>1 DEF Binding
    <3>3. QED  BY <2>1, <3>2, PhotoAssumption DEF NamedInv
  <2>2. CASE ~(op.pc = "bind" /\ op.id \in {e, f})
    BY <2>2 DEF NamedInv
  <2>3. QED  BY <2>1, <2>2
<1>6. QED  BY <1>2, <1>3, <1>4, <1>5 DEF EvidenceChain

(* "Keep one same-lot evidence chain" (_validate_photo_supersession): for  *)
(* any number of photos and readings no photo replaces itself through      *)
(* others, one trusted photo at most replaces another, the comparison      *)
(* cites the last one only, and a photo is held by what names it.          *)
THEOREM ChainHolds == PhotoSpec => []EvidenceChain
<1>1. PhotoInv => EvidenceChain
  BY ChainOfInv
<1>2. QED  BY <1>1, PhotoInvariance, PTL
=============================================================================
