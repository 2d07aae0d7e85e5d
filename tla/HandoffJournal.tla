----------------------------- MODULE HandoffJournal -----------------------------
(***************************************************************************)
(* HandoffJournal.deliver (adapters/receiving_handoff.py): one durable row *)
(* per destination effect, claimed before the provider is contacted, then  *)
(* reconciled by lookup only.  Threads of one process share the journal's  *)
(* lock, which is held per statement group, not per delivery: a status is  *)
(* read in one group and written back in another.  The provider is         *)
(* external: it may execute a send late, or never, and reads may fail.     *)
(***************************************************************************)
EXTENDS Naturals

CONSTANTS
  Threads,
  Keys,          \* business keys of effects; each has one payload
  MaxOutages,    \* bound on failing provider requests
  MaxRestarts,   \* bound on process restarts
  MaxSends       \* bound on sends of one key

ASSUME HandoffBoundAssumption ==
  MaxOutages \in Nat /\ MaxRestarts \in Nat /\ MaxSends \in Nat

VARIABLES
  handoff,      \* key -> its row: status and the phase of last_failure
  delivery,     \* thread -> the deliver() call it is in
  flights,      \* key -> sends on their way to the provider
  records,      \* key -> effects the provider holds
  sends,        \* key -> how often send() was called
  outages,
  restarts

provider == <<flights, records, sends>>
journalVars == <<handoff, delivery, flights, records, sends, outages, restarts>>

Statuses == {"ABSENT", "PENDING", "UNKNOWN", "VERIFIED"}
Phases == {"none", "lookup", "send", "readback"}
DeliverySteps == {"idle", "lookup", "recovered", "clear", "claim", "send", "sent",
                  "readback", "failed", "done"}

\* A call: its key, the status it read outside the lock, its failing phase.
IdleDelivery(k) == [pc |-> "idle", key |-> k, seen |-> "ABSENT", phase |-> "none"]
NoDelivery == IdleDelivery(CHOOSE k \in Keys : TRUE)
Delivery == [pc : DeliverySteps, key : Keys, seen : Statuses, phase : Phases]

HandoffTypeOK ==
  /\ handoff \in [Keys -> [status : Statuses, failure : Phases]]
  /\ delivery \in [Threads -> Delivery]
  /\ flights \in [Keys -> Nat]
  /\ records \in [Keys -> Nat]
  /\ sends \in [Keys -> Nat]
  /\ outages \in 0..MaxOutages
  /\ restarts \in 0..MaxRestarts

HandoffInit ==
  /\ handoff = [k \in Keys |-> [status |-> "ABSENT", failure |-> "none"]]
  /\ delivery = [t \in Threads |-> NoDelivery]
  /\ flights = [k \in Keys |-> 0]
  /\ records = [k \in Keys |-> 0]
  /\ sends = [k \in Keys |-> 0]
  /\ outages = 0
  /\ restarts = 0

At(t, pc) == delivery[t].pc = pc
KeyOf(t) == delivery[t].key
RowOf(t) == handoff[KeyOf(t)]
Goto(t, pc) == delivery' = [delivery EXCEPT ![t].pc = pc]

\* _transition: the given status and failure, unless the row is VERIFIED.
Transition(k, status, failure) ==
  handoff' = [handoff EXCEPT ![k] =
    IF @.status = "VERIFIED" THEN @
    ELSE [status |-> status, failure |-> IF status = "VERIFIED" THEN "none" ELSE failure]]

Finish(t) == delivery' = [delivery EXCEPT ![t] = NoDelivery]

--------------------------------------------------------------------------------
\* Mutant of Open: an uncertain effect is left alone for good.
OpenSkippingUnknown(t, k) ==
  /\ At(t, "idle")
  /\ handoff' = [handoff EXCEPT ![k].status = IF @ = "ABSENT" THEN "PENDING" ELSE @]
  /\ delivery' = [delivery EXCEPT ![t] =
       [IdleDelivery(k) EXCEPT !.pc = IF handoff'[k].status = "PENDING" THEN "lookup" ELSE "done"]]
  /\ UNCHANGED <<provider, outages, restarts>>

\* deliver() up to the first lookup: the row is inserted once, as PENDING.
Open(t, k) ==
  /\ At(t, "idle")
  /\ handoff' = [handoff EXCEPT ![k].status = IF @ = "ABSENT" THEN "PENDING" ELSE @]
  /\ delivery' = [delivery EXCEPT ![t] =
       [IdleDelivery(k) EXCEPT !.pc = IF handoff'[k].status = "VERIFIED" THEN "done" ELSE "lookup"]]
  /\ UNCHANGED <<provider, outages, restarts>>

\* A lookup, before or after the send, finds the effect.
Found(t) ==
  /\ At(t, "lookup") \/ At(t, "readback")
  /\ records[KeyOf(t)] > 0
  /\ Transition(KeyOf(t), "VERIFIED", "none")
  /\ Goto(t, "done")
  /\ UNCHANGED <<provider, outages, restarts>>

NotFound(t) ==
  /\ records[KeyOf(t)] = 0
  /\ \/ At(t, "lookup") /\ Goto(t, "recovered")
     \/ At(t, "readback") /\ Goto(t, "done")
  /\ UNCHANGED <<handoff, provider, outages, restarts>>

\* prior = self.current(key): an obsolete lookup warning will be cleared.
ReadPrior(t) ==
  /\ At(t, "recovered")
  /\ delivery' = [delivery EXCEPT
       ![t].pc = IF RowOf(t).failure = "lookup" THEN "clear" ELSE "claim",
       ![t].seen = RowOf(t).status]
  /\ UNCHANGED <<handoff, provider, outages, restarts>>

\* The transition writes the status that was read before.
ClearWarning(t) ==
  /\ At(t, "clear")
  /\ Transition(KeyOf(t), delivery[t].seen, "none")
  /\ Goto(t, "claim")
  /\ UNCHANGED <<provider, outages, restarts>>

\* Mutant of Claim: claims whatever the status is.
ClaimAnyway(t) ==
  /\ At(t, "claim")
  /\ handoff' = [handoff EXCEPT ![KeyOf(t)].status = "UNKNOWN"]
  /\ Goto(t, "send")
  /\ UNCHANGED <<provider, outages, restarts>>

\* The durable intent before contacting the provider; only PENDING is claimed.
Claim(t) ==
  /\ At(t, "claim")
  /\ IF RowOf(t).status = "PENDING"
     THEN /\ handoff' = [handoff EXCEPT ![KeyOf(t)].status = "UNKNOWN"]
          /\ Goto(t, "send")
     ELSE Goto(t, "done") /\ UNCHANGED handoff
  /\ UNCHANGED <<provider, outages, restarts>>

Send(t) ==
  /\ At(t, "send")
  /\ sends[KeyOf(t)] < MaxSends
  /\ flights' = [flights EXCEPT ![KeyOf(t)] = @ + 1]
  /\ sends' = [sends EXCEPT ![KeyOf(t)] = @ + 1]
  /\ Goto(t, "sent")
  /\ UNCHANGED <<handoff, records, outages, restarts>>

Answered(t) ==
  /\ At(t, "sent")
  /\ Goto(t, "readback")
  /\ UNCHANGED <<handoff, provider, outages, restarts>>

\* An exception of the lookup, the send or the readback; the handler reads the
\* current status as an argument of the transition it is about to make.
Fails(t) ==
  /\ At(t, "lookup") \/ At(t, "sent") \/ At(t, "readback")
  /\ outages < MaxOutages
  /\ outages' = outages + 1
  /\ delivery' = [delivery EXCEPT
       ![t].pc = "failed", ![t].seen = RowOf(t).status,
       ![t].phase = IF At(t, "sent") THEN "send" ELSE delivery[t].pc]
  /\ UNCHANGED <<handoff, provider, restarts>>

RecordFailure(t) ==
  /\ At(t, "failed")
  /\ Transition(KeyOf(t), delivery[t].seen, delivery[t].phase)
  /\ Goto(t, "done")
  /\ UNCHANGED <<provider, outages, restarts>>

--------------------------------------------------------------------------------
\* External: the provider executes a send, whenever it arrives.
Execute(k) ==
  /\ flights[k] > 0
  /\ flights' = [flights EXCEPT ![k] = @ - 1]
  /\ records' = [records EXCEPT ![k] = @ + 1]
  /\ UNCHANGED <<handoff, delivery, sends, outages, restarts>>

\* External: a send is refused or lost.
LoseSend(k) ==
  /\ flights[k] > 0
  /\ flights' = [flights EXCEPT ![k] = @ - 1]
  /\ UNCHANGED <<handoff, delivery, records, sends, outages, restarts>>

\* One step of a running deliver() call.
DeliveryStep(t) ==
  \/ Found(t) \/ NotFound(t) \/ ReadPrior(t) \/ ClearWarning(t) \/ Claim(t)
  \/ Send(t) \/ Answered(t) \/ Fails(t) \/ RecordFailure(t)

Provider == \E k \in Keys : Execute(k) \/ LoseSend(k)

--------------------------------------------------------------------------------
(* The journal by itself: several request threads call deliver() for the   *)
(* same effects at once, as DistributorHandoff.sync does from the threads  *)
(* of the HTTP server.                                                     *)

Return(t) ==
  /\ At(t, "done")
  /\ Finish(t)
  /\ UNCHANGED <<handoff, provider, outages, restarts>>

\* The process stops: its calls end wherever they are.
ServerRestart ==
  /\ restarts < MaxRestarts
  /\ restarts' = restarts + 1
  /\ delivery' = [t \in Threads |-> NoDelivery]
  /\ UNCHANGED <<handoff, provider, outages>>

ConcurrentNext ==
  \/ \E t \in Threads : DeliveryStep(t) \/ Return(t) \/ (\E k \in Keys : Open(t, k))
  \/ Provider \/ ServerRestart

ConcurrentSpec == HandoffInit /\ [][ConcurrentNext]_journalVars

--------------------------------------------------------------------------------
(* Properties.                                                             *)

\* "Uncertain effect: lookup only, never a second send."
NeverSecondSend == \A k \in Keys : sends[k] <= 1

=============================================================================
