----------------------- MODULE DistributorOperations -----------------------
(***************************************************************************)
(* The distributor operations service                                      *)
(* (adapters/distributor_operations.py): physical events, allocation       *)
(* retries, reconciliation of an unknown arrival, manager proposals and    *)
(* assistant turns over one configured case.                               *)
(*                                                                         *)
(* Every method holds one lock from its first read to its last write, the  *)
(* ERP calls included; only the assistant's model call runs outside it.    *)
(* The variable op is the method that holds the lock, one step per ERP     *)
(* call, so that a crash may fall between any two of them.                 *)
(***************************************************************************)
EXTENDS DistributorERP

CONSTANTS
    Event,      \* Event[e]: the validated payload submitted under id e
    Offered,    \* Offered[p]: bound, the events submitted in a case of policy p
    Drafted,    \* Drafted[p]: bound, the events an operator prepares a proposal for
    Retries,    \* allocation retry ids
    Policies,   \* the configurations: [contract, inspection, reservation,
                \*   economic: the split event it may recommend, or None,
                \*   assistant: the events its assistant may draft,
                \*   reader: its photo reader, None, "anonymous" or "named"]
    MaxFaults   \* bound on refused or lost ERP calls

VARIABLES
    policy,     \* the configuration the service was built with
    tenant,        \* the tenant's documents
    rows,       \* distributor_operation_events, by event id
    retries,    \* distributor_allocation_retries, by retry id
    proposals,  \* distributor_operation_proposals: the one of each event
    turn,       \* the assistant turn in progress
    late,       \* the economic dispatch deadline has passed
    op,         \* the method holding the lock
    faults      \* ERP calls that failed so far

operationVars == <<policy, tenant, rows, retries, proposals, turn, late, op, faults>>

NoRow == [at |-> 0, for |-> None, result |-> None, state |-> None]
NoProposal == [revision |-> None, source |-> None, photo |-> None, result |-> None]
NoTurn == [pc |-> "idle", event |-> None, read |-> None]
NoDecision == [status |-> None, event |-> None, plan |-> None]
Idle == [pc |-> "idle"]

(* _initial_state: nothing received, everything backordered. *)
InitialState ==
    [received  |-> [l \in Lots |-> 0],   usable     |-> [l \in Lots |-> 0],
     held      |-> [l \in Lots |-> 0],   allocated  |-> [o \in Orders |-> 0],
     dispatched |-> [o \in Orders |-> 0], prepared  |-> <<>>,
     shipments |-> [e \in Events |-> None], decision |-> NoDecision, events |-> <<>>]

CaseInit ==
    /\ policy \in Policies
    /\ tenant = NoDocuments
    /\ rows = [e \in Events |-> NoRow]
    /\ retries = [r \in Retries |-> NoRow]
    /\ proposals = [e \in Events |-> NoProposal]
    /\ turn = NoTurn
    /\ late = FALSE
    /\ op = Idle
    /\ faults = 0

---------------------------------------------------------------------------
(* The retained state and the ERP evidence. *)

Table == {rows[e] : e \in Events} \cup {retries[r] : r \in Retries}

(* _next_recorded_at: monotone over both tables. *)
NextAt == 1 + Max({r.at : r \in Table})

(* _latest_state: the newest row that holds a state, completed or not. *)
Latest ==
    LET held == {r \in Table : r.state # None}
    IN  IF held = {} THEN InitialState
        ELSE (CHOOSE r \in held : \A x \in held : x.at <= r.at).state

Books(st) == [received |-> st.received, usable |-> st.usable, held |-> st.held,
              dispatched |-> st.dispatched, allocated |-> st.allocated]

(* _merge_source: the ERP evidence counts as CURRENT only when it verifies *)
(* and agrees with the retained state.                                     *)
Current(st) == Verifies(policy, tenant) /\ Books(st) = Snapshot(policy, tenant)

(* _proposal_revision: a digest of the merged state and the source. *)
Revision == [st |-> Latest, tenant |-> tenant]

TotalUsable(st) == SumOver(Lots, LAMBDA l : st.usable[l])

(* _recompute_allocations. *)
Reallocate(st) ==
    [st EXCEPT !.allocated = Allocations(policy, TotalUsable(st), st.dispatched, st.prepared)]

(* It raises when picks are prepared for stock that is no longer usable. *)
CannotReallocate(st) == policy.contract /\ Overcommitted(TotalUsable(st), st.prepared)

---------------------------------------------------------------------------
(* The method holding the lock. *)

Proceed(pc, st) == op' = [op EXCEPT !.pc = pc, !.st = st]

(* _operations_status. *)
WorstOf(ops) ==
    IF \E o \in ops : o.status = "UNKNOWN_OUTCOME" THEN "UNKNOWN_OUTCOME"
    ELSE IF \E o \in ops : o.status = "BLOCKED" THEN "BLOCKED" ELSE "APPLIED"

(* _append_event; a retry is appended to its own list and keeps no event. *)
Appended(st, status, ops) ==
    IF op.retry # None THEN st
    ELSE [st EXCEPT !.events =
             Append(@, [id |-> op.id, status |-> status, ops |-> ops,
                        resumed |-> None, reconciled |-> FALSE])]

Close(st, status, ops) ==
    op' = [op EXCEPT !.pc = "store", !.st = Appended(st, status, ops), !.status = status]

(* _pending_blocked_shipment_event: the newest dispatched event whose      *)
(* shipment was blocked and never resumed.                                 *)
BlockedShipments(st) ==
    {i \in DOMAIN st.events :
        /\ [kind |-> "submit_delivery_note", status |-> "ok"] \in st.events[i].ops
        /\ [kind |-> "create_shipment", status |-> "BLOCKED"] \in st.events[i].ops
        /\ \A j \in DOMAIN st.events : st.events[j].resumed # st.events[i].id}

(* The end of an event whose operations all ran: its status, and the       *)
(* resumption of a blocked shipment after an arrival or a pick.            *)
Settle(st, ops) ==
    LET status == WorstOf(ops)
        closed == Appended(st, status, ops)
        resume == /\ status = "APPLIED"
                  /\ Event[op.id].type \in {"arrival", "picked"}
                  /\ BlockedShipments(closed) # {}
    IN  op' = [op EXCEPT !.pc = IF resume THEN "resume" ELSE "store",
                         !.st = closed, !.status = status]

Ran(kind, status) ==
    op.ops \cup {[kind |-> kind, status |-> IF status \in Succeeded THEN "ok" ELSE status]}

(* _native: one ERP operation, with the fault budget. *)
Native(outcomes, Then(_)) ==
    \E out \in outcomes :
        /\ out.fault => faults < MaxFaults
        /\ faults' = IF out.fault THEN faults + 1 ELSE faults
        /\ tenant' = out.tenant
        /\ Then(out.status)

---------------------------------------------------------------------------
(* _prepare_pick: choose the plan, then one ERP call per order. *)

(* What is allocated and not prepared, in the order of the allocations. *)
ToPrepare(st) ==
    LET open(o) == st.allocated[o] - PreparedFor(st.prepared, o)
    IN  SelectSeq([i \in DOMAIN Rank |-> [order |-> Rank[i], quantity |-> open(Rank[i])]],
                  LAMBDA p : p.quantity > 0)

PlanOf(st) ==
    [new |-> CompilePlan(TotalUsable(st), st.dispatched, st.prepared).new,
     state |-> [usable |-> st.usable, held |-> st.held, received |-> st.received,
                dispatched |-> st.dispatched, prepared |-> st.prepared]]

NewOrders(plan) == {o \in Orders : plan.new[o] > 0}

(* _contract_plan_native_tranches: every new quantity is one configured    *)
(* tranche, and no lot is committed beyond its usable stock.               *)
TrancheOf(o, q) == CHOOSE t \in TranchesFor(o, q) : TRUE
NativeTranches(plan, st) ==
    LET Committed(l) ==
            FoldSeq(LAMBDA p, n : n + (IF p.tranche.lot = l THEN p.remaining ELSE 0), 0, st.prepared)
            + SumOver({o \in NewOrders(plan) : TrancheOf(o, plan.new[o]).lot = l},
                      LAMBDA o : plan.new[o])
    IN  /\ \A o \in NewOrders(plan) : Cardinality(TranchesFor(o, plan.new[o])) = 1
        /\ \A l \in Lots : Committed(l) <= st.usable[l]

Selected(st, plan) == st.decision.status = "SELECTED" /\ st.decision.plan = plan

(* Where the method goes once the picks are prepared, or are not to be. *)
AfterPrepare(st, ops) ==
    op' = [op EXCEPT !.pc = op.after, !.st = st, !.ops = ops]

StartPicks(st, ops) ==
    IF ToPrepare(st) = <<>> THEN AfterPrepare(st, ops)
    ELSE op' = [op EXCEPT !.pc = IF policy.reservation THEN "reserve" ELSE "prepare",
                          !.st = st, !.ops = ops, !.todo = ToPrepare(st)]

BeginPrepare(st, ops, after) ==
    LET plan == PlanOf(st)
        goto(pc) == op' = [op EXCEPT !.pc = pc, !.st = st, !.ops = ops, !.after = after,
                                     !.todo = ToPrepare(st)]
    IN  CASE policy.contract /\ (NewOrders(plan) = {} \/ ~NativeTranches(plan, st)) -> goto(after)
          [] policy.contract /\ ~Selected(st, plan) -> goto("select")
          [] OTHER -> goto(IF ToPrepare(st) = <<>> THEN after
                           ELSE IF policy.reservation THEN "reserve" ELSE "prepare")

(* _select_contract_plan and _checkpoint_allocation_decision: the decision *)
(* is in the row before any native prepare.                                *)
SelectPlan ==
    /\ op.pc = "select"
    /\ \E choice \in {"SELECTED", "PENDING"} :
           LET st == [op.st EXCEPT !.decision =
                         [status |-> choice, plan |-> PlanOf(op.st),
                          event |-> IF op.retry = None THEN op.id ELSE retries[op.retry].for]]
           IN  /\ IF op.retry = None
                  THEN rows' = [rows EXCEPT ![op.id].state = st] /\ UNCHANGED retries
                  ELSE retries' = [retries EXCEPT ![op.retry].state = st] /\ UNCHANGED rows
               /\ IF choice = "SELECTED" THEN StartPicks(st, op.ops) ELSE AfterPrepare(st, op.ops)
    /\ UNCHANGED <<policy, tenant, proposals, turn, late, faults>>

(* A configured reservation this ERP does not confirm stops the picks. *)
Reserve ==
    /\ op.pc = "reserve"
    /\ Native(Reservation(tenant), LAMBDA s : AfterPrepare(op.st, Ran("reserve_allocation", s)))
    /\ UNCHANGED <<policy, rows, retries, proposals, turn, late>>

PrepareNext ==
    /\ op.pc = "prepare"
    /\ LET p == Head(op.todo)
           row == [order |-> p.order, remaining |-> p.quantity,
                   tranche |-> TrancheOf(p.order, p.quantity)]
           Then(s) ==
               LET st == IF s \in Succeeded THEN [op.st EXCEPT !.prepared = Append(@, row)]
                         ELSE op.st
                   rest == Tail(op.todo)
               IN  op' = [op EXCEPT !.st = st, !.todo = rest, !.ops = Ran("prepare_pick", s),
                                    !.pc = IF rest = <<>> THEN op.after ELSE "prepare"]
       IN  Native(PreparePick(policy, tenant, p.order, p.quantity), Then)
    /\ UNCHANGED <<policy, rows, retries, proposals, turn, late>>

---------------------------------------------------------------------------
(* record_event. *)

Method(e, r, p) ==
    [pc |-> "read", id |-> e, retry |-> r, proposal |-> p, st |-> None, base |-> None,
     ops |-> {}, todo |-> <<>>, after |-> None, status |-> None]

InsertRow(e) == rows' = [rows EXCEPT ![e] = [NoRow EXCEPT !.at = NextAt]]

(* A new id is retained before anything else.  A known id only returns its *)
(* stored result, or stays pending, and changes nothing.                   *)
RecordEvent(e) ==
    /\ op = Idle
    /\ e \in Offered[policy]
    /\ rows[e] = NoRow
    /\ InsertRow(e)
    /\ op' = Method(e, None, FALSE)
    /\ UNCHANGED <<policy, tenant, retries, proposals, turn, late, faults>>

(* _prepared_tranches: prepared rows of the order that add up to exactly q,*)
(* the last of them taken in part if need be.                              *)
PreparedTranches(st, o, q) ==
    LET Take(acc, p) ==
            IF p.order # o \/ p.remaining = 0 \/ acc.open = 0 THEN acc
            ELSE [open |-> acc.open - Min({acc.open, p.remaining}), from |-> acc.from \cup {p.tranche}]
        taken == FoldLeft(Take, [open |-> q, from |-> {}], st.prepared)
    IN  IF taken.open = 0 THEN taken.from ELSE {}

(* _consume_prepared. *)
Consume(prepared, o, q) ==
    LET Use(acc, p) ==
            LET n == IF p.order = o THEN Min({acc.open, p.remaining}) ELSE 0
            IN  [open |-> acc.open - n, out |-> Append(acc.out, [p EXCEPT !.remaining = @ - n])]
    IN  FoldLeft(Use, [open |-> q, out |-> <<>>], prepared).out

Pickable(st, x) == x.quantity <= st.usable[x.lot] /\ x.quantity <= st.allocated[x.order]

(* _advance: read the source and enter the handler of the event's type. *)
ReadSource(readable) ==
    /\ op.pc = "read" /\ op.retry = None
    /\ faults' = IF readable THEN faults ELSE faults + 1
    /\ LET st == Latest
           x  == Event[op.id]
           begun == [op EXCEPT !.st = st, !.base = st]
           goto(pc) == op' = [begun EXCEPT !.pc = pc]
           block == Close(st, "BLOCKED", {})
       IN  IF ~readable \/ ~Current(st) THEN Close(st, "UNAVAILABLE", {})
           ELSE CASE x.type = "arrival" ->
                       IF st.received[x.lot] + x.quantity > Planned[x.lot] THEN block
                       ELSE goto("receive")
                  [] x.type = "inspection" ->
                       IF st.received[x.lot] = 0 THEN block ELSE goto("inspect")
                  [] x.type = "picked" -> goto("pick")
                  [] OTHER -> goto("carrier")
    /\ UNCHANGED <<policy, tenant, rows, retries, proposals, turn, late>>

(* _arrival. *)
ReceiveArrival ==
    /\ op.pc = "receive"
    /\ LET x == Event[op.id]
           in == [op.st EXCEPT !.received[x.lot] = @ + x.quantity]
           Then(s) ==
               LET ops == Ran("receive_arrival", s)
               IN  IF s \notin Succeeded THEN Close(op.st, s, ops)
                   ELSE IF policy.inspection
                   THEN Settle([in EXCEPT !.held[x.lot] = @ + x.quantity], ops)
                   ELSE BeginPrepare(Reallocate([in EXCEPT !.usable[x.lot] = @ + x.quantity]),
                                     ops, "settle")
       IN  Native(Receive(tenant, op.id, x.lot, x.quantity), Then)
    /\ UNCHANGED <<policy, rows, retries, proposals, turn, late>>

(* _inspection: a failed lot is held whole; a sample pass releases nothing.*)
Inspect ==
    /\ op.pc = "inspect"
    /\ LET x == Event[op.id]
           failed == [op.st EXCEPT !.usable[x.lot] = 0, !.held[x.lot] = op.st.received[x.lot]]
           Then(s) ==
               LET ops == Ran("record_inspection", s)
               IN  CASE s \notin Succeeded -> Close(op.st, s, ops)
                     [] s \in Succeeded /\ x.result = "FAIL" /\ CannotReallocate(failed) ->
                            Close(op.base, "UNKNOWN_OUTCOME", {})
                     [] s \in Succeeded /\ x.result = "FAIL" /\ ~CannotReallocate(failed) ->
                            Settle(Reallocate(failed), ops)
                     [] s \in Succeeded /\ x.result = "PASS" /\ ~x.whole -> Settle(op.st, ops)
                     [] OTHER -> op' = [op EXCEPT !.pc = "release", !.ops = ops]
       IN  Native(RecordInspection(policy, tenant, op.id, x.lot, x.result, x.whole), Then)
    /\ UNCHANGED <<policy, rows, retries, proposals, turn, late>>

Release ==
    /\ op.pc = "release"
    /\ LET x == Event[op.id]
           passed == [op.st EXCEPT !.usable[x.lot] = op.st.received[x.lot], !.held[x.lot] = 0]
           Then(s) ==
               LET ops == Ran("release_from_quality", s)
               IN  IF s \in Succeeded THEN BeginPrepare(Reallocate(passed), ops, "settle")
                   ELSE Settle(op.st, ops)
       IN  Native(ReleaseFromQuality(tenant, op.id, x.lot), Then)
    /\ UNCHANGED <<policy, rows, retries, proposals, turn, late>>

SettleEvent ==
    /\ op.pc = "settle"
    /\ Settle(op.st, op.ops)
    /\ UNCHANGED <<policy, tenant, rows, retries, proposals, turn, late, faults>>

(* _picked: prepare what is missing once, then submit the pick, the note   *)
(* and the shipment.                                                       *)
Pick(retried) ==
    /\ op.pc = IF retried THEN "repick" ELSE "pick"
    /\ LET x == Event[op.id]
           ready == PreparedTranches(op.st, x.order, x.quantity) # {}
           refused == IF WorstOf(op.ops) = "UNKNOWN_OUTCOME" THEN "UNKNOWN_OUTCOME" ELSE "BLOCKED"
       IN  CASE ready /\ Pickable(op.st, x) -> Proceed("submit", op.st)
             [] ~ready /\ Pickable(op.st, x) /\ ~retried -> BeginPrepare(op.st, op.ops, "repick")
             [] OTHER -> Close(op.st, refused, op.ops)
    /\ UNCHANGED <<policy, tenant, rows, retries, proposals, turn, late, faults>>

PickedTranche == [order |-> Event[op.id].order, lot |-> Event[op.id].lot,
                  quantity |-> Event[op.id].quantity]

Submit ==
    /\ op.pc = "submit"
    /\ LET t == PickedTranche
           Then(s) == IF s \in Succeeded
                      THEN op' = [op EXCEPT !.pc = "note", !.ops = Ran("submit_pick", s)]
                      ELSE Close(op.st, s, Ran("submit_pick", s))
       IN  Native(SubmitPick(policy, tenant, t, PreparedTranches(op.st, t.order, t.quantity)), Then)
    /\ UNCHANGED <<policy, rows, retries, proposals, turn, late>>

(* Dispatch enters the books with the submitted Delivery Note. *)
DispatchOf(st, t) ==
    [st EXCEPT !.usable[t.lot] = @ - t.quantity, !.dispatched[t.order] = @ + t.quantity,
               !.prepared = Consume(@, t.order, t.quantity)]

\* Mutant of DeliveryNote: the dispatch is booked whatever the ERP answered.
DeliveryNoteUnchecked ==
    /\ op.pc = "note"
    /\ LET Then(s) == op' = [op EXCEPT !.pc = "ship", !.ops = Ran("submit_delivery_note", s),
                                       !.st = DispatchOf(op.st, PickedTranche)]
       IN  Native(SubmitDelivery(policy, tenant, PickedTranche), Then)
    /\ UNCHANGED <<policy, rows, retries, proposals, turn, late>>

DeliveryNote ==
    /\ op.pc = "note"
    /\ LET Then(s) == LET ops == Ran("submit_delivery_note", s)
                      IN  IF s \in Succeeded
                          THEN op' = [op EXCEPT !.pc = "ship", !.ops = ops,
                                                !.st = DispatchOf(op.st, PickedTranche)]
                          ELSE Close(op.st, s, ops)
       IN  Native(SubmitDelivery(policy, tenant, PickedTranche), Then)
    /\ UNCHANGED <<policy, rows, retries, proposals, turn, late>>

Tracked(st, e) == [st EXCEPT !.shipments[e] = "created"]

CreateShipment ==
    /\ op.pc = "ship"
    /\ LET Then(s) ==
               LET st == Reallocate(op.st)
                   ops == Ran("create_shipment", s)
               IN  IF CannotReallocate(op.st) THEN Close(op.base, "UNKNOWN_OUTCOME", {})
                   ELSE Settle(IF s \in Succeeded THEN Tracked(st, op.id) ELSE st, ops)
       IN  Native(Shipment(tenant, op.id, PickedTranche), Then)
    /\ UNCHANGED <<policy, rows, retries, proposals, turn, late>>

(* _resume_blocked_shipment: one more try for an earlier event, recorded   *)
(* as an operation of this one.                                            *)
Resume ==
    /\ op.pc = "resume"
    /\ LET i == Max(BlockedShipments(op.st))
           e == op.st.events[i].id
           x == Event[e]
           n == Len(op.st.events)
           Then(s) ==
               LET st == [op.st EXCEPT !.events[n].resumed = e,
                                       !.events[n].status = IF s \in Succeeded THEN @ ELSE s]
               IN  op' = [op EXCEPT !.pc = "store", !.status = st.events[n].status,
                                    !.st = IF s \in Succeeded THEN Tracked(st, e) ELSE st]
       IN  Native(Shipment(tenant, e, [order |-> x.order, lot |-> x.lot, quantity |-> x.quantity]), Then)
    /\ UNCHANGED <<policy, rows, retries, proposals, turn, late>>

(* _carrier: evidence from the carrier, no ERP call. *)
Carrier ==
    /\ op.pc = "carrier"
    /\ LET x == Event[op.id]
           at == op.st.shipments[x.shipment]
           moved(v) == Close([op.st EXCEPT !.shipments[x.shipment] = v], "APPLIED", {})
       IN  CASE at = None \/ (x.type = "delivery" /\ at = "created") -> Close(op.st, "BLOCKED", {})
             [] x.type = "pickup" /\ at # None -> moved(IF at = "created" THEN "picked_up" ELSE at)
             [] OTHER -> moved("delivered")
    /\ UNCHANGED <<policy, tenant, rows, retries, proposals, turn, late, faults>>

(* The second transaction: the result and the state of the row. *)
Store ==
    /\ op.pc = "store"
    /\ IF op.retry = None
       THEN rows' = [rows EXCEPT ![op.id].result = op.status, ![op.id].state = op.st]
            /\ UNCHANGED retries
       ELSE retries' = [retries EXCEPT ![op.retry].result = op.status, ![op.retry].state = op.st]
            /\ UNCHANGED rows
    /\ op' = IF op.proposal THEN [op EXCEPT !.pc = "confirm"] ELSE Idle
    /\ UNCHANGED <<policy, tenant, proposals, turn, late, faults>>

---------------------------------------------------------------------------
(* retry_pending_allocation. *)

RetryAllocation(r) ==
    /\ op = Idle
    /\ retries[r] = NoRow
    /\ Latest.decision.status = "PENDING"
    /\ retries' = [retries EXCEPT ![r] = [NoRow EXCEPT !.at = NextAt, !.for = Latest.decision.event]]
    /\ op' = Method(Latest.decision.event, r, FALSE)
    /\ UNCHANGED <<policy, tenant, rows, proposals, turn, late, faults>>

RetryRead(readable) ==
    /\ op.pc = "read" /\ op.retry # None
    /\ faults' = IF readable THEN faults ELSE faults + 1
    /\ LET st == Reallocate(Latest)
           plan == PlanOf(st)
       IN  CASE ~readable \/ ~Current(Latest) -> Close(Latest, "UNAVAILABLE", {})
             [] readable /\ Current(Latest) /\ (NewOrders(plan) = {} \/ ~NativeTranches(plan, st)) ->
                    Close(st, "BLOCKED", {})
             [] OTHER -> BeginPrepare(st, {}, "retried")
    /\ UNCHANGED <<policy, tenant, rows, retries, proposals, turn, late>>

RetryDone ==
    /\ op.pc = "retried"
    /\ Close(op.st, IF op.st.decision.status = "PENDING" THEN "PENDING"
                    ELSE IF op.ops = {} THEN "BLOCKED" ELSE WorstOf(op.ops), op.ops)
    /\ UNCHANGED <<policy, tenant, rows, retries, proposals, turn, late, faults>>

---------------------------------------------------------------------------
(* reconcile_receive_arrival: the latest unknown arrival, read back; the   *)
(* books are rebuilt from the source in the row of that event.             *)

Reconciled(st) ==
    LET s == Snapshot(policy, tenant)
        n == Len(st.events)
    IN  [st EXCEPT !.received = s.received, !.usable = s.usable, !.held = s.held,
                   !.allocated = s.allocated, !.events[n].reconciled = TRUE]

Reconcile(e) ==
    LET st == Latest
        n == Len(st.events)
    IN  /\ op = Idle
        /\ n > 0
        /\ st.events[n].id = e
        /\ rows[e] # NoRow
        /\ Event[e].type = "arrival"
        /\ [kind |-> "receive_arrival", status |-> "UNKNOWN_OUTCOME"] \in st.events[n].ops
        /\ ~st.events[n].reconciled
        /\ ReconcileReceive(policy, tenant, e, Event[e].lot) = "APPLIED"
        /\ rows' = [rows EXCEPT ![e].state = Reconciled(st)]
        /\ UNCHANGED <<policy, tenant, retries, proposals, turn, late, op, faults>>

---------------------------------------------------------------------------
(* Proposals: prepare_event_proposal, by an operator, by the economic gate *)
(* or from an assistant's draft.                                           *)

Proposal(source, photo) ==
    [revision |-> Revision, source |-> source, photo |-> photo, result |-> None]
NewProposal(e, source, photo) ==
    proposals' = [proposals EXCEPT ![e] = Proposal(source, photo)]

MayPropose(e) == op = Idle /\ proposals[e] = NoProposal /\ Current(Latest)

PrepareProposal(e) ==
    /\ e \in Drafted[policy]
    /\ MayPropose(e)
    /\ NewProposal(e, "OPERATOR_DECLARED", None)
    /\ UNCHANGED <<policy, tenant, rows, retries, turn, late, op, faults>>

(* economic_gate: stock, allocation, contract terms and deadline of the    *)
(* configured split, checked when it is prepared and when it is approved.  *)
EconomicGate(st, e) ==
    LET x == Event[e]
    IN  /\ ~late
        /\ st.usable[x.lot] >= x.quantity
        /\ st.allocated[x.order] >= x.quantity
        /\ Terms[x.order].partial
        /\ Terms[x.order].minimum <= x.quantity

(* prepare_economic_proposal with the split selected; a request that does  *)
(* not pass the gate, or only compares, changes nothing durable.           *)
PrepareEconomic ==
    /\ policy.economic # None
    /\ MayPropose(policy.economic)
    /\ EconomicGate(Latest, policy.economic)
    /\ NewProposal(policy.economic, "ECONOMIC_RECOMMENDATION", None)
    /\ UNCHANGED <<policy, tenant, rows, retries, turn, late, op, faults>>

DeadlinePasses ==
    /\ policy.economic # None
    /\ ~late
    /\ late' = TRUE
    /\ UNCHANGED <<policy, tenant, rows, retries, proposals, turn, op, faults>>

---------------------------------------------------------------------------
(* Assistant turns. *)

(* assist: the snapshot under the lock, the model call outside it ...      *)
AskAssistant ==
    /\ policy.assistant # {}
    /\ op = Idle
    /\ turn = NoTurn
    /\ Current(Latest)
    /\ turn' = [NoTurn EXCEPT !.pc = "model", !.read = Revision]
    /\ UNCHANGED <<policy, tenant, rows, retries, proposals, late, op, faults>>

(* _preflight_assist_event: the bounds the event would be held to. *)
Preflight(st, e) ==
    LET x == Event[e]
    IN  CASE x.type = "arrival"    -> st.received[x.lot] + x.quantity <= Planned[x.lot]
          [] x.type = "inspection" -> st.received[x.lot] > 0
          [] OTHER                 -> FALSE

(* ... then its answer, of use only on the evidence the model read: a      *)
(* physical draft of an event with an id of its own, the economic split,   *)
(* or no action (_assist_physical_draft, _assist_economic_prepare) ...     *)
AssistantAnswers ==
    /\ op = Idle
    /\ turn.pc = "model"
    /\ \E e \in policy.assistant \cup {policy.economic, None} :
           turn' = IF /\ e # None
                      /\ Current(Latest)
                      /\ tenant = turn.read.tenant
                      /\ e = policy.economic \/ Preflight(Latest, e)
                   THEN [turn EXCEPT !.pc = "prepare", !.event = e] ELSE NoTurn
    /\ UNCHANGED <<policy, tenant, rows, retries, proposals, late, op, faults>>

(* ... and the proposal, prepared under the lock once more: a draft names  *)
(* the revision the model read, the economic split passes its own gate.    *)
PrepareAnswer ==
    LET e == turn.event
        economic == e = policy.economic
    IN  /\ op = Idle
        /\ turn.pc = "prepare"
        /\ turn' = NoTurn
        /\ IF MayPropose(e) /\ (IF economic THEN EconomicGate(Latest, e) ELSE tenant = turn.read.tenant)
           THEN NewProposal(e, IF economic THEN "ECONOMIC_RECOMMENDATION" ELSE "OPERATOR_DECLARED",
                            None)
           ELSE UNCHANGED proposals
        /\ UNCHANGED <<policy, tenant, rows, retries, late, op, faults>>

---------------------------------------------------------------------------
(* approve_event_proposal. *)

Confirm(e, status) == proposals' = [proposals EXCEPT ![e].result = status]

(* approve_event_proposal: an event that already completed is confirmed    *)
(* from its row; otherwise the reviewed revision must still be current,    *)
(* and the economic gate is passed again.                                  *)
Approve(e) ==
    /\ op = Idle
    /\ proposals[e] # NoProposal
    /\ proposals[e].result = None
    /\ CASE rows[e].result # None -> Confirm(e, rows[e].result) /\ UNCHANGED <<rows, op>>
         [] rows[e].result = None /\ Current(Latest) /\ proposals[e].revision = Revision
            /\ (proposals[e].source = "ECONOMIC_RECOMMENDATION" => EconomicGate(Latest, e)) ->
                IF rows[e] = NoRow
                THEN InsertRow(e) /\ op' = Method(e, None, TRUE) /\ UNCHANGED proposals
                ELSE /\ op' = [Method(e, None, TRUE) EXCEPT !.pc = "confirm",
                                                           !.status = "UNKNOWN_OUTCOME"]
                     /\ UNCHANGED <<rows, proposals>>
         [] OTHER -> FALSE
    /\ UNCHANGED <<policy, tenant, retries, turn, late, faults>>

ConfirmApproval ==
    /\ op.pc = "confirm"
    /\ Confirm(op.id, op.status)
    /\ op' = Idle
    /\ UNCHANGED <<policy, tenant, rows, retries, turn, late, faults>>

---------------------------------------------------------------------------
(* The process dies: what the tables hold is all that is left. *)
Crash ==
    /\ op # Idle
    /\ faults < MaxFaults
    /\ faults' = faults + 1
    /\ op' = Idle
    /\ turn' = NoTurn
    /\ UNCHANGED <<policy, tenant, rows, retries, proposals, late>>

Handler ==
    \/ SelectPlan \/ Reserve \/ PrepareNext
    \/ ReceiveArrival \/ Inspect \/ Release \/ SettleEvent
    \/ Pick(FALSE) \/ Pick(TRUE) \/ Submit \/ DeliveryNote \/ CreateShipment \/ Resume
    \/ Carrier \/ Store \/ RetryDone \/ ConfirmApproval

CaseNext ==
    \/ \E e \in Events : \/ RecordEvent(e) \/ PrepareProposal(e) \/ Approve(e) \/ Reconcile(e)
    \/ \E r \in Retries : RetryAllocation(r)
    \/ \E readable \in BOOLEAN :
           /\ readable \/ faults < MaxFaults
           /\ ReadSource(readable) \/ RetryRead(readable)
    \/ PrepareEconomic \/ DeadlinePasses
    \/ AskAssistant \/ AssistantAnswers \/ PrepareAnswer
    \/ Handler
    \/ Crash

CaseSpec == CaseInit /\ [][CaseNext]_operationVars
---------------------------------------------------------------------------
(* Properties. *)

(* No retained state claims a receipt, a release, a prepared pick, a       *)
(* dispatch or a shipment that has no document.                            *)
RetainedIsBacked ==
    \A row \in Table : row.state # None =>
        LET st == row.state
        IN  /\ \A l \in Lots : /\ st.received[l] <= ReceivedOf(tenant, l)
                               /\ st.usable[l] <= Accepted(policy, tenant, l)
            /\ \A o \in Orders : st.dispatched[o] <= DispatchedTo(tenant, o)
            /\ \A i \in DOMAIN st.prepared : tenant.picks[st.prepared[i].tranche] # <<>>
            /\ \A e \in Events : st.shipments[e] # None => Submitted(tenant.shipments[e]) # <<>>

(* When no row is pending and every operation of the retained events       *)
(* answered success, received and dispatched are exactly the documents'.   *)
SuccessIsExact ==
    (/\ op = Idle
     /\ \A e \in Events : rows[e] # NoRow => rows[e].result # None
     /\ \A i \in DOMAIN Latest.events : \A o \in Latest.events[i].ops : o.status = "ok")
    => /\ \A l \in Lots : Latest.received[l] = ReceivedOf(tenant, l)
       /\ \A o \in Orders : Latest.dispatched[o] = DispatchedTo(tenant, o)

(* What a manager is told about a confirmed proposal ("Apply one prepared  *)
(* proposal exactly once") is what its event row holds, or UNKNOWN_OUTCOME *)
(* for an event that died half way.                                        *)
ConfirmedIsTold ==
    \A e \in Events : proposals[e].result # None =>
        \/ proposals[e].result = rows[e].result
        \/ /\ proposals[e].result = "UNKNOWN_OUTCOME"
           /\ rows[e] # NoRow
           /\ rows[e].result = None

(* The books and the ERP agree, or the books say that they may not,        *)
(* through refused calls, lost answers and crashes.                        *)
BooksAgree == RetainedIsBacked /\ SuccessIsExact /\ ConfirmedIsTold

(* Documents exist once and for a reason.  Events under new ids repeat an  *)
(* unknown operation without doubling it: one receipt per lot, one pick    *)
(* and one note per tranche, one shipment per event, no stock below zero   *)
(* and no order served beyond its request.  And in a contract case no Pick *)
(* List exists without a retained selection of exactly its quantity,       *)
(* whatever call or crash came between (_checkpoint_allocation_decision:   *)
(* "Persist an accepted/deferred selection before a native prepare can     *)
(* begin").                                                                *)
DocumentsAreWarranted ==
    /\ \A l \in Lots : Len(tenant.receipts[l]) <= 1 /\ InStock(policy, tenant, l) >= 0
    /\ \A t \in Tranches : Len(tenant.picks[t]) <= 1 /\ Len(tenant.notes[t]) <= 1
    /\ \A e \in Events : Len(tenant.shipments[e]) <= 1
    /\ \A o \in Orders : DispatchedTo(tenant, o) <= Requested[o]
    /\ policy.contract =>
         \A t \in Tranches : tenant.picks[t] # <<>> =>
             \E row \in Table : /\ row.state # None
                               /\ row.state.decision.status = "SELECTED"
                               /\ row.state.decision.plan.new[t.order] = t.quantity

=============================================================================
