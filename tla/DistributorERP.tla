--------------------------- MODULE DistributorERP ---------------------------
(***************************************************************************)
(* The ERPNext documents of one distributor case and the adapter that      *)
(* reads and writes them (adapters/distributor_erp.py), with the contract  *)
(* allocation arithmetic (adapters/distributor_allocation.py).             *)
(*                                                                         *)
(* A native operation is a few HTTP writes in a row.  Any of them may be   *)
(* refused (401/403, reported BLOCKED) or lost (reported UNKNOWN_OUTCOME), *)
(* with the writes before it done, so an operation is modelled by the set  *)
(* of its outcomes: the documents it leaves and the status it reports.     *)
(***************************************************************************)
EXTENDS Integers, Sequences, FiniteSets, SequencesExt, FiniteSetsExt

CONSTANTS
    Lots,       \* the configured lots, each with one receipt plan
    Orders,     \* the customer orders
    Rank,       \* the orders as a sequence: earliest promise, then priority
    Planned,    \* Planned[l]: the quantity of lot l's receipt plan
    Requested,  \* Requested[o]: the quantity order o asks for
    Terms,      \* Terms[o]: [partial, minimum, remainder], the contract terms
    Tranches,   \* the configured pick tranches, [order, lot, quantity]
    Events,     \* the event ids
    None        \* no value: NULL in the tables, no document in the ERP

Succeeded == {"APPLIED", "ALREADY_APPLIED"}
NoTransfer == [lot |-> None, released |-> FALSE, inspection |-> None, whole |-> FALSE]

(* The tenant before anything arrived. *)
NoDocuments ==
    [receipts  |-> [l \in Lots |-> <<>>],
     transfers |-> [e \in Events |-> NoTransfer],
     picks     |-> [t \in Tranches |-> <<>>],
     notes     |-> [t \in Tranches |-> <<>>],
     shipments |-> [e \in Events |-> <<>>]]

SumOver(S, f(_)) == MapThenSumSet(f, S)

---------------------------------------------------------------------------
(* Outcomes of a native operation. *)

Outcome(docs, status, fault) == [tenant |-> docs, status |-> status, fault |-> fault]

(* apply_operation: what an exception at some request is reported as. *)
Faults(docs) == {Outcome(docs, s, TRUE) : s \in {"UNKNOWN_OUTCOME", "BLOCKED"}}

(* An operation that only reads, then reports status. *)
Reads(docs, status) == {Outcome(docs, status, FALSE)} \cup Faults(docs)

(* An operation that takes the documents through the states of the trail,  *)
(* one write each; a request after the last write only reads back.         *)
Writes(trail) ==
    {Outcome(Last(trail), "APPLIED", FALSE)}
        \cup UNION {Faults(trail[k]) : k \in 1..Len(trail)}

(* ERPNext refuses the write itself, with an error that is no permission. *)
Rejected(docs) == {Outcome(docs, "UNKNOWN_OUTCOME", FALSE)}

---------------------------------------------------------------------------
(* Stock as the documents have it. *)

Submitted(docs) == SelectSeq(docs, LAMBDA d : d.submitted)

Draft(x) == [submitted |-> FALSE, of |-> x]
Final(x) == [submitted |-> TRUE, of |-> x]

ReceiptOf(tenant, l) == Len(tenant.receipts[l]) = 1 /\ tenant.receipts[l][1].submitted
ReleasesOf(tenant, l) == {e \in Events : tenant.transfers[e].lot = l /\ tenant.transfers[e].released}

(* Stock of the lot that reached the accepted warehouse. *)
Accepted(pol, tenant, l) ==
    IF ReceiptOf(tenant, l) /\ (pol.inspection => ReleasesOf(tenant, l) # {}) THEN Planned[l] ELSE 0

DispatchedFrom(tenant, l) ==
    SumOver({t \in Tranches : t.lot = l}, LAMBDA t : t.quantity * Len(Submitted(tenant.notes[t])))
DispatchedTo(tenant, o) ==
    SumOver({t \in Tranches : t.order = o}, LAMBDA t : t.quantity * Len(Submitted(tenant.notes[t])))

InStock(pol, tenant, l) == Accepted(pol, tenant, l) - DispatchedFrom(tenant, l)

(* The stock a pick of lot l may be located in: its batch in a quality     *)
(* case, the whole accepted warehouse otherwise.                           *)
Locatable(pol, tenant, l) ==
    IF pol.inspection THEN InStock(pol, tenant, l)
    ELSE SumOver(Lots, LAMBDA x : InStock(pol, tenant, x))

---------------------------------------------------------------------------
(* distributor_allocation.compile_plan and the legacy priority allocation. *)

PreparedFor(prepared, o) ==
    FoldSeq(LAMBDA p, n : n + (IF p.order = o THEN p.remaining ELSE 0), 0, prepared)

Remaining(dispatched, o) == Max({0, Requested[o] - dispatched[o]})

(* What one order may be given of the stock that is left. *)
NewQuantity(o, open, available) ==
    LET q    == Min({open, available})
        done == q = open
    IN  IF \/ ~Terms[o].partial /\ ~done
           \/ q > 0 /\ q < Terms[o].minimum /\ ~(done /\ Terms[o].remainder)
        THEN 0 ELSE q

(* new[o], in the order of Rank, after the prepared picks took their part. *)
CompilePlan(usable, dispatched, prepared) ==
    LET fixed == [o \in Orders |-> Min({PreparedFor(prepared, o), Remaining(dispatched, o)})]
        Give(acc, o) ==
            LET q == NewQuantity(o, Remaining(dispatched, o) - fixed[o], acc.available)
            IN  [available |-> acc.available - q, new |-> [acc.new EXCEPT ![o] = q]]
        start == [available |-> usable - SumOver(Orders, LAMBDA o : PreparedFor(prepared, o)),
                  new |-> [o \in Orders |-> 0]]
    IN  [fixed |-> fixed, new |-> FoldLeft(Give, start, Rank).new]

(* The commitments exceed the usable stock: compile_plan raises. *)
Overcommitted(usable, prepared) ==
    SumOver(Orders, LAMBDA o : PreparedFor(prepared, o)) > usable

(* _recompute_allocations and _source_allocations. *)
Allocations(pol, usable, dispatched, prepared) ==
    LET plan == CompilePlan(usable, dispatched, prepared)
        Give(acc, o) ==
            LET q == Min({Remaining(dispatched, o), acc.available})
            IN  [available |-> acc.available - q, got |-> [acc.got EXCEPT ![o] = q]]
        greedy == FoldLeft(Give, [available |-> usable, got |-> [o \in Orders |-> 0]], Rank)
    IN  IF pol.contract THEN [o \in Orders |-> plan.fixed[o] + plan.new[o]] ELSE greedy.got

---------------------------------------------------------------------------
(* read_case: the canonical snapshot, or UNAVAILABLE when the documents do *)
(* not verify.                                                             *)

ReceiptsVerify(tenant) == \A l \in Lots : tenant.receipts[l] = <<>> \/ ReceiptOf(tenant, l)

QualityVerifies(pol, tenant) ==
    pol.inspection =>
        /\ \A e \in Events : tenant.transfers[e] # NoTransfer =>
               /\ tenant.transfers[e].inspection \in {"Accepted", "Rejected"}
               /\ tenant.transfers[e].released => tenant.transfers[e].inspection = "Accepted"
        /\ \A l \in Lots : Cardinality(ReleasesOf(tenant, l)) <= 1

ShipmentsVerify(tenant) ==
    \A e \in Events : \A i \in DOMAIN tenant.shipments[e] :
        LET ship == tenant.shipments[e][i]
        IN  ship.submitted /\ Len(Submitted(tenant.notes[ship.of])) = 1

Verifies(pol, tenant) ==
    /\ ReceiptsVerify(tenant)
    /\ QualityVerifies(pol, tenant)
    /\ ShipmentsVerify(tenant)
    /\ \A l \in Lots : DispatchedFrom(tenant, l) <= Accepted(pol, tenant, l)
    /\ \A o \in Orders : DispatchedTo(tenant, o) <= Requested[o]

ReceivedOf(tenant, l) == IF ReceiptOf(tenant, l) THEN Planned[l] ELSE 0

Snapshot(pol, tenant) ==
    LET usable     == [l \in Lots |-> InStock(pol, tenant, l)]
        dispatched == [o \in Orders |-> DispatchedTo(tenant, o)]
    IN  [received   |-> [l \in Lots |-> ReceivedOf(tenant, l)],
         usable     |-> usable,
         held       |-> [l \in Lots |-> ReceivedOf(tenant, l) - Accepted(pol, tenant, l)],
         dispatched |-> dispatched,
         allocated  |-> Allocations(pol, SumOver(Lots, LAMBDA l : usable[l]), dispatched, <<>>)]

---------------------------------------------------------------------------
(* The native operations. *)

(* _receive, with _receipt_for and _verify_receipt. *)
Receive(tenant, e, l, quantity) ==
    LET with(docs) == [tenant EXCEPT !.receipts[l] = docs]
    IN  CASE quantity # Planned[l]    -> Reads(tenant, "BLOCKED")
          [] ReceiptOf(tenant, l)        -> Reads(tenant, "ALREADY_APPLIED")
          [] tenant.receipts[l] # <<>>   -> Reads(tenant, "BLOCKED")
          [] OTHER -> Writes(<<tenant, with(<<Draft(e)>>), with(<<Final(e)>>)>>)

(* _record_inspection: a draft transfer, then its Quality Inspection. *)
RecordInspection(pol, tenant, e, l, result, whole) ==
    LET at(i) == [tenant EXCEPT !.transfers[e] =
                     [lot |-> l, released |-> FALSE, inspection |-> i, whole |-> whole]]
        verdict == IF result = "PASS" THEN "Accepted" ELSE "Rejected"
    IN  CASE ~pol.inspection \/ ~ReceiptOf(tenant, l) -> Reads(tenant, "BLOCKED")
          [] tenant.transfers[e] # NoTransfer ->
                 Reads(tenant, IF tenant.transfers[e].inspection = verdict THEN "ALREADY_APPLIED"
                            ELSE "BLOCKED")
          [] OTHER -> Writes(<<tenant, at(None), at("draft"), at(verdict)>>)

(* _release_from_quality: the transfer leaves quarantine, once per lot. *)
ReleaseFromQuality(tenant, e, l) ==
    LET x == tenant.transfers[e]
    IN  CASE x.lot # l \/ x.inspection # "Accepted" \/ ~x.whole -> Reads(tenant, "BLOCKED")
          [] x.released -> Reads(tenant, "ALREADY_APPLIED")
          [] ~x.released /\ ReleasesOf(tenant, l) # {} -> Rejected(tenant)
          [] OTHER -> Writes(<<tenant, [tenant EXCEPT !.transfers[e].released = TRUE]>>)

(* _tranche_for: the one configured tranche of this order and quantity. *)
TranchesFor(o, q) == {t \in Tranches : t.order = o /\ t.quantity = q}

\* Mutant of PreparePick: does not look for the tranche's Pick List first.
PreparePickAgain(pol, tenant, o, q) ==
    LET t == CHOOSE x \in TranchesFor(o, q) : TRUE
    IN  IF Cardinality(TranchesFor(o, q)) # 1 THEN Reads(tenant, "BLOCKED")
        ELSE Writes(<<tenant, [tenant EXCEPT !.picks[t] = Append(@, Draft(t))]>>)

(* _verify_pick, _pick_quantity and _pick_batch: what identifies a tranche *)
(* on a Pick List; only a quality case picks by batch.                     *)
SameGoods(pol, t, u) ==
    /\ u.order = t.order
    /\ u.quantity = t.quantity
    /\ pol.inspection => u.lot = t.lot

(* _pick_for: the Pick Lists of the order that fit the tranche. *)
PicksFor(pol, tenant, t) ==
    UNION {{<<u, i>> : i \in DOMAIN tenant.picks[u]} : u \in {x \in Tranches : SameGoods(pol, t, x)}}

(* _delivery_for and _delivery_matches_tranche: the notes of that pick. *)
NotesFor(pol, tenant, t) ==
    UNION {{<<x[1], i>> : i \in DOMAIN tenant.notes[x[1]]} : x \in PicksFor(pol, tenant, t)}

(* _prepare_pick: at most one Pick List per tranche. *)
PreparePick(pol, tenant, o, q) ==
    LET ts == TranchesFor(o, q)
        t  == CHOOSE x \in ts : TRUE
        n  == Cardinality(PicksFor(pol, tenant, t))
    IN  CASE Cardinality(ts) # 1 -> Reads(tenant, "BLOCKED")
          [] Cardinality(ts) = 1 /\ n > 1 -> Reads(tenant, "BLOCKED")
          [] Cardinality(ts) = 1 /\ n = 1 -> Reads(tenant, "ALREADY_APPLIED")
          [] Cardinality(ts) = 1 /\ n = 0 /\ Locatable(pol, tenant, t.lot) < q -> Reads(tenant, "BLOCKED")
          [] OTHER -> Writes(<<tenant, [tenant EXCEPT !.picks[t] = Append(@, Draft(t))]>>)

(* _verify_prepared_reference: the prepared rows name exactly this pick. *)
PreparedReference(prepared, pick) == prepared = {pick[1]}

(* _submit_pick. *)
SubmitPick(pol, tenant, t, prepared) ==
    LET picks == PicksFor(pol, tenant, t)
        pick  == CHOOSE x \in picks : TRUE
    IN  IF \/ t \notin Tranches
           \/ Cardinality(picks) # 1
           \/ ~PreparedReference(prepared, pick)
        THEN Reads(tenant, "BLOCKED")
        ELSE IF tenant.picks[pick[1]][pick[2]].submitted THEN Reads(tenant, "ALREADY_APPLIED")
        ELSE Writes(<<tenant, [tenant EXCEPT !.picks[pick[1]][pick[2]] = Final(pick[1])]>>)

(* _submit_delivery and _submit_delivery_draft: ERPNext's mapper saves the *)
(* draft note, which is then submitted if the stock is there.              *)
SubmitDelivery(pol, tenant, t) ==
    LET picks   == PicksFor(pol, tenant, t)
        u       == (CHOOSE x \in picks : TRUE)[1]
        notes   == NotesFor(pol, tenant, t)
        final   == {x \in notes : tenant.notes[x[1]][x[2]].submitted}
        drafted == IF notes = {} THEN [tenant EXCEPT !.notes[u] = <<Draft(u)>>] ELSE tenant
    IN  CASE Cardinality(picks) > 1 \/ Cardinality(final) > 1 -> Reads(tenant, "BLOCKED")
          [] Cardinality(picks) <= 1 /\ Cardinality(final) = 1 -> Reads(tenant, "ALREADY_APPLIED")
          [] final = {} /\ \/ {x \in picks : tenant.picks[x[1]][x[2]].submitted} = {}
                           \/ Cardinality(notes) > 1 -> Reads(tenant, "BLOCKED")
          [] OTHER -> IF InStock(pol, tenant, t.lot) < t.quantity THEN Rejected(drafted)
                      ELSE Writes(<<tenant, drafted, [tenant EXCEPT !.notes[u] = <<Final(u)>>]>>)

(* _shipment: its id is a digest of the case, the order and the event. *)
Shipment(tenant, e, t) ==
    LET with(d) == [tenant EXCEPT !.shipments[e] = d]
    IN  CASE tenant.shipments[e] # <<>> /\ tenant.shipments[e][1].submitted ->
                 Reads(tenant, "ALREADY_APPLIED")
          [] tenant.shipments[e] # <<>> -> Reads(tenant, "BLOCKED")
          [] Submitted(tenant.notes[t]) = <<>> -> Reads(tenant, "BLOCKED")
          [] OTHER -> Writes(<<tenant, with(<<Draft(t)>>), with(<<Final(t)>>)>>)

(* _reservation: this ERP confirms no native reservation. *)
Reservation(tenant) == Reads(tenant, "BLOCKED")

(* reconcile_receive_arrival: reads the receipt of exactly this event. *)
ReconcileReceive(pol, tenant, e, l) ==
    IF ReceiptOf(tenant, l) /\ tenant.receipts[l][1].of = e
    THEN IF Verifies(pol, tenant) THEN "APPLIED" ELSE "UNAVAILABLE"
    ELSE "BLOCKED"
=============================================================================
