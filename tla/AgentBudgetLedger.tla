------------------------- MODULE AgentBudgetLedger -------------------------
(***************************************************************************)
(* AgentBudgetLedger of ports/agent_model.py: one budget shared by every   *)
(* model stage of a run.  A request is reserved at its worst case before   *)
(* the provider stream is opened (BudgetedModel.stream) and settled when   *)
(* the stream ends, however it ends.  Every operation holds the ledger's   *)
(* lock, so it is one step.                                                *)
(*                                                                         *)
(* Prices are integers per token.  Cost is linear in the tokens, so the    *)
(* sums _actual_cost_usd and _reserved_cost_usd are the cost of the sums.  *)
(***************************************************************************)
EXTENDS Integers, FiniteSets

CONSTANTS
    InputPrice,     \* input_price_per_token
    OutputPrice     \* output_price_per_token

(* __post_init__ refuses a price that is not positive. *)
ASSUME PricesAssumption == InputPrice \in Nat \ {0} /\ OutputPrice \in Nat \ {0}

Smaller(a, b) == IF a < b THEN a ELSE b

Cost(input, output) == input * InputPrice + output * OutputPrice

EmptyLedger ==
    [requests |-> 0, input |-> 0, output |-> 0,
     reservedInput |-> 0, reservedOutput |-> 0, errors |-> 0]

(* The reservation a request gets: its serialized length, and the output   *)
(* ceiling cut to the per-request cap and to what is left of the total.    *)
Reservation(l, budget, length, ceiling) ==
    [input  |-> length,
     output |-> Smaller(Smaller(ceiling, budget.perRequest),
                        budget.output - (l.output + l.reservedOutput))]

(* Mutant of Fits: what other streams hold reserved is not counted. *)
FitsAlone(l, budget, r) ==
    /\ l.requests < budget.requests
    /\ l.input + r.input <= budget.input
    /\ r.output > 0
    /\ LET cost == Cost(l.input + r.input, l.output + r.output)
       IN  cost <= budget.cost /\ budget.prior + cost <= budget.cumulative

(* reserve_request admits the reservation r. *)
Fits(l, budget, r) ==
    /\ l.requests < budget.requests
    /\ l.input + l.reservedInput + r.input <= budget.input
    /\ r.output > 0
    /\ LET cost == Cost(l.input + l.reservedInput + r.input,
                        l.output + l.reservedOutput + r.output)
       IN  cost <= budget.cost /\ budget.prior + cost <= budget.cumulative

Reserve(l, r) ==
    [l EXCEPT !.requests = @ + 1,
              !.reservedInput = @ + r.input,
              !.reservedOutput = @ + r.output]

Refuse(l) == [l EXCEPT !.errors = @ + 1]

Release(l, r) ==
    [l EXCEPT !.reservedInput = @ - r.input, !.reservedOutput = @ - r.output]

Charge(l, usage) ==
    [l EXCEPT !.input = @ + usage.input, !.output = @ + usage.output]

(* The usage a settled stream may not report. *)
Overspends(l, budget, r, usage) ==
    LET charged == Charge(Release(l, r), usage)
        cost    == Cost(charged.input, charged.output)
    IN  \/ usage.input > r.input \/ usage.output > r.output
        \/ charged.input > budget.input \/ charged.output > budget.output
        \/ cost > budget.cost \/ budget.prior + cost > budget.cumulative

(* reconcile: the reservation is released and the usage charged, and only  *)
(* then is an excess reported.                                             *)
Reconcile(l, budget, r, usage) ==
    LET charged == Charge(Release(l, r), usage)
    IN  IF Overspends(l, budget, r, usage) THEN Refuse(charged) ELSE charged

(* abandon_reservation: malformed usage metadata; nothing is charged. *)
Abandon(l, r) == Refuse(Release(l, r))

============================================================================
