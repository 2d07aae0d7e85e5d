---------------------- MODULE MCDistributorOperations ----------------------
(* Two lots, two orders, one tranche each, three photos of two images. *)
EXTENDS DistributorPhotos

MCPlanned == [l \in Lots |-> IF l = "A" THEN 2 ELSE 1]
MCRequested == [o \in Orders |-> IF o = "O1" THEN 2 ELSE 1]
MCTerms == [o \in Orders |-> [partial |-> o = "O1", minimum |-> 1, remainder |-> TRUE]]
MCRank == <<"O1", "O2">>
MCTranches == {[order |-> "O1", lot |-> "A", quantity |-> 2],
               [order |-> "O2", lot |-> "B", quantity |-> 1]}
AllEvents ==
    [arriveA |-> [type |-> "arrival", lot |-> "A", quantity |-> 2],
     arriveB |-> [type |-> "arrival", lot |-> "B", quantity |-> 1],
     askB    |-> [type |-> "arrival", lot |-> "B", quantity |-> 1],
     passA   |-> [type |-> "inspection", lot |-> "A", result |-> "PASS", whole |-> TRUE],
     sampleA |-> [type |-> "inspection", lot |-> "A", result |-> "PASS", whole |-> FALSE],
     failA   |-> [type |-> "inspection", lot |-> "A", result |-> "FAIL", whole |-> FALSE],
     pickA   |-> [type |-> "picked", order |-> "O1", lot |-> "A", quantity |-> 2],
     pickup  |-> [type |-> "pickup", shipment |-> "pickA"],
     deliver |-> [type |-> "delivery", shipment |-> "pickA"]]
MCEvent == [e \in Events |-> AllEvents[e]]
Plain == [contract |-> FALSE, inspection |-> FALSE, reservation |-> FALSE,
          economic |-> None, assistant |-> {}, reader |-> None]
Quality == [Plain EXCEPT !.inspection = TRUE]
QualityContract == [Quality EXCEPT !.contract = TRUE]
(* The economic case with an assistant, the reserving case, and the cases   *)
(* with a photo reader: readings while the goods arrive, longer chains of   *)
(* readings, and photos bound to proposals.                                 *)
Contract == [Plain EXCEPT !.contract = TRUE]
Economic == [Plain EXCEPT !.contract = TRUE, !.economic = "pickA", !.assistant = {"askB"}]
Reserving == [Plain EXCEPT !.reservation = TRUE]
Reading == [Plain EXCEPT !.reader = "named"]
Chaining == [Reading EXCEPT !.contract = TRUE]
Filing == [Plain EXCEPT !.reader = "anonymous"]
MCPolicies == {Plain, Contract, Quality, QualityContract, Economic, Reserving, Reading, Chaining, Filing}
(* Which events each configuration is offered: inspections matter in a      *)
(* quality case only, a reserving case stops at its first arrival, and the  *)
(* goods of the photographed case arrive by approved proposals.             *)
MCOffered ==
    [p \in MCPolicies |->
        CASE p \in {Plain, Contract} -> {"arriveA", "pickA", "arriveB"}
          [] p = Quality         -> {"arriveA", "passA", "pickA", "pickup", "deliver"}
          [] p = QualityContract -> {"arriveA", "passA", "failA", "sampleA"}
          [] p = Economic        -> {"arriveA"}
          [] p = Reserving       -> {"arriveA", "pickA"}
          [] p = Reading         -> {"arriveA"}
          [] OTHER               -> {}]
MCMaxReads == [p \in MCPolicies |-> CASE p = Chaining -> 4 [] p = Reading -> 3 [] OTHER -> 0]
MCDrafted ==
    [p \in MCPolicies |->
        CASE p = Filing -> {"arriveA", "arriveB"} [] p \in {Plain, Quality} -> {"pickA"} [] OTHER -> {}]
MCImage == [p \in Photos |-> IF p = "p3" THEN "other" ELSE "same"]
MCSightings == {[item |-> "same", lot |-> "same"], [item |-> "same", lot |-> "other"]}
============================================================================
