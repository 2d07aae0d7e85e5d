--------------------------- MODULE MCAgentHarness ---------------------------
(***************************************************************************)
(* Instances of the agent harness: concurrent investigators on a shared    *)
(* budget, free answers of each stage, the offline profile over every      *)
(* record content and every set of available sources, chat turns, and the  *)
(* single provider attempt with its crashes.                               *)
(***************************************************************************)
EXTENDS ProviderProof

CONSTANTS s1, s2, foreign, p1, p2

MCSources == {s1, s2}
MCLaunches == {p1, p2}

Facts == [queue |-> "FAILED_RETRYABLE", documents |-> FALSE, message |-> 1,
          warehouse |-> 2, erp |-> 1, invoice |-> 2]

Generous == [requests |-> 99, input |-> 99, output |-> 99, perRequest |-> 1,
             cost |-> 999, prior |-> 0, cumulative |-> 999]

Base == [provider |-> "agentcore", chat |-> FALSE, role |-> Retryable,
         allowed |-> {s1}, admitted |-> MCSources, facts |-> Facts,
         free |-> {}, wrongRole |-> Posted, retries |-> TRUE, turns |-> 8,
         maxReads |-> 2, searches |-> 0, ceiling |-> 1, budget |-> Generous,
         lengths |-> {1}, outputs |-> {0}, corrections |-> {0}, faults |-> 0,
         proof |-> "none", profiles |-> <<>>, crashes |-> 0]

(* Three investigators race for a budget that does not last; one record. *)
Race == [Base EXCEPT !.provider = "bedrock", !.admitted = MCSources,
                     !.turns = 2, !.ceiling = 2, !.lengths = {1, 2}, !.outputs = {0, 2},
                     !.faults = 2,
                     !.budget = [requests |-> 5, input |-> 6, output |-> 6,
                                 perRequest |-> 2, cost |-> 14, prior |-> 1,
                                 cumulative |-> 15]]

(* One free stage at a time, the others as the profile. *)
FreeRetryable == [Base EXCEPT !.provider = "bedrock",
                              !.free = {Retryable, Synthesis, Evaluator},
                              !.turns = 3]
FreeShort     == [FreeRetryable EXCEPT !.free = {Short, Evaluator}, !.corrections = {0, 2},
                                       !.facts.warehouse = 1]
FreeStrict    == [FreeRetryable EXCEPT !.retries = FALSE, !.corrections = {0, 1}]

(* The offline profile over the contents of the records. *)
Profiles ==
    {[Base EXCEPT !.provider = "scripted", !.searches = 1, !.admitted = available,
                  !.facts = [queue |-> queue, documents |-> documents, message |-> 1,
                             warehouse |-> warehouse, erp |-> erp, invoice |-> 2]] :
        available \in {{s1}, MCSources}, documents \in BOOLEAN,
        queue \in {"FAILED_RETRYABLE", "FAILED", "CONSUMED"},
        warehouse \in 1 .. 2, erp \in 1 .. 2}

Chat == [Base EXCEPT !.chat = TRUE, !.provider = "bedrock",
                     !.free = {Retryable}, !.turns = 3, !.maxReads = 1,
                     !.searches = 2, !.corrections = {0, 2}, !.faults = 1]

(* A frozen plan, a free answer, and a runtime that may be unavailable. *)
Runtime == [Base EXCEPT !.free = {Retryable, Evaluator}, !.searches = 1, !.faults = 1]

(* The claimed attempt on the main case: no retries, one fault, one crash; *)
(* a free evaluator may leave the closure incomplete.                      *)
Advisory == [Base EXCEPT !.provider = "bedrock", !.retries = FALSE, !.turns = 2,
                         !.free = {Synthesis, Evaluator}, !.faults = 1, !.crashes = 1,
                         !.proof = "advisory"]
Capped == [Advisory EXCEPT !.free = {}, !.outputs = {1},
                           !.budget = [Generous EXCEPT !.input = 8]]

(* The smoke: the main case, then the one whose material document source   *)
(* is unavailable, on one ledger.                                          *)
Smoke == [Base EXCEPT !.provider = "bedrock", !.turns = 2, !.crashes = 1,
                      !.faults = 1, !.proof = "smoke",
                      !.profiles = <<[facts |-> Facts, admitted |-> MCSources,
                                      expected |-> "RECOMMEND_RECEIPT_RESTART"],
                                     [facts |-> Facts, admitted |-> {s1},
                                      expected |-> "REQUIRE_EVIDENCE"]>>]

MCModes == {Advisory, Capped, Smoke, Race, Runtime, FreeRetryable, FreeShort, FreeStrict, Chat} \cup Profiles

Supports(S)    == [relation |-> "SUPPORTS", cites |-> S]
Contradicts(S) == [relation |-> "CONTRADICTS", cites |-> S]

MCClaims ==
    {{}, {Supports(MCSources)}, {Supports({s1})}, {Contradicts(MCSources)},
     {Supports({s1}), Supports(MCSources)}, {Supports({s1}), Contradicts({s2})}}

=============================================================================
