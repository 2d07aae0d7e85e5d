-------------------------- MODULE AgentValidation --------------------------
(***************************************************************************)
(* What the application lets a model say, and what it concludes from it:   *)
(* agents/validation.py, agents/policy.py and domain/assessment.py.        *)
(*                                                                         *)
(* Every authoritative source contributes at most one admitted record, so  *)
(* a record is named by its source; a source that is not admitted is       *)
(* unavailable.  A claim is its relation to the hypothesis and the set of  *)
(* records it cites.  The three investigators are in a fixed one-to-one    *)
(* correspondence with the hypotheses and are named by them.  A validation *)
(* that raises yields None.                                                *)
(***************************************************************************)
EXTENDS Integers, FiniteSets

CONSTANTS
    Sources,    \* REQUIRED_AUTHORITATIVE_SOURCES
    None        \* the result of a step that raised

Retryable == "RETRYABLE_MESSAGE"
Short     == "GENUINE_SHORT_SHIPMENT"
Posted    == "ALREADY_POSTED"

Hypotheses == {Retryable, Short, Posted}

Relations == {"SUPPORTS", "CONTRADICTS", "CONTEXT"}

Claims == [relation : Relations, cites : (SUBSET Sources) \ {{}}]

(* The records a result cites under one relation. *)
Cited(result, relation) ==
    UNION {c.cites : c \in {d \in result.claims : d.relation = relation}}

Supporting(result)    == Cited(result, "SUPPORTS")
Contradicting(result) == Cited(result, "CONTRADICTS")
Referenced(result)    == UNION {c.cites : c \in result.claims}

Missing(admitted) == Sources \ admitted

----------------------------------------------------------------------------
(* The three validators of AgentEvidenceValidator. *)

InvestigatorValid(r, reads, admitted) ==
    /\ Referenced(r) \subseteq admitted
    /\ reads \subseteq admitted
    /\ Referenced(r) \subseteq reads
    /\ r.conclusion = "NEEDS_EVIDENCE" => Missing(admitted) # {}
    /\ r.conclusion = "SUPPORTED" =>
          /\ Supporting(r) # {}
          /\ Contradicting(r) = {}
          /\ Missing(admitted) = {}
          /\ admitted \subseteq reads

(* A chat turn is validated against the role's own, smaller allowlist. *)
ChatValid(r, reads, allowed) ==
    /\ reads \subseteq allowed
    /\ Referenced(r) \subseteq allowed
    /\ Referenced(r) \subseteq reads
    /\ r.conclusion = "SUPPORTED" =>
          /\ Supporting(r) # {}
          /\ Contradicting(r) = {}

SynthesisValid(s, investigators, admitted) ==
    /\ Referenced(s) \subseteq admitted
    /\ s.conclusion = "NEEDS_EVIDENCE" <=> Missing(admitted) # {}
    /\ s.conclusion = "SUPPORTED" =>
          /\ Contradicting(s) = {}
          /\ Supporting(s) # {}
          /\ investigators[s.selected].conclusion = "SUPPORTED"

EvaluatorValid(e, s, admitted) ==
    /\ e.validated \subseteq s.claims
    /\ e.decision = "MORE_EVIDENCE" <=> Missing(admitted) # {}
    /\ e.decision = "ACCEPT" =>
          /\ e.validated = s.claims
          /\ ~ e.failed

----------------------------------------------------------------------------
(* The citation closure and the source coverage the application derives    *)
(* from the claims the evaluator validated.  Both records check themselves *)
(* when they are built.                                                    *)

Closure(s, e, admitted) ==
    LET evidence == Referenced([claims |-> e.validated])
        c == [evidence     |-> evidence,
              allClaims    |-> e.validated = s.claims,
              allAdmitted  |-> evidence = admitted,
              relations    |-> Supporting(s) \cap Contradicting(s) = {},
              availability |-> Missing(admitted) = {}]
    IN  IF c.allAdmitted /\ ~ (c.relations /\ c.availability) THEN None ELSE c

Coverage(c, admitted) ==
    LET complete == c.allAdmitted /\ Missing(admitted) = {}
        validated == complete /\ c.allClaims /\ c.relations /\ c.availability
    IN  IF validated # complete THEN None
        ELSE [available |-> Missing(admitted) = {},
              validated |-> validated]

(* complete_coverage of the ledger, recomputed from its own records. *)
LedgerComplete(selected, reads, s, c, admitted) ==
    /\ selected.conclusion = "SUPPORTED"
    /\ Contradicting(selected) = {} /\ Contradicting(s) = {}
    /\ \A source \in Sources :
          source \in admitted /\ source \in reads /\ source \in c.evidence

(* The ledger refuses to be built when it disagrees with the coverage: a   *)
(* complete coverage of a conclusion the selected investigator does not    *)
(* support raises.                                                         *)
Ledger(selected, reads, s, c, coverage, admitted) ==
    IF coverage.validated # LedgerComplete(selected, reads, s, c, admitted)
    THEN None ELSE [complete |-> coverage.validated]

----------------------------------------------------------------------------
(* The facts the admitted fields hold, as far as the policy reads them. *)

RetryableInvariants(facts, admitted) ==
    /\ admitted = Sources
    /\ facts.queue = "FAILED_RETRYABLE"
    /\ ~ facts.documents
    /\ facts.message > 0
    /\ facts.warehouse - facts.erp = facts.message

(* The conclusions a restart rests on. *)
ConclusionsSupport(s, selected) ==
    /\ s.selected = Retryable
    /\ s.conclusion = "SUPPORTED"
    /\ Contradicting(s) = {} /\ Contradicting(selected) = {}
    /\ selected.conclusion = "SUPPORTED"

(* Mutant of Recommends: the policy no longer compares the quantities and  *)
(* the state of the queue.                                                 *)
RecommendsUnchecked(s, selected, e, c, coverage, ledger, facts, admitted) ==
    /\ ConclusionsSupport(s, selected)
    /\ coverage.available /\ coverage.validated
    /\ c.allClaims /\ c.allAdmitted /\ c.relations /\ c.availability
    /\ ledger.complete
    /\ e.validated = s.claims
    /\ e.decision = "ACCEPT" /\ ~ e.failed
    /\ Supporting(s) = Supporting(selected)

(* ActionRecommendationPolicy.evaluate: the only action is a restart. *)
Recommends(s, selected, e, c, coverage, ledger, facts, admitted) ==
    /\ ConclusionsSupport(s, selected)
    /\ coverage.available /\ coverage.validated
    /\ c.allClaims /\ c.allAdmitted /\ c.relations /\ c.availability
    /\ ledger.complete
    /\ e.validated = s.claims
    /\ c.evidence = admitted
    /\ e.decision = "ACCEPT" /\ ~ e.failed
    /\ Supporting(s) = Supporting(selected)
    /\ RetryableInvariants(facts, admitted)

----------------------------------------------------------------------------
(* build_assessment: the decision, and the table of diagnoses it agrees    *)
(* with (validate_investigation_assessment).                               *)

DomainEvaluation(s, e, action, admitted) ==
    IF s.selected = Retryable /\ s.conclusion = "SUPPORTED"
          /\ ~ action /\ Missing(admitted) = {}
    THEN [decision |-> "REJECT", failed |-> TRUE]
    ELSE [decision |-> e.decision, failed |-> e.failed]

Decision(s, e, action, admitted) ==
    CASE Missing(admitted) # {}            -> "REQUIRE_EVIDENCE"
      [] Missing(admitted) = {} /\ s.selected = Posted
                                           -> "RECEIPT_ALREADY_POSTED"
      [] Missing(admitted) = {} /\ s.selected = Short -> "PROTECT"
      [] OTHER -> IF e.decision = "ACCEPT" /\ action
                  THEN "RECOMMEND_RECEIPT_RESTART" ELSE "EVALUATOR_REJECTED"

Compatible(decision, s, domain, action, admitted) ==
    CASE decision = "RECOMMEND_RECEIPT_RESTART" ->
            /\ s.selected = Retryable /\ s.conclusion = "SUPPORTED"
            /\ domain.decision = "ACCEPT" /\ action /\ ~ domain.failed
            /\ Contradicting(s) = {} /\ Sources \subseteq Supporting(s)
      [] decision = "RECEIPT_ALREADY_POSTED" ->
            /\ s.conclusion = "SUPPORTED"
            /\ domain.decision = "ACCEPT" /\ ~ action /\ ~ domain.failed
      [] decision = "REQUIRE_EVIDENCE" ->
            /\ s.conclusion = "NEEDS_EVIDENCE"
            /\ domain.decision = "MORE_EVIDENCE" /\ ~ action
      [] decision = "PROTECT" ->
            /\ s.conclusion = "SUPPORTED"
            /\ domain.decision = "REJECT" /\ ~ action
      [] decision = "EVALUATOR_REJECTED" ->
            domain.decision = "REJECT" /\ ~ action

(* The whole of build_assessment: the claim IDs must come in the order of  *)
(* the closure, and every decision but a request for evidence must have    *)
(* validated every admitted record.                                        *)
Assess(s, e, c, action, admitted) ==
    LET domain   == DomainEvaluation(s, e, action, admitted)
        decision == Decision(s, e, action, admitted)
    IN  IF /\ e.ordered
           /\ domain.decision # "MORE_EVIDENCE" => c.evidence = admitted
           /\ Compatible(decision, s, domain, action, admitted)
        THEN decision ELSE None

----------------------------------------------------------------------------
(* _profile_outputs: what the offline provider answers at every stage. *)

ProfileSelected(facts, admitted) ==
    IF Missing(admitted) # {} THEN Retryable
    ELSE IF facts.queue = "CONSUMED" /\ facts.documents THEN Posted
    ELSE IF facts.warehouse = facts.erp /\ facts.warehouse < facts.invoice
         THEN Short
    ELSE Retryable

ProfileClaims(relation, admitted) == {[relation |-> relation, cites |-> admitted]}

ProfileInvestigator(h, facts, admitted) ==
    LET selected == h = ProfileSelected(facts, admitted)
        missing  == Missing(admitted) # {}
    IN  [role |-> h,
         conclusion |-> IF ~ selected THEN "REJECTED"
                        ELSE IF missing THEN "NEEDS_EVIDENCE" ELSE "SUPPORTED",
         claims |-> IF ~ selected THEN ProfileClaims("CONTRADICTS", admitted)
                    ELSE IF missing THEN {}
                    ELSE ProfileClaims("SUPPORTS", admitted)]

ProfileSynthesis(facts, admitted) ==
    LET r == ProfileInvestigator(ProfileSelected(facts, admitted), facts, admitted)
    IN  [selected |-> r.role, conclusion |-> r.conclusion, claims |-> r.claims]

(* Mutant of ProfileEvaluator: a short shipment is accepted like the rest. *)
ProfileAcceptsShort(facts, admitted) ==
    LET s == ProfileSynthesis(facts, admitted)
    IN  [decision  |-> IF Missing(admitted) # {} THEN "MORE_EVIDENCE" ELSE "ACCEPT",
         validated |-> s.claims,
         failed    |-> Missing(admitted) # {},
         ordered   |-> TRUE]

ProfileEvaluator(facts, admitted) ==
    LET s == ProfileSynthesis(facts, admitted)
    IN  [decision  |-> IF Missing(admitted) # {} THEN "MORE_EVIDENCE"
                       ELSE IF s.selected = Short THEN "REJECT" ELSE "ACCEPT",
         validated |-> s.claims,
         failed    |-> Missing(admitted) # {} \/ s.selected = Short,
         ordered   |-> TRUE]

============================================================================
