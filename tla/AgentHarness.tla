---------------------------- MODULE AgentHarness ----------------------------
(***************************************************************************)
(* One run of the agent harness (agents/harness.py): three investigators   *)
(* work concurrently, each in its own agent loop with two audited read     *)
(* tools, then a synthesis and an evaluation follow one another, and the   *)
(* application derives what may be recommended.  A chat turn runs a single *)
(* investigator on a smaller set of records.                               *)
(*                                                                         *)
(* The provider decides what the agents answer: the scripted one answers   *)
(* the offline profile, the others answer anything.  Only the Bedrock      *)
(* provider's model is wrapped in the budget.  The agent loop itself       *)
(* belongs to the Strands SDK: a turn opens one model request, which ends  *)
(* in a tool call or in the structured answer.                             *)
(***************************************************************************)
EXTENDS AgentValidation, AgentBudgetLedger, Sequences

CONSTANTS
    Modes,              \* the runs to explore: provider, evidence, bounds
    Foreign,            \* an evidence ID outside the case
    InvestigatorClaims, \* the claim sets a free investigator may answer
    SynthesisClaims     \* the claim sets a free synthesis may answer

Synthesis == "synthesis"
Evaluator == "evaluator"
Agents == Hypotheses \cup {Synthesis, Evaluator}

(* What the admitted records say. *)
Contents == [queue : STRING, documents : BOOLEAN, message : Int, warehouse : Int,
             erp : Int, invoice : Int]

(* A run's configuration; proof, profiles and crashes are about the paid   *)
(* attempt (ProviderProof).                                                *)
Configurations ==
    [provider : {"scripted", "agentcore", "bedrock"}, chat : BOOLEAN, role : Hypotheses,
     allowed : SUBSET Sources, admitted : SUBSET Sources, facts : Contents,
     free : SUBSET Agents, wrongRole : Hypotheses, retries : BOOLEAN, turns : Nat,
     maxReads : Nat, searches : Nat, ceiling : Nat,
     budget : [requests : Nat, input : Nat, output : Nat, perRequest : Nat, cost : Nat,
               prior : Nat, cumulative : Nat],
     lengths : SUBSET Nat, outputs : SUBSET Nat, corrections : SUBSET Nat, faults : Nat,
     proof : {"none", "advisory", "smoke"},
     profiles : Seq([facts : Contents, admitted : SUBSET Sources, expected : STRING]),
     crashes : Nat]

ASSUME ConfigurationsAssumption ==
    \A m \in Modes : m \in Configurations /\ (m.proof = "smoke" => m.profiles # <<>>)
ASSUME NoDecisionAssumption == None # "RECOMMEND_RECEIPT_RESTART"
ASSUME NoReservationAssumption == None \notin [input : Nat, output : Nat]

VARIABLES
    mode,       \* what this run is configured with and given
    agent,      \* the loop of every agent
    ledger,     \* the shared budget
    events,     \* the operation events emitted to the sink
    run,        \* what run_async returned or raised
    sent,       \* history: input tokens of the requests that were opened
    faults      \* faults still to come

vars == <<mode, agent, ledger, events, run, sent, faults>>

Fresh(attempt) ==
    [phase |-> "turn", attempt |-> attempt, reads |-> {}, readCount |-> 0,
     searches |-> 0, bad |-> FALSE, turns |-> 0, held |-> None, result |-> None]

Idle == [Fresh(0) EXCEPT !.phase = "idle"]

(* A loop that has left its attempt keeps only what later stages read. *)
Settled(a, phase, reads, result) ==
    [Idle EXCEPT !.phase = phase, !.attempt = agent[a].attempt,
                 !.reads = reads, !.result = result]

(* The roles a run uses, and the records its tools may read. *)
Roles == IF mode.chat THEN {mode.role} ELSE Hypotheses
Allowed == IF mode.chat THEN mode.allowed ELSE mode.admitted
Budgeted == mode.provider = "bedrock"
Planned == mode.provider \in {"scripted", "agentcore"}

Event(type, a, attempt, status, ids) ==
    [type |-> type, agent |-> a, attempt |-> attempt,
     status |-> status, ids |-> ids]

Started(a, attempt)   == Event("STARTED", a, attempt, "RUNNING", {})
Completed(a, status)  == Event("COMPLETED", a, agent[a].attempt, status, {})
Returned(a, source)   == Event("EVIDENCE", a, agent[a].attempt, "ADMITTED", {source})
HandedOff(a, reads)   == Event("HANDOFF", a, agent[a].attempt, "HANDED_OFF", reads)

Init ==
    /\ mode \in Modes
    /\ agent = [a \in Agents |-> Idle]
    /\ ledger = EmptyLedger
    /\ events = {}
    /\ run = [status |-> "running", decision |-> None]
    /\ sent = 0
    /\ faults = mode.faults

Running == run.status = "running"

----------------------------------------------------------------------------
(* The end of an attempt. *)

(* What the ledger holds once the stream of agent a was cut off: the       *)
(* generator's finally clause settles it with the usage seen so far.       *)
CutOff(a, l) ==
    IF agent[a].held = None THEN l
    ELSE Reconcile(l, mode.budget, agent[a].held, [input |-> 0, output |-> 0])

(* The error of an attempt reaches _run_checked_once: another attempt, or  *)
(* a failed operation.  Synthesis and evaluation report every attempt; an  *)
(* investigator only its last.  emitted holds what the attempt emitted     *)
(* before it failed.                                                       *)
AttemptFails(a, retryable, emitted) ==
    LET again == retryable /\ mode.retries /\ agent[a].attempt = 1
        report == IF a \in Hypotheses
                  THEN IF again THEN {} ELSE {Completed(a, "FAILED")}
                  ELSE IF emitted = {} THEN {Completed(a, "FAILED")} ELSE emitted
    IN  /\ agent' = [agent EXCEPT ![a] =
                        IF again THEN Fresh(2) ELSE Settled(a, "failed", {}, None)]
        /\ events' = events \cup report
                       \cup (IF again THEN {Started(a, 2)} ELSE {})
        /\ run' = IF again \/ a \in Hypotheses THEN run
                  ELSE [run EXCEPT !.status = "error"]

----------------------------------------------------------------------------
(* Starting the loops. *)

(* invoke of one investigator, or the single one of a chat turn. *)
StartInvestigator(h) ==
    /\ Running /\ h \in Roles
    /\ agent[h].phase = "idle"
    /\ agent' = [agent EXCEPT ![h] = Fresh(1)]
    /\ events' = events \cup {Started(h, 1)}
    /\ UNCHANGED <<mode, ledger, run, sent, faults>>

(* gather has returned all three runs. *)
StartSynthesis ==
    /\ Running /\ ~ mode.chat
    /\ \A h \in Hypotheses : agent[h].phase = "done"
    /\ agent[Synthesis].phase = "idle"
    /\ agent' = [agent EXCEPT ![Synthesis] = Fresh(1)]
    /\ events' = events \cup {Started(Synthesis, 1)}
    /\ UNCHANGED <<mode, ledger, run, sent, faults>>

StartEvaluator ==
    /\ Running
    /\ agent[Synthesis].phase = "done"
    /\ agent[Evaluator].phase = "idle"
    /\ agent' = [agent EXCEPT ![Evaluator] = Fresh(1)]
    /\ events' = events \cup {Started(Evaluator, 1)}
    /\ UNCHANGED <<mode, ledger, run, sent, faults>>

----------------------------------------------------------------------------
(* One turn: a request is reserved and its stream opened. *)

(* BudgetedModel.stream up to the provider call.  A refusal is a           *)
(* RuntimeError, which no stage retries.                                   *)
OpenRequest(a, length) ==
    /\ Running
    /\ agent[a].phase = "turn" /\ agent[a].turns < mode.turns
    /\ LET r == Reservation(ledger, mode.budget, length, mode.ceiling)
       IN  IF ~ Budgeted
           THEN /\ agent' = [agent EXCEPT ![a].phase = "streaming",
                                          ![a].turns = @ + 1]
                /\ UNCHANGED <<ledger, events, run, sent>>
           ELSE IF Fits(ledger, mode.budget, r)
           THEN /\ ledger' = Reserve(ledger, r)
                /\ agent' = [agent EXCEPT ![a].phase = "streaming",
                                          ![a].turns = @ + 1, ![a].held = r]
                /\ sent' = sent + length
                /\ UNCHANGED <<events, run>>
           ELSE /\ ledger' = Refuse(ledger)
                /\ AttemptFails(a, FALSE, {})
                /\ UNCHANGED sent
    /\ UNCHANGED <<mode, faults>>

(* The stream of agent a ends and reports usage within its reservation. *)
StreamEnds(a) ==
    /\ Running /\ agent[a].phase = "streaming"
    /\ IF agent[a].held = None THEN UNCHANGED ledger
       ELSE \E output \in mode.outputs :
               LET usage == [input |-> agent[a].held.input, output |-> output]
               IN  /\ ~ Overspends(ledger, mode.budget, agent[a].held, usage)
                   /\ ledger' = Reconcile(ledger, mode.budget, agent[a].held, usage)
    /\ UNCHANGED <<mode, sent, faults>>

NextTurn(a, more) ==
    agent' = [agent EXCEPT ![a] = [more EXCEPT !.phase = "turn", !.held = None]]

(* A frozen plan reads the records one a turn; a model may call the tool   *)
(* several times in one turn, for records outside the case too.            *)
ReadCalls(a) ==
    LET unread == Allowed \ agent[a].reads
    IN  IF Planned THEN IF unread = {} THEN {} ELSE {{CHOOSE id \in unread : TRUE}}
        ELSE IF a \in mode.free THEN (SUBSET (Sources \cup {Foreign})) \ {{}}
        ELSE {unread} \ {{}}

(* read_admitted_evidence: a read past the limit or outside the allowlist  *)
(* is refused, and leaves an error in the audit of the attempt.            *)
ReadTurn(a, ids) ==
    /\ a \in Hypotheses
    /\ StreamEnds(a)
    /\ \E accepted \in SUBSET (ids \cap Allowed) :
          /\ Cardinality(accepted) =
                Smaller(Cardinality(ids \cap Allowed), mode.maxReads - agent[a].readCount)
          /\ NextTurn(a, [agent[a] EXCEPT !.reads = @ \cup accepted,
                                          !.readCount = @ + Cardinality(accepted),
                                          !.bad = @ \/ accepted # ids])
          /\ events' = events \cup {Returned(a, id) : id \in accepted}
    /\ UNCHANGED run

(* search_synthetic_knowledge, at the corpus version of the case or not. *)
SearchTurn(a, current) ==
    /\ a \in Hypotheses
    /\ mode.searches > 0
    /\ StreamEnds(a)
    /\ Planned => current /\ agent[a].searches = 0
                    /\ agent[a].reads = Allowed
    /\ NextTurn(a, IF agent[a].searches < mode.searches /\ current
                   THEN [agent[a] EXCEPT !.searches = @ + 1]
                   ELSE [agent[a] EXCEPT !.bad = TRUE])
    /\ UNCHANGED <<events, run>>

(* A frozen plan is played before the model is asked for its answer. *)
PlanPlayed(a) ==
    /\ a \notin mode.free => agent[a].reads = Allowed
    /\ Planned => agent[a].reads = Allowed /\ agent[a].searches = mode.searches

----------------------------------------------------------------------------
(* The structured answer, and the checks that follow in the same step. *)

InvestigatorAnswers(h) ==
    IF mode.provider = "scripted" \/ h \notin mode.free
    THEN {ProfileInvestigator(h, mode.facts, mode.admitted)}
    ELSE [role : {h, mode.wrongRole}, claims : InvestigatorClaims,
          conclusion : {"SUPPORTED", "REJECTED", "NEEDS_EVIDENCE"}]

SynthesisAnswers ==
    IF mode.provider = "scripted" \/ Synthesis \notin mode.free
    THEN {ProfileSynthesis(mode.facts, mode.admitted)}
    ELSE [selected : Hypotheses, claims : SynthesisClaims,
          conclusion : {"SUPPORTED", "REJECTED", "NEEDS_EVIDENCE"}]

EvaluatorAnswers(s) ==
    IF mode.provider = "scripted" \/ Evaluator \notin mode.free
    THEN {ProfileEvaluator(mode.facts, mode.admitted)}
    ELSE [decision : {"ACCEPT", "REJECT", "MORE_EVIDENCE"},
          validated : SUBSET s.claims, failed : BOOLEAN,
          ordered : IF Cardinality(s.claims) > 1 THEN BOOLEAN ELSE {TRUE}]

(* The checks of run_investigator and of the caller's validator. *)
InvestigatorPasses(h, r, corrections) ==
    /\ r.role = h
    /\ ~ agent[h].bad
    /\ corrections <= 1
    /\ IF mode.chat THEN ChatValid(r, agent[h].reads, Allowed)
       ELSE InvestigatorValid(r, agent[h].reads, mode.admitted)

AnswerInvestigator(h, r, corrections) ==
    /\ h \in Hypotheses
    /\ StreamEnds(h) /\ PlanPlayed(h)
    /\ IF ~ InvestigatorPasses(h, r, corrections)
       THEN AttemptFails(h, ~ mode.chat, {})
       ELSE IF corrections > 0 /\ ~ mode.retries /\ ~ mode.chat
       THEN AttemptFails(h, FALSE, {})
       ELSE /\ agent' = [agent EXCEPT ![h] = Settled(h, "done", agent[h].reads, r)]
            /\ events' = events \cup {Completed(h, "COMPLETED")}
                   \cup (IF mode.chat THEN {} ELSE {HandedOff(h, agent[h].reads)})
            /\ run' = IF mode.chat THEN [run EXCEPT !.status = "chat"] ELSE run

(* run_synthesis reports COMPLETED before the harness validates. *)
AnswerSynthesis(s, corrections) ==
    LET investigators == [h \in Hypotheses |-> agent[h].result]
        passes == corrections <= 1
                    /\ SynthesisValid(s, investigators, mode.admitted)
    IN  /\ StreamEnds(Synthesis)
        /\ IF ~ passes
           THEN AttemptFails(Synthesis, TRUE, {Completed(Synthesis, "COMPLETED")})
           ELSE IF corrections > 0 /\ ~ mode.retries
           THEN AttemptFails(Synthesis, FALSE, {Completed(Synthesis, "COMPLETED")})
           ELSE /\ agent' = [agent EXCEPT ![Synthesis] =
                                Settled(Synthesis, "done", {}, s)]
                /\ events' = events \cup {Completed(Synthesis, "COMPLETED")}
                /\ UNCHANGED run

(* Everything the harness derives once the evaluation is valid.  An        *)
(* accepted synthesis with an incomplete closure becomes a partial         *)
(* advisory, which carries no assessment and no recommendation.            *)
Conclude(s, e) ==
    LET selected == agent[s.selected].result
        reads    == agent[s.selected].reads
        c        == Closure(s, e, mode.admitted)
        raised   == [run EXCEPT !.status = "error"]
    IN  IF c = None THEN raised
        ELSE LET coverage == Coverage(c, mode.admitted)
             IN  IF coverage = None THEN raised
        ELSE IF e.decision = "ACCEPT" /\ ~ (c.allClaims /\ c.allAdmitted)
             THEN [run EXCEPT !.status = "partial"]
        ELSE LET l == Ledger(selected, reads, s, c, coverage, mode.admitted)
             IN  IF l = None THEN raised
        ELSE LET action == Recommends(s, selected, e, c, coverage, l,
                                      mode.facts, mode.admitted)
                 decision == Assess(s, e, c, action, mode.admitted)
             IN  IF decision = None THEN raised
                 ELSE [status |-> "assessed", decision |-> decision]

AnswerEvaluator(e, corrections) ==
    LET s == agent[Synthesis].result
        passes == corrections <= 1 /\ EvaluatorValid(e, s, mode.admitted)
    IN  /\ StreamEnds(Evaluator)
        /\ IF ~ passes
           THEN AttemptFails(Evaluator, TRUE, {Completed(Evaluator, "COMPLETED")})
           ELSE IF corrections > 0 /\ ~ mode.retries
           THEN AttemptFails(Evaluator, FALSE, {Completed(Evaluator, "COMPLETED")})
           ELSE /\ agent' = [agent EXCEPT ![Evaluator] =
                                Settled(Evaluator, "done", {}, e)]
                /\ events' = events \cup {Completed(Evaluator, "COMPLETED")}
                /\ run' = Conclude(s, e)

----------------------------------------------------------------------------
(* Failures. *)

Fault(a) ==
    /\ Running /\ faults > 0
    /\ agent[a].phase = "streaming"
    /\ faults' = faults - 1
    /\ UNCHANGED <<mode, sent>>

(* The per-call wait_for expires while the provider is awaited. *)
TimeOut(a) ==
    /\ Fault(a)
    /\ ledger' = CutOff(a, ledger)
    /\ AttemptFails(a, ~ mode.chat /\ ledger'.errors = ledger.errors, {})

(* The provider is unavailable or refuses: a RuntimeError. *)
ProviderFails(a) ==
    /\ Fault(a)
    /\ ledger' = CutOff(a, ledger)
    /\ AttemptFails(a, FALSE, {})

(* The stream carries usage metadata that is not a pair of counts. *)
MalformedUsage(a) ==
    /\ Fault(a) /\ agent[a].held # None
    /\ ledger' = Abandon(ledger, agent[a].held)
    /\ AttemptFails(a, FALSE, {})

(* The stream reports more than its reservation. *)
UsageOverrun(a) ==
    /\ Fault(a) /\ agent[a].held # None
    /\ ledger' = Reconcile(ledger, mode.budget, agent[a].held,
                           [input  |-> agent[a].held.input + 1,
                            output |-> agent[a].held.output])
    /\ AttemptFails(a, FALSE, {})

(* The loop reaches its turn limit with no structured answer. *)
NoAnswer(a) ==
    /\ Running
    /\ agent[a].phase = "turn" /\ agent[a].turns = mode.turns
    /\ AttemptFails(a, ~ mode.chat, {})
    /\ UNCHANGED <<mode, ledger, sent, faults>>

(* The ledger once every open stream was cut off, in whatever order. *)
CutOffAll ==
    CutOff(Retryable, CutOff(Short, CutOff(Posted,
        CutOff(Synthesis, CutOff(Evaluator, ledger)))))

CancelRun ==
    /\ run' = [run EXCEPT !.status = "error"]
    /\ ledger' = CutOffAll
    /\ agent' = [a \in Agents |->
                    IF agent[a].phase \in {"turn", "streaming"}
                    THEN Settled(a, "cancelled", {}, None) ELSE agent[a]]

(* The first investigator that fails ends gather; asyncio.run then cancels *)
(* the others, whose operations never report.                              *)
RunRaises ==
    /\ Running
    /\ \E h \in Roles : agent[h].phase = "failed"
    /\ CancelRun
    /\ UNCHANGED <<mode, events, sent, faults>>

(* wait_for around gather: only the investigators are under it. *)
WholeRunTimeout ==
    /\ Running /\ faults > 0 /\ ~ mode.chat
    /\ \E h \in Hypotheses : agent[h].phase \in {"turn", "streaming"}
    /\ faults' = faults - 1
    /\ CancelRun
    /\ UNCHANGED <<mode, events, sent>>

(* A run that has returned or raised takes no further step. *)
Finished == ~ Running /\ UNCHANGED vars

Next ==
    \/ \E h \in Hypotheses : StartInvestigator(h)
    \/ StartSynthesis
    \/ StartEvaluator
    \/ \E a \in Agents, length \in mode.lengths : OpenRequest(a, length)
    \/ \E h \in Hypotheses : \E ids \in ReadCalls(h) : ReadTurn(h, ids)
    \/ \E h \in Hypotheses, current \in BOOLEAN : SearchTurn(h, current)
    \/ \E h \in Hypotheses, n \in mode.corrections :
          \E r \in InvestigatorAnswers(h) : AnswerInvestigator(h, r, n)
    \/ \E s \in SynthesisAnswers, n \in mode.corrections : AnswerSynthesis(s, n)
    \/ /\ agent[Synthesis].result # None
       /\ \E e \in EvaluatorAnswers(agent[Synthesis].result),
             n \in mode.corrections : AnswerEvaluator(e, n)
    \/ \E a \in Agents :
          \/ TimeOut(a)
          \/ ProviderFails(a)
          \/ MalformedUsage(a)
          \/ UsageOverrun(a)
          \/ NoAnswer(a)
    \/ RunRaises
    \/ WholeRunTimeout
    \/ Finished

Spec == Init /\ [][Next]_vars

----------------------------------------------------------------------------
(* Properties. *)

(* What the open streams reserved, added up. *)
Held(a, tokens) == IF agent[a].held = None THEN 0 ELSE agent[a].held[tokens]
HeldByAll(tokens) ==
    Held(Retryable, tokens) + Held(Short, tokens) + Held(Posted, tokens)
        + Held(Synthesis, tokens) + Held(Evaluator, tokens)

(* However the streams of concurrent agents are opened, settled, cut off   *)
(* or abandoned, the ledger holds in reserve exactly what the open streams *)
(* reserved, and what it charged and reserved stays within every cap, save *)
(* the excess the provider itself reported (AgentBudgetLedger).            *)
BudgetHolds ==
    LET input    == ledger.input + ledger.reservedInput
        output   == ledger.output + ledger.reservedOutput
        excess   == mode.faults - faults
    IN  /\ ledger.reservedInput = HeldByAll("input")
        /\ ledger.reservedOutput = HeldByAll("output")
        /\ ledger.requests <= mode.budget.requests
        /\ input <= mode.budget.input + excess
        /\ output <= mode.budget.output
        /\ Cost(input, output) <= mode.budget.cost + excess * InputPrice

(* A conclusion rests on what was read.  The evidence an investigator      *)
(* hands off is what its tools returned in that same attempt, it covers    *)
(* what the result cites, and no synthesis starts before every             *)
(* investigator has handed off exactly once.  A restart is recommended     *)
(* only when the investigator of the retryable hypothesis itself read and  *)
(* cited every authoritative record in the attempt that was accepted, none *)
(* speaks against it, and the records themselves show a failed, retryable  *)
(* message whose quantity is the difference (ActionRecommendationPolicy).  *)
ActionIsGrounded ==
    LET read(h, n)  == UNION {e.ids : e \in {x \in events :
                                 x.type = "EVIDENCE" /\ x.agent = h /\ x.attempt = n}}
        handoffs(h) == {e \in events : e.type = "HANDOFF" /\ e.agent = h}
        r           == agent[Retryable].result
    IN  /\ \A h \in Hypotheses : \A e \in handoffs(h) :
              e.ids = read(h, e.attempt) /\ Referenced(agent[h].result) \subseteq e.ids
        /\ Started(Synthesis, 1) \in events =>
              \A h \in Hypotheses : Cardinality(handoffs(h)) = 1
        /\ run.decision = "RECOMMEND_RECEIPT_RESTART" =>
              /\ read(Retryable, agent[Retryable].attempt) = Sources
              /\ Supporting(r) = Sources
              /\ Contradicting(r) = {}
              /\ mode.facts.queue = "FAILED_RETRYABLE" /\ ~ mode.facts.documents
              /\ mode.facts.warehouse = mode.facts.erp + mode.facts.message

(* The offline provider always reaches an assessment: whatever the records *)
(* hold and whichever sources are missing, what _profile_outputs answers   *)
(* passes every validator, the closure, the ledger and the assessment.     *)
ScriptedRunAssesses ==
    mode.provider = "scripted" => run.status # "error"

=============================================================================
