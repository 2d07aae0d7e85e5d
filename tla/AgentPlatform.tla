----------------------------- MODULE AgentPlatform -----------------------------
(***************************************************************************)
(* AgentPlatform (adapters/agent_platform.py): the console's one case.  A  *)
(* model run is claimed, investigates outside the lock and reports back;   *)
(* only a validated report on unchanged evidence makes a plan, a manager   *)
(* approves it and the executor of DemoExecutor performs it.  Every method *)
(* holds the platform's lock, execute() for its whole length.  Its state   *)
(* is written to disk before the lock is released, so a restart loses only *)
(* the calls in progress.                                                  *)
(***************************************************************************)
EXTENDS DemoExecutor

CONSTANTS
  Deployments,   \* the ways the console is set up: whether provider writes are
                 \* configured, whether the offline coordinator is used too,
                 \* whether the case has a customer order, whether its invoice
                 \* starts on hold, what the other sources may show; and how
                 \* often the operator enables the automation and the process
                 \* restarts
  MaxRuns        \* bound on investigations

ASSUME PlatformAssumption ==
  /\ MaxRuns \in Nat
  /\ \A d \in Deployments :
       /\ {d.executor, d.offline, d.scoped, d.hold} \subseteq BOOLEAN
       /\ d.enables \in Nat /\ d.restarts \in Nat
       /\ d.sources \subseteq [rev : Nat, linked : BOOLEAN, up : BOOLEAN, celigo : BOOLEAN]

VARIABLES
  deployment,  \* the one of Deployments this console is
  source,      \* the other evidence: its revision, whether the records of the
               \* systems agree, whether the ERP can be read, the Celigo receipt
  seen,        \* the snapshot the source adapters cached last
  run,         \* _agent_run: its number and state
  gate,        \* _model_gate
  approval,    \* _approval: at most one
  execution,   \* _execution: its status
  flying,      \* runs claimed by HTTP calls whose model has not reported yet
  restarts

control == <<run, gate, approval, execution>>
platformVars == <<executorVars, deployment, source, seen, control, flying, restarts>>

HasExecutor == deployment.executor
SourceStates == deployment.sources

RunStates == {"IDLE", "REASONING", "PLAN_READY", "VERIFIED", "BLOCKED", "STOPPED"}
GateStatuses == {"NONE", "OFFLINE", "PENDING", "VALIDATED", "VALIDATION_FAILED",
                 "AGENT_UNAVAILABLE", "STOPPED", "STALE_EVIDENCE", "INTERRUPTED",
                 "REVALIDATION_REQUIRED"}
Candidates == {"PLAN_READY", "VERIFIED", "BLOCKED"}

\* What _model_evidence_digest and the plan digest are taken of.
Revisions == {0} \cup { s.rev : s \in SourceStates }
Facts == [rev : Revisions, linked : BOOLEAN, celigo : BOOLEAN, transfer : BOOLEAN,
          blocked : BOOLEAN, held : BOOLEAN, delivered : 0..1, billed : 0..1]
Reads == [fresh : BOOLEAN, facts : Facts]

\* A read of the sources; a source that cannot be read correlates with nothing.
Now ==
  [fresh |-> source.up,
   facts |-> [rev |-> source.rev, linked |-> source.linked /\ source.up,
              celigo |-> source.celigo, transfer |-> TransferShown, blocked |-> blocked,
              held |-> order.held, delivered |-> order.delivered, billed |-> order.billed]]

\* _read_all(): the cached snapshot while it lasts, else a new one.
CachedReads == {seen, Now}

NoFacts == [rev |-> 0, linked |-> FALSE, celigo |-> FALSE, transfer |-> FALSE,
            blocked |-> FALSE, held |-> FALSE, delivered |-> 0, billed |-> 0]
NoGate == [status |-> "NONE", live |-> FALSE, candidate |-> "BLOCKED", digest |-> NoFacts]

TypeOK ==
  /\ ExecutorTypeOK
  /\ deployment \in Deployments
  /\ source \in SourceStates
  /\ seen \in Reads
  /\ run \in [n : 0..MaxRuns, state : RunStates]
  /\ gate \in [status : GateStatuses, live : BOOLEAN, candidate : Candidates, digest : Facts]
  /\ approval \in SUBSET [run : 0..MaxRuns, digest : Facts]
  /\ execution \in {"NONE", "VERIFYING", "VERIFIED", "FAILED"}
  /\ flying \subseteq 1..MaxRuns
  /\ restarts \in 0..deployment.restarts

PlatformInit ==
  /\ deployment \in Deployments
  /\ ExecutorInit(deployment.scoped, deployment.hold)
  /\ source \in { s \in SourceStates : s.rev = 0 /\ s.up /\ ~s.celigo }
  /\ seen = Now
  /\ run = [n |-> 0, state |-> "IDLE"]
  /\ gate = NoGate
  /\ approval = {}
  /\ execution = "NONE"
  /\ flying = {}
  /\ restarts = 0

--------------------------------------------------------------------------------
(* What a read says of the case.                                           *)

QualityHold(e) == ~e.facts.transfer
ValuePending(e) == order.scoped /\ e.fresh /\ (e.facts.delivered = 0 \/ e.facts.billed = 0)
Receipted(e) == e.facts.celigo /\ e.facts.linked
ExternalRecovery(e) == e.fresh /\ e.facts.transfer /\ ~e.facts.blocked /\ Receipted(e)

\* The deterministic candidate of diagnose().
Candidate(e) ==
  IF ExternalRecovery(e) /\ ~ValuePending(e) THEN "VERIFIED"
  ELSE IF ~e.fresh \/ ~e.facts.linked \/ ~(QualityHold(e) \/ e.facts.blocked \/ ValuePending(e))
       THEN "BLOCKED" ELSE "PLAN_READY"

Unlocked == exec = NoExecution
Pending == gate.status = "PENDING"

\* agent_run_is_active
Active(n) == n = run.n /\ n # 0 /\ Pending /\ run.state # "STOPPED"

Stale(e, r, g) ==
  /\ g.live /\ g.status = "VALIDATED" /\ r.state = "PLAN_READY"
  /\ ~e.fresh \/ ~e.facts.linked \/ g.digest # e.facts

\* _projection ends a method: it revokes a live plan whose evidence changed.
Project(e, r, g, a) ==
  /\ seen' = e
  /\ IF Stale(e, r, g)
     THEN /\ run' = [r EXCEPT !.state = "BLOCKED"]
          /\ gate' = [g EXCEPT !.status = "STALE_EVIDENCE"]
          /\ approval' = {}
     ELSE run' = r /\ gate' = g /\ approval' = a

--------------------------------------------------------------------------------
(* The methods, as operators on the read they make.                        *)

\* Mutant of Diagnose: keeps the approval of the run before.
DiagnoseKeepingApproval(e, release) ==
  /\ run.n < MaxRuns
  /\ Project(e, [n |-> run.n + 1, state |-> IF release THEN Candidate(e) ELSE "REASONING"],
             [status |-> IF release THEN "OFFLINE" ELSE "PENDING", live |-> ~release,
              candidate |-> Candidate(e), digest |-> e.facts], approval)
  /\ execution' = "NONE"

Diagnose(e, release) ==
  /\ run.n < MaxRuns
  /\ Project(e, [n |-> run.n + 1, state |-> IF release THEN Candidate(e) ELSE "REASONING"],
             [status |-> IF release THEN "OFFLINE" ELSE "PENDING", live |-> ~release,
              candidate |-> Candidate(e), digest |-> e.facts], {})
  /\ execution' = "NONE"

Outcomes == {"PLAN_READY", "VERIFIED", "UNSUPPORTED", "UNAVAILABLE"}

\* record_strands_investigation of a report that is not ignored.
Record(e, outcome) ==
  LET valid == /\ outcome = gate.candidate /\ outcome # "BLOCKED"
               /\ e.fresh /\ e.facts.linked /\ gate.digest = e.facts
  IN /\ Project(e, [run EXCEPT !.state = IF valid THEN outcome ELSE "BLOCKED"],
                [gate EXCEPT !.status = IF valid THEN "VALIDATED"
                                        ELSE IF outcome = "UNAVAILABLE" THEN "AGENT_UNAVAILABLE"
                                        ELSE "VALIDATION_FAILED"], {})
     /\ UNCHANGED execution

Halt(e) ==
  /\ Project(e, [run EXCEPT !.state = "STOPPED"], [gate EXCEPT !.status = "STOPPED"], {})
  /\ UNCHANGED execution

--------------------------------------------------------------------------------
(* HTTP requests.                                                          *)

\* current(), answer() and the other projections.
Poll ==
  /\ Unlocked
  /\ \E e \in CachedReads : Project(e, run, gate, approval)
  /\ UNCHANGED <<executorVars, deployment, source, execution, flying, restarts>>

\* claim_diagnosis: one live run at a time.
ClaimDiagnosis ==
  /\ Unlocked /\ ~Pending
  /\ \E e \in CachedReads : Diagnose(e, FALSE)
  /\ flying' = flying \cup {run.n + 1}
  /\ UNCHANGED <<executorVars, deployment, source, restarts>>

\* diagnose(release=True), the offline coordinator.
DiagnoseOffline ==
  /\ Unlocked /\ deployment.offline
  /\ \E e \in CachedReads : Diagnose(e, TRUE)
  /\ UNCHANGED <<executorVars, deployment, source, flying, restarts>>

\* record_live_strands_investigation: a report of another run is ignored.
RecordLive(n) ==
  /\ Unlocked /\ n \in flying
  /\ flying' = flying \ {n}
  /\ \E e \in CachedReads, outcome \in Outcomes :
       IF Active(n) THEN Record(e, outcome)
                    ELSE Project(e, run, gate, approval) /\ UNCHANGED execution
  /\ UNCHANGED <<executorVars, deployment, source, restarts>>

\* A report without a run, of the offline coordinator.
RecordOffline ==
  /\ Unlocked /\ ~Pending /\ ~gate.live
  /\ run.state \notin {"IDLE", "STOPPED", "VERIFIED"}
  /\ \E e \in CachedReads, outcome \in Outcomes : Record(e, outcome)
  /\ UNCHANGED <<executorVars, deployment, source, flying, restarts>>

\* approve: on a fresh read, and of the evidence the model validated.
Approve ==
  /\ Unlocked /\ HasExecutor
  /\ run.state = "PLAN_READY"
  /\ Now.fresh /\ Now.facts.linked
  /\ gate.status = "VALIDATED" => gate.digest = Now.facts
  /\ Project(Now, run, gate, {[run |-> run.n, digest |-> Now.facts]})
  /\ UNCHANGED <<executorVars, deployment, source, execution, flying, restarts>>

\* execute up to the executor: the approval must bind what is read now.
BeginExecute ==
  /\ Unlocked /\ HasExecutor
  /\ run.state = "PLAN_READY"
  /\ Now.fresh /\ Now.facts.linked
  /\ \E a \in approval : a = [run |-> run.n, digest |-> Now.facts]
  /\ seen' = Now
  /\ exec' = [exec EXCEPT !.pc = "read"]
  /\ UNCHANGED <<tenant, failures, deployment, source, control, flying, restarts>>

Executing ==
  /\ ExecutorStep
  /\ UNCHANGED <<deployment, source, seen, control, flying, restarts>>

\* The rest of execute(), after the executor returned.
FinishExecute ==
  /\ InStep("done")
  /\ exec' = NoExecution
  /\ execution' = IF exec.verified THEN "VERIFYING" ELSE "FAILED"
  /\ Project(Now, run, gate, approval)
  /\ UNCHANGED <<tenant, failures, deployment, source, flying, restarts>>

\* verify: a fresh read must show the billing and the Celigo receipt.
Verify ==
  /\ Unlocked
  /\ execution \in {"VERIFYING", "VERIFIED"}
  /\ LET closed == Receipted(Now) /\ (order.scoped => Now.fresh /\ ~ValuePending(Now))
     IN /\ execution' = IF closed THEN "VERIFIED" ELSE "VERIFYING"
        /\ Project(Now, [run EXCEPT !.state = IF closed THEN "VERIFIED" ELSE @], gate, approval)
  /\ UNCHANGED <<executorVars, deployment, source, flying, restarts>>

Stop ==
  /\ Unlocked
  /\ run.state \notin {"IDLE", "VERIFIED", "STOPPED"}
  /\ \E e \in CachedReads : Halt(e)
  /\ UNCHANGED <<executorVars, deployment, source, flying, restarts>>

--------------------------------------------------------------------------------
\* _load_state: neither a pending run nor an unvalidated plan survives.
Reload ==
  LET Block(status) == /\ run' = [run EXCEPT !.state = "BLOCKED"]
                       /\ gate' = [gate EXCEPT !.status = status]
                       /\ approval' = {}
  IN IF Pending THEN Block("INTERRUPTED")
     ELSE IF run.state = "PLAN_READY" /\ gate.status # "VALIDATED"
          THEN Block("REVALIDATION_REQUIRED")
     ELSE UNCHANGED <<run, gate, approval>>

\* The process dies, in the middle of an execution too, and comes back.
RestartPlatform ==
  /\ restarts < deployment.restarts
  /\ restarts' = restarts + 1
  /\ Reload
  /\ exec' = NoExecution
  /\ seen' = Now
  /\ flying' = {}
  /\ UNCHANGED <<tenant, failures, deployment, source, execution>>

\* External: what the sources say changes, or they cannot be read.
SourceChanges ==
  /\ source' \in SourceStates \ {source}
  /\ source.celigo => source'.celigo
  /\ UNCHANGED <<executorVars, deployment, seen, control, flying, restarts>>

LateInsertLands == LateInsert /\ UNCHANGED <<deployment, source, seen, control, flying, restarts>>

\* Every request and event but the restart, which concerns the automation too.
PlatformNext ==
  \/ Poll \/ ClaimDiagnosis \/ DiagnoseOffline \/ RecordOffline
  \/ \E n \in flying : RecordLive(n)
  \/ Approve \/ BeginExecute \/ Executing \/ FinishExecute \/ Verify \/ Stop
  \/ SourceChanges \/ LateInsertLands

--------------------------------------------------------------------------------
(* Properties.                                                             *)

\* An approval of a live run binds the very evidence its model validated: no
\* later run, stop, report or restart leaves an approval behind.
ApprovalBindsInvestigation ==
  \A a \in approval :
    /\ a.run = run.n
    /\ gate.live => gate.status = "VALIDATED" /\ a.digest = gate.digest

\* A recovery happens once and is closed on proof: however calls fail, are
\* repeated and are cut off by a restart, one submitted transfer releases the
\* quality stock (OneTransfer), and VERIFIED stands for a transfer in the ERP,
\* an unblocked invoice, the customer's documents and an integration receipt.
RecoveredOnce ==
  /\ OneTransfer
  /\ execution = "VERIFIED" =>
       /\ Submitted # {} /\ ~blocked /\ source.celigo
       /\ order.scoped => order.delivered > 0 /\ order.billed > 0

=============================================================================
