------------------------- MODULE AutomaticInvestigation -------------------------
(***************************************************************************)
(* AutomaticInvestigation (adapters/automatic_investigation.py): a daemon  *)
(* thread that, while an operator permits it, dispatches one paid model    *)
(* run per state of the evidence through AgentPlatform.  Its journal holds *)
(* the permission, a budget, the attempts and the retries an operator      *)
(* asked for.  The control lock serialises configure(), pause() and the    *)
(* dispatching half of tick(); the model runs outside it.                  *)
(***************************************************************************)
EXTENDS AgentPlatform, FiniteSets

CONSTANTS
  Budget        \* runs the permission starts with

ASSUME BudgetAssumption == Budget \in Nat

VARIABLES
  permission,   \* enabled, and how many runs remain
  attempts,     \* rows of the attempts table
  retries,      \* digests that may be attempted again
  tick,         \* the tick() in progress
  ctl,          \* "cancel" while configure(False) has still to cancel
  autoRun,      \* the platform's _automatic_run_id
  closed,
  paid,         \* history: model runs dispatched
  enables       \* history: times the operator enabled it

journal == <<permission, attempts, retries>>
history == <<paid, enables>>
autoVars == <<journal, tick, ctl, autoRun, closed, history>>
vars == <<platformVars, autoVars>>

AttemptStatuses == {"RUNNING", "INTERRUPTED", "CANCELLED", "PLAN_READY", "VERIFIED", "BLOCKED"}
TickSteps == {"idle", "observed", "claim", "refund", "investigate", "record"}
Observations == {"WAITING_SOURCE", "STOPPED", "BUSY", "AWAITING_REVIEW", "WATCHING", "READY"}
NoTick == [pc |-> "idle", status |-> "WATCHING", digest |-> NoFacts, attempt |-> 0,
           terminal |-> "RUNNING"]

AutoTypeOK ==
  /\ TypeOK
  /\ permission \in [enabled : BOOLEAN, remaining : 0..Budget]
  /\ \A a \in attempts :
       a \in [digest : Facts, attempt : Nat, status : AttemptStatuses]
  /\ retries \subseteq Facts
  /\ tick \in [pc : TickSteps, status : Observations, digest : Facts, attempt : Nat,
               terminal : AttemptStatuses]
  /\ ctl \in {"free", "cancel"}
  /\ autoRun \in 0..MaxRuns
  /\ closed \in BOOLEAN
  /\ paid \in Nat /\ enables \in Nat

AutoInit ==
  /\ PlatformInit
  /\ permission = [enabled |-> FALSE, remaining |-> Budget]
  /\ attempts = {}
  /\ retries = {}
  /\ tick = NoTick
  /\ ctl = "free"
  /\ autoRun = 0
  /\ closed = FALSE
  /\ paid = 0 /\ enables = 0

Ticking(pc) == tick.pc = pc
TickGoto(pc) == tick' = [tick EXCEPT !.pc = pc]

\* Nobody holds the control lock.
ControlFree == ctl = "free" /\ tick.pc \notin {"claim", "refund"}

Disabled == permission' = [permission EXCEPT !.enabled = FALSE]
PlatformRest == <<executorVars, deployment, source, execution, flying, restarts>>

\* The status of automatic_investigation_observation.
Observation(e) ==
  IF ~e.fresh THEN "WAITING_SOURCE"
  ELSE IF run.state = "STOPPED" THEN "STOPPED"
  ELSE IF Pending THEN "BUSY"
  ELSE IF gate.status = "VALIDATED" /\ gate.digest = e.facts
       THEN (IF run.state = "VERIFIED" THEN "WATCHING" ELSE "AWAITING_REVIEW")
  ELSE IF QualityHold(e) \/ e.facts.blocked THEN "READY" ELSE "WATCHING"

\* cancel_automatic_investigation: stops the owned run only while it is active.
CancelRun ==
  IF Active(autoRun)
  THEN /\ run' = [run EXCEPT !.state = "STOPPED"]
       /\ gate' = [gate EXCEPT !.status = "STOPPED"]
       /\ approval' = {}
  ELSE UNCHANGED <<run, gate, approval>>

--------------------------------------------------------------------------------
(* tick()                                                                  *)

\* The permission and a fresh observation, both before the control lock.
Observe ==
  /\ Ticking("idle") /\ Unlocked
  /\ permission.enabled /\ ~closed
  /\ seen' = Now
  /\ tick' = [tick EXCEPT !.pc = "observed", !.status = Observation(Now), !.digest = Now.facts]
  /\ UNCHANGED <<PlatformRest, run, gate, approval, journal, ctl, autoRun, closed, history>>

Rows(d) == { a \in attempts : a.digest = d }
Latest(d) == CHOOSE a \in Rows(d) : \A b \in Rows(d) : b.attempt <= a.attempt
Interrupted(a) == a.status \in {"INTERRUPTED", "CANCELLED"}

\* Mutant of MayAttempt: only what an operator asked for.
MayAttemptOnRequest(d) ==
  Rows(d) # {} /\ d \in retries /\ Interrupted(Latest(d))

\* Evidence is investigated once, or again when an operator asked for it.
MayAttempt(d) ==
  Rows(d) = {} \/ (d \in retries /\ Interrupted(Latest(d)))

\* Under the control lock: the attempt is recorded before anything is paid.
Decide ==
  /\ Ticking("observed") /\ ControlFree
  /\ permission.enabled /\ ~closed
  /\ tick.status = "READY" /\ MayAttempt(tick.digest) /\ permission.remaining > 0
  /\ LET n == Cardinality(Rows(tick.digest)) + 1
     IN /\ attempts' = attempts \cup {[digest |-> tick.digest, attempt |-> n, status |-> "RUNNING"]}
        /\ tick' = [tick EXCEPT !.pc = "claim", !.attempt = n]
  /\ retries' = retries \ {tick.digest}
  /\ permission' = [permission EXCEPT !.remaining = @ - 1]
  /\ UNCHANGED <<platformVars, ctl, autoRun, closed, history>>

\* The ends of tick() that dispatch nothing.
GiveUp ==
  /\ Ticking("observed") /\ ControlFree
  /\ \/ /\ ~permission.enabled \/ closed
        /\ UNCHANGED <<platformVars, permission>>
     \/ /\ permission.enabled /\ ~closed /\ tick.status = "STOPPED" /\ Unlocked
        /\ Disabled /\ CancelRun
        /\ UNCHANGED <<PlatformRest, seen>>
     \/ /\ permission.enabled /\ ~closed /\ tick.status # "STOPPED"
        /\ tick.status = "READY" => ~MayAttempt(tick.digest)
        /\ UNCHANGED <<platformVars, permission>>
     \/ /\ permission.enabled /\ ~closed /\ tick.status = "READY" /\ MayAttempt(tick.digest)
        /\ permission.remaining = 0
        /\ Disabled
        /\ UNCHANGED platformVars
  /\ tick' = NoTick
  /\ UNCHANGED <<attempts, retries, ctl, autoRun, closed, history>>

\* claim_changed_diagnosis: only if the sources still show that evidence.
Claim ==
  /\ Ticking("claim") /\ Unlocked
  /\ \E e \in CachedReads :
       IF Observation(e) = "READY" /\ e.facts = tick.digest
       THEN /\ \E later \in {e, Now} : Diagnose(later, FALSE)
            /\ autoRun' = run.n + 1
            /\ paid' = paid + 1
            /\ TickGoto("investigate")
       ELSE /\ seen' = e
            /\ TickGoto("refund")
            /\ UNCHANGED <<control, autoRun, paid>>
  /\ UNCHANGED <<executorVars, deployment, source, flying, restarts, journal, ctl, closed, enables>>

\* Nothing was dispatched: the attempt is deleted and the budget restored.
Refund ==
  /\ Ticking("refund")
  /\ attempts' = { a \in attempts : a.digest # tick.digest \/ a.attempt # tick.attempt }
  /\ permission' = [permission EXCEPT !.remaining = @ + 1]
  /\ tick' = NoTick
  /\ UNCHANGED <<platformVars, retries, ctl, autoRun, closed, history>>

\* The model reports; finish_automatic_investigation returns the control outcome.
Report ==
  /\ Ticking("investigate") /\ Unlocked
  /\ IF Active(autoRun)
     THEN /\ \E e \in CachedReads, outcome \in Outcomes : Record(e, outcome)
          /\ tick' = [tick EXCEPT !.pc = "record", !.terminal = run'.state]
     ELSE /\ tick' = [tick EXCEPT !.pc = "record", !.terminal = "CANCELLED"]
          /\ UNCHANGED <<seen, control>>
  /\ UNCHANGED <<executorVars, deployment, source, flying, restarts, journal, ctl, autoRun, closed, history>>

RecordAttempt ==
  /\ Ticking("record")
  /\ attempts' = { IF a.digest = tick.digest /\ a.attempt = tick.attempt
                   THEN [a EXCEPT !.status = tick.terminal] ELSE a : a \in attempts }
  /\ tick' = NoTick
  /\ UNCHANGED <<platformVars, permission, retries, ctl, autoRun, closed, history>>

\* An exception of the claim's reads or of the journal pauses the automation.
TickFails ==
  /\ Ticking("claim") \/ (Ticking("record") /\ ctl = "free")
  /\ Unlocked
  /\ Disabled /\ CancelRun
  /\ tick' = NoTick
  /\ UNCHANGED <<PlatformRest, seen, attempts, retries, ctl, autoRun, closed, history>>

--------------------------------------------------------------------------------
(* The operator.                                                           *)

\* configure(True): resumes a stopped case and asks for interrupted attempts.
Enable ==
  /\ ControlFree /\ Unlocked
  /\ enables < deployment.enables
  /\ enables' = enables + 1
  /\ \E e \in CachedReads :
       IF run.state = "STOPPED"
       THEN /\ seen' = e
            /\ run' = [run EXCEPT !.state = "IDLE"]
            /\ gate' = NoGate
            /\ UNCHANGED approval
       ELSE Project(e, run, gate, approval)
  /\ retries' = retries \cup { a.digest : a \in { b \in attempts : Interrupted(b) } }
  /\ permission' = [permission EXCEPT !.enabled = TRUE]
  /\ UNCHANGED <<PlatformRest, attempts, tick, ctl, autoRun, closed, paid>>

\* configure(False): the permission first, then, in CancelDisabled, the run.
\* (Before the first permission it, pause() and close() do nothing else.)
Disable ==
  /\ ControlFree /\ Unlocked /\ enables > 0
  /\ \E e \in CachedReads : Project(e, run, gate, approval)
  /\ Disabled
  /\ ctl' = "cancel"
  /\ UNCHANGED <<PlatformRest, attempts, retries, tick, autoRun, closed, history>>

CancelDisabled ==
  /\ ctl = "cancel" /\ Unlocked
  /\ CancelRun
  /\ ctl' = "free"
  /\ UNCHANGED <<PlatformRest, seen, journal, tick, autoRun, closed, history>>

\* pause(), the stop button: the permission is committed after the cancel.
Pause ==
  /\ ControlFree /\ Unlocked /\ enables > 0
  /\ Disabled /\ CancelRun
  /\ UNCHANGED <<PlatformRest, seen, attempts, retries, tick, ctl, autoRun, closed, history>>

Close ==
  /\ ~closed /\ Unlocked /\ enables > 0
  /\ closed' = TRUE
  /\ CancelRun
  /\ UNCHANGED <<PlatformRest, seen, journal, tick, ctl, autoRun, history>>

\* Mutant of Interrupt: takes an unfinished attempt for one never paid.
InterruptRefunding ==
  /\ attempts' = { IF a.status = "RUNNING" THEN [a EXCEPT !.status = "INTERRUPTED"] ELSE a
                   : a \in attempts }
  /\ permission' = IF \E a \in attempts : a.status = "RUNNING"
                   THEN [enabled |-> FALSE, remaining |-> permission.remaining + 1]
                   ELSE permission
  /\ UNCHANGED retries

\* __init__: an attempt without an outcome interrupts the automation.
Interrupt ==
  /\ attempts' = { IF a.status = "RUNNING" THEN [a EXCEPT !.status = "INTERRUPTED"] ELSE a
                   : a \in attempts }
  /\ IF \E a \in attempts : a.status = "RUNNING" THEN Disabled ELSE UNCHANGED permission
  /\ UNCHANGED retries

Restart ==
  /\ RestartPlatform
  /\ Interrupt
  /\ tick' = NoTick
  /\ ctl' = "free"
  /\ autoRun' = 0
  /\ closed' = FALSE
  /\ UNCHANGED history

TickStep ==
  Observe \/ Decide \/ GiveUp \/ Claim \/ Refund \/ Report \/ RecordAttempt \/ TickFails

\* The other requests of the console.
PlatformStep == PlatformNext /\ UNCHANGED autoVars

AutoNext ==
  \/ TickStep \/ Enable \/ Disable \/ CancelDisabled \/ Pause \/ Close \/ Restart
  \/ PlatformStep

\* The thread that executes a plan goes on: its requests have timeouts.
ExecutionStep == (Executing \/ FinishExecute) /\ UNCHANGED autoVars

\* The daemon thread keeps ticking, configure() returns and so does execute().
AutoSpec ==
  /\ AutoInit /\ [][AutoNext]_vars
  /\ WF_vars(TickStep) /\ WF_vars(CancelDisabled) /\ WF_vars(ExecutionStep)

--------------------------------------------------------------------------------
(* Properties.                                                             *)

\* The automation does what it was permitted and no more, through refunds,
\* failures and restarts: the standing permission buys at most Budget model
\* runs; ("An interrupted model attempt is not silently replayed after a
\* restart") evidence is attempted at most once for each time an operator
\* enabled it; and once a pause or a disabling is through, the run it owned
\* is not active, so its report can make no plan.
SpendsAsPermitted ==
  /\ paid + permission.remaining <= Budget
  /\ \A a \in attempts : Cardinality(Rows(a.digest)) <= enables
  /\ ControlFree /\ ~permission.enabled => ~Active(autoRun)

\* Permitted, ready evidence that was never attempted.
Unattended ==
  /\ permission.enabled /\ ~closed
  /\ Observation(Now) = "READY" /\ Rows(Now.facts) = {}

\* New evidence is investigated, or the permission ends: a tick that loses a
\* race against a human's run or a changing source is repeated.
EvidenceIsAttended ==
  <>[][source' = source]_vars => []<>~Unattended

=============================================================================
