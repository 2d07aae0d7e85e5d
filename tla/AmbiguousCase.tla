--------------------------- MODULE AmbiguousCase ---------------------------
(***************************************************************************)
(* The synthetic case platform, the advisory gateway in front of it and    *)
(* the specialist journal behind it.  Requests run in threads of their     *)
(* own: a diagnosis claims the case, runs the advisory outside every lock  *)
(* and records what came back; a question is saved, answered by the same   *)
(* advisory and recorded if its conversation is still the current one; the *)
(* manager's and the operator's commands come in between.  Claims, records,*)
(* stops and resets take the platform's lock.  Approval, refusal, execution*)
(* and verification do not: each tests the case in one step and writes in  *)
(* a later one, with anything in between.                                  *)
(*                                                                         *)
(*   p        the platform's state; every handler saves it as it ends      *)
(*   threads  the advisory runs in flight                                  *)
(*   desk     the manager's commands in flight                             *)
(*   tasks    the specialist journal                                       *)
(*   used     the bounds: runs, conversations, questions, executions,      *)
(*            resets, crashes                                              *)
(*                                                                         *)
(* Run and conversation identifiers are fresh at every use; they are       *)
(* numbers here.  Two fields of p are not in the code: `epoch` counts      *)
(* resets and tells one opening of the case from the next, and `crossed`   *)
(* says what has overlapped a command in flight in this opening: another   *)
(* command, the claim of a diagnosis, or the reset that opened it.         *)
(***************************************************************************)
EXTENDS InvestigationPolicy, RoleDelegation, Sequences, TLC

CONSTANTS Modes,      \* configurations and bounds
          Diagnoses,  \* threads that run a diagnosis
          Asks,       \* threads that answer a question, one at a time
          Managers,   \* threads that handle a manager's command
          MaxRequests \* how many human requests the dialogue keeps

Configurations ==
    [roles : BOOLEAN, variants : SUBSET Variants, runs : Nat, conversations : Nat, asks : Nat,
     refusals : BOOLEAN, managers : SUBSET Managers, executions : Nat, resets : Nat, crashes : Nat]

\* What is compared with None elsewhere: a dialogue, and a complete advisory.
Dialogues == [id : Nat, readOnly : BOOLEAN, requests : Nat, omitted : Nat]
Advisories == [status : {"COMPLETE"}, run : Nat, disposition : Dispositions, writes : BOOLEAN]

ASSUME ConfigurationsAssumption == Modes \subseteq Configurations /\ MaxRequests \in Nat
ASSUME AbsentAssumption ==
    None \notin Int \cup BOOLEAN \cup {"VERIFYING", "VERIFIED"} \cup Dialogues \cup Advisories

VARIABLES mode, p, threads, desk, tasks, used

vars == <<mode, p, threads, desk, tasks, used>>

Threads == Diagnoses \cup Asks

-----------------------------------------------------------------------------
(* The platform. *)

(* reset: nothing of the previous opening is kept. *)
Fresh(v, epoch) ==
    [variant |-> v, facts |-> CaseOf(v), version |-> 1, epoch |-> epoch, run |-> 0,
     agent |-> "IDLE", finding |-> "NOT_EVALUATED", policy |-> None, advice |-> None,
     approval |-> None, rejection |-> None, execution |-> None, scope |-> None,
     dialogue |-> None, refused |-> FALSE, turns |-> {}, crossed |-> {}]

Retryable(q) ==
    \/ q.agent \in {"IDLE", "STOPPED"}
    \/ q.agent = "BLOCKED" /\ q.finding \in {"AGENT_UNAVAILABLE", "AGENT_VALIDATION_FAILED"}

(* _approval_binding: the digest covers the version, the scope and the     *)
(* actions the facts allow; it does not cover the counterfactual.          *)
Binding(q) == [version |-> q.version, receipt |-> q.facts.unresolved, transfer |-> q.facts.hold,
               actions |-> AllowedActions(q.facts)]

(* claim_diagnosis: the decision is computed and withheld. *)
Claim(q, run) ==
    [q EXCEPT !.run = run, !.agent = "ACTIVE", !.finding = "PENDING_AGENT_VALIDATION",
              !.policy = ConsolePolicy(q.variant, q.facts), !.approval = None, !.rejection = None,
              !.advice = None]

Active(run) == p.run = run /\ p.agent = "ACTIVE"

(* Mutant of Recorded: the advisory's run is not compared. *)
RecordedAnyRun(q, a) ==
    IF q.agent = "STOPPED" THEN q
    ELSE IF a.status = "COMPLETE"
    THEN [q EXCEPT !.advice = a,
                   !.agent = IF q.policy = None THEN "BLOCKED" ELSE q.policy.status,
                   !.finding = IF q.policy = None THEN "AGENT_VALIDATED" ELSE q.policy.finding]
    ELSE [q EXCEPT !.advice = a, !.agent = "BLOCKED", !.approval = None,
                   !.finding = IF a.status = "VALIDATION_FAILED"
                               THEN "AGENT_VALIDATION_FAILED" ELSE "AGENT_UNAVAILABLE"]

(* Mutant of Recorded: an unusable answer leaves the run where it was. *)
RecordedComplete(q, a) ==
    IF q.agent = "STOPPED" \/ a.run # q.run \/ a.status # "COMPLETE" THEN q
    ELSE [q EXCEPT !.advice = a, !.agent = q.policy.status, !.finding = q.policy.finding]

(* record_strands_investigation: a failed advisory carries no run (zero)   *)
(* and is applied to whatever run is current.                              *)
Recorded(q, a) ==
    IF q.agent = "STOPPED" \/ (a.run # 0 /\ a.run # q.run) THEN q
    ELSE IF a.status = "COMPLETE"
    THEN [q EXCEPT !.advice = a,
                   !.agent = IF q.policy = None THEN "BLOCKED" ELSE q.policy.status,
                   !.finding = IF q.policy = None THEN "AGENT_VALIDATED" ELSE q.policy.finding]
    ELSE [q EXCEPT !.advice = a, !.agent = "BLOCKED", !.approval = None,
                   !.finding = IF a.status = "VALIDATION_FAILED"
                               THEN "AGENT_VALIDATION_FAILED" ELSE "AGENT_UNAVAILABLE"]

-----------------------------------------------------------------------------
(* The dialogue: original human requests and one durable constraint.       *)

(* Mutant of Requested: a new conversation starts without the constraint. *)
RequestedAnew(d, id, new, refuses) ==
    LET kept == IF d = None \/ new
                THEN [id |-> id, readOnly |-> FALSE, requests |-> 0, omitted |-> 0]
                ELSE d
        n == kept.requests + 1
    IN [kept EXCEPT !.readOnly = @ \/ refuses,
                    !.requests = IF n > MaxRequests THEN MaxRequests ELSE n,
                    !.omitted = @ + ClampedMinus(n, MaxRequests)]

(* record_request: saved before the model is asked; the oldest requests go *)
(* first, and a refusal outlives both its request and its conversation.    *)
Requested(d, id, new, refuses) ==
    LET kept == IF d = None
                THEN [id |-> id, readOnly |-> FALSE, requests |-> 0, omitted |-> 0]
                ELSE IF new
                THEN [id |-> id, readOnly |-> d.readOnly, requests |-> 0, omitted |-> 0]
                ELSE d
        n == kept.requests + 1
    IN [kept EXCEPT !.readOnly = @ \/ refuses,
                    !.requests = IF n > MaxRequests THEN MaxRequests ELSE n,
                    !.omitted = @ + ClampedMinus(n, MaxRequests)]

(* record_conversation_turn, after the gateway's own comparison. *)
Answered(q, t) ==
    IF q.dialogue = None \/ q.dialogue.id # t.id THEN q
    ELSE [q EXCEPT !.turns = @ \cup {[epoch |-> t.epoch, id |-> t.id,
                                       writes |-> t.result.writes, refused |-> t.refused]}]

-----------------------------------------------------------------------------
(* Advisory runs. *)

Idle == [pc |-> "idle", kind |-> None, id |-> 0, version |-> 0, epoch |-> 0, expected |-> None,
         readOnly |-> FALSE, refused |-> FALSE, reads |-> {}, round |-> 0, failed |-> FALSE,
         closed |-> FALSE, owned |-> NoTasks, claimed |-> NoTasks, result |-> None]

(* The packet is taken from the projection the thread was handed. *)
Packet(q, kind, id) ==
    [Idle EXCEPT !.pc = "acquire", !.kind = kind, !.id = id, !.version = q.version,
                 !.epoch = q.epoch, !.expected = ExpectedDisposition(q.variant), !.round = 1]

Working == {"acquire", "consult", "answer", "repair"}

Scope(t) == <<threads[t].kind, threads[t].id, threads[t].version>>
Scopes ==
    LET versions == 1 .. 1 + mode.executions IN
    ({"run"} \X (1 .. mode.runs) \X versions) \cup ({"turn"} \X (1 .. mode.conversations) \X versions)

(* continue_requested: only a delegated diagnosis asks whether its run is  *)
(* still the current one.                                                  *)
Continues(t) ==
    threads[t].kind = "run" /\ mode.roles => Active(threads[t].id)

Waiting(t) == threads[t].owned = NoTasks

(* Every model turn of a diagnosis reports itself and marks the case as    *)
(* being worked on, unless it was stopped or belongs to another run.       *)
Progressed(t) ==
    IF threads[t].kind = "run" /\ p.agent # "STOPPED" /\ p.run = threads[t].id
    THEN [p EXCEPT !.agent = "ACTIVE"] ELSE p

Goto(t, pc) == threads' = [threads EXCEPT ![t].pc = pc]

(* The failure of a run names no run. *)
Failure(status) == [status |-> status, run |-> 0, disposition |-> None, writes |-> FALSE]

Delivering(t, result) ==
    threads' = [threads EXCEPT ![t] =
                  [Idle EXCEPT !.pc = "deliver", !.result = result, !.kind = threads[t].kind,
                               !.id = threads[t].id, !.version = threads[t].version,
                               !.epoch = threads[t].epoch, !.refused = threads[t].refused,
                               !.claimed = threads[t].claimed]]

(* A manager's command: where its handler stands, and the binding it has   *)
(* computed.                                                               *)
AtRest == [pc |-> "rest", binding |-> None]

InFlight == {m \in Managers : desk[m].pc # "rest"}

Overlapping(kind) == IF InFlight = {} THEN {} ELSE {kind}

Init ==
    /\ mode \in Modes
    /\ \E v \in mode.variants : p = Fresh(v, 0)
    /\ threads = [t \in Threads |-> Idle]
    /\ desk = [m \in Managers |-> AtRest]
    /\ tasks = [s \in Scopes |-> [r \in Roles |-> NoTask]]
    /\ used = [runs |-> 0, conversations |-> 0, asks |-> 0, executions |-> 0, resets |-> 0,
               crashes |-> 0]

(* POST /diagnose: authorize and claim, then the run. *)
Diagnose(t) ==
    /\ threads[t].pc = "idle" /\ used.runs < mode.runs
    /\ Retryable(p)
    /\ used' = [used EXCEPT !.runs = @ + 1]
    /\ p' = [Claim(p, used'.runs) EXCEPT !.crossed = @ \cup Overlapping("claim")]
    /\ threads' = [threads EXCEPT ![t] = Packet(p', "run", p'.run)]
    /\ UNCHANGED <<mode, tasks, desk>>

(* POST /ask: the gateway serialises its turns. *)
Ask(t, new, refuses) ==
    /\ \A a \in Asks : threads[a].pc = "idle"
    /\ used.asks < mode.asks
    /\ refuses => mode.refusals
    /\ LET opens == p.dialogue = None \/ new IN
       /\ opens => used.conversations < mode.conversations
       /\ used' = [used EXCEPT !.asks = @ + 1,
                               !.conversations = IF opens THEN @ + 1 ELSE @]
    /\ p' = [p EXCEPT !.dialogue = Requested(@, used'.conversations, new, refuses),
                      !.refused = @ \/ refuses]
    /\ threads' = [threads EXCEPT ![t] =
                     [Packet(p', "turn", p'.dialogue.id) EXCEPT !.readOnly = p'.dialogue.readOnly,
                                                                !.refused = p'.refused]]
    /\ UNCHANGED <<mode, tasks, desk>>

(* One acquisition round: at most two, and no verdict before all is read. *)
Acquire(t) ==
    /\ threads[t].pc = "acquire" /\ Waiting(t) /\ Continues(t)
    /\ p' = Progressed(t)
    /\ \E reads \in Readable(threads[t].reads) :
         \/ /\ Required \subseteq reads /\ ~threads[t].failed
            /\ threads' = [threads EXCEPT ![t].reads = reads, ![t].round = 1,
                                          ![t].pc = IF mode.roles THEN "consult" ELSE "answer"]
         \/ /\ ~(Required \subseteq reads) /\ threads[t].round = 1
            /\ threads' = [threads EXCEPT ![t].reads = reads, ![t].round = 2]
    /\ UNCHANGED <<mode, tasks, used, desk>>

(* consult, up to the claim.  A consultation that cannot be had fails the  *)
(* run, not only the tool call; a saved finding changes nothing.           *)
Consult(t, r, q) ==
    /\ mode.roles /\ threads[t].pc \in Working /\ ~threads[t].failed
    /\ LET row == tasks[Scope(t)][r] IN
       \/ /\ threads[t].closed \/ ~Continues(t) \/ Refused(row, q)
          /\ threads' = [threads EXCEPT ![t].failed = TRUE]
          /\ UNCHANGED tasks
       \/ /\ ~threads[t].closed /\ Continues(t) /\ ~Refused(row, q) /\ ~Cached(row, q)
          /\ tasks' = [tasks EXCEPT ![Scope(t)][r] = Claimed(row, q)]
          /\ threads' = [threads EXCEPT ![t].owned[r] = Claimed(row, q).attempt,
                                        ![t].claimed[r] = Claimed(row, q).attempt]
    /\ UNCHANGED <<mode, p, used, desk>>

(* Mutant of Unusable: the failure stays between the specialist and the    *)
(* journal.                                                                *)
UnusableIgnored(t, r, status) ==
    /\ tasks' = [tasks EXCEPT ![Scope(t)][r] = Finished(@, threads[t].owned[r], status)]
    /\ threads' = [threads EXCEPT ![t].owned[r] = 0]

(* An unusable or late finding settles the task and fails the run. *)
Unusable(t, r, status) ==
    /\ tasks' = [tasks EXCEPT ![Scope(t)][r] = Finished(@, threads[t].owned[r], status)]
    /\ threads' = [threads EXCEPT ![t].owned[r] = 0, ![t].failed = TRUE]

(* consult, from the specialist's answer on. *)
Specialist(t, r) ==
    /\ threads[t].pc \in Working /\ threads[t].owned[r] > 0
    /\ \/ /\ Continues(t) /\ Owns(tasks[Scope(t)][r], threads[t].owned[r])
          /\ tasks' = [tasks EXCEPT ![Scope(t)][r] =
                         Finished(@, threads[t].owned[r], "COMPLETED")]
          /\ threads' = [threads EXCEPT ![t].owned[r] = 0]
       \/ Unusable(t, r, IF Continues(t) THEN "FAILED" ELSE "CANCELLED")
    /\ UNCHANGED <<mode, p, used, desk>>

(* The team phase ends with every tool call returned and none failed. *)
Converse(t) ==
    /\ threads[t].pc = "consult" /\ Waiting(t) /\ Continues(t) /\ ~threads[t].failed
    /\ p' = Progressed(t)
    /\ Goto(t, "answer")
    /\ UNCHANGED <<mode, tasks, used, desk>>

(* An answer that passes the checks. *)
Complete(t) ==
    \E writes \in Answers[threads[t].expected][threads[t].readOnly] :
      Delivering(t, [status |-> "COMPLETE", run |-> threads[t].id,
                     disposition |-> threads[t].expected, writes |-> writes])

(* A rejected answer is repaired on the same evidence, at most twice. *)
Repair(t) ==
    /\ threads[t].pc = "answer" \/ threads[t].round = 1
    /\ threads' = [threads EXCEPT ![t].pc = "repair", ![t].closed = TRUE,
                                  ![t].round = IF threads[t].pc = "answer" THEN 1 ELSE 2]

(* The typed answer.  The team is closed before its first check. *)
Answer(t) ==
    /\ threads[t].pc \in {"answer", "repair"} /\ Waiting(t) /\ Continues(t) /\ ~threads[t].failed
    /\ p' = Progressed(t)
    /\ Complete(t) \/ Delivering(t, Failure("VALIDATION_FAILED")) \/ Repair(t)
    /\ UNCHANGED <<mode, tasks, used, desk>>

(* A provider failure, a limit, the wall clock, a failed specialist or a   *)
(* superseded parent: the team is settled and the run is unavailable.      *)
Abort(t) ==
    /\ threads[t].pc \in Working
    /\ Delivering(t, Failure("AGENT_UNAVAILABLE"))
    /\ tasks' = [tasks EXCEPT ![Scope(t)] =
                   Settled(@, threads[t].owned, IF Continues(t) THEN "FAILED" ELSE "CANCELLED")]
    /\ UNCHANGED <<mode, p, used, desk>>

(* The result is recorded and the request ends. *)
Deliver(t) ==
    /\ threads[t].pc = "deliver"
    /\ p' = CASE threads[t].kind = "run" -> Recorded(p, threads[t].result)
              [] threads[t].kind = "turn" /\ threads[t].result.status = "COMPLETE" ->
                   Answered(p, threads[t])
              [] OTHER -> p
    /\ threads' = [threads EXCEPT ![t] = Idle]
    /\ UNCHANGED <<mode, tasks, used, desk>>

-----------------------------------------------------------------------------
(* The operator and the manager. *)

Command == UNCHANGED <<mode, threads, tasks, used, desk>>

StopRun ==
    /\ p.agent \notin {"IDLE", "STOPPED", "VERIFIED"}
    /\ p' = [p EXCEPT !.agent = "STOPPED"]
    /\ Command

(* A command starts with its tests; what it finds may have changed by the  *)
(* time it writes.  A failed test raises and changes nothing.              *)
Begin(m, pc) ==
    /\ m \in mode.managers /\ desk[m].pc = "rest"
    /\ desk' = [desk EXCEPT ![m] = [pc |-> pc, binding |-> None]]
    /\ p' = [p EXCEPT !.crossed = @ \cup Overlapping("command")]
    /\ UNCHANGED <<mode, threads, tasks, used>>

(* Its writes, and the save that ends it. *)
End(m, pc, q) ==
    /\ desk[m].pc = pc
    /\ desk' = [desk EXCEPT ![m] = AtRest]
    /\ p' = q
    /\ UNCHANGED <<mode, threads, tasks>>

(* approve: also after the execution, whose state is still PLAN_READY.     *)
Approve(m) ==
    \/ p.agent = "PLAN_READY" /\ Begin(m, "bind")
    \/ /\ desk[m].pc = "bind"
       /\ desk' = [desk EXCEPT ![m] = [pc |-> "grant", binding |-> Binding(p)]]
       /\ UNCHANGED <<mode, p, threads, tasks, used>>
    \/ End(m, "grant", [p EXCEPT !.approval = desk[m].binding]) /\ UNCHANGED used

RejectPlan(m) ==
    \/ /\ p.agent = "PLAN_READY" /\ p.approval = None /\ p.execution = None
       /\ Begin(m, "refuse")
    \/ /\ End(m, "refuse", [p EXCEPT !.rejection = Binding(p), !.agent = "BLOCKED",
                                     !.finding = "HUMAN_REJECTED_PLAN"])
       /\ UNCHANGED used

(* execute: the approval is compared with the facts, the agent's state     *)
(* only with STOPPED.                                                      *)
Execute(m) ==
    \/ /\ p.agent # "STOPPED" /\ p.approval # None /\ p.execution = None
       /\ CaseDisposition(p.facts) = "RECOVERY_READY"
       /\ p.approval = Binding(p)
       /\ Begin(m, "apply")
    \/ /\ used.executions < mode.executions
       /\ used' = [used EXCEPT !.executions = @ + 1]
       /\ End(m, "apply", [p EXCEPT !.scope = <<p.facts.unresolved, p.facts.hold>>,
                                    !.execution = "VERIFYING", !.facts = Recovered(p.facts),
                                    !.version = @ + 1])

Verify(m) ==
    \/ /\ p.execution = "VERIFYING"
       /\ p.facts.available = p.facts.arrived /\ ~p.facts.invoice_held
       /\ Begin(m, "verify")
    \/ /\ End(m, "verify", [p EXCEPT !.execution = "VERIFIED", !.agent = "VERIFIED",
                                     !.finding = "RECOVERY_VERIFIED"])
       /\ UNCHANGED used

(* reset_variant *)
Reset(v) ==
    /\ used.resets < mode.resets
    /\ used' = [used EXCEPT !.resets = @ + 1]
    /\ p' = [Fresh(v, p.epoch + 1) EXCEPT !.crossed = Overlapping("reset")]
    /\ UNCHANGED <<mode, threads, tasks, desk>>

(* The process dies: every thread is gone, the saved case and the journal  *)
(* stay.  A reset that died after its delete leaves the primary case.      *)
Crash ==
    /\ used.crashes < mode.crashes
    /\ used' = [used EXCEPT !.crashes = @ + 1]
    /\ threads' = [t \in Threads |-> Idle]
    /\ desk' = [m \in Managers |-> AtRest]
    /\ p' \in {p, Fresh("uncommitted_receipt", p.epoch + 1)}
    /\ UNCHANGED <<mode, tasks>>

LeaseExpires(s, r) ==
    /\ tasks[s][r].status = "RUNNING" /\ tasks[s][r].live
    /\ \A t \in Threads : threads[t].pc # "idle" => Scope(t) # s
    /\ tasks' = [tasks EXCEPT ![s][r] = Expired(@)]
    /\ UNCHANGED <<mode, p, threads, used, desk>>

Advance(t) ==
    \/ Acquire(t) \/ Converse(t) \/ Answer(t) \/ Abort(t) \/ Deliver(t)
    \/ \E r \in Roles : Specialist(t, r)

Next ==
    \/ \E t \in Diagnoses : Diagnose(t)
    \/ \E t \in Asks, new \in BOOLEAN, refuses \in BOOLEAN : Ask(t, new, refuses)
    \/ \E t \in Threads : Advance(t)
    \/ \E t \in Threads, r \in Roles, q \in Questions : Consult(t, r, q)
    \/ StopRun
    \/ \E m \in Managers : Approve(m) \/ RejectPlan(m) \/ Execute(m) \/ Verify(m)
    \/ \E v \in mode.variants : Reset(v)
    \/ Crash
    \/ \E s \in Scopes, r \in Roles : LeaseExpires(s, r)

(* A request's thread runs on; its waits are bounded by the wall clock. *)
Spec == Init /\ [][Next]_vars /\ \A t \in Threads : WF_vars(Advance(t))

-----------------------------------------------------------------------------
(* Properties. *)

(* Only a warranted plan goes ahead, whatever arrives late.  It is         *)
(* released by the current run's own accepted advice, never against it,    *)
(* and only where the policy over the joined source records would have     *)
(* released one too.  That much holds however the commands overlap.  The   *)
(* rest does not, since a command tests and writes without the lock; it is *)
(* promised where nothing that spoils it has overlapped a command in this  *)
(* opening of the case.  A refused plan is not approved or executed short  *)
(* of a new diagnosis or a new case, if nothing overlapped: an approval    *)
(* that overlaps the refusal leaves both, and the execution looks at the   *)
(* approval only; a refusal overtaken by a new claim, or by a reset, is    *)
(* written over the newer run or the fresh case.  A recovery is executed   *)
(* only for the counterfactual that warrants one, although half of the     *)
(* counterfactuals share the approval's digest, if no reset overlapped a   *)
(* command, which then writes into the fresh case.  And its recorded scope *)
(* is the quantities open when the case was opened, if moreover no two     *)
(* commands overlapped: the second of two executions records what the      *)
(* first has left.                                                         *)
PlanIsWarranted ==
    /\ p.agent = "PLAN_READY" =>
         /\ p.advice # None /\ p.advice.status = "COMPLETE"
         /\ p.advice.run = p.run /\ p.advice.disposition = "RECOVERY_READY"
         /\ p.execution = None =>
              EvaluatePolicy(Correlate(Sources(p.variant, p.facts))) = "RECOVERY_READY"
    /\ p.rejection # None /\ p.crossed = {} =>
         p.approval = None /\ p.execution = None /\ p.agent # "PLAN_READY"
    /\ p.execution # None /\ "reset" \notin p.crossed =>
         /\ ConsolePolicy(p.variant, CaseOf(p.variant)).status = "PLAN_READY"
         /\ "command" \notin p.crossed =>
              p.scope = <<CaseOf(p.variant).unresolved, CaseOf(p.variant).hold>>

(* An answer is filed only under the opening of the case it was asked in,  *)
(* and once the human has refused none proposes a write: not in a later    *)
(* conversation, and not when the refusal left the window of requests.     *)
RefusalHonoured ==
    \A turn \in p.turns : turn.epoch = p.epoch /\ (turn.refused => ~turn.writes)

(* An accepted answer has every specialist it started in the journal,      *)
(* completed under the token this run was given.                           *)
AnswerHasSettledTeam ==
    \A t \in Threads :
      threads[t].pc = "deliver" /\ threads[t].result.status = "COMPLETE" =>
        \A r \in Roles : threads[t].claimed[r] > 0 =>
          /\ tasks[Scope(t)][r].status = "COMPLETED"
          /\ tasks[Scope(t)][r].attempt = threads[t].claimed[r]

(* A claimed investigation is resolved unless the process dies under it.   *)
InvestigationSettles == p.agent = "ACTIVE" ~> (p.agent # "ACTIVE" \/ used.crashes > 0)
=============================================================================
