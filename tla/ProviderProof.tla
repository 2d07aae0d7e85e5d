---------------------------- MODULE ProviderProof ----------------------------
(***************************************************************************)
(* The one paid provider attempt and the report that is composed from it.  *)
(*                                                                         *)
(* A launch (scripts/run_authority_b_proof.py, scripts/run_agent_smoke.py) *)
(* creates a claim file exclusively, makes it durable, and only then lets  *)
(* the agent harness talk to the provider.  The advisory proof runs the    *)
(* main case once and leaves a claim, an advisory, an outcome and a        *)
(* usefulness record; the smoke runs every profile on one ledger and       *)
(* leaves a failure manifest or a smoke artifact.  Later the offline       *)
(* composer (AgentGoldenRunner.run_all) reads these files and decides      *)
(* whether the release is promoted with disclosed degradation.             *)
(*                                                                         *)
(* Launches may be started twice, a process may die at any step, and the   *)
(* machine may lose power before a directory entry or a file is durable.   *)
(***************************************************************************)
EXTENDS AgentHarness

CONSTANT Launches           \* the processes that are started

ASSUME NoClaimAssumption == None \notin [by : Launches, written : BOOLEAN]

VARIABLES
    launch,     \* per process: its phase and the files it still has to write
    disk,       \* the files of artifacts/agent, None while absent
    profile,    \* the smoke's reports so far
    anchor,     \* the digests pinned in the source, as the files they cover
    composed,   \* what the last run of the composer reported
    callers,    \* history: the launches that opened a provider request
    attempts,   \* history: the harness runs that ended, and how
    crashes     \* crashes still to come

proofVars == <<launch, disk, profile, anchor, composed, callers, attempts, crashes>>

Bundle == {"claim", "failure", "advisory", "usefulness"}
Files  == Bundle \cup {"success", "manifest", "smoke"}

Ended == [phase |-> "ended", todo |-> <<>>]

ProofInit ==
    /\ Init
    /\ launch = [p \in Launches |-> [phase |-> "idle", todo |-> <<>>]]
    /\ disk = [f \in Files |-> None]
    /\ profile = <<>>
    /\ anchor = None
    /\ composed = [promoted |-> FALSE, bedrock |-> "NOT_RUN"]
    /\ callers = {}
    /\ attempts = {}
    /\ crashes = mode.crashes

Proving == mode.proof # "none"
In(p, phase) == launch[p].phase = phase
Goto(p, phase) == launch' = [launch EXCEPT ![p].phase = phase]

(* A harness that has been constructed and not run, on the given ledger. *)
FreshHarness(l) ==
    /\ agent' = [a \in Agents |-> Idle]
    /\ ledger' = l
    /\ events' = {}
    /\ run' = [status |-> "running", decision |-> None]

----------------------------------------------------------------------------
(* The claim. *)

(* os.open with O_CREAT | O_EXCL: the path's existence decides, whatever   *)
(* the file holds.                                                         *)
Unclaimed == disk.claim = None

Claim(p) ==
    /\ Proving /\ In(p, "idle")
    /\ IF Unclaimed
       THEN /\ disk' = [disk EXCEPT !.claim = [by |-> p, written |-> FALSE]]
            /\ Goto(p, "opened")
       ELSE /\ launch' = [launch EXCEPT ![p] = Ended]
            /\ UNCHANGED disk
    /\ UNCHANGED <<vars, profile, anchor, composed, callers, attempts, crashes>>

(* write, flush, fsync of the file; a failed write keeps the partial file. *)
WriteClaim(p) ==
    /\ In(p, "opened")
    /\ disk' = [disk EXCEPT !.claim.written = TRUE]
    /\ Goto(p, "written")
    /\ UNCHANGED <<vars, profile, anchor, composed, callers, attempts, crashes>>

(* fsync of the directory: from here on the claim survives a power loss.   *)
(* The harness of this process is then built.                              *)
SyncDirectory(p) ==
    /\ In(p, "written")
    /\ Goto(p, "run")
    /\ profile' = <<>>
    /\ FreshHarness(EmptyLedger)
    /\ sent' = 0
    /\ UNCHANGED <<mode, faults, disk, anchor, composed, callers, attempts, crashes>>

(* One step of the harness of the launch that holds the claim. *)
HarnessStep ==
    /\ IF Proving THEN \E p \in Launches : In(p, "run") ELSE TRUE
    /\ Next
    /\ callers' = IF sent' # sent THEN callers \cup {p \in Launches : In(p, "run")}
                  ELSE callers
    /\ UNCHANGED <<launch, disk, profile, anchor, composed, attempts, crashes>>

----------------------------------------------------------------------------
(* run_authority_b_advisory once the harness has returned or raised. *)

Usage == [requests |-> ledger.requests, input |-> ledger.input,
          output |-> ledger.output]

(* Mutant of AdvisoryStatus: every run is recorded as degraded. *)
AlwaysDegraded == "DEGRADED"

(* advisory_from_harness_run projects an assessed run.  A partial result   *)
(* carries no assessment, hence no case identity: its projection raises    *)
(* and is recorded like a failure of the provider.                         *)
AdvisoryStatus == IF run.status = "assessed" THEN "COMPLETE" ELSE "DEGRADED"

(* build_ai_usefulness_proof: for a real provider the stability check      *)
(* always fails, so no real run is ever proved useful.                     *)
RequireRealProvider == TRUE
Useful(status) == status \in {"COMPLETE", "PARTIAL"} /\ ~ RequireRealProvider

(* The outcome file of this run. *)
OutcomeFile == IF Useful(AdvisoryStatus) THEN "success" ELSE "failure"

(* The files are written in another order after a failure. *)
Writes == IF AdvisoryStatus = "DEGRADED" THEN <<"advisory", "failure", "usefulness">>
          ELSE <<"advisory", "usefulness", OutcomeFile>>

(* What each file of launch p says; an outcome is DEGRADED unless useful. *)
Content(p, f) ==
    CASE f = "advisory"   -> [by |-> p, status |-> AdvisoryStatus, usage |-> Usage]
      [] f = "usefulness" -> [by |-> p, status |-> AdvisoryStatus, usage |-> Usage,
                              pass |-> Useful(AdvisoryStatus)]
      [] OTHER            -> [by |-> p, usage |-> Usage,
                              status |-> IF Useful(AdvisoryStatus) THEN "PASS"
                                         ELSE "DEGRADED"]

FinishAdvisory(p) ==
    /\ mode.proof = "advisory" /\ In(p, "run") /\ ~ Running
    /\ launch' = [launch EXCEPT ![p] = [phase |-> "saving", todo |-> Writes]]
    /\ attempts' = attempts \cup {[by |-> p, ending |-> run.status, usage |-> Usage]}
    /\ UNCHANGED <<vars, disk, profile, anchor, composed, callers, crashes>>

(* _atomic_json replaces a record; save_authority_b_outcome refuses to     *)
(* overwrite one, and the process ends with what it has written.           *)
Save(p) ==
    /\ In(p, "saving")
    /\ LET f == Head(launch[p].todo)
           rest == Tail(launch[p].todo)
       IN  IF f \in {"failure", "success"} /\ disk[f] # None
           THEN launch' = [launch EXCEPT ![p] = Ended] /\ UNCHANGED disk
           ELSE /\ disk' = [disk EXCEPT ![f] = Content(p, f)]
                /\ launch' = [launch EXCEPT ![p] =
                                 IF rest = <<>> THEN Ended ELSE [@ EXCEPT !.todo = rest]]
    /\ UNCHANGED <<vars, profile, anchor, composed, callers, attempts, crashes>>

----------------------------------------------------------------------------
(* run_bedrock: one profile after the other on the same ledger. *)

(* run_profile after the harness: the assessment is recorded and the       *)
(* business workflow run; an invoice released for a receipt that is not    *)
(* posted is refused and raises.                                           *)
Workflow(expected) ==
    IF run.status # "assessed" THEN "RAISES"
    ELSE IF run.decision = expected THEN "PASS"
    ELSE IF run.decision = "RECEIPT_ALREADY_POSTED" THEN "RAISES" ELSE "FAIL"

(* The report of a profile: the closure and the coverage that the composer *)
(* asks for, and whether the trace accounts for every request, which it    *)
(* does only when no stage was repeated.                                   *)
Report(expected) ==
    LET c == Closure(agent[Synthesis].result, agent[Evaluator].result, mode.admitted)
    IN  [status |-> Workflow(expected),
         closed |-> c.allClaims /\ c.allAdmitted,
         available |-> Coverage(c, mode.admitted).available
                         /\ Coverage(c, mode.admitted).validated,
         traced |-> \A a \in Agents : agent[a].attempt = 1]

(* The frozen caps of requests, tokens and estimated cost. *)
WithinCaps(usage) ==
    /\ usage.requests <= mode.budget.requests
    /\ usage.input <= mode.budget.input
    /\ usage.output <= mode.budget.output
    /\ Cost(usage.input, usage.output) <= mode.budget.cost
    /\ mode.budget.prior + Cost(usage.input, usage.output) <= mode.budget.cumulative

(* The smoke script keeps the artifact when every profile passed, the      *)
(* traces add up to the ledger and the ledger is within the caps.          *)
SmokeAccepted(reports) ==
    /\ \A i \in DOMAIN reports : reports[i].status = "PASS" /\ reports[i].traced
    /\ WithinCaps(Usage)

(* The redacted manifest of a profile that raised. *)
Manifest(p) == [by |-> p, usage |-> Usage]

FinishProfile(p) ==
    LET current  == mode.profiles[Len(profile) + 1]
        reports  == Append(profile, Report(current.expected))
        last     == Len(reports) = Len(mode.profiles)
    IN  /\ mode.proof = "smoke" /\ In(p, "run") /\ ~ Running
        /\ IF Workflow(current.expected) = "RAISES"
           THEN /\ disk' = [disk EXCEPT !.manifest = Manifest(p)]
                /\ launch' = [launch EXCEPT ![p] = Ended]
                /\ UNCHANGED <<vars, profile>>
           ELSE IF ~ last
           THEN LET next == mode.profiles[Len(reports) + 1]
                IN  /\ profile' = reports
                    /\ mode' = [mode EXCEPT !.facts = next.facts,
                                            !.admitted = next.admitted]
                    /\ FreshHarness(ledger)
                    /\ UNCHANGED <<disk, launch, sent, faults>>
           ELSE /\ profile' = reports
                /\ disk' = IF SmokeAccepted(reports)
                           THEN [disk EXCEPT !.smoke = [by |-> p, reports |-> reports,
                                                        usage |-> Usage]]
                           ELSE disk
                /\ launch' = [launch EXCEPT ![p] = Ended]
                /\ UNCHANGED vars
        /\ UNCHANGED <<anchor, composed, callers, attempts, crashes>>

----------------------------------------------------------------------------
(* Crashes. *)

Active(p) == launch[p].phase \notin {"idle", "ended"}

(* The process dies, or a write of the claim fails and the launch gives up. *)
Crash(p) ==
    /\ crashes > 0 /\ Active(p)
    /\ crashes' = crashes - 1
    /\ launch' = [launch EXCEPT ![p] = Ended]
    /\ FreshHarness(EmptyLedger)
    /\ UNCHANGED <<mode, sent, faults, disk, profile, anchor, composed, callers, attempts>>

(* The machine stops.  A claim whose directory was not synced may be gone  *)
(* or torn; the records of a launch that was still writing are not synced  *)
(* at all.                                                                 *)
PowerLoss ==
    LET unsynced == {p \in Launches : launch[p].phase \in {"opened", "written"}}
        saving   == {p \in Launches : In(p, "saving")}
        records  == {f \in Files \ {"claim"} : disk[f] # None /\ disk[f].by \in saving}
    IN  /\ crashes > 0
        /\ unsynced # {} \/ saving # {}
        /\ crashes' = crashes - 1
        /\ \E lost \in SUBSET records,
              claim \in IF unsynced = {} THEN {disk.claim}
                        ELSE {None, disk.claim, [disk.claim EXCEPT !.written = FALSE]} :
              disk' = [f \in Files |-> IF f = "claim" THEN claim
                                       ELSE IF f \in lost THEN None ELSE disk[f]]
        /\ launch' = [p \in Launches |-> IF Active(p) THEN Ended ELSE launch[p]]
        /\ FreshHarness(EmptyLedger)
        /\ UNCHANGED <<mode, sent, faults, profile, anchor, composed, callers, attempts>>

----------------------------------------------------------------------------
(* The composer. *)

(* A reviewer pins the digests of the four files in the source (external). *)
Review ==
    /\ anchor = None
    /\ \A f \in Bundle : disk[f] # None
    /\ anchor' = [f \in Bundle |-> disk[f]]
    /\ UNCHANGED <<vars, launch, disk, profile, composed, callers, attempts, crashes>>

FrozenEvidenceMatches ==
    anchor # None /\ \A f \in Bundle : disk[f] = anchor[f]

OutcomeMatchesAdvisory ==
    /\ disk.failure.by = disk.claim.by
    /\ disk.failure.status = "DEGRADED"
    /\ disk.advisory.status = "DEGRADED"
    /\ disk.failure.usage = disk.advisory.usage
    /\ WithinCaps(disk.failure.usage)

UsefulnessMatches ==
    /\ ~ disk.usefulness.pass
    /\ disk.usefulness.status = "DEGRADED"
    /\ disk.usefulness.usage = disk.failure.usage

(* A claim is read back only when it parses and its digest matches. *)
ClaimReadable == disk.claim # None /\ disk.claim.written

(* _authority_b_proof: any doubt leaves the evidence invalid. *)
EvidenceValid ==
    /\ FrozenEvidenceMatches
    /\ disk.success = None
    /\ \A f \in Bundle : disk[f] # None
    /\ ClaimReadable
    /\ OutcomeMatchesAdvisory
    /\ UsefulnessMatches

(* _bedrock_proof: a smoke artifact of the claimed attempt in which every  *)
(* profile is closed and had every source.                                 *)
BedrockProof ==
    IF /\ disk.smoke # None
       /\ \A i \in DOMAIN disk.smoke.reports :
             disk.smoke.reports[i].closed /\ disk.smoke.reports[i].available
       /\ ClaimReadable
       /\ disk.smoke.by = disk.claim.by
    THEN "PASS" ELSE "NOT_RUN"

(* run_all; offline says whether the business and the scripted suites pass. *)
Compose(offline) ==
    /\ Proving
    /\ composed' = [promoted |-> offline /\ EvidenceValid, bedrock |-> BedrockProof]
    /\ UNCHANGED <<vars, launch, disk, profile, anchor, callers, attempts, crashes>>

----------------------------------------------------------------------------
ProofNext ==
    \/ HarnessStep
    \/ \E p \in Launches :
          \/ Claim(p)
          \/ WriteClaim(p)
          \/ SyncDirectory(p)
          \/ FinishAdvisory(p)
          \/ Save(p)
          \/ FinishProfile(p)
          \/ Crash(p)
    \/ PowerLoss
    \/ Review
    \/ \E offline \in BOOLEAN : Compose(offline)

ProofSpec == ProofInit /\ [][ProofNext]_<<vars, proofVars>>

----------------------------------------------------------------------------
(* Properties. *)

(* There is one provider attempt, and only its records are promoted.       *)
(* However often a launch is repeated and wherever a process or the        *)
(* machine stops, the provider is called by one launch only, and by then   *)
(* its claim is complete on disk ("Atomically consume the sole provider    *)
(* attempt before any provider I/O", provider.py).  A promotion with       *)
(* disclosed degradation rests on a claim, outcome, advisory and           *)
(* usefulness all written by that launch; they report the ledger of that   *)
(* very run within its caps, and the run did not complete                  *)
(* (_authority_b_proof, run_all).                                          *)
PromotionIsOneAttempt ==
    /\ Cardinality(callers) <= 1
    /\ \A p \in callers : disk.claim = [by |-> p, written |-> TRUE]
    /\ composed.promoted =>
         \E x \in attempts :
           /\ x.ending # "assessed"
           /\ WithinCaps(x.usage)
           /\ \A f \in Bundle : disk[f] # None /\ disk[f].by = x.by
           /\ \A f \in Bundle \ {"claim"} : disk[f].usage = x.usage

=============================================================================
