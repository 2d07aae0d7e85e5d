--------------------------- MODULE ExperimentSession ---------------------------
(***************************************************************************)
(* One Scenario Lab incident (experiment/session.py) over its four durable *)
(* stores: the public event ledger (experiment/ledger.py), the synthetic   *)
(* enterprise, the case store and the quorum file.  No transaction spans   *)
(* two of them, so every step below is one durable write; a crash may fall *)
(* between any two, and the session is then reopened from what is on disk. *)
(*                                                                         *)
(* Threads: the holder of _command_lock (cmd), the investigation worker    *)
(* (harness) and the execution workers (wk), which take no common lock.    *)
(* The ledger maps idempotency keys to the case version and the payload of *)
(* their events; the order of the events is that of the steps that append  *)
(* them.  Display-only events (source read, verification started,          *)
(* telemetry) are left out.                                                *)
(***************************************************************************)
EXTENDS AuthorityBQuorum

CONSTANTS
  Workers,    \* the execution threads
  Modes,      \* the sessions looked at: the configuration and the bounds of each,
              \* [auto, live, chat, early: BOOLEAN, tools, expire: SUBSET Tools,
              \*  workers: SUBSET Workers, crashes, faults: Nat]
  MaxReads    \* bound: reads of the five sources

CaseRows ==
  [status : {"INVESTIGATING", "RECEIPT_EXECUTING", "RECEIPT_VERIFIED", "INVOICE_EXECUTING",
             "CLOSED"},
   version : Nat]

ASSUME AbsentAssumption == None \notin CaseRows

VARIABLES
  mode,                \* configuration: mode.live, the provider is not scripted
  auto,                \* auto_start_after_detection
  ledger,              \* public_events
  injected, effects,   \* the enterprise: the outbox exists; its business effects
  case, evidence,      \* the case store: projection and evidence records
  store,               \* binding and attempt of each action
  saved,               \* quorum-ledger.json
  up,                  \* the process: "down", "opening", "up", "refused"
  quorum, results,     \* the process's copy of the quorum; prepare release_invoice is cached
  run,                 \* _run is set
  harness, cmd, wk,    \* the threads
  late, issued,        \* intents past expires_at; grants signed so far
  crashes, faults

disk == <<injected, effects, case, evidence, store, saved>>
memory == <<quorum, results, run>>
world == <<mode, auto, late, issued, crashes>>
vars == <<ledger, disk, up, memory, harness, cmd, wk, world, faults>>

Free == [pc |-> "free"]
NoBinding == [grant |-> None, attempt |-> "NONE"]

Init ==
  /\ mode \in Modes /\ auto = mode.auto
  /\ ledger = <<>> /\ injected = FALSE /\ effects = {}
  /\ case = None /\ evidence = <<>>
  /\ store = [t \in Tools |-> NoBinding]
  /\ saved = [t \in Tools |-> NoIntent] /\ quorum = saved
  /\ up = "up" /\ results = FALSE /\ run = FALSE
  /\ harness = "idle" /\ cmd = Free /\ wk = [w \in Workers |-> Free]
  /\ late = {} /\ issued = 0 /\ crashes = 0 /\ faults = 0

-----------------------------------------------------------------------------
(* ledger.py *)

Has(key) == key \in DOMAIN ledger
Named(name) == { key \in DOMAIN ledger : key[1] = name }
Version == IF case = None THEN 0 ELSE case.version

\* append: a known key must carry the same event.
Fits(key, version, data) ==
  Has(key) => ledger[key] = [version |-> version, data |-> data]

Put(f, key, value) == [k \in DOMAIN f \union {key} |-> IF k = key THEN value ELSE f[k]]

Added(key, version, data) ==
  IF Has(key) THEN ledger ELSE Put(ledger, key, [version |-> version, data |-> data])

\* One append by a thread: it succeeds and the thread does ok, or it raises,
\* on a key used for a different event or on a write error, and does failed.
Emit(key, version, data, ok, failed) ==
  \/ /\ Fits(key, version, data)
     /\ ledger' = Added(key, version, data)
     /\ ok /\ UNCHANGED faults
  \/ /\ Fits(key, version, data) => faults < mode.faults
     /\ faults' = IF Fits(key, version, data) THEN faults + 1 ELSE faults
     /\ failed /\ UNCHANGED ledger

\* _persist_locked: a failed write leaves the new intents in memory only.
Persist(next, ok, failed) ==
  /\ quorum' = next
  /\ \/ saved' = next /\ ok /\ UNCHANGED faults
     \/ faults < mode.faults /\ faults' = faults + 1 /\ failed /\ UNCHANGED saved

-----------------------------------------------------------------------------
(* What the ledger says about the session. *)

Injected == <<"injected", None>>
Detected == <<"detected", None>>
Started == <<"started", None>>
Stages == {"synthesis", "evaluation"}

\* _advisory_terminally_degraded.
Degraded == Named("degraded") # {}

\* investigation_is_available.
Available ==
  run \/ \E key \in Named("evaluation") : ledger[key].data[1] = "ACCEPT"

Concluded == Named("synthesis") \union Named("evaluation") # {}

Closed == case # None /\ case.status = "CLOSED"

\* start_investigation raises.
StartDenied == ~Has(Injected) \/ Degraded \/ case = None \/ Closed

\* It has nothing to do.
StartDone == harness # "idle" \/ run \/ Concluded

-----------------------------------------------------------------------------
(* The thread that holds _command_lock: the constructor, an injection or a *)
(* manager command.  Leave ends it; a constructor that raises leaves no    *)
(* session behind.                                                         *)

Goto(pc) == cmd' = [cmd EXCEPT !.pc = pc]
Leave(state) == cmd' = Free /\ up' = IF up = "opening" THEN state ELSE up
Stop == Leave("up")
Fail == Leave("down")

\* __init__ of a reopened run: ExperimentRegistry.get passes auto start.
Open ==
  /\ up \in {"down", "refused"}
  /\ up' = "opening" /\ auto' = TRUE
  /\ quorum' = saved
  /\ cmd' = [pc |-> "recover"]
  /\ UNCHANGED <<ledger, disk, results, run, harness, wk, mode, late, issued,
                 crashes, faults>>

\* The outbox row of the source condition, which the enterprise commits with
\* the condition itself: it holds the states before and after.
OutboxRow == injected

\* inject_retryable_document_lock: the whole healthy source, no effect on it
\* and no outbox row yet, ...
SourceHealthy == ~OutboxRow /\ effects = {}

\* ... becomes, in one transaction, a failed message, a short receipt, a held
\* invoice and the outbox row; an outbox row there is is taken as it stands.
LockInjected ==
  /\ OutboxRow \/ SourceHealthy
  /\ injected' = TRUE

\* Mutant of Recover: only a published source event is taken up again.
RecoverPublished ==
  /\ cmd.pc = "recover"
  /\ IF Has(Injected)
     THEN Goto("detect") /\ UNCHANGED <<ledger, up, faults>>
     ELSE Stop /\ UNCHANGED <<ledger, faults>>
  /\ UNCHANGED <<disk, memory, harness, wk, world>>

\* _recover_persisted_source_transition.
Recover ==
  /\ cmd.pc = "recover"
  /\ IF OutboxRow
     THEN Emit(Injected, 0, None, Goto("detect") /\ UNCHANGED up, Fail)
     ELSE Stop /\ UNCHANGED <<ledger, faults>>
  /\ UNCHANGED <<disk, memory, harness, wk, world>>

\* inject_source_condition, up to the enterprise transaction.  (Here and
\* below the repetition of a command that would change nothing is left out.)
Inject ==
  /\ up = "up" /\ cmd = Free
  /\ Has(Detected) => auto /\ ~StartDenied /\ ~StartDone
  /\ LockInjected
  /\ cmd' = [pc |-> IF Has(Injected) THEN "detect" ELSE "publish"]
  /\ UNCHANGED <<ledger, effects, case, evidence, store, saved, up, memory,
                 harness, wk, world, faults>>

\* _append_source_condition_event.
PublishSource ==
  /\ cmd.pc = "publish"
  /\ Emit(Injected, 0, None, Goto("detect") /\ UNCHANGED up, Fail)
  /\ UNCHANGED <<disk, memory, harness, wk, world>>

\* _ensure_detection: the case and its evidence are committed together; a
\* case found in the store is announced again.
Detect ==
  /\ cmd.pc = "detect"
  /\ IF Has(Detected) THEN Goto("start") /\ UNCHANGED <<case, evidence>>
     ELSE /\ Goto("announce")
          /\ case' = IF case = None THEN [status |-> "INVESTIGATING", version |-> 1] ELSE case
          /\ evidence' = IF case = None THEN [id \in {1} \X SourceTypes |-> effects]
                         ELSE evidence
  /\ UNCHANGED <<ledger, injected, effects, store, saved, up, memory, harness, wk,
                 world, faults>>

Announce ==
  /\ cmd.pc = "announce"
  /\ Emit(Detected, Version, <<DOMAIN evidence, effects>>, Goto("start") /\ UNCHANGED up, Fail)
  /\ UNCHANGED <<disk, memory, harness, wk, world>>

\* The lab's start command enters start_investigation directly.
StartCommand ==
  /\ up = "up" /\ cmd = Free /\ ~StartDenied /\ ~StartDone
  /\ cmd' = [pc |-> "startNow"]
  /\ UNCHANGED <<ledger, disk, up, memory, harness, wk, world, faults>>

\* _auto_start_detected_investigation and start_investigation: the degraded
\* incident is passed over, the closed one is an error.
AutoStart ==
  /\ cmd.pc \in {"start", "startNow"}
  /\ IF cmd.pc = "start" /\ (~auto \/ Degraded)
     THEN Stop /\ UNCHANGED <<ledger, harness, faults>>
     ELSE IF StartDenied THEN Leave("refused") /\ UNCHANGED <<ledger, harness, faults>>
     ELSE IF StartDone THEN Stop /\ UNCHANGED <<ledger, harness, faults>>
     ELSE Emit(Started, Version, mode.live, Stop /\ harness' = "synthesis",
               Fail /\ UNCHANGED harness)
  /\ UNCHANGED <<disk, memory, wk, world>>

-----------------------------------------------------------------------------
(* _investigation_worker.  The events of the investigators and of the      *)
(* synthesis are one stage, those of the evaluator the other; the payload  *)
(* of a live run differs each time.                                        *)

After(stage) == IF stage = "synthesis" THEN "evaluation" ELSE "done"

Verdicts(stage) ==
  IF stage = "evaluation" /\ mode.live THEN {"ACCEPT", "REJECT"} ELSE {"ACCEPT"}

\* One stage and its events; a provider error or a used key ends the run.
HarnessStage ==
  /\ harness \in Stages
  /\ \/ \E verdict \in Verdicts(harness) :
          Emit(<<harness, None>>, Version, <<verdict, IF mode.live THEN crashes ELSE 0>>,
               harness' = After(harness), harness' = "degrade")
     \/ mode.live /\ harness' = "degrade" /\ UNCHANGED <<ledger, faults>>
  /\ UNCHANGED <<disk, up, memory, cmd, wk, world>>

HarnessDone ==
  /\ harness = "done"
  /\ run' = TRUE /\ harness' = "idle"
  /\ UNCHANGED <<ledger, disk, up, quorum, results, cmd, wk, world, faults>>

\* PROVIDER_DEGRADED, then WORKFLOW_BLOCKED.
HarnessDegrade ==
  /\ harness \in {"degrade", "block"}
  /\ IF harness = "degrade"
     THEN Emit(<<"degraded", None>>, Version, None, harness' = "block", harness' = "idle")
     ELSE Emit(<<"blocked", None>>, Version, None, harness' = "idle", harness' = "idle")
  /\ UNCHANGED <<disk, up, memory, cmd, wk, world>>

\* chat_command: a scripted first turn also runs the team; a live turn may
\* fail, which degrades the incident.  Each turn has its own keys, so the
\* version of its events is never compared.
Chat ==
  /\ up = "up" /\ cmd = Free /\ mode.chat
  /\ Has(Injected) /\ ~Degraded /\ case # None
  /\ IF mode.live
     THEN /\ ledger' = Added(<<"degraded", "chat">>, 0, None)
          /\ UNCHANGED run
     ELSE /\ ~run
          /\ ledger' = Added(<<"evaluation", "chat">>, 0, <<"ACCEPT", 0>>)
          /\ run' = TRUE
  /\ UNCHANGED <<disk, up, quorum, results, harness, cmd, wk, world, faults>>

-----------------------------------------------------------------------------
(* _refresh_evidence: the stamp and the snapshot are taken once, then one  *)
(* insert per source; a record id that exists raises.                      *)

NewRefresh ==
  [stamp |-> (Cardinality(DOMAIN evidence) \div Cardinality(SourceTypes)) + 1,
   todo |-> SourceTypes, seen |-> effects]
NextRecord(r) == <<r.stamp, CHOOSE s \in r.todo : TRUE>>

Insert(r, more(_), done, failed) ==
  IF NextRecord(r) \in DOMAIN evidence THEN failed /\ UNCHANGED evidence
  ELSE LET rest == r.todo \ {NextRecord(r)[2]}
       IN  /\ evidence' = Put(evidence, NextRecord(r), r.seen)
           /\ IF rest = {} THEN done ELSE more([r EXCEPT !.todo = rest])

-----------------------------------------------------------------------------
(* prepare_decision *)

Prepare(t) ==
  /\ up = "up" /\ cmd = Free
  /\ t \in mode.tools
  /\ t = Release => mode.early \/ (case # None /\ case.status = ReservableFrom(Release))
  /\ IF t = Release THEN ~results ELSE ~Has(<<"requested", t>>)
  /\ t = Release => NewRefresh.stamp <= MaxReads
  /\ cmd' = [pc |-> "investigate", tool |-> t, refresh |-> None, cached |-> FALSE]
  /\ UNCHANGED <<ledger, disk, up, memory, harness, wk, world, faults>>

\* What prepare_decision asks of run_investigation.
Investigated == Available \/ Degraded

\* run_investigation: return what there is, start the harness, or wait for
\* it; the wait ends with the harness or after 45 seconds.
Investigate ==
  /\ cmd.pc = "investigate"
  /\ IF ~Has(Injected) \/ case = None THEN Stop /\ UNCHANGED <<ledger, harness, faults>>
     ELSE IF Degraded \/ Available \/ Closed \/ harness # "idle"
     THEN Goto("await") /\ UNCHANGED <<ledger, up, harness, faults>>
     ELSE Emit(Started, Version, mode.live, Goto("own") /\ harness' = "synthesis" /\ UNCHANGED up,
               Fail /\ UNCHANGED harness)
  /\ UNCHANGED <<disk, memory, wk, world>>

Await ==
  /\ cmd.pc = "await" \/ (cmd.pc = "own" /\ harness = "idle")
  /\ IF Investigated
     THEN /\ IF cmd.tool = Release
             THEN cmd' = [cmd EXCEPT !.pc = "refresh", !.refresh = NewRefresh]
             ELSE Goto("decide")
          /\ UNCHANGED up
     ELSE Stop
  /\ UNCHANGED <<ledger, disk, memory, harness, wk, world, faults>>

Refresh ==
  /\ cmd.pc = "refresh"
  /\ Insert(cmd.refresh, LAMBDA r : cmd' = [cmd EXCEPT !.refresh = r] /\ UNCHANGED up,
            Goto("decide") /\ UNCHANGED up, Stop)
  /\ UNCHANGED <<ledger, injected, effects, case, store, saved, memory, harness, wk,
                 world, faults>>

\* The decision, then the one intent of this action: created, or found.
Decide ==
  /\ cmd.pc = "decide"
  /\ LET t == cmd.tool IN
     IF AllowedAction(case, evidence) # t
     THEN Stop /\ UNCHANGED <<quorum, saved, results, faults>>
     ELSE IF quorum[t].status = "NONE"
     THEN /\ Persist(IntentCreated(quorum, t, Decision(case, evidence)),
                     Goto("prepared") /\ UNCHANGED up, Fail)
          /\ UNCHANGED results
     ELSE IF quorum[t].status \in Pending \union {"GRANTED"}
     THEN /\ cmd' = [cmd EXCEPT !.pc = "prepared", !.cached = TRUE]
          /\ UNCHANGED <<quorum, saved, results, up, faults>>
     ELSE Stop /\ results' = (results \/ t = Release) /\ UNCHANGED <<quorum, saved, faults>>
  /\ UNCHANGED <<ledger, injected, effects, case, evidence, store, run, harness, wk,
                 world>>

\* RECOVERY_PREPARED and APPROVAL_REQUESTED (also _ensure_intent_events).
Announced ==
  /\ cmd.pc \in {"prepared", "requested"}
  /\ Emit(<<cmd.pc, cmd.tool>>, Version, quorum[cmd.tool].decision,
          IF cmd.pc = "prepared" THEN Goto("requested") /\ UNCHANGED <<up, results>>
          ELSE /\ Stop
               /\ results' = (results \/ (cmd.cached /\ cmd.tool = Release)),
          Fail /\ UNCHANGED results)
  /\ UNCHANGED <<disk, quorum, run, harness, wk, world>>

-----------------------------------------------------------------------------
(* record_approval: under the key of the recorded approval it publishes it *)
(* again, under a new key it attests.                                      *)

Approve(t, p) ==
  /\ up = "up" /\ cmd = Free
  /\ \/ quorum[t].status \in Pending /\ cmd' = [pc |-> "attest", tool |-> t, by |-> p]
     \/ /\ p \in quorum[t].attested /\ ~Has(<<"recorded", t, p>>)
        /\ cmd' = [pc |-> "recorded", tool |-> t, by |-> p]
  /\ UNCHANGED <<ledger, disk, up, memory, harness, wk, world, faults>>

\* attest: an expired intent is closed, a second signature of a role refused.
Attest ==
  /\ cmd.pc = "attest"
  /\ LET t == cmd.tool
         now == Expired(quorum, t, late)
     IN  IF MayAttest(now, t, cmd.by)
         THEN /\ Persist(Attested(now, t, cmd.by, issued),
                         Goto("recorded") /\ UNCHANGED up, Fail)
              /\ issued' = IF quorum'[t].status = "GRANTED" THEN issued + 1 ELSE issued
         ELSE /\ IF now # quorum THEN Persist(now, Stop, Fail)
                 ELSE Stop /\ UNCHANGED <<quorum, saved, faults>>
              /\ UNCHANGED issued
  /\ UNCHANGED <<ledger, injected, effects, case, evidence, store, results, run,
                 harness, wk, mode, auto, late, crashes>>

\* APPROVAL_RECORDED.
Recorded ==
  /\ cmd.pc = "recorded"
  /\ Emit(<<"recorded", cmd.tool, cmd.by>>, Version, quorum[cmd.tool].status,
          Stop, Fail)
  /\ UNCHANGED <<disk, memory, harness, wk, world>>

-----------------------------------------------------------------------------
(* accept_execution and the execution worker w *)

At(w, pc) == wk' = [wk EXCEPT ![w].pc = pc]
Die(w) == wk' = [wk EXCEPT ![w] = Free]

\* The alive test and the start of the thread are two steps of the request,
\* so a second request may start a second thread before the first one ran.
Accept(w, t) ==
  /\ up = "up" /\ w \in mode.workers /\ wk[w] = Free
  /\ quorum[t].grant # None /\ quorum[t].status \in {"GRANTED", "CONSUMED"}
  /\ \A v \in Workers : wk[v] # Free /\ wk[v].tool = t => wk[v].pc = "begin"
  /\ LET key == <<"execStarted", t>>
         version == IF Has(key) THEN ledger[key].version ELSE Version
     IN  Emit(key, version, None,
              wk' = [wk EXCEPT ![w] = [pc |-> "begin", tool |-> t, before |-> {}, refresh |-> None]],
              UNCHANGED wk)
  /\ UNCHANGED <<disk, up, memory, harness, cmd, world>>

\* execute_decision up to the executor call.  The key may already belong to
\* another command, which ends the worker; so does a consumed intent.
Begin(w) ==
  /\ wk[w] # Free /\ wk[w].pc = "begin"
  /\ LET t == wk[w].tool IN
     \/ Die(w) /\ UNCHANGED <<ledger, faults>>
     \/ /\ quorum[t].status # "CONSUMED"
        /\ IF Has(<<"effectStarted", t>>)
           THEN /\ wk' = [wk EXCEPT ![w].pc = "check", ![w].before = effects]
                /\ UNCHANGED <<ledger, faults>>
           ELSE Emit(<<"effectStarted", t>>, Version, None,
                     wk' = [wk EXCEPT ![w].pc = "check", ![w].before = effects], Die(w))
  /\ UNCHANGED <<disk, up, memory, harness, cmd, world>>

\* AuthorityBControlledExecutor.execute up to the binding.
Check(w) ==
  /\ wk[w] # Free /\ wk[w].pc = "check"
  /\ LET t == wk[w].tool IN
     At(w, IF ~MayExecute(quorum, t, late) THEN "blocked"
           ELSE IF store[t] = NoBinding
           THEN IF Binds(quorum[t], t, case, evidence) THEN "reserve" ELSE "blocked"
           ELSE IF store[t].grant = quorum[t].grant THEN "post" ELSE "blocked")
  /\ UNCHANGED <<ledger, disk, up, memory, harness, cmd, world, faults>>

\* bind_and_reserve_authority_b_attempt: one transaction.  The bridge grant
\* carries the clock, so a binding made in between is the same one only if
\* no event was published since.
Reserve(w) ==
  /\ wk[w] # Free /\ wk[w].pc = "reserve"
  /\ LET t == wk[w].tool IN
     IF store[t] = NoBinding
     THEN IF case.version = quorum[t].decision.version
          THEN /\ store' = [store EXCEPT ![t] =
                              [grant |-> quorum[t].grant, attempt |-> "RESERVED"]]
               /\ case' = Reserved(case, t)
               /\ At(w, "post")
          ELSE At(w, "blocked") /\ UNCHANGED <<store, case>>
     ELSE /\ \/ At(w, "blocked")
             \/ store[t].grant = quorum[t].grant /\ At(w, "post")
          /\ UNCHANGED <<store, case>>
  /\ UNCHANGED <<ledger, injected, effects, evidence, saved, up, memory, harness, cmd,
                 world, faults>>

\* ControlledExecutor.execute: the enterprise transaction.
Post(w) ==
  /\ wk[w] # Free /\ wk[w].pc = "post"
  /\ effects' = IF store[wk[w].tool].attempt = "RESERVED" THEN effects \union {wk[w].tool}
                ELSE effects
  /\ At(w, "complete")
  /\ UNCHANGED <<ledger, injected, case, evidence, store, saved, up, memory, harness,
                 cmd, world, faults>>

\* complete_attempt: one transaction of the case store.
Complete(w) ==
  /\ wk[w] # Free /\ wk[w].pc = "complete"
  /\ LET t == wk[w].tool IN
     IF store[t].attempt = "RESERVED"
     THEN store' = [store EXCEPT ![t].attempt = "COMPLETED"] /\ case' = Settled(case, t)
     ELSE UNCHANGED <<store, case>>
  /\ At(w, "consume")
  /\ UNCHANGED <<ledger, injected, effects, evidence, saved, up, memory, harness, cmd,
                 world, faults>>

\* Mutant of Consume: the file is left for the next write.
ConsumeInMemory(w) ==
  /\ wk[w] # Free /\ wk[w].pc = "consume"
  /\ quorum' = Consumed(quorum, wk[w].tool)
  /\ At(w, "replay")
  /\ UNCHANGED <<ledger, disk, up, results, run, harness, cmd, world, faults>>

\* mark_consumed; a second worker finds its own identity.
Consume(w) ==
  /\ wk[w] # Free /\ wk[w].pc = "consume"
  /\ IF quorum[wk[w].tool].status = "CONSUMED"
     THEN At(w, "replay") /\ UNCHANGED <<quorum, saved, faults>>
     ELSE Persist(Consumed(quorum, wk[w].tool), At(w, "replay"), At(w, "blocked"))
  /\ UNCHANGED <<ledger, injected, effects, case, evidence, store, up, results, run,
                 harness, cmd, world>>

\* The replay that execute_decision performs itself.
Replay(w) ==
  /\ wk[w] # Free /\ wk[w].pc = "replay"
  /\ At(w, IF MayExecute(quorum, wk[w].tool, late) THEN "effectCompleted" ELSE "blocked")
  /\ UNCHANGED <<ledger, disk, up, memory, harness, cmd, world, faults>>

\* WORKFLOW_BLOCKED says whether the effect exists.
Blocked(w) ==
  /\ wk[w] # Free /\ wk[w].pc = "blocked"
  /\ Emit(<<"execBlocked", wk[w].tool>>, Version, wk[w].tool \in effects, Die(w), Die(w))
  /\ UNCHANGED <<disk, up, memory, harness, cmd, world>>

\* EFFECT_COMPLETED (once), then EXECUTION_COMPLETED.
Publish(w) ==
  /\ wk[w] # Free
  /\ LET t == wk[w].tool IN
     \/ /\ wk[w].pc = "effectCompleted"
        /\ IF Has(<<"effectCompleted", t>>) THEN At(w, "executed") /\ UNCHANGED <<ledger, faults>>
           ELSE Emit(<<"effectCompleted", t>>, Version, None, At(w, "executed"), Die(w))
     \/ /\ wk[w].pc = "executed"
        /\ Emit(<<"executed", t>>, Version, wk[w].before,
                wk' = [wk EXCEPT ![w].pc = "refresh", ![w].refresh = NewRefresh], Die(w))
  /\ UNCHANGED <<disk, up, memory, harness, cmd, world>>

WorkerRefresh(w) ==
  /\ wk[w] # Free /\ wk[w].pc = "refresh"
  /\ Insert(wk[w].refresh, LAMBDA r : wk' = [wk EXCEPT ![w].refresh = r],
            At(w, "verified"), Die(w))
  /\ UNCHANGED <<ledger, injected, effects, case, store, saved, up, memory, harness,
                 cmd, world, faults>>

\* VERIFICATION_COMPLETED.
Verified(w) ==
  /\ wk[w] # Free /\ wk[w].pc = "verified"
  /\ LET t == wk[w].tool IN
     Emit(<<"verified", t>>, Version, effects, Die(w), Die(w))
  /\ UNCHANGED <<disk, up, memory, harness, cmd, world>>

-----------------------------------------------------------------------------
(* The environment. *)

\* The lifecycle clock jumps to the capture time of a telemetry event, past
\* the fifteen minutes of an intent.
Expire(t) ==
  /\ up = "up" /\ t \in mode.expire \ late /\ quorum[t].status # "NONE"
  /\ late' = late \union {t}
  /\ UNCHANGED <<ledger, disk, up, memory, harness, cmd, wk, mode, auto, issued,
                 crashes, faults>>

\* The process dies: only the four stores are left.
Crash ==
  /\ up \in {"up", "opening"} /\ crashes < mode.crashes
  /\ crashes' = crashes + 1
  /\ up' = "down" /\ harness' = "idle" /\ cmd' = Free /\ wk' = [w \in Workers |-> Free]
  /\ run' = FALSE /\ results' = FALSE /\ quorum' = [t \in Tools |-> NoIntent]
  /\ UNCHANGED <<ledger, disk, mode, auto, late, issued, faults>>

Opening == Recover \/ Detect \/ Announce \/ AutoStart
Manager == Prepare(Restart) \/ Prepare(Release)
           \/ Investigate \/ Await \/ Refresh \/ Decide \/ Announced
           \/ (\E t \in Tools, p \in Principals : Approve(t, p)) \/ Attest \/ Recorded
Execution(w) ==
  \/ Begin(w) \/ Check(w) \/ Reserve(w) \/ Post(w) \/ Complete(w) \/ Consume(w) \/ Replay(w)
  \/ Blocked(w) \/ Publish(w) \/ WorkerRefresh(w) \/ Verified(w)

Next ==
  \/ Open \/ Opening \/ Inject \/ PublishSource \/ StartCommand
  \/ HarnessStage \/ HarnessDone \/ HarnessDegrade \/ Chat
  \/ Manager
  \/ \E w \in Workers : (\E t \in Tools : Accept(w, t)) \/ Execution(w)
  \/ (\E t \in Tools : Expire(t)) \/ Crash

\* A process that died is started again and its constructor runs on.
Fairness == WF_vars(Open) /\ WF_vars(Opening)

Spec == Init /\ [][Next]_vars /\ Fairness

-----------------------------------------------------------------------------
(* What the browser is shown: snapshot and _case_console_actions. *)

\* operational_state.
ShownState ==
  IF Has(Injected) THEN "INCIDENT"
  ELSE IF injected THEN "SOURCE_TRANSITION_PENDING" ELSE "NORMAL"

\* advisory.status; after a restart only the ledger is left to read it from.
ShownAdvisory ==
  IF run THEN "COMPLETE" ELSE IF Degraded THEN "DEGRADED"
  ELSE IF Named("evaluation") # {} THEN "COMPLETE" ELSE "NOT_STARTED"

ActiveIntents == { t \in Tools : quorum[t].status \in Pending \union {"GRANTED"} }

\* replay_safe: the last verification passed and its execution is recorded.
ReplaySafe(t) == Has(<<"verified", t>>) /\ Has(<<"executed", t>>)

IncidentReady == ShownState = "INCIDENT" /\ case # None

\* Mutant of ContinueEnabled: a degraded advisory run may be continued.
ContinueEnabledDegraded == IncidentReady /\ ~Closed /\ harness = "idle" /\ ~Available

ContinueEnabled == IncidentReady /\ ~Degraded /\ ~Closed /\ harness = "idle" /\ ~Available

PrepareEnabled(t) ==
  /\ IncidentReady /\ (Available \/ Degraded) /\ ~Closed
  /\ ActiveIntents = {} /\ AllowedAction(case, evidence) = t

-----------------------------------------------------------------------------
(* Properties *)

\* mark_consumed changes the memory before the file, so when its write fails
\* only another thread that is already executing the action can still go on.
Unraced == faults = 0 \/ \A v, w \in mode.workers : v = w

\* execute_decision publishes EXECUTION_COMPLETED last: once it is in the
\* ledger the effect exists, the attempt is completed and, unless a write
\* failed under one of two threads, the consumption of the grant is on disk,
\* so no later process can use the grant again.  The case never reports more
\* than the enterprise holds either, and the invoice is released only on a
\* recorded receipt.
PublishedIsDurable ==
  /\ \A t \in Tools : Has(<<"executed", t>>) =>
       /\ t \in effects /\ store[t].attempt = "COMPLETED"
       /\ Unraced => saved[t].status = "CONSUMED"
  /\ case # None /\ case.status = "RECEIPT_VERIFIED" => Restart \in effects
  /\ Closed => effects = Tools
  /\ Release \in effects => Restart \in effects

\* _case_console_actions ("every enabled action still re-enters the command
\* method"): the console never offers a command that the method refuses, and
\* what it shows as complete or replay-safe is backed by the stores.  A run
\* whose session cannot be rebuilt, so that it has no console, is closed.
ConsoleAgrees ==
  /\ up = "refused" => Closed
  /\ up = "up" =>
       /\ ContinueEnabled => ~StartDenied
       /\ \A t \in Tools : PrepareEnabled(t) => Investigated
       /\ ShownAdvisory = "COMPLETE" => Named("evaluation") # {}
       /\ \A t \in Tools : ReplaySafe(t) => store[t].attempt = "COMPLETED"

\* What a public event needs in the ledger before it.
Explains(later) ==
  CASE later = Detected -> Has(Injected)
    [] later = Started -> Has(Injected) /\ case # None
    [] later[1] \in {"synthesis", "evaluation", "degraded"} -> Has(Started) \/ later[2] = "chat"
    [] later[1] = "prepared" -> Named("evaluation") \union Named("degraded") # {}
    [] later[1] = "requested" -> Has(<<"prepared", later[2]>>)
    [] later[1] = "verified" -> Has(<<"executed", later[2]>>)
    [] OTHER -> TRUE

\* Nothing happens without its cause, across failed appends, crashes, retries
\* and reopenings.  Authority B: an enterprise effect is created only while
\* the intent in force carries a signature of both roles.  And of the ledger
\* ("the public ordering always shows source.condition.injected before
\* incident.detected"): no event is published before what explains it.
NothingWithoutCause ==
  [][ /\ \A t \in effects' \ effects : { RoleOf[p] : p \in quorum[t].attested } = Roles
      /\ \A key \in (DOMAIN ledger)' \ DOMAIN ledger : Explains(key) ]_vars

\* The outbox recovery of __init__: a source condition that was committed
\* when the process died is detected by the process that replaces it.
CommittedIsDetected == (up = "down" /\ injected) ~> Has(Detected)

=============================================================================
