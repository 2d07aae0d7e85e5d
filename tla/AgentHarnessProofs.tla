--------------------------- MODULE AgentHarnessProofs ---------------------------
(***************************************************************************)
(* The harness and the one provider attempt, for every configuration, any  *)
(* answers of the agents, any number of launches, crashes and losses of    *)
(* power: a recommended restart stands on records that its investigator    *)
(* read in the accepted attempt, and only the records of the one attempt   *)
(* that held the claim are promoted.                                       *)
(*                                                                         *)
(* GroundInv relates the loops to what they emitted: a loop at work has    *)
(* read what the events of its current attempt say, an investigator that   *)
(* is done has handed off exactly that, and later stages start only when   *)
(* all investigators are done.  ProofInv follows the claim: the file names *)
(* its holder from before the provider is called until after the last      *)
(* record is on disk, so the holder, the attempt and the author of every   *)
(* record are the same launch.  BudgetInv follows the ledger: what it      *)
(* reserves is the sum of what the open streams hold.                      *)
(***************************************************************************)
EXTENDS ProviderProof, FiniteSetTheorems, TLAPS

-----------------------------------------------------------------------------
(* The invariant. *)

Restart == "RECOMMEND_RECEIPT_RESTART"
Working == {"turn", "streaming"}

(* What a loop keeps, field by field. *)
Row(r) ==
  r = [phase |-> r.phase, attempt |-> r.attempt, reads |-> r.reads, readCount |-> r.readCount,
       searches |-> r.searches, bad |-> r.bad, turns |-> r.turns, held |-> r.held,
       result |-> r.result]

Read(ev, h, n) ==
  UNION {e.ids : e \in {x \in ev : x.type = "EVIDENCE" /\ x.agent = h /\ x.attempt = n}}
Handoffs(ev, h) == {e \in ev : e.type = "HANDOFF" /\ e.agent = h}

(* The loop r of investigator h, when ev was emitted in configuration m. *)
LoopOK(m, ev, h, r) ==
  /\ r.attempt \in 0..2
  /\ r.phase = "idle" => r.attempt = 0
  /\ \A x \in ev : x.type = "EVIDENCE" /\ x.agent = h => x.attempt \in 0..r.attempt
  /\ r.phase \in Working \cup {"done"} => r.reads = Read(ev, h, r.attempt)
  /\ r.phase = "done" /\ ~m.chat =>
       /\ InvestigatorValid(r.result, r.reads, m.admitted)
       /\ Handoffs(ev, h) = {Event("HANDOFF", h, r.attempt, "HANDED_OFF", r.reads)}
  /\ ~(r.phase = "done" /\ ~m.chat) => Handoffs(ev, h) = {}

Gathered(m, ag) == ~m.chat /\ \A h \in Hypotheses : ag[h].phase = "done"

(* What a recommended restart stands on. *)
Warranted(m, r) ==
  /\ m.admitted = Sources /\ r.reads = Sources
  /\ Supporting(r.result) = Sources /\ Contradicting(r.result) = {}
  /\ m.facts.queue = "FAILED_RETRYABLE" /\ ~m.facts.documents
  /\ m.facts.warehouse = m.facts.erp + m.facts.message

ShapeInv ==
  /\ mode \in Configurations
  /\ agent = [a \in Agents |-> agent[a]] /\ \A a \in Agents : Row(agent[a])
  /\ run = [status |-> run.status, decision |-> run.decision]
LoopInv == \A h \in Hypotheses : LoopOK(mode, events, h, agent[h])
StageInv ==
  /\ (\E x \in events : x.type = "STARTED" /\ x.agent = Synthesis /\ x.attempt = 1) =>
        agent[Synthesis].phase # "idle"
  /\ agent[Synthesis].phase # "idle" => Gathered(mode, agent)
  /\ agent[Evaluator].phase # "idle" => agent[Synthesis].phase # "idle"
RunInv ==
  /\ run.status = "running" => run.decision = None
  /\ run.decision = Restart => Gathered(mode, agent) /\ Warranted(mode, agent[Retryable])

GroundInv == ShapeInv /\ LoopInv /\ StageInv /\ RunInv

(* The launches.  A claim has one holder; its attempt is recorded once,    *)
(* and every record on disk is of that attempt.                            *)
Records == {"advisory", "failure", "usefulness"}
Reports == [status : {"RAISES", "PASS", "FAIL"}, closed : BOOLEAN, available : BOOLEAN,
            traced : BOOLEAN]
Complete(p) == [by |-> p, written |-> TRUE]

LaunchInv ==
  /\ launch = [p \in Launches |-> launch[p]]
  /\ \A p \in Launches : launch[p] = [phase |-> launch[p].phase, todo |-> launch[p].todo]
  /\ disk = [f \in Files |-> disk[f]]
  /\ \A p \in Launches :
       /\ In(p, "opened") => disk.claim = [by |-> p, written |-> FALSE]
       /\ launch[p].phase \in {"written", "run", "saving"} => disk.claim = Complete(p)
       /\ Active(p) => launch[p].phase \in {"opened", "written", "run", "saving"}
  /\ callers \subseteq Launches
  /\ \A p \in callers : disk.claim = Complete(p) /\ launch[p].phase \in {"run", "saving", "ended"}
ProfileInv ==
  /\ profile \in Seq(Reports)
  /\ mode.proof = "smoke" /\ (\E p \in Launches : In(p, "run")) => Len(profile) < Len(mode.profiles)
  /\ mode.proof = "smoke" => Len(mode.profiles) > 0
AttemptInv ==
  /\ \A x \in attempts :
       /\ x.by \in Launches /\ disk.claim = Complete(x.by)
       /\ launch[x.by].phase \in {"saving", "ended"}
       /\ mode.proof = "advisory"
  /\ \A x \in attempts, y \in attempts : x = y
SavingInv ==
  \A p \in Launches : In(p, "saving") =>
    /\ \E x \in attempts : x.by = p /\ x.ending = run.status /\ x.usage = Usage
    /\ launch[p].todo \in Seq(Records) /\ launch[p].todo # <<>>
    /\ \A i \in 1..Len(launch[p].todo) : disk[launch[p].todo[i]] = None
    /\ \A i, j \in 1..Len(launch[p].todo) : launch[p].todo[i] = launch[p].todo[j] => i = j
RecordInv ==
  \A f \in Records : disk[f] # None =>
    \E x \in attempts :
      /\ disk[f].by = x.by /\ disk[f].usage = x.usage
      /\ f = "advisory" /\ disk[f].status = "DEGRADED" => x.ending # "assessed"
PromotedInv ==
  composed.promoted =>
    \E x \in attempts :
      /\ x.ending # "assessed" /\ WithinCaps(x.usage)
      /\ \A f \in Bundle : disk[f] # None /\ disk[f].by = x.by
      /\ \A f \in Bundle \ {"claim"} : disk[f].usage = x.usage

ProofInv == LaunchInv /\ ProfileInv /\ AttemptInv /\ SavingInv /\ RecordInv /\ PromotedInv
IInv == GroundInv /\ ProofInv

-----------------------------------------------------------------------------
(* Loops and their events. *)

(* ev2 extends ev by nothing that investigator h read or handed off. *)
Quiet(ev, ev2, h) ==
  ev \subseteq ev2 /\ \A x \in ev2 \ ev : x.type \in {"EVIDENCE", "HANDOFF"} => x.agent # h

LEMMA QuietSame ==
  ASSUME NEW ev, NEW ev2, NEW h, Quiet(ev, ev2, h)
  PROVE  /\ \A n : Read(ev2, h, n) = Read(ev, h, n)
         /\ Handoffs(ev2, h) = Handoffs(ev, h)
         /\ \A x \in ev2 : x.type = "EVIDENCE" /\ x.agent = h => x \in ev
<1>1. \A x \in ev2 : x.type \in {"EVIDENCE", "HANDOFF"} /\ x.agent = h => x \in ev
  BY DEF Quiet
<1>2. ASSUME NEW n PROVE Read(ev2, h, n) = Read(ev, h, n)
  <2>1. {x \in ev2 : x.type = "EVIDENCE" /\ x.agent = h /\ x.attempt = n}
          = {x \in ev : x.type = "EVIDENCE" /\ x.agent = h /\ x.attempt = n}
    BY <1>1 DEF Quiet
  <2> QED
    BY <2>1 DEF Read
<1>3. Handoffs(ev2, h) = Handoffs(ev, h)
  BY <1>1 DEF Quiet, Handoffs
<1> QED
  BY <1>1, <1>2, <1>3

(* A loop that goes on, or that nothing happens to. *)
LEMMA LoopGoesOn ==
  ASSUME NEW m, NEW ev, NEW ev2, NEW h, NEW r, NEW r2,
         Quiet(ev, ev2, h), LoopOK(m, ev, h, r),
         r2.attempt = r.attempt, r2.reads = r.reads,
         \/ r2 = r
         \/ r.phase \in Working /\ r2.phase \in Working
  PROVE  LoopOK(m, ev2, h, r2)
<1>1. CASE r2 = r
  BY <1>1, QuietSame DEF LoopOK
<1>2. CASE r.phase \in Working /\ r2.phase \in Working
  BY <1>2, QuietSame DEF LoopOK, Working
<1> QED
  BY <1>1, <1>2

(* Its first or its second attempt starts: nothing was read in it. *)
LEMMA LoopStarts ==
  ASSUME NEW m, NEW ev, NEW ev2, NEW h, NEW r, NEW r2,
         Quiet(ev, ev2, h), LoopOK(m, ev, h, r),
         r.phase \in Working \cup {"idle"},
         r2.phase = "turn", r2.reads = {}, r2.attempt \in 0..2, r2.attempt > r.attempt
  PROVE  LoopOK(m, ev2, h, r2)
<1>1. r.attempt \in 0..2 /\ Handoffs(ev, h) = {}
  BY DEF LoopOK, Working
<1>2. \A x \in ev2 : x.type = "EVIDENCE" /\ x.agent = h => x.attempt \in 0..r.attempt
  BY QuietSame DEF LoopOK
<1>3. Read(ev2, h, r2.attempt) = {}
  <2>1. {x \in ev2 : x.type = "EVIDENCE" /\ x.agent = h /\ x.attempt = r2.attempt} = {}
    BY <1>1, <1>2
  <2> QED
    BY <2>1 DEF Read
<1>4. \A x \in ev2 : x.type = "EVIDENCE" /\ x.agent = h => x.attempt \in 0..r2.attempt
  BY <1>1, <1>2
<1> QED
  BY <1>1, <1>3, <1>4, QuietSame DEF LoopOK, Working

(* It ends without an answer. *)
LEMMA LoopGivesUp ==
  ASSUME NEW m, NEW ev, NEW ev2, NEW h, NEW r, NEW r2,
         Quiet(ev, ev2, h), LoopOK(m, ev, h, r), r.phase \in Working,
         r2.phase \in {"failed", "cancelled"}, r2.attempt = r.attempt
  PROVE  LoopOK(m, ev2, h, r2)
BY QuietSame DEF LoopOK, Working

(* It reads: an event for each record that was accepted. *)
LEMMA LoopReads ==
  ASSUME NEW m, NEW ev, NEW ev2, NEW h, NEW r, NEW r2, NEW ids,
         LoopOK(m, ev, h, r), r.phase \in Working, r2.phase = "turn",
         r2.attempt = r.attempt, r2.reads = r.reads \cup ids,
         \A x : x \in ev2 <=>
            x \in ev \/ \E id \in ids : x = Event("EVIDENCE", h, r.attempt, "ADMITTED", {id})
  PROVE  LoopOK(m, ev2, h, r2)
<1> DEFINE new == {Event("EVIDENCE", h, r.attempt, "ADMITTED", {id}) : id \in ids}
<1>0. ev2 = ev \cup new
  OBVIOUS
<1>1. \A x \in new : x.type = "EVIDENCE" /\ x.agent = h /\ x.attempt = r.attempt
  BY DEF Event
<1>2. r.attempt \in 0..2 /\ r.attempt \in 0..r.attempt
  BY DEF LoopOK
<1>3. \A x \in ev2 : x.type = "EVIDENCE" /\ x.agent = h => x.attempt \in 0..r.attempt
  BY <1>0, <1>1, <1>2 DEF LoopOK
<1>4. Handoffs(ev2, h) = Handoffs(ev, h)
  <2> HIDE DEF new
  <2>1. ev \subseteq ev2 /\ \A x \in ev2 : x.type = "HANDOFF" => x \in ev
    BY <1>0, <1>1
  <2> QED
    BY <2>1 DEF Handoffs
<1>5. Read(ev2, h, r.attempt) = Read(ev, h, r.attempt) \cup ids
  <2>1. \A id : (\E e \in new : id \in e.ids) <=> id \in ids
    <3>1. ASSUME NEW id \in ids PROVE \E e \in new : id \in e.ids
      <4>1. Event("EVIDENCE", h, r.attempt, "ADMITTED", {id}) \in new
        OBVIOUS
      <4>2. id \in Event("EVIDENCE", h, r.attempt, "ADMITTED", {id}).ids
        BY DEF Event
      <4> QED
        BY <4>1, <4>2
    <3>2. ASSUME NEW e \in new, NEW id \in e.ids PROVE id \in ids
      <4>1. PICK i \in ids : e = Event("EVIDENCE", h, r.attempt, "ADMITTED", {i})
        OBVIOUS
      <4>2. e.ids = {i}
        BY <4>1 DEF Event
      <4> QED
        BY <4>2
    <3> QED
      BY <3>1, <3>2
  <2>2. \A id : id \in Read(ev2, h, r.attempt) <=>
                  \E e \in ev2 : /\ e.type = "EVIDENCE" /\ e.agent = h /\ e.attempt = r.attempt
                                 /\ id \in e.ids
    BY DEF Read
  <2>3. \A id : id \in Read(ev, h, r.attempt) <=>
                  \E e \in ev : /\ e.type = "EVIDENCE" /\ e.agent = h /\ e.attempt = r.attempt
                                /\ id \in e.ids
    BY DEF Read
  <2> HIDE DEF new
  <2>4. \A id : id \in Read(ev2, h, r.attempt) <=> id \in Read(ev, h, r.attempt) \/ id \in ids
    BY <1>0, <1>1, <2>1, <2>2, <2>3
  <2> QED
    BY <2>4
<1> QED
  BY <1>2, <1>3, <1>4, <1>5 DEF LoopOK, Working

(* It answers, and outside a chat hands off what it read. *)
LEMMA LoopAnswers ==
  ASSUME NEW m, NEW ev, NEW h, NEW r, NEW r2, NEW done, NEW more,
         LoopOK(m, ev, h, r), r.phase \in Working, m.chat \in BOOLEAN,
         r2.phase = "done", r2.attempt = r.attempt, r2.reads = r.reads,
         done.type = "COMPLETED",
         more = IF m.chat THEN {} ELSE {Event("HANDOFF", h, r.attempt, "HANDED_OFF", r.reads)},
         ~m.chat => InvestigatorValid(r2.result, r2.reads, m.admitted)
  PROVE  LoopOK(m, (ev \cup {done}) \cup more, h, r2)
<1> DEFINE ev2 == (ev \cup {done}) \cup more
<1>1. \A x \in ev2 : x.type = "EVIDENCE" => x \in ev
  BY DEF Event
<1>2. Read(ev2, h, r.attempt) = Read(ev, h, r.attempt)
  <2>1. {x \in ev2 : x.type = "EVIDENCE" /\ x.agent = h /\ x.attempt = r.attempt}
          = {x \in ev : x.type = "EVIDENCE" /\ x.agent = h /\ x.attempt = r.attempt}
    BY <1>1
  <2> QED
    BY <2>1 DEF Read
<1>3. Handoffs(ev, h) = {}
  BY DEF LoopOK, Working
<1>4. Handoffs(ev2, h) = more
  BY <1>3 DEF Handoffs, Event
<1> HIDE DEF ev2
<1>5. LoopOK(m, ev2, h, r2)
  BY <1>1, <1>2, <1>4 DEF LoopOK, Working
<1> QED
  BY <1>5 DEF ev2

-----------------------------------------------------------------------------
(* Steps of the harness. *)

Grows(ev, ev2, a) == ev \subseteq ev2 /\ \A x \in ev2 \ ev : x.agent = a

(* The step of one agent that has not settled yet. *)
Moves(a) ==
  /\ UNCHANGED mode
  /\ agent[a].phase \in Working \cup {"idle"}
  /\ agent' = [agent EXCEPT ![a] = agent'[a]] /\ Row(agent'[a]) /\ agent'[a].phase # "idle"
  /\ Grows(events, events', a)
  /\ agent[a].phase = "idle" =>
       /\ a = Synthesis => Gathered(mode, agent)
       /\ a = Evaluator => agent[Synthesis].phase # "idle"

LEMMA Others ==
  ASSUME ShapeInv, NEW a \in Agents, Moves(a)
  PROVE  /\ agent' = [b \in Agents |-> agent'[b]] /\ \A b \in Agents : Row(agent'[b])
         /\ \A b \in Agents : b # a => agent'[b] = agent[b]
         /\ Gathered(mode, agent) => Gathered(mode', agent')
<1>1. \A b \in Agents : b # a => agent'[b] = agent[b]
  BY DEF Moves, ShapeInv
<1>2. agent' = [b \in Agents |-> agent'[b]]
  BY DEF Moves, ShapeInv
<1>3. \A b \in Agents : Row(agent'[b])
  BY <1>1 DEF Moves, ShapeInv
<1>4. ASSUME Gathered(mode, agent) PROVE Gathered(mode', agent')
  <2>1. \A h \in Hypotheses : h # a
    BY <1>4 DEF Gathered, Moves, Working
  <2> QED
    BY <1>1, <1>4, <2>1 DEF Gathered, Moves, Agents
<1> QED
  BY <1>1, <1>2, <1>3, <1>4

LEMMA MovesKeep ==
  ASSUME ShapeInv, LoopInv, StageInv, NEW a \in Agents, Moves(a),
         a \in Hypotheses => LoopOK(mode, events', a, agent'[a])
  PROVE  LoopInv' /\ StageInv'
<1>1. ASSUME NEW h \in Hypotheses PROVE LoopOK(mode, events', h, agent'[h])
  <2>1. CASE h = a
    BY <2>1
  <2>2. CASE h # a
    <3>1. agent'[h] = agent[h] /\ LoopOK(mode, events, h, agent[h])
      BY <2>2, Others DEF Agents, LoopInv
    <3>2. Quiet(events, events', h)
      BY <2>2 DEF Moves, Grows, Quiet
    <3> QED
      BY <3>1, <3>2, LoopGoesOn
  <2> QED
    BY <2>1, <2>2
<1>2. LoopInv'
  BY <1>1 DEF LoopInv, Moves
<1>3. Synthesis \in Agents /\ Evaluator \in Agents /\ Synthesis # Evaluator
  BY DEF Agents, Synthesis, Evaluator
<1>4. \A b \in Agents : agent[b].phase # "idle" => agent'[b].phase # "idle"
  BY Others DEF Moves
<1>5. (\E x \in events' : x.type = "STARTED" /\ x.agent = Synthesis /\ x.attempt = 1)
        => agent'[Synthesis].phase # "idle"
  BY <1>3, <1>4 DEF StageInv, Moves, Grows
<1>6. agent'[Synthesis].phase # "idle" => Gathered(mode', agent')
  <2>1. CASE agent[Synthesis].phase # "idle"
    BY <2>1, Others DEF StageInv
  <2>2. CASE agent[Synthesis].phase = "idle" /\ a = Synthesis
    BY <2>2, Others DEF Moves
  <2>3. CASE agent[Synthesis].phase = "idle" /\ a # Synthesis
    BY <2>3, <1>3, Others
  <2> QED
    BY <2>1, <2>2, <2>3
<1>7. agent'[Evaluator].phase # "idle" => agent'[Synthesis].phase # "idle"
  <2>1. CASE agent[Evaluator].phase # "idle"
    BY <2>1, <1>3, <1>4 DEF StageInv
  <2>2. CASE agent[Evaluator].phase = "idle" /\ a = Evaluator
    BY <2>2, <1>3, <1>4 DEF Moves
  <2>3. CASE agent[Evaluator].phase = "idle" /\ a # Evaluator
    BY <2>3, <1>3, Others
  <2> QED
    BY <2>1, <2>2, <2>3
<1> QED
  BY <1>2, <1>5, <1>6, <1>7 DEF StageInv

(* Every step but the last concludes nothing. *)
LEMMA MoveSound ==
  ASSUME GroundInv, NEW a \in Agents, Moves(a), Running,
         a \in Hypotheses => LoopOK(mode, events', a, agent'[a]),
         run' = [status |-> run'.status, decision |-> run.decision]
  PROVE  GroundInv'
<1>1. LoopInv' /\ StageInv'
  BY MovesKeep DEF GroundInv
<1>2. run'.decision = None
  BY DEF GroundInv, RunInv, Running
<1>3. ShapeInv'
  <2>1. run' = [status |-> run'.status, decision |-> run'.decision]
    BY <1>2
  <2>2. mode' \in Configurations
    BY DEF GroundInv, ShapeInv, Moves
  <2> QED
    BY <2>1, <2>2, Others DEF GroundInv, ShapeInv
<1>4. RunInv'
  BY <1>2, NoDecisionAssumption DEF RunInv, Restart
<1> QED
  BY <1>1, <1>3, <1>4 DEF GroundInv

LEMMA FreshRow ==
  ASSUME NEW n
  PROVE  /\ Row(Fresh(n)) /\ Fresh(n).phase = "turn" /\ Fresh(n).reads = {}
         /\ Fresh(n).attempt = n
BY DEF Fresh, Row

(* One field of a loop at a time. *)
LEMMA PutPhase ==
  ASSUME NEW r, Row(r), NEW v, NEW n, n = [r EXCEPT !.phase = v]
  PROVE  /\ Row(n)
         /\ n.phase = v /\ n.attempt = r.attempt /\ n.reads = r.reads /\ n.result = r.result
<1>1. n = [phase |-> v, attempt |-> r.attempt, reads |-> r.reads, readCount |-> r.readCount, searches |-> r.searches,
           bad |-> r.bad, turns |-> r.turns, held |-> r.held, result |-> r.result]
  BY DEF Row
<1> QED
  BY <1>1 DEF Row

LEMMA PutAttempt ==
  ASSUME NEW r, Row(r), NEW v, NEW n, n = [r EXCEPT !.attempt = v]
  PROVE  /\ Row(n)
         /\ n.phase = r.phase /\ n.attempt = v /\ n.reads = r.reads /\ n.result = r.result
<1>1. n = [phase |-> r.phase, attempt |-> v, reads |-> r.reads, readCount |-> r.readCount, searches |-> r.searches,
           bad |-> r.bad, turns |-> r.turns, held |-> r.held, result |-> r.result]
  BY DEF Row
<1> QED
  BY <1>1 DEF Row

LEMMA PutReads ==
  ASSUME NEW r, Row(r), NEW v, NEW n, n = [r EXCEPT !.reads = v]
  PROVE  /\ Row(n)
         /\ n.phase = r.phase /\ n.attempt = r.attempt /\ n.reads = v /\ n.result = r.result
<1>1. n = [phase |-> r.phase, attempt |-> r.attempt, reads |-> v, readCount |-> r.readCount, searches |-> r.searches,
           bad |-> r.bad, turns |-> r.turns, held |-> r.held, result |-> r.result]
  BY DEF Row
<1> QED
  BY <1>1 DEF Row

LEMMA PutReadCount ==
  ASSUME NEW r, Row(r), NEW v, NEW n, n = [r EXCEPT !.readCount = v]
  PROVE  /\ Row(n)
         /\ n.phase = r.phase /\ n.attempt = r.attempt /\ n.reads = r.reads /\ n.result = r.result
<1>1. n = [phase |-> r.phase, attempt |-> r.attempt, reads |-> r.reads, readCount |-> v, searches |-> r.searches,
           bad |-> r.bad, turns |-> r.turns, held |-> r.held, result |-> r.result]
  BY DEF Row
<1> QED
  BY <1>1 DEF Row

LEMMA PutSearches ==
  ASSUME NEW r, Row(r), NEW v, NEW n, n = [r EXCEPT !.searches = v]
  PROVE  /\ Row(n)
         /\ n.phase = r.phase /\ n.attempt = r.attempt /\ n.reads = r.reads /\ n.result = r.result
<1>1. n = [phase |-> r.phase, attempt |-> r.attempt, reads |-> r.reads, readCount |-> r.readCount, searches |-> v,
           bad |-> r.bad, turns |-> r.turns, held |-> r.held, result |-> r.result]
  BY DEF Row
<1> QED
  BY <1>1 DEF Row

LEMMA PutBad ==
  ASSUME NEW r, Row(r), NEW v, NEW n, n = [r EXCEPT !.bad = v]
  PROVE  /\ Row(n)
         /\ n.phase = r.phase /\ n.attempt = r.attempt /\ n.reads = r.reads /\ n.result = r.result
<1>1. n = [phase |-> r.phase, attempt |-> r.attempt, reads |-> r.reads, readCount |-> r.readCount, searches |-> r.searches,
           bad |-> v, turns |-> r.turns, held |-> r.held, result |-> r.result]
  BY DEF Row
<1> QED
  BY <1>1 DEF Row

LEMMA PutTurns ==
  ASSUME NEW r, Row(r), NEW v, NEW n, n = [r EXCEPT !.turns = v]
  PROVE  /\ Row(n)
         /\ n.phase = r.phase /\ n.attempt = r.attempt /\ n.reads = r.reads /\ n.result = r.result
<1>1. n = [phase |-> r.phase, attempt |-> r.attempt, reads |-> r.reads, readCount |-> r.readCount, searches |-> r.searches,
           bad |-> r.bad, turns |-> v, held |-> r.held, result |-> r.result]
  BY DEF Row
<1> QED
  BY <1>1 DEF Row

LEMMA PutHeld ==
  ASSUME NEW r, Row(r), NEW v, NEW n, n = [r EXCEPT !.held = v]
  PROVE  /\ Row(n)
         /\ n.phase = r.phase /\ n.attempt = r.attempt /\ n.reads = r.reads /\ n.result = r.result
<1>1. n = [phase |-> r.phase, attempt |-> r.attempt, reads |-> r.reads, readCount |-> r.readCount, searches |-> r.searches,
           bad |-> r.bad, turns |-> r.turns, held |-> v, result |-> r.result]
  BY DEF Row
<1> QED
  BY <1>1 DEF Row

LEMMA PutResult ==
  ASSUME NEW r, Row(r), NEW v, NEW n, n = [r EXCEPT !.result = v]
  PROVE  /\ Row(n)
         /\ n.phase = r.phase /\ n.attempt = r.attempt /\ n.reads = r.reads /\ n.result = v
<1>1. n = [phase |-> r.phase, attempt |-> r.attempt, reads |-> r.reads, readCount |-> r.readCount, searches |-> r.searches,
           bad |-> r.bad, turns |-> r.turns, held |-> r.held, result |-> v]
  BY DEF Row
<1> QED
  BY <1>1 DEF Row

LEMMA IdleRow == Row(Idle) /\ Idle.phase = "idle" /\ Idle.attempt = 0 /\ Idle.reads = {}
BY FreshRow, PutPhase DEF Idle

LEMMA SettledRow ==
  ASSUME NEW a, NEW p, NEW reads, NEW result
  PROVE  /\ Row(Settled(a, p, reads, result))
         /\ Settled(a, p, reads, result).phase = p
         /\ Settled(a, p, reads, result).reads = reads
         /\ Settled(a, p, reads, result).result = result
         /\ Settled(a, p, reads, result).attempt = agent[a].attempt
<1> DEFINE r1 == [Idle EXCEPT !.phase = p]
           r2 == [r1 EXCEPT !.attempt = agent[a].attempt]
           r3 == [r2 EXCEPT !.reads = reads]
           r4 == [r3 EXCEPT !.result = result]
<1>1. Settled(a, p, reads, result) = r4
  BY DEF Settled
<1>2. Row(r1) /\ r1.phase = p
  BY IdleRow, PutPhase
<1> HIDE DEF r1
<1>3. Row(r2) /\ r2.phase = p /\ r2.attempt = agent[a].attempt
  <2> DEFINE n == agent[a].attempt
  <2>1. r2 = [r1 EXCEPT !.attempt = n]
    OBVIOUS
  <2> HIDE DEF n, r2
  <2>2. Row(r2) /\ r2.phase = p /\ r2.attempt = n
    BY <1>2, <2>1, PutAttempt
  <2> QED
    BY <2>2 DEF n
<1> HIDE DEF r2
<1>4. Row(r3) /\ r3.phase = p /\ r3.attempt = agent[a].attempt /\ r3.reads = reads
  BY <1>3, PutReads
<1> HIDE DEF r3
<1>5. /\ Row(r4) /\ r4.phase = p /\ r4.attempt = agent[a].attempt /\ r4.reads = reads
      /\ r4.result = result
  BY <1>4, PutResult
<1> QED
  BY <1>1, <1>5

(* AttemptFails, whatever decides whether there is another attempt. *)
FailedStep(a) ==
  /\ agent[a].phase \in Working /\ Running /\ UNCHANGED mode
  /\ \/ agent[a].attempt = 1 /\ agent' = [agent EXCEPT ![a] = Fresh(2)]
     \/ agent' = [agent EXCEPT ![a] = Settled(a, "failed", {}, None)]
  /\ events \subseteq events'
  /\ \A x \in events' \ events : x.agent = a /\ x.type \in {"STARTED", "COMPLETED"}
  /\ run' = run \/ run' = [run EXCEPT !.status = "error"]

LEMMA FailureSound ==
  ASSUME GroundInv, NEW a \in Agents, FailedStep(a)
  PROVE  GroundInv' /\ UNCHANGED mode
<1>1. Quiet(events, events', a) /\ Grows(events, events', a)
  BY DEF FailedStep, Quiet, Grows
<1>2. run' = [status |-> run'.status, decision |-> run.decision]
  BY DEF FailedStep, GroundInv, ShapeInv
<1>3. CASE agent[a].attempt = 1 /\ agent' = [agent EXCEPT ![a] = Fresh(2)]
  <2>1. agent'[a] = Fresh(2)
    BY <1>3 DEF GroundInv, ShapeInv
  <2>2. Moves(a)
    BY <1>1, <1>3, <2>1, FreshRow DEF Moves, FailedStep, Working
  <2>3. a \in Hypotheses => LoopOK(mode, events', a, agent'[a])
    BY <1>1, <1>3, <2>1, FreshRow, LoopStarts DEF GroundInv, LoopInv, FailedStep, Working
  <2> QED
    BY <1>2, <2>2, <2>3, MoveSound DEF FailedStep
<1>4. CASE agent' = [agent EXCEPT ![a] = Settled(a, "failed", {}, None)]
  <2>1. agent'[a] = Settled(a, "failed", {}, None)
    BY <1>4 DEF GroundInv, ShapeInv
  <2>4. Row(agent'[a]) /\ agent'[a].phase = "failed"
    BY <2>1, SettledRow
  <2>2. Moves(a)
    BY <1>1, <1>4, <2>1, <2>4 DEF Moves, FailedStep, Working
  <2>3. a \in Hypotheses => LoopOK(mode, events', a, agent'[a])
    BY <1>1, <2>1, SettledRow, LoopGivesUp DEF GroundInv, LoopInv, FailedStep
  <2> QED
    BY <1>2, <2>2, <2>3, MoveSound DEF FailedStep
<1> QED
  BY <1>3, <1>4 DEF FailedStep

-----------------------------------------------------------------------------
(* The actions of the harness. *)

LEMMA GroundParts ==
  ASSUME GroundInv, NEW a \in Agents
  PROVE  /\ Row(agent[a]) /\ agent = [b \in Agents |-> agent[b]]
         /\ a \in Hypotheses => LoopOK(mode, events, a, agent[a])
         /\ run = [status |-> run.status, decision |-> run.decision]
         /\ mode \in Configurations
BY DEF GroundInv, ShapeInv, LoopInv

(* A loop goes on and emits nothing. *)
LEMMA TurnSound ==
  ASSUME GroundInv, NEW a \in Agents, NEW n, agent' = [agent EXCEPT ![a] = n],
         Running, agent[a].phase \in Working, Row(n), n.phase \in Working,
         n.attempt = agent[a].attempt, n.reads = agent[a].reads,
         UNCHANGED <<mode, events, run>>
  PROVE  GroundInv'
<1>1. agent'[a] = n
  BY GroundParts
<1>2. Quiet(events, events', a)
  BY DEF Quiet
<1>3. Moves(a)
  BY <1>1 DEF Moves, Working, Grows
<1>4. a \in Hypotheses => LoopOK(mode, events', a, agent'[a])
  BY <1>1, <1>2, GroundParts, LoopGoesOn
<1>5. run' = [status |-> run'.status, decision |-> run.decision]
  BY GroundParts
<1> QED
  BY <1>3, <1>4, <1>5, MoveSound

LEMMA StartInvestigatorSound ==
  ASSUME GroundInv, NEW h \in Hypotheses, StartInvestigator(h)
  PROVE  GroundInv' /\ UNCHANGED mode
<1>1. h \in Agents /\ h # Synthesis /\ h # Evaluator
  BY DEF Agents, Hypotheses, Retryable, Short, Posted, Synthesis, Evaluator
<1>2. /\ agent' = [agent EXCEPT ![h] = Fresh(1)] /\ agent[h].phase = "idle"
      /\ events' = events \cup {Started(h, 1)} /\ UNCHANGED <<mode, run>> /\ Running
  BY DEF StartInvestigator
<1>3. agent'[h] = Fresh(1)
  BY <1>1, <1>2, GroundParts
<1>4. Started(h, 1).agent = h /\ Started(h, 1).type = "STARTED"
  BY DEF Started, Event
<1>5. Quiet(events, events', h) /\ Grows(events, events', h)
  BY <1>2, <1>4 DEF Quiet, Grows
<1>6. Moves(h)
  BY <1>1, <1>2, <1>3, <1>5, FreshRow DEF Moves
<1>7. LoopOK(mode, events', h, agent'[h])
  <2>1. LoopOK(mode, events, h, agent[h]) /\ agent[h].attempt = 0
    BY <1>1, <1>2, GroundParts DEF LoopOK
  <2> QED
    BY <1>2, <1>3, <1>5, <2>1, FreshRow, LoopStarts
<1>8. run' = [status |-> run'.status, decision |-> run.decision]
  BY <1>1, <1>2, GroundParts
<1> QED
  BY <1>1, <1>2, <1>6, <1>7, <1>8, MoveSound

(* Synthesis and evaluation start on the work of the stages before them. *)
LEMMA StartStageSound ==
  ASSUME GroundInv, NEW a \in {Synthesis, Evaluator}, Running, agent[a].phase = "idle",
         agent' = [agent EXCEPT ![a] = Fresh(1)],
         events' = events \cup {Started(a, 1)}, UNCHANGED <<mode, run>>,
         a = Synthesis => Gathered(mode, agent),
         a = Evaluator => agent[Synthesis].phase # "idle"
  PROVE  GroundInv'
<1>1. a \in Agents /\ a \notin Hypotheses
  BY DEF Agents, Hypotheses, Retryable, Short, Posted, Synthesis, Evaluator
<1>2. agent'[a] = Fresh(1)
  BY <1>1, GroundParts
<1>3. Grows(events, events', a)
  BY DEF Grows, Started, Event
<1>4. Moves(a)
  BY <1>2, <1>3, FreshRow DEF Moves
<1>5. run' = [status |-> run'.status, decision |-> run.decision]
  BY <1>1, GroundParts
<1> QED
  BY <1>1, <1>4, <1>5, MoveSound

LEMMA StartSynthesisSound ==
  ASSUME GroundInv, StartSynthesis
  PROVE  GroundInv' /\ UNCHANGED mode
<1>1. Gathered(mode, agent) /\ Synthesis # Evaluator
  BY DEF StartSynthesis, Gathered, Evaluator, Synthesis
<1> QED
  BY <1>1, StartStageSound DEF StartSynthesis

LEMMA StartEvaluatorSound ==
  ASSUME GroundInv, StartEvaluator
  PROVE  GroundInv' /\ UNCHANGED mode
<1>1. agent[Synthesis].phase # "idle" /\ Evaluator # Synthesis
  BY DEF StartEvaluator, Evaluator, Synthesis
<1> QED
  BY <1>1, StartStageSound DEF StartEvaluator

LEMMA OpenRequestSound ==
  ASSUME GroundInv, NEW a \in Agents, NEW length, OpenRequest(a, length)
  PROVE  GroundInv' /\ UNCHANGED mode
<1> DEFINE r == Reservation(ledger, mode.budget, length, mode.ceiling)
<1>1. Running /\ agent[a].phase = "turn" /\ UNCHANGED mode
  BY DEF OpenRequest
<1>2. \/ /\ agent' = [agent EXCEPT ![a].phase = "streaming", ![a].turns = @ + 1]
         /\ UNCHANGED <<events, run>>
      \/ /\ agent' = [agent EXCEPT ![a].phase = "streaming", ![a].turns = @ + 1, ![a].held = r]
         /\ UNCHANGED <<events, run>>
      \/ AttemptFails(a, FALSE, {})
  <2> HIDE DEF r
  <2> QED
    BY DEF OpenRequest, r
<1> HIDE DEF r
<1> DEFINE n1 == [agent[a] EXCEPT !.phase = "streaming"]
           n2 == [n1 EXCEPT !.turns = agent[a].turns + 1]
           n3 == [n2 EXCEPT !.held = r]
<1>3. Row(n1) /\ n1.phase = "streaming" /\ n1.attempt = agent[a].attempt /\ n1.reads = agent[a].reads
  BY GroundParts, PutPhase
<1>4. Row(n2) /\ n2.phase = "streaming" /\ n2.attempt = agent[a].attempt /\ n2.reads = agent[a].reads
  <2> DEFINE k == agent[a].turns + 1
  <2>1. n2 = [n1 EXCEPT !.turns = k]
    OBVIOUS
  <2> HIDE DEF n1, n2, k
  <2> QED
    BY <1>3, <2>1, PutTurns
<1>5. Row(n3) /\ n3.phase = "streaming" /\ n3.attempt = agent[a].attempt /\ n3.reads = agent[a].reads
  <2>1. n3 = [n2 EXCEPT !.held = r]
    OBVIOUS
  <2> HIDE DEF n2, n3
  <2> QED
    BY <1>4, <2>1, PutHeld
<1>6. CASE /\ agent' = [agent EXCEPT ![a].phase = "streaming", ![a].turns = @ + 1]
           /\ UNCHANGED <<events, run>>
  <2>1. agent' = [agent EXCEPT ![a] = n2]
    BY <1>6, GroundParts
  <2> HIDE DEF n2
  <2> QED
    BY <1>1, <1>4, <1>6, <2>1, TurnSound DEF Working
<1>7. CASE /\ agent' = [agent EXCEPT ![a].phase = "streaming", ![a].turns = @ + 1, ![a].held = r]
           /\ UNCHANGED <<events, run>>
  <2>1. agent' = [agent EXCEPT ![a] = n3]
    BY <1>7, GroundParts
  <2> HIDE DEF n3
  <2> QED
    BY <1>1, <1>5, <1>7, <2>1, TurnSound DEF Working
<1>8. CASE AttemptFails(a, FALSE, {})
  <2>1. FailedStep(a)
    BY <1>1, <1>8 DEF AttemptFails, FailedStep, Working, Completed, Event
  <2> QED
    BY <2>1, FailureSound
<1> QED
  BY <1>1, <1>2, <1>6, <1>7, <1>8

LEMMA NextRow ==
  ASSUME NEW more, Row(more), NEW n, n = [more EXCEPT !.phase = "turn", !.held = None]
  PROVE  Row(n) /\ n.phase = "turn" /\ n.attempt = more.attempt /\ n.reads = more.reads
<1> DEFINE n1 == [more EXCEPT !.phase = "turn"]
<1>1. Row(n1) /\ n1.phase = "turn" /\ n1.attempt = more.attempt /\ n1.reads = more.reads
  BY PutPhase
<1>2. n = [n1 EXCEPT !.held = None]
  OBVIOUS
<1> HIDE DEF n1
<1>3. \A k : k = [n1 EXCEPT !.held = None] =>
              Row(k) /\ k.phase = n1.phase /\ k.attempt = n1.attempt /\ k.reads = n1.reads
  BY <1>1, PutHeld
<1> QED
  BY <1>1, <1>2, <1>3

LEMMA ReadTurnSound ==
  ASSUME GroundInv, NEW h \in Hypotheses, NEW ids, ReadTurn(h, ids)
  PROVE  GroundInv' /\ UNCHANGED mode
<1>1. h \in Agents
  BY DEF Agents
<1>2. Running /\ agent[h].phase = "streaming" /\ UNCHANGED <<mode, run>>
  BY DEF ReadTurn, StreamEnds
<1>3. PICK accepted \in SUBSET (ids \cap Allowed) :
        /\ NextTurn(h, [agent[h] EXCEPT !.reads = @ \cup accepted,
                                        !.readCount = @ + Cardinality(accepted),
                                        !.bad = @ \/ accepted # ids])
        /\ events' = events \cup {Returned(h, id) : id \in accepted}
  BY DEF ReadTurn
<1> DEFINE reads == agent[h].reads \cup accepted
           count == agent[h].readCount + Cardinality(accepted)
           bad == agent[h].bad \/ accepted # ids
           n1 == [agent[h] EXCEPT !.reads = reads]
           n2 == [n1 EXCEPT !.readCount = count]
           n3 == [n2 EXCEPT !.bad = bad]
           n4 == [n3 EXCEPT !.phase = "turn", !.held = None]
<1>4. Row(n1) /\ n1.attempt = agent[h].attempt /\ n1.reads = reads
  <2> HIDE DEF reads
  <2> QED
    BY <1>1, GroundParts, PutReads
<1>5. Row(n2) /\ n2.attempt = agent[h].attempt /\ n2.reads = reads
  <2> HIDE DEF reads, count, n1
  <2> QED
    BY <1>4, PutReadCount
<1>6. Row(n3) /\ n3.attempt = agent[h].attempt /\ n3.reads = reads
  <2> HIDE DEF reads, bad, n2
  <2> QED
    BY <1>5, PutBad
<1>7. Row(n4) /\ n4.phase = "turn" /\ n4.attempt = agent[h].attempt /\ n4.reads = reads
  <2> HIDE DEF reads, n3
  <2> QED
    BY <1>6, NextRow
<1>8. agent' = [agent EXCEPT ![h] = n4]
  <2>1. n3 = [agent[h] EXCEPT !.reads = @ \cup accepted,
                              !.readCount = @ + Cardinality(accepted),
                              !.bad = @ \/ accepted # ids]
    <3>1. n1.readCount = agent[h].readCount /\ n2.bad = agent[h].bad
      BY <1>1, GroundParts DEF Row
    <3> QED
      BY <3>1
  <2> HIDE DEF n3
  <2> QED
    BY <1>3, <2>1 DEF NextTurn
<1>9. agent'[h] = n4
  <2> HIDE DEF n4
  <2> QED
    BY <1>1, <1>8, GroundParts
<1> HIDE DEF n4
<1>10. Grows(events, events', h)
  BY <1>3 DEF Grows, Returned, Event
<1>11. Moves(h)
  BY <1>2, <1>7, <1>8, <1>9, <1>10 DEF Moves, Working
<1>12. LoopOK(mode, events', h, agent'[h])
  <2>1. \A x : x \in events' <=>
                x \in events \/ \E id \in accepted : x = Event("EVIDENCE", h, agent[h].attempt, "ADMITTED", {id})
    BY <1>3 DEF Returned
  <2>2. LoopOK(mode, events, h, agent[h]) /\ agent[h].phase \in Working
    BY <1>1, <1>2, GroundParts DEF Working
  <2>3. agent'[h].phase = "turn" /\ agent'[h].attempt = agent[h].attempt
        /\ agent'[h].reads = agent[h].reads \cup accepted
    BY <1>7, <1>9
  <2>4. PICK m, ev, ev2, r, r2 :
          m = mode /\ ev = events /\ ev2 = events' /\ r = agent[h] /\ r2 = agent'[h]
    OBVIOUS
  <2>5. \A x : x \in ev2 <=>
            x \in ev \/ \E id \in accepted : x = Event("EVIDENCE", h, r.attempt, "ADMITTED", {id})
    BY <2>1, <2>4
  <2>6. /\ LoopOK(m, ev, h, r) /\ r.phase \in Working /\ r2.phase = "turn"
        /\ r2.attempt = r.attempt /\ r2.reads = r.reads \cup accepted
    BY <2>2, <2>3, <2>4
  <2>7. LoopOK(m, ev2, h, r2)
    BY ONLY <2>5, <2>6, LoopReads
  <2> QED
    BY <2>4, <2>7
<1>13. run' = [status |-> run'.status, decision |-> run.decision]
  BY <1>1, <1>2, GroundParts
<1> QED
  BY <1>1, <1>2, <1>11, <1>12, <1>13, MoveSound

LEMMA SearchTurnSound ==
  ASSUME GroundInv, NEW h \in Hypotheses, NEW current \in BOOLEAN, SearchTurn(h, current)
  PROVE  GroundInv' /\ UNCHANGED mode
<1>1. h \in Agents
  BY DEF Agents
<1>2. Running /\ agent[h].phase = "streaming" /\ UNCHANGED <<mode, events, run>>
  BY DEF SearchTurn, StreamEnds
<1> DEFINE k == agent[h].searches + 1
           n1 == [agent[h] EXCEPT !.searches = k]
           n2 == [agent[h] EXCEPT !.bad = TRUE]
<1>3. Row(n1) /\ n1.attempt = agent[h].attempt /\ n1.reads = agent[h].reads
  <2> HIDE DEF k
  <2> QED
    BY <1>1, GroundParts, PutSearches
<1>4. Row(n2) /\ n2.attempt = agent[h].attempt /\ n2.reads = agent[h].reads
  BY <1>1, GroundParts, PutBad
<1>5. PICK more \in {n1, n2} : agent' = [agent EXCEPT ![h] = [more EXCEPT !.phase = "turn", !.held = None]]
  BY DEF SearchTurn, NextTurn
<1> DEFINE n == [more EXCEPT !.phase = "turn", !.held = None]
<1>6. Row(more) /\ more.attempt = agent[h].attempt /\ more.reads = agent[h].reads
  <2> HIDE DEF n1, n2
  <2> QED
    BY <1>3, <1>4
<1> HIDE DEF n1, n2
<1>7. Row(n) /\ n.phase = "turn" /\ n.attempt = agent[h].attempt /\ n.reads = agent[h].reads
  BY <1>6, NextRow
<1>8. agent' = [agent EXCEPT ![h] = n]
  BY <1>5
<1> HIDE DEF n
<1> QED
  BY <1>1, <1>2, <1>7, <1>8, TurnSound DEF Working

LEMMA AnswerInvestigatorSound ==
  ASSUME GroundInv, NEW h \in Hypotheses, NEW r, NEW corrections,
         AnswerInvestigator(h, r, corrections)
  PROVE  GroundInv' /\ UNCHANGED mode
<1>1. h \in Agents
  BY DEF Agents
<1>2. Running /\ agent[h].phase = "streaming" /\ UNCHANGED mode
  BY DEF AnswerInvestigator, StreamEnds
<1> DEFINE n == Settled(h, "done", agent[h].reads, r)
           more == IF mode.chat THEN {} ELSE {HandedOff(h, agent[h].reads)}
           answered == /\ InvestigatorPasses(h, r, corrections)
                       /\ agent' = [agent EXCEPT ![h] = n]
                       /\ events' = (events \cup {Completed(h, "COMPLETED")}) \cup more
                       /\ run' = IF mode.chat THEN [run EXCEPT !.status = "chat"] ELSE run
<1>3. answered \/ AttemptFails(h, ~mode.chat, {}) \/ AttemptFails(h, FALSE, {})
  BY DEF AnswerInvestigator
<1>4. CASE answered
  <2> HIDE DEF n
  <2>1. agent'[h] = n
    BY <1>1, <1>4, GroundParts
  <2>2. Row(n) /\ n.phase = "done" /\ n.attempt = agent[h].attempt /\ n.reads = agent[h].reads
        /\ n.result = r
    BY SettledRow DEF n
  <2>3. Grows(events, events', h)
    BY <1>4 DEF Grows, HandedOff, Completed, Event
  <2>4. Moves(h)
    BY <1>2, <1>4, <2>1, <2>2, <2>3 DEF Moves, Working
  <2>5. mode.chat \in BOOLEAN /\ LoopOK(mode, events, h, agent[h]) /\ agent[h].phase \in Working
    BY <1>1, <1>2, GroundParts DEF Configurations, Working
  <2>6. more = IF mode.chat THEN {}
               ELSE {Event("HANDOFF", h, agent[h].attempt, "HANDED_OFF", agent[h].reads)}
    BY DEF HandedOff
  <2>7. Completed(h, "COMPLETED").type = "COMPLETED"
    BY DEF Completed, Event
  <2>8. ~mode.chat => InvestigatorValid(n.result, n.reads, mode.admitted)
    BY <1>4, <2>2 DEF InvestigatorPasses
  <2>9. LoopOK(mode, events', h, agent'[h])
    <3> HIDE DEF more
    <3>1. LoopOK(mode, (events \cup {Completed(h, "COMPLETED")}) \cup more, h, n)
      BY <2>2, <2>5, <2>6, <2>7, <2>8, LoopAnswers
    <3> QED
      BY <1>4, <2>1, <3>1
  <2>10. run' = [status |-> run'.status, decision |-> run.decision]
    BY <1>1, <1>4, GroundParts
  <2> QED
    BY <1>1, <1>2, <2>4, <2>9, <2>10, MoveSound
<1>5. CASE AttemptFails(h, ~mode.chat, {}) \/ AttemptFails(h, FALSE, {})
  <2>1. FailedStep(h)
    BY <1>2, <1>5 DEF AttemptFails, FailedStep, Working, Completed, Started, Event
  <2> QED
    BY <1>1, <2>1, FailureSound
<1> QED
  BY <1>2, <1>3, <1>4, <1>5

(* A later stage settles with its answer; run is checked by the caller. *)
LEMMA StageSettles ==
  ASSUME GroundInv, NEW a \in {Synthesis, Evaluator}, NEW answer, UNCHANGED mode,
         agent[a].phase \in Working,
         agent' = [agent EXCEPT ![a] = Settled(a, "done", {}, answer)],
         events' = events \cup {Completed(a, "COMPLETED")}
  PROVE  /\ Moves(a) /\ a \in Agents /\ a \notin Hypotheses
         /\ LoopInv' /\ StageInv'
<1>1. a \in Agents /\ a \notin Hypotheses
  BY DEF Agents, Hypotheses, Retryable, Short, Posted, Synthesis, Evaluator
<1>2. agent'[a] = Settled(a, "done", {}, answer)
  BY <1>1, GroundParts
<1>3. Row(agent'[a]) /\ agent'[a].phase = "done"
  BY <1>2, SettledRow
<1>4. Grows(events, events', a)
  BY DEF Grows, Completed, Event
<1>5. Moves(a)
  BY <1>2, <1>3, <1>4 DEF Moves, Working
<1> QED
  BY <1>1, <1>5, MovesKeep DEF GroundInv

LEMMA AnswerSynthesisSound ==
  ASSUME GroundInv, NEW s, NEW corrections, AnswerSynthesis(s, corrections)
  PROVE  GroundInv' /\ UNCHANGED mode
<1>1. Running /\ agent[Synthesis].phase = "streaming" /\ UNCHANGED mode /\ Synthesis \in Agents
  BY DEF AnswerSynthesis, StreamEnds, Agents
<1> DEFINE answered == /\ agent' = [agent EXCEPT ![Synthesis] = Settled(Synthesis, "done", {}, s)]
                       /\ events' = events \cup {Completed(Synthesis, "COMPLETED")}
                       /\ UNCHANGED run
<1>2. \/ answered
      \/ AttemptFails(Synthesis, TRUE, {Completed(Synthesis, "COMPLETED")})
      \/ AttemptFails(Synthesis, FALSE, {Completed(Synthesis, "COMPLETED")})
  BY DEF AnswerSynthesis
<1>3. CASE answered
  <2>1. Moves(Synthesis) /\ Synthesis \notin Hypotheses
    BY <1>1, <1>3, StageSettles DEF Working
  <2>2. run' = [status |-> run'.status, decision |-> run.decision]
    BY <1>1, <1>3, GroundParts
  <2> QED
    BY <1>1, <2>1, <2>2, MoveSound
<1>4. CASE \/ AttemptFails(Synthesis, TRUE, {Completed(Synthesis, "COMPLETED")})
           \/ AttemptFails(Synthesis, FALSE, {Completed(Synthesis, "COMPLETED")})
  <2>1. FailedStep(Synthesis)
    BY <1>1, <1>4 DEF AttemptFails, FailedStep, Working, Completed, Started, Event
  <2> QED
    BY <1>1, <2>1, FailureSound
<1> QED
  BY <1>1, <1>2, <1>3, <1>4

(* What the records say when the policy recommends a restart. *)
LEMMA PolicyWarrants ==
  ASSUME NEW m \in Configurations, NEW s, NEW e, NEW r, NEW c, NEW coverage, NEW action,
         InvestigatorValid(r.result, r.reads, m.admitted),
         action = Recommends(s, r.result, e, c, coverage,
                             Ledger(r.result, r.reads, s, c, coverage, m.admitted),
                             m.facts, m.admitted),
         Compatible(Restart, s, DomainEvaluation(s, e, action, m.admitted), action, m.admitted)
  PROVE  Warranted(m, r)
<1>1. Sources \subseteq Supporting(s) /\ action
  BY DEF Compatible, Restart
<1>2. /\ r.result.conclusion = "SUPPORTED" /\ Contradicting(r.result) = {}
      /\ Supporting(s) = Supporting(r.result)
      /\ RetryableInvariants(m.facts, m.admitted)
  BY <1>1 DEF Recommends, ConclusionsSupport
<1>3. m.admitted = Sources /\ m.facts.queue = "FAILED_RETRYABLE" /\ ~m.facts.documents
  BY <1>2 DEF RetryableInvariants
<1>4. m.facts.warehouse = m.facts.erp + m.facts.message
  <2>1. m.facts.warehouse \in Int /\ m.facts.erp \in Int /\ m.facts.message \in Int
    BY DEF Configurations, Contents
  <2>2. m.facts.warehouse - m.facts.erp = m.facts.message
    BY <1>2 DEF RetryableInvariants
  <2> QED
    BY <2>1, <2>2
<1>5. Supporting(r.result) \subseteq Referenced(r.result)
  BY DEF Supporting, Cited, Referenced
<1>6. Referenced(r.result) \subseteq m.admitted /\ r.reads \subseteq m.admitted
      /\ m.admitted \subseteq r.reads
  BY <1>2 DEF InvestigatorValid
<1>7. Supporting(r.result) = Sources /\ r.reads = Sources
  BY <1>1, <1>2, <1>3, <1>5, <1>6
<1> QED
  BY <1>2, <1>3, <1>4, <1>7 DEF Warranted

LEMMA ConcludeSound ==
  ASSUME GroundInv, Running, agent[Evaluator].phase # "idle", NEW e,
         NEW s, s = agent[Synthesis].result,
         Conclude(s, e).decision = Restart
  PROVE  Gathered(mode, agent) /\ Warranted(mode, agent[Retryable])
<1>1. Gathered(mode, agent)
  BY DEF GroundInv, StageInv
<1>2. run.decision # Restart
  BY NoDecisionAssumption DEF GroundInv, RunInv, Running, Restart
<1> DEFINE r == agent[s.selected]
           c == Closure(s, e, mode.admitted)
           coverage == Coverage(c, mode.admitted)
           l == Ledger(r.result, r.reads, s, c, coverage, mode.admitted)
           action == Recommends(s, r.result, e, c, coverage, l, mode.facts, mode.admitted)
           decision == Assess(s, e, c, action, mode.admitted)
<1>3. Conclude(s, e) \in {[run EXCEPT !.status = "error"], [run EXCEPT !.status = "partial"],
                          [status |-> "assessed", decision |-> decision]}
  <2> HIDE DEF c, coverage, l, action, decision
  <2>1. Conclude(s, e) =
          IF c = None \/ coverage = None THEN [run EXCEPT !.status = "error"]
          ELSE IF e.decision = "ACCEPT" /\ ~ (c.allClaims /\ c.allAdmitted)
          THEN [run EXCEPT !.status = "partial"]
          ELSE IF l = None \/ decision = None THEN [run EXCEPT !.status = "error"]
          ELSE [status |-> "assessed", decision |-> decision]
    BY DEF Conclude, c, coverage, l, action, decision
  <2> QED
    BY <2>1
<1>4. /\ [run EXCEPT !.status = "error"].decision = run.decision
      /\ [run EXCEPT !.status = "partial"].decision = run.decision
  BY DEF GroundInv, ShapeInv
<1>5. decision = Restart
  <2> DEFINE k == Conclude(s, e)
             failed == [run EXCEPT !.status = "error"]
             partial == [run EXCEPT !.status = "partial"]
             assessed == [status |-> "assessed", decision |-> decision]
  <2> HIDE DEF decision
  <2>1. assessed.decision = decision
    OBVIOUS
  <2>2. k.decision = Restart /\ k \in {failed, partial, assessed}
    BY <1>3
  <2>3. failed.decision # Restart /\ partial.decision # Restart
    BY <1>2, <1>4
  <2> HIDE DEF k, failed, partial, assessed
  <2> QED
    BY <2>1, <2>2, <2>3
<1>6. Compatible(Restart, s, DomainEvaluation(s, e, action, mode.admitted), action, mode.admitted)
  <2> HIDE DEF c, action
  <2>1. Assess(s, e, c, action, mode.admitted) = Restart
    BY <1>5
  <2>2. Assess(s, e, c, action, mode.admitted) # None
    BY <2>1, NoDecisionAssumption DEF Restart
  <2> QED
    BY <2>1, <2>2 DEF Assess
<1>7. s.selected = Retryable
  BY <1>6 DEF Compatible, Restart
<1>8. InvestigatorValid(r.result, r.reads, mode.admitted)
  BY <1>1, <1>7 DEF Gathered, GroundInv, LoopInv, LoopOK, Hypotheses
<1>9. Warranted(mode, r)
  <2>1. mode \in Configurations
    BY DEF GroundInv, ShapeInv
  <2> HIDE DEF r, c, coverage
  <2>2. PICK m, k : m = mode /\ k = action
    OBVIOUS
  <2> HIDE DEF action
  <2>3. /\ m \in Configurations /\ InvestigatorValid(r.result, r.reads, m.admitted)
        /\ Compatible(Restart, s, DomainEvaluation(s, e, k, m.admitted), k, m.admitted)
    BY <1>6, <1>8, <2>1, <2>2
  <2>4. k = Recommends(s, r.result, e, c, coverage,
                       Ledger(r.result, r.reads, s, c, coverage, m.admitted),
                       m.facts, m.admitted)
    BY <2>2 DEF action
  <2>5. Warranted(m, r)
    BY <2>3, <2>4, PolicyWarrants
  <2> QED
    BY <2>2, <2>5
<1> QED
  BY <1>1, <1>7, <1>9

LEMMA ConcludeShape ==
  ASSUME NEW s, NEW e, run = [status |-> run.status, decision |-> run.decision],
         run.decision = None
  PROVE  /\ Conclude(s, e) = [status |-> Conclude(s, e).status, decision |-> Conclude(s, e).decision]
         /\ Conclude(s, e).status = "running" => Conclude(s, e).decision = None
<1> DEFINE results == {[run EXCEPT !.status = "error"], [run EXCEPT !.status = "partial"]}
<1>1. \E d : Conclude(s, e) \in results \cup {[status |-> "assessed", decision |-> d]}
  BY DEF Conclude
<1>2. \A x \in results : x.decision = None /\ x = [status |-> x.status, decision |-> x.decision]
  OBVIOUS
<1> HIDE DEF results
<1> QED
  BY <1>1, <1>2

LEMMA AnswerEvaluatorSound ==
  ASSUME GroundInv, NEW e, NEW corrections, AnswerEvaluator(e, corrections)
  PROVE  GroundInv' /\ UNCHANGED mode
<1>1. Running /\ agent[Evaluator].phase = "streaming" /\ UNCHANGED mode /\ Evaluator \in Agents
  BY DEF AnswerEvaluator, StreamEnds, Agents
<1> DEFINE s == agent[Synthesis].result
           answered == /\ agent' = [agent EXCEPT ![Evaluator] = Settled(Evaluator, "done", {}, e)]
                       /\ events' = events \cup {Completed(Evaluator, "COMPLETED")}
                       /\ run' = Conclude(s, e)
<1>2. \/ answered
      \/ AttemptFails(Evaluator, TRUE, {Completed(Evaluator, "COMPLETED")})
      \/ AttemptFails(Evaluator, FALSE, {Completed(Evaluator, "COMPLETED")})
  BY DEF AnswerEvaluator
<1>3. CASE answered
  <2>1. /\ Moves(Evaluator) /\ LoopInv' /\ StageInv'
    BY <1>1, <1>3, StageSettles DEF Working
  <2>2. run.decision = None
    BY <1>1 DEF GroundInv, RunInv, Running
  <2>3. /\ run' = [status |-> run'.status, decision |-> run'.decision]
        /\ run'.status = "running" => run'.decision = None
    <3> HIDE DEF s
    <3>1. run = [status |-> run.status, decision |-> run.decision]
      BY DEF GroundInv, ShapeInv
    <3> QED
      BY <1>3, <2>2, <3>1, ConcludeShape
  <2>4. ShapeInv'
    BY <1>1, <2>1, <2>3, Others DEF GroundInv, ShapeInv
  <2>5. run'.decision = Restart => Gathered(mode', agent') /\ Warranted(mode', agent'[Retryable])
    <3> SUFFICES ASSUME run'.decision = Restart
                 PROVE  Gathered(mode', agent') /\ Warranted(mode', agent'[Retryable])
      OBVIOUS
    <3>1. Gathered(mode, agent) /\ Warranted(mode, agent[Retryable])
      BY <1>1, <1>3, ConcludeSound
    <3>2. Retryable \in Agents /\ Retryable # Evaluator
      BY DEF Agents, Hypotheses, Retryable, Evaluator
    <3>3. agent'[Retryable] = agent[Retryable] /\ Gathered(mode', agent')
      BY <1>1, <2>1, <3>1, <3>2, Others DEF GroundInv
    <3> QED
      BY <1>1, <3>1, <3>3
  <2> QED
    BY <1>1, <2>1, <2>3, <2>4, <2>5 DEF GroundInv, RunInv
<1>4. CASE \/ AttemptFails(Evaluator, TRUE, {Completed(Evaluator, "COMPLETED")})
           \/ AttemptFails(Evaluator, FALSE, {Completed(Evaluator, "COMPLETED")})
  <2>1. FailedStep(Evaluator)
    BY <1>1, <1>4 DEF AttemptFails, FailedStep, Working, Completed, Started, Event
  <2> QED
    BY <1>1, <2>1, FailureSound
<1> QED
  BY <1>1, <1>2, <1>3, <1>4

-----------------------------------------------------------------------------
(* Failures and cancellation. *)

LEMMA FailsAre ==
  ASSUME NEW a, NEW k \in BOOLEAN, AttemptFails(a, k, {}),
         agent[a].phase \in Working, Running, UNCHANGED mode
  PROVE  FailedStep(a)
<1>0. agent[a].phase \in Working /\ Running /\ UNCHANGED mode
  OBVIOUS
<1>1. AttemptFails(a, TRUE, {}) \/ AttemptFails(a, FALSE, {})
  OBVIOUS
<1>2. CASE AttemptFails(a, TRUE, {})
  <2>1. CASE mode.retries /\ agent[a].attempt = 1
    <3>1. /\ agent' = [agent EXCEPT ![a] = Fresh(2)] /\ run' = run
          /\ events \subseteq events'
          /\ events' \ events \subseteq {Started(a, 2), Completed(a, "FAILED")}
      BY ONLY <1>2, <2>1 DEF AttemptFails
    <3> QED
      BY ONLY <1>0, <2>1, <3>1 DEF FailedStep, Completed, Started, Event
  <2>2. CASE ~(mode.retries /\ agent[a].attempt = 1)
    <3>1. AttemptFails(a, FALSE, {})
      BY ONLY <1>2, <2>2 DEF AttemptFails
    <3> QED
      BY ONLY <1>0, <3>1 DEF AttemptFails, FailedStep, Completed, Started, Event
  <2> QED
    BY <2>1, <2>2
<1>3. CASE AttemptFails(a, FALSE, {})
  BY ONLY <1>0, <1>3 DEF AttemptFails, FailedStep, Completed, Started, Event
<1> QED
  BY <1>1, <1>2, <1>3

LEMMA FaultsSound ==
  ASSUME GroundInv, NEW a \in Agents,
         TimeOut(a) \/ ProviderFails(a) \/ MalformedUsage(a) \/ UsageOverrun(a) \/ NoAnswer(a)
  PROVE  GroundInv' /\ UNCHANGED mode
<1>1. Running /\ agent[a].phase \in Working /\ UNCHANGED mode
  BY DEF TimeOut, ProviderFails, MalformedUsage, UsageOverrun, NoAnswer, Fault, Working
<1>2. CASE TimeOut(a)
  <2> DEFINE k == ~mode.chat /\ ledger'.errors = ledger.errors
  <2>1. AttemptFails(a, k, {})
    BY <1>2 DEF TimeOut
  <2>0. k \in BOOLEAN
    OBVIOUS
  <2> HIDE DEF k
  <2>2. FailedStep(a)
    BY <1>1, <2>0, <2>1, FailsAre
  <2> QED
    BY <1>1, <2>2, FailureSound
<1>3. CASE ProviderFails(a) \/ MalformedUsage(a) \/ UsageOverrun(a) \/ NoAnswer(a)
  <2>1. AttemptFails(a, FALSE, {}) \/ AttemptFails(a, ~mode.chat, {})
    BY <1>3 DEF ProviderFails, MalformedUsage, UsageOverrun, NoAnswer
  <2>2. FailedStep(a)
    BY <1>1, <2>1 DEF AttemptFails, FailedStep, Completed, Started, Event
  <2> QED
    BY <1>1, <2>2, FailureSound
<1> QED
  BY <1>2, <1>3

LEMMA CancelSound ==
  ASSUME GroundInv, Running, CancelRun, UNCHANGED <<mode, events>>
  PROVE  GroundInv'
<1>1. /\ run' = [run EXCEPT !.status = "error"]
      /\ agent' = [a \in Agents |-> IF agent[a].phase \in Working
                                    THEN Settled(a, "cancelled", {}, None) ELSE agent[a]]
  BY DEF CancelRun, Working
<1>2. \A a \in Agents : IF agent[a].phase \in Working
                        THEN agent'[a] = Settled(a, "cancelled", {}, None)
                        ELSE agent'[a] = agent[a]
  BY <1>1
<1>3. ASSUME NEW a \in Agents
      PROVE  /\ Row(agent'[a]) /\ agent'[a].attempt = agent[a].attempt
             /\ \/ agent'[a] = agent[a]
                \/ agent[a].phase \in Working /\ agent'[a].phase = "cancelled"
  BY <1>2, SettledRow, GroundParts
<1>4. ShapeInv'
  <2>1. run' = [status |-> run'.status, decision |-> run'.decision]
    BY <1>1 DEF GroundInv, ShapeInv
  <2>2. agent' = [a \in Agents |-> agent'[a]]
    BY <1>1
  <2> QED
    BY <1>3, <2>1, <2>2 DEF GroundInv, ShapeInv
<1>5. ASSUME NEW h \in Hypotheses PROVE LoopOK(mode, events', h, agent'[h])
  <2>1. Quiet(events, events', h) /\ h \in Agents
    BY DEF Quiet, Agents
  <2>2. LoopOK(mode, events, h, agent[h])
    BY DEF GroundInv, LoopInv
  <2>3. CASE agent'[h] = agent[h]
    BY <2>2, <2>3
  <2>4. CASE agent[h].phase \in Working /\ agent'[h].phase = "cancelled"
    BY <1>3, <2>1, <2>2, <2>4, LoopGivesUp
  <2> QED
    BY <1>3, <2>1, <2>3, <2>4
<1>6. StageInv'
  <2>1. Gathered(mode, agent) => Gathered(mode', agent')
    BY <1>3 DEF Gathered, Working, Agents
  <2>2. \A a \in Agents : agent'[a].phase = "idle" <=> agent[a].phase = "idle"
    BY <1>3 DEF Working
  <2>3. Synthesis \in Agents /\ Evaluator \in Agents
    BY DEF Agents
  <2> QED
    BY <2>1, <2>2, <2>3 DEF GroundInv, StageInv
<1>7. RunInv'
  <2>1. run'.status = "error" /\ run'.decision = None
    BY <1>1 DEF GroundInv, ShapeInv, RunInv, Running
  <2> QED
    BY <2>1, NoDecisionAssumption DEF RunInv, Restart
<1> QED
  BY <1>4, <1>5, <1>6, <1>7 DEF GroundInv, LoopInv

LEMMA NextSound ==
  ASSUME GroundInv, Next
  PROVE  GroundInv' /\ UNCHANGED mode
<1>1. ASSUME NEW h \in Hypotheses, StartInvestigator(h) PROVE GroundInv' /\ UNCHANGED mode
  BY <1>1, StartInvestigatorSound
<1>2. ASSUME NEW a \in Agents, NEW length \in mode.lengths, OpenRequest(a, length)
      PROVE  GroundInv' /\ UNCHANGED mode
  BY <1>2, OpenRequestSound
<1>3. ASSUME NEW h \in Hypotheses, NEW ids \in ReadCalls(h), ReadTurn(h, ids)
      PROVE  GroundInv' /\ UNCHANGED mode
  BY <1>3, ReadTurnSound
<1>4. ASSUME NEW h \in Hypotheses, NEW current \in BOOLEAN, SearchTurn(h, current)
      PROVE  GroundInv' /\ UNCHANGED mode
  BY <1>4, SearchTurnSound
<1>5. ASSUME NEW h \in Hypotheses, NEW n \in mode.corrections, NEW r \in InvestigatorAnswers(h),
             AnswerInvestigator(h, r, n)
      PROVE  GroundInv' /\ UNCHANGED mode
  BY <1>5, AnswerInvestigatorSound
<1>6. ASSUME NEW s \in SynthesisAnswers, NEW n \in mode.corrections, AnswerSynthesis(s, n)
      PROVE  GroundInv' /\ UNCHANGED mode
  BY <1>6, AnswerSynthesisSound
<1>7. ASSUME NEW e \in EvaluatorAnswers(agent[Synthesis].result), NEW n \in mode.corrections,
             AnswerEvaluator(e, n)
      PROVE  GroundInv' /\ UNCHANGED mode
  BY <1>7, AnswerEvaluatorSound
<1>8. ASSUME NEW a \in Agents,
             \/ TimeOut(a) \/ ProviderFails(a) \/ MalformedUsage(a)
             \/ UsageOverrun(a) \/ NoAnswer(a)
      PROVE  GroundInv' /\ UNCHANGED mode
  BY <1>8, FaultsSound
<1>9. CASE RunRaises
  BY <1>9, CancelSound DEF RunRaises
<1>10. CASE WholeRunTimeout
  BY <1>10, CancelSound DEF WholeRunTimeout
<1>11. CASE Finished
  BY <1>11 DEF Finished, vars, GroundInv, ShapeInv, LoopInv, StageInv, RunInv
<1>12. CASE StartSynthesis
  BY <1>12, StartSynthesisSound
<1>13. CASE StartEvaluator
  BY <1>13, StartEvaluatorSound
<1> QED
  BY <1>1, <1>2, <1>3, <1>4, <1>5, <1>6, <1>7, <1>8, <1>9, <1>10, <1>11, <1>12, <1>13 DEF Next

(* A harness that was just built. *)
LEMMA FreshSound ==
  ASSUME mode' \in Configurations, agent' = [a \in Agents |-> Idle], events' = {},
         run' = [status |-> "running", decision |-> None]
  PROVE  GroundInv'
<1>1. \A a \in Agents : agent'[a] = Idle /\ Row(agent'[a])
  BY IdleRow
<1>2. ShapeInv'
  <2>1. agent' = [a \in Agents |-> agent'[a]]
    OBVIOUS
  <2>2. run' = [status |-> run'.status, decision |-> run'.decision]
    OBVIOUS
  <2> QED
    BY <1>1, <2>1, <2>2 DEF ShapeInv
<1>3. ASSUME NEW h \in Hypotheses PROVE LoopOK(mode', events', h, agent'[h])
  <2>1. agent'[h].phase = "idle" /\ agent'[h].attempt = 0
    BY <1>1, IdleRow DEF Agents
  <2>2. Handoffs(events', h) = {}
    BY DEF Handoffs
  <2> QED
    BY <2>1, <2>2 DEF LoopOK, Working
<1>4. StageInv'
  <2>1. agent'[Synthesis].phase = "idle" /\ agent'[Evaluator].phase = "idle"
    BY <1>1, IdleRow DEF Agents
  <2> QED
    BY <2>1 DEF StageInv
<1>5. RunInv'
  BY NoDecisionAssumption DEF RunInv, Restart
<1> QED
  BY <1>2, <1>3, <1>4, <1>5 DEF GroundInv, LoopInv

LEMMA GroundFrame ==
  ASSUME GroundInv, UNCHANGED vars
  PROVE  GroundInv'
BY DEF GroundInv, ShapeInv, LoopInv, StageInv, RunInv, vars

-----------------------------------------------------------------------------
(* The claim and the records. *)

LEMMA HolderNamed ==
  ASSUME LaunchInv, NEW p \in Launches, Active(p)
  PROVE  disk.claim.by = p
<1>1. disk.claim = Complete(p) \/ disk.claim = [by |-> p, written |-> FALSE]
  BY DEF LaunchInv, Active, In
<1>2. Complete(p).by = p /\ [by |-> p, written |-> FALSE].by = p
  BY DEF Complete
<1> QED
  BY <1>1, <1>2

LEMMA OneHolder ==
  ASSUME LaunchInv, NEW p \in Launches, NEW q \in Launches, Active(p), Active(q)
  PROVE  p = q
BY HolderNamed

(* Whoever made the attempt holds the claim: no other launch is active. *)
LEMMA AttemptHolder ==
  ASSUME LaunchInv, AttemptInv, NEW x \in attempts, NEW p \in Launches, Active(p)
  PROVE  x.by = p /\ In(p, "saving")
<1>1. disk.claim = Complete(x.by) /\ launch[x.by].phase \in {"saving", "ended"}
  BY DEF AttemptInv
<1>2. Complete(x.by).by = x.by
  BY DEF Complete
<1>3. x.by = p
  BY <1>1, <1>2, HolderNamed
<1> QED
  BY <1>1, <1>3 DEF Active, In

LEMMA UsageFrame ==
  ASSUME UNCHANGED <<mode, run, ledger>>
  PROVE  Usage' = Usage /\ (\A u : WithinCaps(u)' = WithinCaps(u))
BY DEF Usage, WithinCaps

LEMMA CapsFrame ==
  ASSUME mode'.budget = mode.budget, NEW u
  PROVE  WithinCaps(u)' = WithinCaps(u)
BY DEF WithinCaps

(* What a step that writes nothing to launches, disk and reports leaves. *)
LEMMA ProofFrame ==
  ASSUME LaunchInv, ProfileInv, AttemptInv, RecordInv, PromotedInv,
         UNCHANGED <<launch, disk, profile, attempts, callers, mode>>,
         composed'.promoted => composed.promoted
  PROVE  LaunchInv' /\ ProfileInv' /\ AttemptInv' /\ RecordInv' /\ PromotedInv'
<1>1. LaunchInv'
  BY DEF LaunchInv, In, Active
<1>2. ProfileInv'
  BY DEF ProfileInv, In
<1>3. AttemptInv'
  BY DEF AttemptInv
<1>4. RecordInv'
  BY DEF RecordInv
<1>5. PromotedInv'
  BY CapsFrame DEF PromotedInv
<1> QED
  BY <1>1, <1>2, <1>3, <1>4, <1>5

LEMMA SavingFrame ==
  ASSUME SavingInv, UNCHANGED <<launch, disk, attempts, run, ledger>>
  PROVE  SavingInv'
<1>1. Usage' = Usage
  BY DEF Usage
<1> QED
  BY <1>1 DEF SavingInv, In

LEMMA CallerHolder ==
  ASSUME LaunchInv, NEW q \in callers, NEW p \in Launches, Active(p)
  PROVE  q = p /\ launch[p].phase \in {"run", "saving"}
<1>1. disk.claim = Complete(q) /\ launch[q].phase \in {"run", "saving", "ended"}
  BY DEF LaunchInv
<1>2. Complete(q).by = q
  BY DEF Complete
<1>3. q = p
  BY <1>1, <1>2, HolderNamed
<1> QED
  BY <1>1, <1>3 DEF Active

(* Before the attempt nothing is recorded. *)
LEMMA NothingYet ==
  ASSUME RecordInv, PromotedInv, attempts = {}
  PROVE  (\A f \in Records : disk[f] = None) /\ ~composed.promoted
BY DEF RecordInv, PromotedInv

LEMMA ClaimIsRecord ==
  ASSUME NEW p \in Launches
  PROVE  None # Complete(p) /\ None # [by |-> p, written |-> FALSE]
<1>1. Complete(p) \in [by : Launches, written : BOOLEAN]
  BY DEF Complete
<1>2. [by |-> p, written |-> FALSE] \in [by : Launches, written : BOOLEAN]
  OBVIOUS
<1> QED
  BY <1>1, <1>2, NoClaimAssumption

(* One launch changes its phase. *)
LEMMA LaunchesElse ==
  ASSUME LaunchInv, NEW p \in Launches, NEW s, launch' = [launch EXCEPT ![p] = s]
  PROVE  /\ launch'[p] = s
         /\ \A q \in Launches : q # p => launch'[q] = launch[q]
         /\ launch' = [q \in Launches |-> launch'[q]]
BY DEF LaunchInv

LEMMA GotoIs ==
  ASSUME LaunchInv, NEW p \in Launches, NEW phase, Goto(p, phase)
  PROVE  launch' = [launch EXCEPT ![p] = [phase |-> phase, todo |-> launch[p].todo]]
<1>1. launch[p] = [phase |-> launch[p].phase, todo |-> launch[p].todo]
  BY DEF LaunchInv
<1>2. [launch[p] EXCEPT !.phase = phase] = [phase |-> phase, todo |-> launch[p].todo]
  BY <1>1
<1> QED
  BY <1>2 DEF Goto, LaunchInv

LEMMA DiskElse ==
  ASSUME LaunchInv, NEW f \in Files, NEW v, disk' = [disk EXCEPT ![f] = v]
  PROVE  /\ disk'[f] = v
         /\ \A g \in Files : g # f => disk'[g] = disk[g]
         /\ disk' = [g \in Files |-> disk'[g]]
BY DEF LaunchInv

LEMMA FileNames ==
  /\ Records \subseteq Files /\ Bundle \subseteq Files /\ "claim" \in Files /\ "claim" \notin Records
  /\ Bundle = Records \cup {"claim"} /\ "manifest" \in Files \ Bundle /\ "smoke" \in Files \ Bundle
BY DEF Records, Files, Bundle

-----------------------------------------------------------------------------
(* The actions of the provider proof. *)

LEMMA HarnessStepSound ==
  ASSUME IInv, HarnessStep
  PROVE  IInv'
<1>1. GroundInv' /\ UNCHANGED mode
  BY NextSound DEF IInv, HarnessStep
<1>2. UNCHANGED <<launch, disk, profile, anchor, composed, attempts, crashes>>
  BY DEF HarnessStep
<1>3. \A q \in callers' : q \in callers \/ (q \in Launches /\ In(q, "run"))
  BY DEF HarnessStep
<1>4. LaunchInv'
  <2>1. callers' \subseteq Launches
    BY <1>3 DEF IInv, ProofInv, LaunchInv
  <2>2. \A q \in callers' : disk.claim = Complete(q) /\ launch[q].phase \in {"run", "saving", "ended"}
    BY <1>3 DEF IInv, ProofInv, LaunchInv, In
  <2> QED
    BY <1>2, <2>1, <2>2 DEF IInv, ProofInv, LaunchInv, In, Active
<1>5. ASSUME NEW p \in Launches, In(p, "saving") PROVE FALSE
  <2>1. Active(p) /\ mode.proof = "advisory"
    BY <1>5 DEF Active, In, IInv, ProofInv, SavingInv, AttemptInv
  <2>2. PICK q \in Launches : In(q, "run")
    BY <2>1 DEF HarnessStep, Proving
  <2>3. Active(q)
    BY <2>2 DEF Active, In
  <2> QED
    BY <1>5, <2>1, <2>2, <2>3, OneHolder DEF IInv, ProofInv, In
<1>6. SavingInv'
  BY <1>2, <1>5 DEF SavingInv, In
<1>7. ProfileInv' /\ AttemptInv' /\ RecordInv'
  BY <1>1, <1>2 DEF IInv, ProofInv, ProfileInv, AttemptInv, RecordInv, In
<1>8. PromotedInv'
  BY <1>1, <1>2, CapsFrame DEF IInv, ProofInv, PromotedInv
<1> QED
  BY <1>1, <1>4, <1>6, <1>7, <1>8 DEF IInv, ProofInv

(* One launch moves; the claim stays, or no other launch depends on it. *)
LEMMA LaunchMoves ==
  ASSUME LaunchInv, NEW p \in Launches, NEW phase, NEW todo,
         launch' = [launch EXCEPT ![p] = [phase |-> phase, todo |-> todo]],
         disk' = [f \in Files |-> disk'[f]], UNCHANGED callers,
         phase \in {"opened", "written", "run", "saving", "ended"},
         phase = "opened" => disk'.claim = [by |-> p, written |-> FALSE],
         phase \in {"written", "run", "saving"} => disk'.claim = Complete(p),
         \/ disk'.claim = disk.claim /\ (p \in callers => phase \in {"run", "saving", "ended"})
         \/ callers = {} /\ \A q \in Launches : q # p => ~Active(q)
  PROVE  LaunchInv'
<1>1. /\ launch'[p] = [phase |-> phase, todo |-> todo]
      /\ \A q \in Launches : q # p => launch'[q] = launch[q]
      /\ launch' = [q \in Launches |-> launch'[q]]
  BY LaunchesElse
<1>2. \A q \in Launches : launch'[q] = [phase |-> launch'[q].phase, todo |-> launch'[q].todo]
  BY <1>1 DEF LaunchInv
<1>3. ASSUME NEW q \in Launches
      PROVE  /\ In(q, "opened")' => disk'.claim = [by |-> q, written |-> FALSE]
             /\ launch'[q].phase \in {"written", "run", "saving"} => disk'.claim = Complete(q)
             /\ Active(q)' => launch'[q].phase \in {"opened", "written", "run", "saving"}
  <2>1. CASE q = p
    BY <1>1, <2>1 DEF In, Active
  <2>2. CASE q # p /\ ~Active(q)
    BY <1>1, <2>2 DEF In, Active
  <2>3. CASE q # p /\ disk'.claim = disk.claim
    <3>1. launch'[q] = launch[q]
      BY <1>1, <2>3
    <3> QED
      BY <2>3, <3>1 DEF In, Active, LaunchInv
  <2> QED
    BY <2>1, <2>2, <2>3
<1>4. ASSUME NEW q \in callers'
      PROVE  disk'.claim = Complete(q) /\ launch'[q].phase \in {"run", "saving", "ended"}
  <2>1. q \in Launches /\ disk.claim = Complete(q) /\ launch[q].phase \in {"run", "saving", "ended"}
    BY DEF LaunchInv
  <2>2. disk'.claim = disk.claim /\ (p \in callers => phase \in {"run", "saving", "ended"})
    OBVIOUS
  <2> QED
    BY <1>1, <2>1, <2>2
<1>5. callers' \subseteq Launches
  BY DEF LaunchInv
<1> QED
  BY <1>1, <1>2, <1>3, <1>4, <1>5 DEF LaunchInv

(* A step before the attempt. *)
LEMMA NoAttempt ==
  ASSUME RecordInv, PromotedInv, attempts = {}, UNCHANGED <<attempts, composed>>,
         \A f \in Records : disk'[f] = disk[f],
         \A q \in Launches : launch'[q].phase # "saving"
  PROVE  AttemptInv' /\ SavingInv' /\ RecordInv' /\ PromotedInv'
<1>1. (\A f \in Records : disk'[f] = None) /\ ~composed'.promoted
  BY NothingYet
<1> QED
  BY <1>1 DEF AttemptInv, SavingInv, RecordInv, PromotedInv, In

(* Nobody else works while p does. *)
LEMMA Alone ==
  ASSUME LaunchInv, NEW p \in Launches, Active(p)
  PROVE  \A q \in Launches : q # p => launch[q].phase \in {"idle", "ended"}
BY OneHolder DEF Active

LEMMA ClaimSound ==
  ASSUME IInv, NEW p \in Launches, Claim(p)
  PROVE  IInv'
<1>1. GroundInv' /\ UNCHANGED <<mode, run, ledger, profile, composed, callers, attempts>>
  BY GroundFrame DEF IInv, Claim, vars
<1>2. LaunchInv /\ ProfileInv /\ AttemptInv /\ SavingInv /\ RecordInv /\ PromotedInv
  BY DEF IInv, ProofInv
<1>3. launch[p].phase = "idle"
  BY DEF Claim, In
<1>4. CASE Unclaimed
  <2>1. /\ disk' = [disk EXCEPT !["claim"] = [by |-> p, written |-> FALSE]]
        /\ launch' = [launch EXCEPT ![p] = [phase |-> "opened", todo |-> launch[p].todo]]
    BY <1>2, <1>4, GotoIs DEF Claim
  <2>2. callers = {} /\ attempts = {}
    <3>1. \A q \in Launches : disk.claim # Complete(q)
      BY <1>4, ClaimIsRecord DEF Unclaimed
    <3> QED
      BY <1>2, <3>1 DEF LaunchInv, AttemptInv
  <2>3. \A q \in Launches : ~Active(q)
    BY <1>2, <1>4, ClaimIsRecord DEF Unclaimed, LaunchInv, In, Active
  <2>4. /\ disk'.claim = [by |-> p, written |-> FALSE] /\ disk' = [g \in Files |-> disk'[g]]
        /\ \A g \in Records : disk'[g] = disk[g]
    BY <1>2, <2>1, DiskElse, FileNames
  <2>5. LaunchInv'
    BY <1>1, <1>2, <2>1, <2>2, <2>3, <2>4, LaunchMoves
  <2>6. \A q \in Launches : launch'[q].phase \notin {"run", "saving"}
    BY <1>2, <2>1, <2>3, LaunchesElse DEF Active
  <2>7. AttemptInv' /\ SavingInv' /\ RecordInv' /\ PromotedInv'
    BY <1>1, <1>2, <2>2, <2>4, <2>6, NoAttempt
  <2>8. ProfileInv'
    BY <1>1, <1>2, <2>6 DEF ProfileInv, In
  <2> QED
    BY <1>1, <2>5, <2>7, <2>8 DEF IInv, ProofInv
<1>5. CASE ~Unclaimed
  <2>1. launch' = [launch EXCEPT ![p] = Ended] /\ UNCHANGED disk
    BY <1>5 DEF Claim
  <2>2. p \notin callers /\ \A x \in attempts : x.by \in Launches /\ x.by # p
    BY <1>2, <1>3 DEF LaunchInv, AttemptInv
  <2>3. disk' = [f \in Files |-> disk'[f]]
    BY <1>2, <2>1 DEF LaunchInv
  <2>4. LaunchInv'
    BY <1>1, <1>2, <2>1, <2>2, <2>3, LaunchMoves DEF Ended
  <2>5. \A q \in Launches : \A ph \in {"run", "saving"} :
           launch'[q].phase = ph <=> launch[q].phase = ph
    BY <1>2, <1>3, <2>1, LaunchesElse DEF Ended
  <2>6. \A q \in Launches : launch'[q].phase = "saving" => launch'[q] = launch[q]
    BY <1>2, <1>3, <2>1, LaunchesElse DEF Ended
  <2>7. ProfileInv'
    BY <1>1, <1>2, <2>5 DEF ProfileInv, In
  <2>8. AttemptInv'
    <3>1. \A x \in attempts : launch'[x.by] = launch[x.by]
      BY <1>2, <2>1, <2>2, LaunchesElse
    <3> QED
      BY <1>1, <1>2, <2>1, <3>1 DEF AttemptInv
  <2>9. SavingInv'
    <3>1. Usage' = Usage
      BY <1>1 DEF Usage
    <3> QED
      BY <1>1, <1>2, <2>1, <2>5, <2>6, <3>1 DEF SavingInv, In
  <2>10. RecordInv' /\ PromotedInv'
    BY <1>1, <1>2, <2>1, CapsFrame DEF RecordInv, PromotedInv
  <2> QED
    BY <1>1, <2>4, <2>7, <2>8, <2>9, <2>10 DEF IInv, ProofInv
<1> QED
  BY <1>4, <1>5

LEMMA PutWritten ==
  ASSUME NEW c, NEW k, c = [by |-> c.by, written |-> c.written]
  PROVE  [c EXCEPT !.written = k] = [by |-> c.by, written |-> k]
<1> DEFINE b == c.by  w == c.written
<1>1. c = [by |-> b, written |-> w]
  OBVIOUS
<1> HIDE DEF b, w
<1>2. [[by |-> b, written |-> w] EXCEPT !.written = k] = [by |-> b, written |-> k]
  OBVIOUS
<1>3. [c EXCEPT !.written = k] = [by |-> b, written |-> k]
  BY <1>1, <1>2
<1> QED
  BY <1>3 DEF b

LEMMA WriteClaimSound ==
  ASSUME IInv, NEW p \in Launches, WriteClaim(p)
  PROVE  IInv'
<1>1. GroundInv' /\ UNCHANGED <<mode, run, ledger, profile, composed, callers, attempts>>
  BY GroundFrame DEF IInv, WriteClaim, vars
<1>2. LaunchInv /\ ProfileInv /\ AttemptInv /\ SavingInv /\ RecordInv /\ PromotedInv
  BY DEF IInv, ProofInv
<1>3. launch[p].phase = "opened" /\ Active(p) /\ disk.claim = [by |-> p, written |-> FALSE]
  BY <1>2 DEF WriteClaim, In, Active, LaunchInv
<1>4. attempts = {} /\ callers = {}
  BY <1>2, <1>3, AttemptHolder, CallerHolder DEF In
<1>5. launch' = [launch EXCEPT ![p] = [phase |-> "written", todo |-> launch[p].todo]]
  BY <1>2, GotoIs DEF WriteClaim
<1>6. disk' = [disk EXCEPT !["claim"] = Complete(p)]
  <2>1. disk.claim = [by |-> disk.claim.by, written |-> disk.claim.written] /\ disk.claim.by = p
    BY <1>3
  <2>2. [disk.claim EXCEPT !.written = TRUE] = [by |-> p, written |-> TRUE]
    BY <2>1, PutWritten
  <2>3. [disk.claim EXCEPT !.written = TRUE] = Complete(p)
    BY <2>2 DEF Complete
  <2> QED
    BY <1>2, <2>3 DEF WriteClaim, LaunchInv
<1>7. /\ disk'.claim = Complete(p) /\ disk' = [g \in Files |-> disk'[g]]
      /\ \A g \in Records : disk'[g] = disk[g]
  BY <1>2, <1>6, DiskElse, FileNames
<1>8. \A q \in Launches : q # p => ~Active(q)
  BY <1>2, <1>3, OneHolder
<1>9. LaunchInv'
  BY <1>1, <1>2, <1>4, <1>5, <1>7, <1>8, LaunchMoves
<1>10. \A q \in Launches : launch'[q].phase \notin {"run", "saving"}
  BY <1>2, <1>5, <1>8, LaunchesElse DEF Active
<1>11. AttemptInv' /\ SavingInv' /\ RecordInv' /\ PromotedInv'
  BY <1>1, <1>2, <1>4, <1>7, <1>10, NoAttempt
<1>12. ProfileInv'
  BY <1>1, <1>2, <1>10 DEF ProfileInv, In
<1> QED
  BY <1>1, <1>9, <1>11, <1>12 DEF IInv, ProofInv

LEMMA SyncDirectorySound ==
  ASSUME IInv, NEW p \in Launches, SyncDirectory(p)
  PROVE  IInv'
<1>1. UNCHANGED <<mode, disk, composed, callers, attempts>> /\ profile' = <<>>
  BY DEF SyncDirectory
<1>2. LaunchInv /\ ProfileInv /\ AttemptInv /\ SavingInv /\ RecordInv /\ PromotedInv
  BY DEF IInv, ProofInv
<1>3. GroundInv'
  <2>1. mode' \in Configurations
    BY <1>1 DEF IInv, GroundInv, ShapeInv
  <2> QED
    BY <2>1, FreshSound DEF SyncDirectory, FreshHarness
<1>4. launch[p].phase = "written" /\ Active(p) /\ disk.claim = Complete(p)
  BY <1>2 DEF SyncDirectory, In, Active, LaunchInv
<1>5. attempts = {} /\ callers = {}
  BY <1>2, <1>4, AttemptHolder, CallerHolder DEF In
<1>6. launch' = [launch EXCEPT ![p] = [phase |-> "run", todo |-> launch[p].todo]]
  BY <1>2, GotoIs DEF SyncDirectory
<1>7. LaunchInv'
  <2>1. disk' = [g \in Files |-> disk'[g]] /\ disk'.claim = Complete(p)
    BY <1>1, <1>2, <1>4 DEF LaunchInv
  <2> QED
    BY <1>1, <1>2, <1>4, <1>6, <2>1, LaunchMoves
<1>8. \A q \in Launches : launch'[q].phase # "saving"
  BY <1>2, <1>4, <1>6, Alone, LaunchesElse
<1>9. AttemptInv' /\ SavingInv' /\ RecordInv' /\ PromotedInv'
  BY <1>1, <1>2, <1>5, <1>8, NoAttempt
<1>10. ProfileInv'
  BY <1>1, <1>2 DEF ProfileInv
<1> QED
  BY <1>3, <1>7, <1>9, <1>10 DEF IInv, ProofInv

(* The files that follow the advisory. *)
LEMMA WritesAre ==
  /\ Writes \in Seq(Records) /\ Writes # <<>>
  /\ \A i, j \in 1..Len(Writes) : Writes[i] = Writes[j] => i = j
<1>1. OutcomeFile = "failure"
  BY DEF OutcomeFile, Useful, RequireRealProvider
<1>2. \/ Writes = <<"advisory", "failure", "usefulness">>
      \/ Writes = <<"advisory", "usefulness", "failure">>
  BY <1>1 DEF Writes
<1>3. CASE Writes = <<"advisory", "failure", "usefulness">>
  <2>1. Len(Writes) = 3 /\ Writes[1] = "advisory" /\ Writes[2] = "failure" /\ Writes[3] = "usefulness"
    BY <1>3
  <2>2. Writes \in Seq(Records)
    BY <1>3 DEF Records
  <2> QED
    BY <2>1, <2>2
<1>4. CASE Writes = <<"advisory", "usefulness", "failure">>
  <2>1. Len(Writes) = 3 /\ Writes[1] = "advisory" /\ Writes[2] = "usefulness" /\ Writes[3] = "failure"
    BY <1>4
  <2>2. Writes \in Seq(Records)
    BY <1>4 DEF Records
  <2> QED
    BY <2>1, <2>2
<1> QED
  BY <1>2, <1>3, <1>4

LEMMA FinishAdvisorySound ==
  ASSUME IInv, NEW p \in Launches, FinishAdvisory(p)
  PROVE  IInv'
<1>1. GroundInv' /\ UNCHANGED <<mode, run, ledger, disk, profile, composed, callers>>
  BY GroundFrame DEF IInv, FinishAdvisory, vars
<1>2. LaunchInv /\ ProfileInv /\ AttemptInv /\ SavingInv /\ RecordInv /\ PromotedInv
  BY DEF IInv, ProofInv
<1>3. launch[p].phase = "run" /\ Active(p) /\ disk.claim = Complete(p) /\ mode.proof = "advisory"
  BY <1>2 DEF FinishAdvisory, In, Active, LaunchInv
<1> DEFINE x0 == [by |-> p, ending |-> run.status, usage |-> Usage]
<1>4. attempts = {} /\ attempts' = {x0}
  BY <1>2, <1>3, AttemptHolder DEF In, FinishAdvisory
<1>5. (\A f \in Records : disk[f] = None) /\ ~composed.promoted
  BY <1>2, <1>4, NothingYet
<1>6. launch' = [launch EXCEPT ![p] = [phase |-> "saving", todo |-> Writes]]
  BY DEF FinishAdvisory
<1>7. /\ launch'[p] = [phase |-> "saving", todo |-> Writes]
      /\ \A q \in Launches : q # p => launch'[q] = launch[q]
  BY <1>2, <1>6, LaunchesElse
<1>8. LaunchInv'
  <2>1. disk' = [g \in Files |-> disk'[g]] /\ disk'.claim = Complete(p)
    BY <1>1, <1>2, <1>3 DEF LaunchInv
  <2> QED
    BY <1>1, <1>2, <1>6, <2>1, LaunchMoves
<1>9. ProfileInv'
  BY <1>1, <1>2, <1>3 DEF ProfileInv
<1>10. x0.by = p /\ x0.ending = run.status /\ x0.usage = Usage
  OBVIOUS
<1> HIDE DEF x0
<1>11. AttemptInv'
  BY <1>1, <1>3, <1>4, <1>7, <1>10 DEF AttemptInv
<1>12. SavingInv'
  <2>1. Usage' = Usage
    BY <1>1 DEF Usage
  <2>2. \A q \in Launches : launch'[q].phase = "saving" => q = p
    BY <1>2, <1>3, <1>7, Alone
  <2>3. \A i \in 1..Len(Writes) : disk'[Writes[i]] = None
    BY <1>1, <1>5, WritesAre
  <2>4. launch'[p].todo = Writes
    BY <1>7
  <2> QED
    BY <1>1, <1>4, <1>10, <2>1, <2>2, <2>3, <2>4, WritesAre DEF SavingInv, In
<1>13. RecordInv' /\ PromotedInv'
  BY <1>1, <1>5 DEF RecordInv, PromotedInv
<1> QED
  BY <1>1, <1>8, <1>9, <1>11, <1>12, <1>13 DEF IInv, ProofInv

(* What a record of launch p says. *)
LEMMA ContentIs ==
  ASSUME NEW p, NEW f
  PROVE  /\ Content(p, f).by = p /\ Content(p, f).usage = Usage
         /\ f = "advisory" => Content(p, f).status = AdvisoryStatus
<1>1. CASE f = "advisory"
  <2>1. Content(p, f) = [by |-> p, status |-> AdvisoryStatus, usage |-> Usage]
    BY <1>1 DEF Content
  <2> QED
    BY <2>1
<1>2. CASE f = "usefulness"
  <2>1. Content(p, f) = [by |-> p, status |-> AdvisoryStatus, usage |-> Usage,
                         pass |-> Useful(AdvisoryStatus)]
    BY <1>2 DEF Content
  <2> QED
    BY <1>2, <2>1
<1>3. CASE f # "advisory" /\ f # "usefulness"
  <2> DEFINE outcome == IF Useful(AdvisoryStatus) THEN "PASS" ELSE "DEGRADED"
  <2>1. Content(p, f) = [by |-> p, usage |-> Usage, status |-> outcome]
    BY <1>3 DEF Content
  <2> HIDE DEF outcome
  <2> QED
    BY <1>3, <2>1
<1> QED
  BY <1>1, <1>2, <1>3

(* The files still to be written after the first of distinct ones. *)
LEMMA RestOf ==
  ASSUME NEW S, NEW todo \in Seq(S), todo # <<>>,
         \A i, j \in 1..Len(todo) : todo[i] = todo[j] => i = j
  PROVE  /\ Head(todo) \in S /\ Tail(todo) \in Seq(S) /\ Head(todo) = todo[1] /\ 1 \in 1..Len(todo)
         /\ \A i \in 1..Len(Tail(todo)) :
              /\ Tail(todo)[i] # Head(todo)
              /\ i + 1 \in 1..Len(todo) /\ Tail(todo)[i] = todo[i + 1]
         /\ \A i, j \in 1..Len(Tail(todo)) : Tail(todo)[i] = Tail(todo)[j] => i = j
<1>1. Len(todo) \in Nat /\ Len(todo) > 0 /\ Head(todo) = todo[1] /\ Tail(todo) \in Seq(S)
  OBVIOUS
<1>2. Len(Tail(todo)) = Len(todo) - 1
  OBVIOUS
<1>3. \A i \in 1..Len(Tail(todo)) : Tail(todo)[i] = todo[i + 1]
  OBVIOUS
<1>4. todo[1] \in S /\ 1 \in 1..Len(todo)
  BY <1>1
<1>5. ASSUME NEW i \in 1..Len(Tail(todo))
      PROVE  i + 1 \in 1..Len(todo) /\ Tail(todo)[i] # todo[1]
  <2>1. i + 1 \in 1..Len(todo) /\ i + 1 # 1
    BY <1>1, <1>2
  <2> QED
    BY <1>3, <1>4, <2>1
<1>6. ASSUME NEW i \in 1..Len(Tail(todo)), NEW j \in 1..Len(Tail(todo)), Tail(todo)[i] = Tail(todo)[j]
      PROVE  i = j
  <2>1. todo[i + 1] = todo[j + 1]
    BY <1>3, <1>6
  <2>2. i + 1 = j + 1
    BY <1>5, <2>1
  <2> QED
    BY <1>1, <1>2, <2>2
<1> QED
  BY <1>1, <1>3, <1>4, <1>5, <1>6

LEMMA SaveSound ==
  ASSUME IInv, NEW p \in Launches, Save(p)
  PROVE  IInv'
<1>1. GroundInv' /\ UNCHANGED <<mode, run, ledger, profile, composed, callers, attempts>>
  BY GroundFrame DEF IInv, Save, vars
<1>2. LaunchInv /\ ProfileInv /\ AttemptInv /\ SavingInv /\ RecordInv /\ PromotedInv
  BY DEF IInv, ProofInv
<1>3. In(p, "saving") /\ launch[p].phase = "saving" /\ Active(p) /\ disk.claim = Complete(p)
  BY <1>2 DEF Save, In, Active, LaunchInv
<1> DEFINE todo == launch[p].todo
           f == Head(todo)
           rest == Tail(todo)
<1>4. PICK x \in attempts : x.by = p /\ x.ending = run.status /\ x.usage = Usage
  BY <1>2, <1>3 DEF SavingInv
<1>5. /\ todo \in Seq(Records) /\ todo # <<>>
      /\ \A i \in 1..Len(todo) : disk[todo[i]] = None
      /\ \A i, j \in 1..Len(todo) : todo[i] = todo[j] => i = j
  BY <1>2, <1>3 DEF SavingInv
<1>6. disk[f] = None
      /\ disk' = [disk EXCEPT ![f] = Content(p, f)]
      /\ launch' = [launch EXCEPT ![p] = IF rest = <<>> THEN Ended ELSE [@ EXCEPT !.todo = rest]]
  <2>1. disk[f] = None
    BY <1>5, RestOf
  <2> QED
    BY <2>1 DEF Save
<1> HIDE DEF todo
<1>7. /\ f \in Records /\ rest \in Seq(Records)
      /\ \A i \in 1..Len(rest) : rest[i] \in Records /\ rest[i] # f /\ disk[rest[i]] = None
      /\ \A i, j \in 1..Len(rest) : rest[i] = rest[j] => i = j
  <2>1. rest \in Seq(Records) /\ \A i \in 1..Len(rest) : rest[i] \in Records
    BY <1>5
  <2> QED
    BY <1>5, <2>1, RestOf
<1> HIDE DEF f, rest
<1>8. /\ disk'[f] = Content(p, f)
      /\ \A g \in Files : g # f => disk'[g] = disk[g]
      /\ disk' = [g \in Files |-> disk'[g]] /\ disk'.claim = disk.claim
  BY <1>2, <1>6, <1>7, DiskElse, FileNames
<1>9. launch' = [launch EXCEPT ![p] = [phase |-> IF rest = <<>> THEN "ended" ELSE "saving",
                                       todo |-> rest]]
  <2>1. launch[p] = [phase |-> "saving", todo |-> todo]
    BY <1>2, <1>3 DEF LaunchInv, todo
  <2>2. [launch[p] EXCEPT !.todo = rest] = [phase |-> "saving", todo |-> rest]
    BY <2>1
  <2>3. (IF rest = <<>> THEN Ended ELSE [launch[p] EXCEPT !.todo = rest])
           = [phase |-> IF rest = <<>> THEN "ended" ELSE "saving", todo |-> rest]
    BY <2>2 DEF Ended
  <2> QED
    BY <1>2, <1>6, <2>3 DEF LaunchInv
<1> DEFINE phase == IF rest = <<>> THEN "ended" ELSE "saving"
<1>10. phase \in {"saving", "ended"} /\ (phase = "saving" => rest # <<>>)
  OBVIOUS
<1>11. launch' = [launch EXCEPT ![p] = [phase |-> phase, todo |-> rest]]
  BY <1>9
<1> HIDE DEF phase
<1>12. LaunchInv'
  BY <1>1, <1>2, <1>3, <1>8, <1>10, <1>11, LaunchMoves
<1>13. /\ launch'[p].phase = phase /\ launch'[p].todo = rest
       /\ \A q \in Launches : q # p => launch'[q] = launch[q]
  BY <1>2, <1>11, LaunchesElse
<1>14. \A q \in Launches : q # p => launch'[q].phase \in {"idle", "ended"}
  BY <1>2, <1>3, <1>13, Alone
<1>15. ProfileInv'
  BY <1>1, <1>2, <1>10, <1>13, <1>14 DEF ProfileInv, In
<1>16. AttemptInv'
  <2>1. \A y \in attempts : y.by = p
    BY <1>2, <1>3, AttemptHolder
  <2> QED
    BY <1>1, <1>2, <1>8, <1>10, <1>13, <2>1 DEF AttemptInv
<1>17. SavingInv'
  <2>1. Usage' = Usage
    BY <1>1 DEF Usage
  <2>2. \A q \in Launches : launch'[q].phase = "saving" => q = p /\ rest # <<>>
    BY <1>10, <1>13, <1>14
  <2>3. \A i \in 1..Len(rest) : disk'[rest[i]] = None
    BY <1>7, <1>8, FileNames
  <2> QED
    BY <1>1, <1>4, <1>7, <1>13, <2>1, <2>2, <2>3 DEF SavingInv, In
<1>18. RecordInv'
  <2> SUFFICES ASSUME NEW g \in Records, disk'[g] # None
               PROVE  \E y \in attempts :
                        /\ disk'[g].by = y.by /\ disk'[g].usage = y.usage
                        /\ g = "advisory" /\ disk'[g].status = "DEGRADED" => y.ending # "assessed"
    BY <1>1 DEF RecordInv
  <2>1. CASE g # f
    BY <1>2, <1>8, <2>1, FileNames DEF RecordInv
  <2>2. CASE g = f
    <3>1. disk'[g].by = p /\ disk'[g].usage = Usage
      BY <1>8, <2>2, ContentIs
    <3>2. g = "advisory" => disk'[g].status = AdvisoryStatus
      BY <1>8, <2>2, ContentIs
    <3>3. AdvisoryStatus = "DEGRADED" => run.status # "assessed"
      BY DEF AdvisoryStatus
    <3> QED
      BY <1>4, <3>1, <3>2, <3>3
  <2> QED
    BY <2>1, <2>2
<1>19. PromotedInv'
  <2>1. ~composed.promoted
    BY <1>2, <1>6, <1>7, FileNames DEF PromotedInv
  <2> QED
    BY <1>1, <2>1 DEF PromotedInv
<1> QED
  BY <1>1, <1>12, <1>15, <1>16, <1>17, <1>18, <1>19 DEF IInv, ProofInv

LEMMA ReportIs ==
  ASSUME NEW expected
  PROVE  Report(expected) \in Reports
<1> DEFINE c == Closure(agent[Synthesis].result, agent[Evaluator].result, mode.admitted)
           closed == c.allClaims /\ c.allAdmitted
           available == Coverage(c, mode.admitted).available /\ Coverage(c, mode.admitted).validated
           traced == \A a \in Agents : agent[a].attempt = 1
<1>1. Report(expected) = [status |-> Workflow(expected), closed |-> closed,
                          available |-> available, traced |-> traced]
  BY DEF Report
<1>2. closed \in BOOLEAN /\ available \in BOOLEAN /\ traced \in BOOLEAN
  BY Zenon
<1>3. Workflow(expected) \in {"RAISES", "PASS", "FAIL"}
  BY DEF Workflow
<1> HIDE DEF closed, available, traced
<1> QED
  BY <1>1, <1>2, <1>3 DEF Reports

(* The configuration of the next profile. *)
LEMMA NextProfile ==
  ASSUME NEW m \in Configurations, NEW i \in 1..Len(m.profiles), NEW m2,
         m2 = [m EXCEPT !.facts = m.profiles[i].facts, !.admitted = m.profiles[i].admitted]
  PROVE  m2 \in Configurations /\ m2.proof = m.proof /\ m2.profiles = m.profiles
<1> DEFINE P == [facts : Contents, admitted : SUBSET Sources, expected : STRING]
<1>1. m.profiles \in Seq(P)
  BY DEF Configurations
<1>2. m.profiles[i] \in P
  <2> HIDE DEF P
  <2> QED
    BY <1>1
<1>3. m.profiles[i].facts \in Contents /\ m.profiles[i].admitted \in SUBSET Sources
  BY <1>2
<1> QED
  BY <1>3 DEF Configurations

LEMMA FinishProfileSound ==
  ASSUME IInv, NEW p \in Launches, FinishProfile(p)
  PROVE  IInv'
<1>1. UNCHANGED <<composed, callers, attempts>>
  BY DEF FinishProfile
<1>2. LaunchInv /\ ProfileInv /\ AttemptInv /\ SavingInv /\ RecordInv /\ PromotedInv
  BY DEF IInv, ProofInv
<1>3. launch[p].phase = "run" /\ Active(p) /\ disk.claim = Complete(p) /\ mode.proof = "smoke"
  BY <1>2 DEF FinishProfile, In, Active, LaunchInv
<1>4. attempts = {}
  BY <1>2, <1>3, AttemptHolder DEF In
<1>5. \A q \in Launches : q # p => launch[q].phase \in {"idle", "ended"}
  BY <1>2, <1>3, Alone
<1> DEFINE current == mode.profiles[Len(profile) + 1]
           reports == Append(profile, Report(current.expected))
<1>6. /\ reports \in Seq(Reports) /\ Len(reports) = Len(profile) + 1
      /\ Len(profile) \in Nat /\ Len(profile) < Len(mode.profiles)
  <2>1. profile \in Seq(Reports) /\ Len(profile) < Len(mode.profiles)
    BY <1>2, <1>3 DEF ProfileInv, In
  <2>2. Report(current.expected) \in Reports
    BY ReportIs
  <2> QED
    BY <2>1, <2>2
<1>7. CASE launch' = [launch EXCEPT ![p] = Ended] /\ UNCHANGED vars /\ profile' \in Seq(Reports)
           /\ disk' = [g \in Files |-> disk'[g]] /\ (\A g \in Bundle : disk'[g] = disk[g])
  <2>1. GroundInv'
    BY <1>7, GroundFrame DEF IInv
  <2>2. LaunchInv'
    BY <1>1, <1>2, <1>7, FileNames, LaunchMoves DEF Ended
  <2>3. \A q \in Launches : launch'[q].phase \in {"idle", "ended"}
    BY <1>2, <1>5, <1>7, LaunchesElse DEF Ended
  <2>4. AttemptInv' /\ SavingInv' /\ RecordInv' /\ PromotedInv'
    BY <1>1, <1>2, <1>4, <1>7, <2>3, FileNames, NoAttempt
  <2>5. ProfileInv'
    BY <1>2, <1>7, <2>3 DEF ProfileInv, In, vars
  <2> QED
    BY <2>1, <2>2, <2>4, <2>5 DEF IInv, ProofInv
<1>8. CASE Workflow(current.expected) = "RAISES"
  <2>1. disk' = [disk EXCEPT !["manifest"] = Manifest(p)]
    BY <1>8 DEF FinishProfile
  <2>2. launch' = [launch EXCEPT ![p] = Ended] /\ UNCHANGED <<vars, profile>>
    BY <1>8 DEF FinishProfile
  <2>3. disk' = [g \in Files |-> disk'[g]] /\ (\A g \in Bundle : disk'[g] = disk[g])
    BY <1>2, <2>1, DiskElse, FileNames
  <2> QED
    BY <1>2, <1>7, <2>2, <2>3 DEF ProfileInv
<1>9. CASE Workflow(current.expected) # "RAISES" /\ Len(reports) # Len(mode.profiles)
  <2> DEFINE next == mode.profiles[Len(reports) + 1]
  <2>1. /\ profile' = reports /\ UNCHANGED <<disk, launch>>
        /\ mode' = [mode EXCEPT !.facts = next.facts, !.admitted = next.admitted]
        /\ FreshHarness(ledger)
    BY <1>9 DEF FinishProfile
  <2>2. mode \in Configurations
    BY DEF IInv, GroundInv, ShapeInv
  <2>3. Len(mode.profiles) \in Nat
    BY <2>2 DEF Configurations
  <2>4. Len(reports) + 1 \in 1..Len(mode.profiles) /\ Len(reports) < Len(mode.profiles)
    BY <1>6, <1>9, <2>3
  <2> HIDE DEF reports
  <2>5. mode' \in Configurations /\ mode'.proof = mode.proof /\ mode'.profiles = mode.profiles
    BY <2>1, <2>2, <2>4, NextProfile
  <2>6. GroundInv'
    BY <2>1, <2>5, FreshSound DEF FreshHarness
  <2>7. LaunchInv'
    BY <1>1, <1>2, <2>1 DEF LaunchInv, In, Active
  <2>8. \A q \in Launches : launch'[q].phase # "saving"
    BY <1>3, <1>5, <2>1
  <2>9. AttemptInv' /\ SavingInv' /\ RecordInv' /\ PromotedInv'
    BY <1>1, <1>2, <1>4, <2>1, <2>8, NoAttempt
  <2>10. ProfileInv'
    BY <1>2, <1>6, <2>1, <2>4, <2>5 DEF ProfileInv
  <2> QED
    BY <2>6, <2>7, <2>9, <2>10 DEF IInv, ProofInv
<1>10. CASE Workflow(current.expected) # "RAISES" /\ Len(reports) = Len(mode.profiles)
  <2> DEFINE smoke == [by |-> p, reports |-> reports, usage |-> Usage]
  <2>1. profile' = reports /\ launch' = [launch EXCEPT ![p] = Ended] /\ UNCHANGED vars
    BY <1>10 DEF FinishProfile
  <2>2. disk' = disk \/ disk' = [disk EXCEPT !["smoke"] = smoke]
    BY <1>10 DEF FinishProfile
  <2> HIDE DEF smoke
  <2>3. disk' = [g \in Files |-> disk'[g]] /\ (\A g \in Bundle : disk'[g] = disk[g])
    <3>1. CASE disk' = disk
      BY <1>2, <3>1 DEF LaunchInv
    <3>2. CASE disk' = [disk EXCEPT !["smoke"] = smoke]
      BY <1>2, <3>2, DiskElse, FileNames
    <3> QED
      BY <2>2, <3>1, <3>2
  <2> QED
    BY <1>6, <1>7, <2>1, <2>3
<1> QED
  BY <1>8, <1>9, <1>10

LEMMA CrashSound ==
  ASSUME IInv, NEW p \in Launches, Crash(p)
  PROVE  IInv'
<1>1. UNCHANGED <<mode, disk, profile, composed, callers, attempts>> /\ Active(p)
  BY DEF Crash
<1>2. LaunchInv /\ ProfileInv /\ AttemptInv /\ SavingInv /\ RecordInv /\ PromotedInv
  BY DEF IInv, ProofInv
<1>3. GroundInv'
  <2>1. mode' \in Configurations
    BY <1>1 DEF IInv, GroundInv, ShapeInv
  <2> QED
    BY <2>1, FreshSound DEF Crash, FreshHarness
<1>4. launch' = [launch EXCEPT ![p] = Ended]
  BY DEF Crash
<1>5. LaunchInv'
  <2>1. disk' = [g \in Files |-> disk'[g]]
    BY <1>1, <1>2 DEF LaunchInv
  <2> QED
    BY <1>1, <1>2, <1>4, <2>1, LaunchMoves DEF Ended
<1>6. launch'[p].phase = "ended" /\ \A q \in Launches : launch'[q].phase \in {"idle", "ended"}
  BY <1>1, <1>2, <1>4, Alone, LaunchesElse DEF Ended
<1>7. ProfileInv'
  BY <1>1, <1>2, <1>6 DEF ProfileInv, In
<1>8. AttemptInv'
  <2>1. \A x \in attempts : x.by = p
    BY <1>1, <1>2, AttemptHolder
  <2> QED
    BY <1>1, <1>2, <1>6, <2>1 DEF AttemptInv
<1>9. SavingInv'
  BY <1>6 DEF SavingInv, In
<1>10. RecordInv' /\ PromotedInv'
  BY <1>1, <1>2, CapsFrame DEF RecordInv, PromotedInv
<1> QED
  BY <1>3, <1>5, <1>7, <1>8, <1>9, <1>10 DEF IInv, ProofInv

LEMMA PowerLossSound ==
  ASSUME IInv, PowerLoss
  PROVE  IInv'
<1>1. UNCHANGED <<mode, profile, composed, callers, attempts>>
  BY DEF PowerLoss
<1>2. LaunchInv /\ ProfileInv /\ AttemptInv /\ SavingInv /\ RecordInv /\ PromotedInv
  BY DEF IInv, ProofInv
<1>3. GroundInv'
  <2>1. mode' \in Configurations
    BY <1>1 DEF IInv, GroundInv, ShapeInv
  <2> QED
    BY <2>1, FreshSound DEF PowerLoss, FreshHarness
<1> DEFINE unsynced == {p \in Launches : launch[p].phase \in {"opened", "written"}}
           saving == {p \in Launches : In(p, "saving")}
<1>4. unsynced # {} \/ saving # {}
  BY DEF PowerLoss
<1>5. callers # {} \/ attempts # {} => unsynced = {}
  <2>1. ASSUME NEW p \in unsynced, callers # {} \/ attempts # {} PROVE FALSE
    <3>1. p \in Launches /\ Active(p) /\ launch[p].phase \in {"opened", "written"}
      BY DEF Active
    <3>2. CASE callers # {}
      BY <1>2, <3>1, <3>2, CallerHolder
    <3>3. CASE attempts # {}
      BY <1>2, <3>1, <3>3, AttemptHolder DEF In
    <3> QED
      BY <2>1, <3>2, <3>3
  <2> QED
    BY <2>1
<1>6. unsynced = {} => disk'.claim = disk.claim
  BY FileNames DEF PowerLoss
<1>7. /\ disk' = [f \in Files |-> disk'[f]]
      /\ \A f \in Records : disk'[f] = None \/ disk'[f] = disk[f]
  <2>1. PICK lost, claim : disk' = [f \in Files |-> IF f = "claim" THEN claim
                                                    ELSE IF f \in lost THEN None ELSE disk[f]]
    BY DEF PowerLoss
  <2> QED
    BY <2>1, FileNames
<1>8. launch' = [p \in Launches |-> IF Active(p) THEN Ended ELSE launch[p]]
  BY DEF PowerLoss
<1>9. /\ launch' = [p \in Launches |-> launch'[p]]
      /\ \A p \in Launches : /\ launch'[p].phase \in {"idle", "ended"}
                             /\ launch'[p] = [phase |-> launch'[p].phase, todo |-> launch'[p].todo]
                             /\ launch[p].phase # "idle" => launch'[p].phase = "ended"
  <2>1. Ended.phase = "ended" /\ Ended = [phase |-> Ended.phase, todo |-> Ended.todo]
    BY DEF Ended
  <2>2. \A p \in Launches : IF Active(p) THEN launch'[p] = Ended ELSE launch'[p] = launch[p]
    BY <1>8
  <2>3. launch' = [p \in Launches |-> launch'[p]]
    BY <1>8
  <2> QED
    BY <1>2, <2>1, <2>2, <2>3 DEF LaunchInv, Active
<1> HIDE DEF unsynced
<1>10. LaunchInv'
  <2>1. callers' \subseteq Launches
    BY <1>1, <1>2 DEF LaunchInv
  <2>2. ASSUME NEW p \in callers' PROVE disk'.claim = Complete(p) /\ launch'[p].phase = "ended"
    <3>1. p \in Launches /\ disk.claim = Complete(p) /\ launch[p].phase # "idle"
      BY <1>1, <1>2 DEF LaunchInv
    <3> QED
      BY <1>1, <1>5, <1>6, <1>9, <3>1
  <2> QED
    BY <1>7, <1>9, <2>1, <2>2 DEF LaunchInv, In, Active
<1>11. ProfileInv'
  BY <1>1, <1>2, <1>9 DEF ProfileInv, In
<1>12. AttemptInv'
  <2>1. ASSUME NEW x \in attempts
        PROVE  x.by \in Launches /\ disk'.claim = Complete(x.by) /\ launch'[x.by].phase = "ended"
    <3>1. x.by \in Launches /\ disk.claim = Complete(x.by) /\ launch[x.by].phase # "idle"
      BY <1>2 DEF AttemptInv
    <3> QED
      BY <1>5, <1>6, <1>9, <3>1
  <2> QED
    BY <1>1, <1>2, <2>1 DEF AttemptInv
<1>13. SavingInv'
  BY <1>9 DEF SavingInv, In
<1>14. RecordInv'
  BY <1>1, <1>2, <1>7 DEF RecordInv
<1>15. PromotedInv'
  <2>1. SUFFICES ASSUME composed.promoted PROVE FALSE
    BY <1>1 DEF PromotedInv
  <2>2. attempts # {} /\ \A f \in Bundle : disk[f] # None
    BY <1>2, <2>1 DEF PromotedInv
  <2>3. PICK p \in Launches : In(p, "saving")
    BY <1>4, <1>5, <2>2
  <2>4. /\ launch[p].todo \in Seq(Records) /\ launch[p].todo # <<>>
        /\ \A i \in 1..Len(launch[p].todo) : disk[launch[p].todo[i]] = None
    BY <1>2, <2>3 DEF SavingInv
  <2>5. 1 \in 1..Len(launch[p].todo) /\ launch[p].todo[1] \in Records
    BY <2>4
  <2> QED
    BY <2>2, <2>4, <2>5, FileNames
<1> QED
  BY <1>3, <1>10, <1>11, <1>12, <1>13, <1>14, <1>15 DEF IInv, ProofInv

LEMMA ReviewSound ==
  ASSUME IInv, Review \/ UNCHANGED <<vars, proofVars>>
  PROVE  IInv'
<1>1. UNCHANGED vars /\ UNCHANGED <<launch, disk, profile, composed, callers, attempts>>
  BY DEF Review, proofVars
<1>2. UNCHANGED <<mode, run, ledger>>
  BY <1>1 DEF vars
<1>3. GroundInv'
  BY <1>1, GroundFrame DEF IInv
<1>4. SavingInv'
  BY <1>1, <1>2, SavingFrame DEF IInv, ProofInv
<1> QED
  BY <1>1, <1>2, <1>3, <1>4, ProofFrame DEF IInv, ProofInv

(* Evidence that is valid is that of the one attempt. *)
LEMMA ComposeSound ==
  ASSUME IInv, NEW offline \in BOOLEAN, Compose(offline)
  PROVE  IInv'
<1>1. UNCHANGED vars /\ UNCHANGED <<launch, disk, profile, callers, attempts>>
  BY DEF Compose
<1>2. UNCHANGED <<mode, run, ledger>>
  BY <1>1 DEF vars
<1>3. GroundInv'
  BY <1>1, GroundFrame DEF IInv
<1>4. LaunchInv /\ ProfileInv /\ AttemptInv /\ SavingInv /\ RecordInv /\ PromotedInv
  BY DEF IInv, ProofInv
<1>5. LaunchInv' /\ ProfileInv' /\ AttemptInv' /\ RecordInv'
  BY <1>1, <1>2, <1>4
  DEF LaunchInv, ProfileInv, AttemptInv, RecordInv, In, Active
<1>6. SavingInv'
  BY <1>1, <1>2, <1>4, SavingFrame
<1>7. PromotedInv'
  <2>1. composed'.promoted => EvidenceValid
    BY DEF Compose
  <2>2. ASSUME EvidenceValid
        PROVE  \E x \in attempts :
                 /\ x.ending # "assessed" /\ WithinCaps(x.usage)
                 /\ \A f \in Bundle : disk[f] # None /\ disk[f].by = x.by
                 /\ \A f \in Bundle \ {"claim"} : disk[f].usage = x.usage
    <3>1. \A f \in Bundle : disk[f] # None
      BY <2>2 DEF EvidenceValid
    <3>2. "failure" \in Records /\ "advisory" \in Records /\ "usefulness" \in Records
      BY DEF Records
    <3>3. PICK x \in attempts : disk["failure"].by = x.by /\ disk["failure"].usage = x.usage
      BY <1>4, <3>1, <3>2, FileNames DEF RecordInv
    <3>4. \A f \in Records : disk[f].by = x.by /\ disk[f].usage = x.usage
      BY <1>4, <3>1, FileNames DEF RecordInv, AttemptInv
    <3>5. disk["advisory"].status = "DEGRADED" /\ WithinCaps(disk["failure"].usage)
      BY <2>2 DEF EvidenceValid, OutcomeMatchesAdvisory
    <3>6. x.ending # "assessed"
      BY <1>4, <3>1, <3>2, <3>5, FileNames DEF RecordInv, AttemptInv
    <3>7. disk["claim"].by = x.by
      <4>1. disk.claim = Complete(x.by) /\ Complete(x.by).by = x.by
        BY <1>4 DEF AttemptInv, Complete
      <4> QED
        BY <4>1
    <3>8. WithinCaps(x.usage)
      BY <3>3, <3>5
    <3> QED
      BY <3>1, <3>4, <3>6, <3>7, <3>8, FileNames
  <2> QED
    BY <1>1, <1>2, <2>1, <2>2, CapsFrame DEF PromotedInv
<1> QED
  BY <1>3, <1>5, <1>6, <1>7 DEF IInv, ProofInv

LEMMA ProofInitSound ==
  ASSUME ProofInit
  PROVE  IInv
<1>1. /\ mode \in Modes /\ agent = [a \in Agents |-> Idle] /\ events = {}
      /\ run = [status |-> "running", decision |-> None]
  BY DEF ProofInit, Init
<1>2. mode \in Configurations /\ (mode.proof = "smoke" => mode.profiles # <<>>)
  BY <1>1, ConfigurationsAssumption
<1>3. \A a \in Agents : agent[a] = Idle /\ Row(agent[a])
  BY <1>1, IdleRow
<1>4. ShapeInv
  <2>1. agent = [a \in Agents |-> agent[a]]
    BY <1>1
  <2>2. run = [status |-> run.status, decision |-> run.decision]
    BY <1>1
  <2> QED
    BY <1>2, <1>3, <2>1, <2>2 DEF ShapeInv
<1>5. ASSUME NEW h \in Hypotheses PROVE LoopOK(mode, events, h, agent[h])
  <2>1. agent[h].phase = "idle" /\ agent[h].attempt = 0
    BY <1>3, IdleRow DEF Agents
  <2>2. Handoffs(events, h) = {}
    BY <1>1 DEF Handoffs
  <2> QED
    BY <1>1, <2>1, <2>2 DEF LoopOK, Working
<1>6. StageInv
  <2>1. agent[Synthesis].phase = "idle" /\ agent[Evaluator].phase = "idle"
    BY <1>3, IdleRow DEF Agents
  <2> QED
    BY <1>1, <2>1 DEF StageInv
<1>7. RunInv
  BY <1>1, NoDecisionAssumption DEF RunInv, Restart
<1>8. /\ launch = [p \in Launches |-> [phase |-> "idle", todo |-> <<>>]]
      /\ disk = [f \in Files |-> None] /\ profile = <<>> /\ callers = {} /\ attempts = {}
      /\ composed.promoted = FALSE
  BY DEF ProofInit
<1>9. /\ \A p \in Launches : launch[p] = [phase |-> "idle", todo |-> <<>>] /\ launch[p].phase = "idle"
      /\ launch = [p \in Launches |-> launch[p]] /\ disk = [f \in Files |-> disk[f]]
  BY <1>8
<1>10. LaunchInv
  BY <1>8, <1>9 DEF LaunchInv, In, Active
<1>11. ProfileInv
  <2>1. mode.profiles \in Seq([facts : Contents, admitted : SUBSET Sources, expected : STRING])
    BY <1>2 DEF Configurations
  <2>2. mode.profiles # <<>> => Len(mode.profiles) > 0
    BY <2>1
  <2> QED
    BY <1>2, <1>8, <1>9, <2>2 DEF ProfileInv, In
<1>12. AttemptInv /\ SavingInv /\ PromotedInv
  BY <1>8, <1>9 DEF AttemptInv, SavingInv, PromotedInv, In
<1>13. RecordInv
  BY <1>8, FileNames DEF RecordInv
<1> QED
  BY <1>4, <1>5, <1>6, <1>7, <1>10, <1>11, <1>12, <1>13 DEF IInv, GroundInv, ProofInv, LoopInv

LEMMA StepSound ==
  ASSUME IInv, [ProofNext]_<<vars, proofVars>>
  PROVE  IInv'
<1>1. ASSUME NEW p \in Launches,
             \/ Claim(p) \/ WriteClaim(p) \/ SyncDirectory(p) \/ FinishAdvisory(p)
             \/ Save(p) \/ FinishProfile(p) \/ Crash(p)
      PROVE  IInv'
  BY <1>1, ClaimSound, WriteClaimSound, SyncDirectorySound, FinishAdvisorySound, SaveSound,
     FinishProfileSound, CrashSound
<1>2. ASSUME NEW offline \in BOOLEAN, Compose(offline) PROVE IInv'
  BY <1>2, ComposeSound
<1>3. CASE HarnessStep
  BY <1>3, HarnessStepSound
<1>4. CASE PowerLoss
  BY <1>4, PowerLossSound
<1>5. CASE Review \/ UNCHANGED <<vars, proofVars>>
  BY <1>5, ReviewSound
<1> QED
  BY <1>1, <1>2, <1>3, <1>4, <1>5 DEF ProofNext

-----------------------------------------------------------------------------
(* The budget. *)

(* What one loop, and all of them, hold in reserve. *)
Part(held, tokens) == IF held = None THEN 0 ELSE held[tokens]
InReserve(ag, tokens) ==
  Part(ag[Retryable].held, tokens) + Part(ag[Short].held, tokens)
    + Part(ag[Posted].held, tokens) + Part(ag[Synthesis].held, tokens)
    + Part(ag[Evaluator].held, tokens)

(* The ledger, field by field. *)
Shaped(l) ==
  l = [requests |-> l.requests, input |-> l.input, output |-> l.output,
       reservedInput |-> l.reservedInput, reservedOutput |-> l.reservedOutput,
       errors |-> l.errors]

Fields(l) ==
  /\ Shaped(l)
  /\ l.requests \in Int /\ l.input \in Int /\ l.output \in Int
  /\ l.reservedInput \in Int /\ l.reservedOutput \in Int

(* The caps, with f faults of configuration m still to come. *)
Within(m, l, f) ==
  /\ l.requests <= m.budget.requests
  /\ l.input + l.reservedInput <= m.budget.input + (m.faults - f)
  /\ l.output + l.reservedOutput <= m.budget.output
  /\ Cost(l.input + l.reservedInput, l.output + l.reservedOutput)
       <= m.budget.cost + (m.faults - f) * InputPrice

Tokens == [input : Nat, output : Nat]

(* A loop holds a reservation only while its stream is open. *)
OpenOK(r) == r.held # None => r.phase = "streaming" /\ r.held \in Tokens
StreamsOK(ag) == \A a \in Agents : OpenOK(ag[a])

Books(m, ag, l, f) ==
  /\ Fields(l) /\ f \in 0 .. m.faults /\ Within(m, l, f)
  /\ StreamsOK(ag)
  /\ l.reservedInput = InReserve(ag, "input")
  /\ l.reservedOutput = InReserve(ag, "output")

(* The evaluator waits for the synthesis, and an assessment for everyone.  *)
InOrder(ag) == ag[Evaluator].phase # "idle" => ag[Synthesis].phase = "done"
AllReleased(ag) == \A a \in Agents : ag[a].held = None

BudgetInv ==
  /\ Books(mode, agent, ledger, faults) /\ InOrder(agent)
  /\ run.status = "assessed" => AllReleased(agent)

LEMMA CostIs ==
  ASSUME NEW i \in Int, NEW o \in Int
  PROVE  /\ Cost(i, o) \in Int /\ Cost(0, 0) = 0
         /\ Cost(i + 1, o) = Cost(i, o) + InputPrice
<1>1. InputPrice \in Nat /\ OutputPrice \in Nat
  BY PricesAssumption
<1>2. \A x \in Int, n \in Nat : x * n \in Int /\ (x + 1) * n = x * n + n
  OBVIOUS
<1>3. /\ i * InputPrice \in Int /\ o * OutputPrice \in Int
      /\ (i + 1) * InputPrice = i * InputPrice + InputPrice
  BY <1>1, <1>2
<1> QED
  BY <1>1, <1>3 DEF Cost

LEMMA CostGrows ==
  ASSUME NEW i \in Int, NEW o \in Int, NEW j \in Int, NEW p \in Int, i <= j, o <= p
  PROVE  Cost(i, o) <= Cost(j, p)
<1>1. InputPrice \in Nat /\ OutputPrice \in Nat
  BY PricesAssumption
<1>2. ASSUME NEW x \in Int, NEW y \in Int, NEW n \in Nat, x <= y
      PROVE  x * n <= y * n /\ x * n \in Int /\ y * n \in Int
  <2>1. \A d \in Nat : d * n >= 0
    OBVIOUS
  <2>2. y - x \in Nat
    BY <1>2
  <2>3. (y - x) * n >= 0
    BY <2>1, <2>2
  <2>4. (y - x) * n = y * n - x * n
    OBVIOUS
  <2> QED
    BY <2>3, <2>4
<1>3. /\ i * InputPrice <= j * InputPrice
      /\ i * InputPrice \in Int /\ j * InputPrice \in Int
  BY <1>1, <1>2
<1>4. /\ o * OutputPrice <= p * OutputPrice
      /\ o * OutputPrice \in Int /\ p * OutputPrice \in Int
  BY <1>1, <1>2
<1> QED
  BY <1>3, <1>4 DEF Cost

(* A fault may add the price of one input token. *)
LEMMA CostRoom ==
  ASSUME NEW i \in Int, NEW o \in Int, NEW j \in Int, NEW p \in Int,
         NEW cap \in Nat, NEW room \in Nat, NEW room2 \in Nat,
         Cost(i, o) <= cap + room, p <= o,
         \/ j <= i /\ room <= room2
         \/ j <= i + 1 /\ room2 = room + InputPrice
  PROVE  Cost(j, p) <= cap + room2
<1>1. /\ Cost(i, o) \in Int /\ Cost(j, p) \in Int /\ Cost(i + 1, o) \in Int
      /\ Cost(i + 1, o) = Cost(i, o) + InputPrice /\ InputPrice \in Nat
  BY CostIs, PricesAssumption
<1>2. CASE j <= i /\ room <= room2
  <2>1. Cost(j, p) <= Cost(i, o)
    BY <1>2, CostGrows
  <2> QED
    BY <1>1, <1>2, <2>1
<1>3. CASE j <= i + 1 /\ room2 = room + InputPrice
  <2>1. Cost(j, p) <= Cost(i + 1, o)
    BY <1>3, CostGrows
  <2> QED
    BY <1>1, <1>3, <2>1
<1> QED
  BY <1>2, <1>3

(* The room a configuration leaves: what each fault may add is counted.    *)
LEMMA RoomGrows ==
  ASSUME NEW m \in Configurations, NEW f \in 0 .. m.faults
  PROVE  /\ m.faults \in Nat /\ f \in Nat /\ m.faults - f \in Nat
         /\ (m.faults - f) * InputPrice \in Nat
         /\ m.budget.requests \in Nat /\ m.budget.input \in Nat /\ m.budget.output \in Nat
         /\ m.budget.cost \in Nat
         /\ f > 0 => (m.faults - (f - 1)) * InputPrice = (m.faults - f) * InputPrice + InputPrice
<1>1. m.faults \in Nat /\ f \in Nat /\ m.faults - f \in Nat
  BY DEF Configurations
<1>2. InputPrice \in Nat
  BY PricesAssumption
<1>3. \A d \in Nat : d * InputPrice \in Nat /\ (d + 1) * InputPrice = d * InputPrice + InputPrice
  BY <1>2
<1>4. m.faults - (f - 1) = (m.faults - f) + 1
  BY <1>1
<1>5. /\ m.budget.requests \in Nat /\ m.budget.input \in Nat /\ m.budget.output \in Nat
      /\ m.budget.cost \in Nat
  BY DEF Configurations
<1> QED
  BY <1>1, <1>3, <1>4, <1>5

-----------------------------------------------------------------------------
(* The operations of the ledger. *)

(* What each operation writes. *)
LEMMA PutReserved ==
  ASSUME NEW n, NEW i, NEW o, NEW ri, NEW ro, NEW e, NEW l, NEW v, NEW w,
         l = [requests |-> n, input |-> i, output |-> o,
              reservedInput |-> ri, reservedOutput |-> ro, errors |-> e]
  PROVE  [l EXCEPT !.reservedInput = v, !.reservedOutput = w] =
           [requests |-> n, input |-> i, output |-> o,
            reservedInput |-> v, reservedOutput |-> w, errors |-> e]
<1> DEFINE l1 == [l EXCEPT !.reservedInput = v]
<1>1. l1 = [requests |-> n, input |-> i, output |-> o,
            reservedInput |-> v, reservedOutput |-> ro, errors |-> e]
  OBVIOUS
<1> HIDE DEF l1
<1>2. [l1 EXCEPT !.reservedOutput = w] = [requests |-> n, input |-> i, output |-> o,
            reservedInput |-> v, reservedOutput |-> w, errors |-> e]
  BY <1>1
<1> QED
  BY <1>2 DEF l1

LEMMA PutCharged ==
  ASSUME NEW n, NEW i, NEW o, NEW ri, NEW ro, NEW e, NEW l, NEW v, NEW w,
         l = [requests |-> n, input |-> i, output |-> o,
              reservedInput |-> ri, reservedOutput |-> ro, errors |-> e]
  PROVE  [l EXCEPT !.input = v, !.output = w] =
           [requests |-> n, input |-> v, output |-> w,
            reservedInput |-> ri, reservedOutput |-> ro, errors |-> e]
<1> DEFINE l1 == [l EXCEPT !.input = v]
<1>1. l1 = [requests |-> n, input |-> v, output |-> o,
            reservedInput |-> ri, reservedOutput |-> ro, errors |-> e]
  OBVIOUS
<1> HIDE DEF l1
<1>2. [l1 EXCEPT !.output = w] = [requests |-> n, input |-> v, output |-> w,
            reservedInput |-> ri, reservedOutput |-> ro, errors |-> e]
  BY <1>1
<1> QED
  BY <1>2 DEF l1

LEMMA PutRequest ==
  ASSUME NEW n, NEW i, NEW o, NEW ri, NEW ro, NEW e, NEW l, NEW k, NEW v, NEW w,
         l = [requests |-> n, input |-> i, output |-> o,
              reservedInput |-> ri, reservedOutput |-> ro, errors |-> e]
  PROVE  [l EXCEPT !.requests = k, !.reservedInput = v, !.reservedOutput = w] =
           [requests |-> k, input |-> i, output |-> o,
            reservedInput |-> v, reservedOutput |-> w, errors |-> e]
<1> DEFINE l1 == [l EXCEPT !.requests = k]
           l2 == [l1 EXCEPT !.reservedInput = v]
<1>1. l1 = [requests |-> k, input |-> i, output |-> o,
            reservedInput |-> ri, reservedOutput |-> ro, errors |-> e]
  OBVIOUS
<1> HIDE DEF l1
<1>2. l2 = [requests |-> k, input |-> i, output |-> o,
            reservedInput |-> v, reservedOutput |-> ro, errors |-> e]
  BY <1>1
<1> HIDE DEF l2
<1>3. [l2 EXCEPT !.reservedOutput = w] = [requests |-> k, input |-> i, output |-> o,
            reservedInput |-> v, reservedOutput |-> w, errors |-> e]
  BY <1>2
<1> QED
  BY <1>3 DEF l1, l2

LEMMA ReserveFields ==
  ASSUME NEW n, NEW i, NEW o, NEW ri, NEW ro, NEW e, NEW l, NEW r,
         l = [requests |-> n, input |-> i, output |-> o,
              reservedInput |-> ri, reservedOutput |-> ro, errors |-> e]
  PROVE  Reserve(l, r) =
           [requests |-> n + 1, input |-> i, output |-> o, reservedInput |-> ri + r.input,
            reservedOutput |-> ro + r.output, errors |-> e]
<1>1. Reserve(l, r) = [l EXCEPT !.requests = n + 1, !.reservedInput = ri + r.input,
                                !.reservedOutput = ro + r.output]
  BY DEF Reserve
<1> QED
  BY <1>1, PutRequest

LEMMA ReleaseFields ==
  ASSUME NEW n, NEW i, NEW o, NEW ri, NEW ro, NEW e, NEW l, NEW r,
         l = [requests |-> n, input |-> i, output |-> o,
              reservedInput |-> ri, reservedOutput |-> ro, errors |-> e]
  PROVE  Release(l, r) =
           [requests |-> n, input |-> i, output |-> o, reservedInput |-> ri - r.input,
            reservedOutput |-> ro - r.output, errors |-> e]
<1>1. Release(l, r) = [l EXCEPT !.reservedInput = ri - r.input, !.reservedOutput = ro - r.output]
  BY DEF Release
<1> QED
  BY <1>1, PutReserved

LEMMA ChargeFields ==
  ASSUME NEW n, NEW i, NEW o, NEW ri, NEW ro, NEW e, NEW l, NEW u,
         l = [requests |-> n, input |-> i, output |-> o,
              reservedInput |-> ri, reservedOutput |-> ro, errors |-> e]
  PROVE  Charge(l, u) =
           [requests |-> n, input |-> i + u.input, output |-> o + u.output,
            reservedInput |-> ri, reservedOutput |-> ro, errors |-> e]
<1>1. Charge(l, u) = [l EXCEPT !.input = i + u.input, !.output = o + u.output]
  BY DEF Charge
<1> QED
  BY <1>1, PutCharged

(* A ledger that holds no more than before stays within its caps, and each *)
(* fault leaves room for one more input token.                             *)
LEMMA WithinShrinks ==
  ASSUME NEW m \in Configurations, NEW f \in 0 .. m.faults, NEW l, NEW l2,
         Fields(l), Fields(l2), Within(m, l, f),
         l2.requests <= l.requests,
         l2.output + l2.reservedOutput <= l.output + l.reservedOutput,
         NEW f2, \/ /\ f2 = f \/ (f > 0 /\ f2 = f - 1)
                    /\ l2.input + l2.reservedInput <= l.input + l.reservedInput
                 \/ /\ f > 0 /\ f2 = f - 1
                    /\ l2.input + l2.reservedInput <= l.input + l.reservedInput + 1
  PROVE  f2 \in 0 .. m.faults /\ Within(m, l2, f2)
<1> DEFINE i == l.input + l.reservedInput
           o == l.output + l.reservedOutput
           i2 == l2.input + l2.reservedInput
           o2 == l2.output + l2.reservedOutput
           room == (m.faults - f) * InputPrice
           room2 == (m.faults - f2) * InputPrice
<1>1. i \in Int /\ o \in Int /\ i2 \in Int /\ o2 \in Int
  BY DEF Fields
<1>2. f2 \in 0 .. m.faults
  BY RoomGrows
<1>3. /\ room \in Nat /\ room2 \in Nat /\ InputPrice \in Nat
      /\ f2 = f => room2 = room
      /\ f2 = f - 1 /\ f > 0 => room2 = room + InputPrice
  BY <1>2, RoomGrows, PricesAssumption
<1>4. /\ l.requests <= m.budget.requests /\ i <= m.budget.input + (m.faults - f)
      /\ o <= m.budget.output /\ Cost(i, o) <= m.budget.cost + room
  BY DEF Within
<1>5. l2.requests <= m.budget.requests /\ l.requests \in Int /\ l2.requests \in Int
  BY <1>4, RoomGrows DEF Fields
<1>6. i2 <= m.budget.input + (m.faults - f2)
  BY <1>1, <1>2, <1>4, RoomGrows
<1>7. o2 <= m.budget.output
  BY <1>1, <1>4, RoomGrows
<1>8. o2 <= o
  BY DEF Fields
<1>9. m.budget.cost \in Nat
  BY RoomGrows
<1>10. \/ i2 <= i /\ room <= room2
       \/ i2 <= i + 1 /\ room2 = room + InputPrice
  BY <1>3
<1> HIDE DEF i, o, i2, o2, room, room2
<1>11. Cost(i2, o2) <= m.budget.cost + room2
  BY <1>1, <1>3, <1>4, <1>8, <1>9, <1>10, CostRoom
<1> QED
  BY <1>2, <1>5, <1>6, <1>7, <1>11 DEF Within, i2, o2, room2

(* reserve_request: the reservation fits, or the ledger counts an error.   *)
LEMMA ReserveKeeps ==
  ASSUME NEW m \in Configurations, NEW f \in 0 .. m.faults, NEW l, Fields(l), Within(m, l, f),
         NEW length \in Nat, NEW r, r = Reservation(l, m.budget, length, m.ceiling),
         Fits(l, m.budget, r)
  PROVE  /\ r \in Tokens /\ Fields(Reserve(l, r)) /\ Within(m, Reserve(l, r), f)
         /\ Reserve(l, r).reservedInput = l.reservedInput + r.input
         /\ Reserve(l, r).reservedOutput = l.reservedOutput + r.output
<1>1. m.ceiling \in Nat /\ m.budget.perRequest \in Nat /\ m.budget.output \in Nat
  BY DEF Configurations
<1>2. /\ r = [input |-> r.input, output |-> r.output] /\ r.input = length
      /\ r.output = Smaller(Smaller(m.ceiling, m.budget.perRequest),
                            m.budget.output - (l.output + l.reservedOutput))
  BY DEF Reservation
<1>3. /\ r.output \in Int /\ r.output <= m.budget.output - (l.output + l.reservedOutput)
  BY <1>1, <1>2 DEF Smaller, Fields
<1>4. r.output > 0
  BY DEF Fits
<1>5. r \in Tokens
  BY <1>2, <1>3, <1>4 DEF Tokens
<1> DEFINE l2 == Reserve(l, r)
<1>6. l2 = [requests |-> l.requests + 1, input |-> l.input, output |-> l.output,
            reservedInput |-> l.reservedInput + r.input,
            reservedOutput |-> l.reservedOutput + r.output, errors |-> l.errors]
  BY ReserveFields DEF Fields, Shaped
<1>7. /\ l2.requests = l.requests + 1 /\ l2.input = l.input /\ l2.output = l.output
      /\ l2.reservedInput = l.reservedInput + r.input
      /\ l2.reservedOutput = l.reservedOutput + r.output
  BY <1>6
<1> HIDE DEF l2
<1>8. Fields(l2)
  BY <1>2, <1>3, <1>6, <1>7 DEF Fields, Shaped
<1>9. Within(m, l2, f)
  <2> DEFINE i2 == l.input + l.reservedInput + r.input
             o2 == l.output + l.reservedOutput + r.output
             room == (m.faults - f) * InputPrice
  <2>1. i2 = l2.input + l2.reservedInput /\ o2 = l2.output + l2.reservedOutput
        /\ i2 \in Int /\ o2 \in Int
    BY <1>2, <1>3, <1>7 DEF Fields
  <2>2. /\ l.requests < m.budget.requests /\ i2 <= m.budget.input
        /\ Cost(i2, o2) <= m.budget.cost
    BY DEF Fits
  <2>3. /\ room \in Nat /\ m.faults - f \in Nat /\ m.budget.cost \in Nat
        /\ m.budget.requests \in Nat /\ m.budget.input \in Nat
    BY RoomGrows
  <2>4. Cost(i2, o2) \in Int
    BY <2>1, CostIs
  <2>5. o2 <= m.budget.output
    BY <1>1, <1>3 DEF Fields
  <2>6. l2.requests <= m.budget.requests
    BY <1>7, <2>2, <2>3 DEF Fields
  <2> HIDE DEF i2, o2, room
  <2>7. i2 <= m.budget.input + (m.faults - f) /\ Cost(i2, o2) <= m.budget.cost + room
    BY <2>1, <2>2, <2>3, <2>4
  <2> QED
    BY <2>1, <2>5, <2>6, <2>7 DEF Within, room
<1> QED
  BY <1>5, <1>7, <1>8, <1>9 DEF l2

LEMMA RefuseIs ==
  ASSUME NEW l, Fields(l)
  PROVE  /\ Fields(Refuse(l))
         /\ Refuse(l).requests = l.requests
         /\ Refuse(l).input = l.input /\ Refuse(l).output = l.output
         /\ Refuse(l).reservedInput = l.reservedInput
         /\ Refuse(l).reservedOutput = l.reservedOutput
<1>1. Refuse(l) = [requests |-> l.requests, input |-> l.input, output |-> l.output,
                   reservedInput |-> l.reservedInput, reservedOutput |-> l.reservedOutput,
                   errors |-> l.errors + 1]
  BY DEF Refuse, Fields, Shaped
<1> QED
  BY <1>1 DEF Fields, Shaped

(* reconcile and abandon_reservation: the reservation goes, the usage comes. *)
LEMMA ReconcileIs ==
  ASSUME NEW l, Fields(l), NEW r \in Tokens, NEW u \in Tokens, NEW budget, NEW l2,
         l2 = Reconcile(l, budget, r, u)
  PROVE  /\ Fields(l2) /\ l2.requests = l.requests
         /\ l2.input = l.input + u.input /\ l2.output = l.output + u.output
         /\ l2.reservedInput = l.reservedInput - r.input
         /\ l2.reservedOutput = l.reservedOutput - r.output
<1> DEFINE b == Release(l, r)
           c == Charge(b, u)
<1>0. b = [requests |-> l.requests, input |-> l.input, output |-> l.output,
           reservedInput |-> l.reservedInput - r.input,
           reservedOutput |-> l.reservedOutput - r.output, errors |-> l.errors]
  BY ReleaseFields DEF Fields, Shaped
<1> HIDE DEF b
<1>1. c = [requests |-> l.requests, input |-> l.input + u.input, output |-> l.output + u.output,
           reservedInput |-> l.reservedInput - r.input,
           reservedOutput |-> l.reservedOutput - r.output, errors |-> l.errors]
  BY <1>0, ChargeFields
<1>2. /\ r.input \in Nat /\ r.output \in Nat /\ u.input \in Nat /\ u.output \in Nat
  BY DEF Tokens
<1>3. l2 = c \/ l2 = Refuse(c)
  BY DEF Reconcile, b
<1> HIDE DEF c
<1>4. /\ Fields(c) /\ c.requests = l.requests
      /\ c.input = l.input + u.input /\ c.output = l.output + u.output
      /\ c.reservedInput = l.reservedInput - r.input
      /\ c.reservedOutput = l.reservedOutput - r.output
  BY <1>1, <1>2 DEF Fields, Shaped
<1> QED
  BY <1>3, <1>4, RefuseIs

LEMMA AbandonIs ==
  ASSUME NEW l, Fields(l), NEW r \in Tokens, NEW l2, l2 = Abandon(l, r)
  PROVE  /\ Fields(l2) /\ l2.requests = l.requests
         /\ l2.input = l.input /\ l2.output = l.output
         /\ l2.reservedInput = l.reservedInput - r.input
         /\ l2.reservedOutput = l.reservedOutput - r.output
<1> DEFINE c == Release(l, r)
<1>1. c = [requests |-> l.requests, input |-> l.input, output |-> l.output,
           reservedInput |-> l.reservedInput - r.input,
           reservedOutput |-> l.reservedOutput - r.output, errors |-> l.errors]
  BY ReleaseFields DEF Fields, Shaped
<1>2. r.input \in Nat /\ r.output \in Nat
  BY DEF Tokens
<1>3. l2 = Refuse(c)
  BY DEF Abandon
<1> HIDE DEF c
<1>4. /\ Fields(c) /\ c.requests = l.requests /\ c.input = l.input /\ c.output = l.output
      /\ c.reservedInput = l.reservedInput - r.input
      /\ c.reservedOutput = l.reservedOutput - r.output
  BY <1>1, <1>2 DEF Fields, Shaped
<1> QED
  BY <1>3, <1>4, RefuseIs

-----------------------------------------------------------------------------
(* The reservations of the loops. *)

(* One loop moves: what is held in reserve changes by what it holds. *)
LEMMA PartIs ==
  ASSUME NEW r, OpenOK(r)
  PROVE  Part(r.held, "input") \in Nat /\ Part(r.held, "output") \in Nat
BY DEF OpenOK, Part, Tokens

LEMMA ReserveMoves ==
  ASSUME NEW ag, ag = [b \in Agents |-> ag[b]], StreamsOK(ag), NEW a \in Agents,
         NEW n, OpenOK(n), NEW ag2, ag2 = [ag EXCEPT ![a] = n]
  PROVE  /\ StreamsOK(ag2)
         /\ InReserve(ag2, "input")
              = InReserve(ag, "input") - Part(ag[a].held, "input") + Part(n.held, "input")
         /\ InReserve(ag2, "output")
              = InReserve(ag, "output") - Part(ag[a].held, "output") + Part(n.held, "output")
<1>1. \A b \in Agents : ag2[b] = IF b = a THEN n ELSE ag[b]
  OBVIOUS
<1>2. StreamsOK(ag2)
  BY <1>1 DEF StreamsOK
<1>3. Agents = {Retryable, Short, Posted, Synthesis, Evaluator}
  BY DEF Agents, Hypotheses
<1>4. /\ Retryable # Short /\ Retryable # Posted /\ Retryable # Synthesis /\ Retryable # Evaluator
      /\ Short # Posted /\ Short # Synthesis /\ Short # Evaluator
      /\ Posted # Synthesis /\ Posted # Evaluator /\ Synthesis # Evaluator
  BY DEF Retryable, Short, Posted, Synthesis, Evaluator
<1>5. ASSUME NEW t \in {"input", "output"}
      PROVE  InReserve(ag2, t) = InReserve(ag, t) - Part(ag[a].held, t) + Part(n.held, t)
  <2>1. \A b \in Agents : Part(ag[b].held, t) \in Nat
    BY PartIs DEF StreamsOK
  <2>2. Part(n.held, t) \in Nat
    BY PartIs
  <2>3. PICK p, q, v : /\ p = [b \in Agents |-> Part(ag[b].held, t)]
                       /\ q = [b \in Agents |-> Part(ag2[b].held, t)]
                       /\ v = Part(n.held, t)
    OBVIOUS
  <2>4. \A b \in Agents : p[b] \in Nat /\ q[b] = IF b = a THEN v ELSE p[b]
    BY <1>1, <2>1, <2>3
  <2>5. v \in Nat
    BY <2>2, <2>3
  <2>6. q[Retryable] + q[Short] + q[Posted] + q[Synthesis] + q[Evaluator]
          = p[Retryable] + p[Short] + p[Posted] + p[Synthesis] + p[Evaluator] - p[a] + v
    BY ONLY a \in Agents, <1>3, <1>4, <2>4, <2>5
  <2>7. /\ InReserve(ag2, t) = q[Retryable] + q[Short] + q[Posted] + q[Synthesis] + q[Evaluator]
        /\ InReserve(ag, t) = p[Retryable] + p[Short] + p[Posted] + p[Synthesis] + p[Evaluator]
        /\ p[a] = Part(ag[a].held, t)
    BY <1>3, <2>3 DEF InReserve
  <2>8. v = Part(n.held, t)
    BY <2>3
  <2>9. p[a] \in Nat /\ \A b \in Agents : p[b] \in Nat /\ q[b] \in Nat
    BY <2>4, <2>5
  <2>10. PICK x, y : /\ x = p[Retryable] + p[Short] + p[Posted] + p[Synthesis] + p[Evaluator]
                     /\ y = q[Retryable] + q[Short] + q[Posted] + q[Synthesis] + q[Evaluator]
    OBVIOUS
  <2>11. y = x - p[a] + v
    BY ONLY <2>6, <2>10, <1>3, <2>5, <2>9
  <2>12. InReserve(ag2, t) = y /\ InReserve(ag, t) = x
    BY ONLY <2>7, <2>10
  <2> QED
    BY ONLY <2>7, <2>8, <2>11, <2>12
<1> QED
  BY <1>2, <1>5

LEMMA NothingHeld ==
  ASSUME NEW ag, AllReleased(ag)
  PROVE  StreamsOK(ag) /\ InReserve(ag, "input") = 0 /\ InReserve(ag, "output") = 0
BY DEF AllReleased, StreamsOK, OpenOK, InReserve, Part, Agents, Hypotheses

(* The ledger moves with one loop. *)
LEMMA BooksMove ==
  ASSUME NEW m \in Configurations, NEW ag, ag = [b \in Agents |-> ag[b]], NEW l, NEW f,
         Books(m, ag, l, f), NEW a \in Agents, NEW n, OpenOK(n),
         NEW ag2, ag2 = [ag EXCEPT ![a] = n], NEW l2, NEW f2,
         Fields(l2), f2 \in 0 .. m.faults, Within(m, l2, f2),
         l2.reservedInput
           = l.reservedInput - Part(ag[a].held, "input") + Part(n.held, "input"),
         l2.reservedOutput
           = l.reservedOutput - Part(ag[a].held, "output") + Part(n.held, "output")
  PROVE  Books(m, ag2, l2, f2)
BY ReserveMoves DEF Books

(* A loop whose stream ends holds nothing any more; the ledger has settled *)
(* its reservation with usage u, and counts k more tokens than were held.  *)
LEMMA BooksSettle ==
  ASSUME NEW m \in Configurations, NEW ag, ag = [b \in Agents |-> ag[b]], NEW l, NEW f,
         Books(m, ag, l, f), NEW a \in Agents, NEW n, n.held = None, ag[a].held # None,
         NEW ag2, ag2 = [ag EXCEPT ![a] = n],
         NEW u \in Tokens, NEW l2, Fields(l2), l2.requests = l.requests,
         l2.input = l.input + u.input, l2.output = l.output + u.output,
         l2.reservedInput = l.reservedInput - ag[a].held.input,
         l2.reservedOutput = l.reservedOutput - ag[a].held.output,
         u.output <= ag[a].held.output,
         NEW f2, \/ (f2 = f \/ (f > 0 /\ f2 = f - 1)) /\ u.input <= ag[a].held.input
                 \/ f > 0 /\ f2 = f - 1 /\ u.input <= ag[a].held.input + 1
  PROVE  Books(m, ag2, l2, f2)
<1> DEFINE r == ag[a].held
<1>1. r \in Tokens /\ Fields(l) /\ f \in 0 .. m.faults /\ Within(m, l, f)
  BY DEF Books, StreamsOK, OpenOK
<1>2. /\ r.input \in Nat /\ r.output \in Nat /\ u.input \in Nat /\ u.output \in Nat
  BY <1>1 DEF Tokens
<1>3. /\ l.input \in Int /\ l.output \in Int /\ l.reservedInput \in Int /\ l.reservedOutput \in Int
      /\ l.requests \in Int
  BY <1>1 DEF Fields
<1> HIDE DEF r
<1>4. /\ l2.output + l2.reservedOutput <= l.output + l.reservedOutput
      /\ l2.requests <= l.requests
      /\ \/ /\ f2 = f \/ (f > 0 /\ f2 = f - 1)
            /\ l2.input + l2.reservedInput <= l.input + l.reservedInput
         \/ /\ f > 0 /\ f2 = f - 1
            /\ l2.input + l2.reservedInput <= l.input + l.reservedInput + 1
  BY <1>2, <1>3 DEF r
<1>5. f2 \in 0 .. m.faults /\ Within(m, l2, f2)
  BY <1>1, <1>4, WithinShrinks
<1>6. OpenOK(n) /\ Part(n.held, "input") = 0 /\ Part(n.held, "output") = 0
  BY DEF OpenOK, Part
<1>7. Part(ag[a].held, "input") = ag[a].held.input /\ Part(ag[a].held, "output") = ag[a].held.output
  BY DEF Part
<1>8. /\ l2.reservedInput = l.reservedInput - Part(ag[a].held, "input") + Part(n.held, "input")
      /\ l2.reservedOutput = l.reservedOutput - Part(ag[a].held, "output") + Part(n.held, "output")
  BY <1>2, <1>3, <1>6, <1>7 DEF r
<1> QED
  BY <1>5, <1>6, <1>8, BooksMove

(* A loop that held nothing, and a ledger that at most counts an error.    *)
LEMMA BooksStay ==
  ASSUME NEW m \in Configurations, NEW ag, ag = [b \in Agents |-> ag[b]], NEW l, NEW f,
         Books(m, ag, l, f), NEW a \in Agents, NEW n, n.held = None, ag[a].held = None,
         NEW ag2, ag2 = [ag EXCEPT ![a] = n],
         NEW l2, l2 = l \/ l2 = Refuse(l), NEW f2, f2 = f \/ (f > 0 /\ f2 = f - 1)
  PROVE  Books(m, ag2, l2, f2)
<1>1. Fields(l) /\ f \in 0 .. m.faults /\ Within(m, l, f)
  BY DEF Books
<1>2. /\ Fields(l2) /\ l2.requests = l.requests
      /\ l2.input = l.input /\ l2.output = l.output
      /\ l2.reservedInput = l.reservedInput /\ l2.reservedOutput = l.reservedOutput
  BY <1>1, RefuseIs
<1>3. /\ l.input \in Int /\ l.output \in Int /\ l.reservedInput \in Int /\ l.reservedOutput \in Int
      /\ l.requests \in Int
  BY <1>1 DEF Fields
<1>4. f2 \in 0 .. m.faults /\ Within(m, l2, f2)
  <2>1. /\ l2.requests <= l.requests
        /\ l2.output + l2.reservedOutput <= l.output + l.reservedOutput
        /\ l2.input + l2.reservedInput <= l.input + l.reservedInput
    BY <1>2, <1>3
  <2> QED
    BY <1>1, <1>2, <2>1, WithinShrinks
<1>5. OpenOK(n) /\ Part(n.held, "input") = 0 /\ Part(n.held, "output") = 0
      /\ Part(ag[a].held, "input") = 0 /\ Part(ag[a].held, "output") = 0
  BY DEF OpenOK, Part
<1>6. /\ l2.reservedInput = l.reservedInput - Part(ag[a].held, "input") + Part(n.held, "input")
      /\ l2.reservedOutput = l.reservedOutput - Part(ag[a].held, "output") + Part(n.held, "output")
  BY <1>2, <1>3, <1>5
<1> QED
  BY <1>2, <1>4, <1>5, <1>6, BooksMove

(* A harness that was just built on a ledger in which nothing is reserved. *)
LEMMA EmptyBooks ==
  ASSUME NEW m \in Configurations, NEW ag, AllReleased(ag), NEW f \in 0 .. m.faults
  PROVE  Books(m, ag, EmptyLedger, f)
<1> DEFINE l == EmptyLedger
<1>1. l = [requests |-> 0, input |-> 0, output |-> 0,
           reservedInput |-> 0, reservedOutput |-> 0, errors |-> 0]
  BY DEF EmptyLedger
<1> HIDE DEF l
<1>2. Fields(l) /\ l.requests = 0 /\ l.input + l.reservedInput = 0 /\ l.output + l.reservedOutput = 0
      /\ l.reservedInput = 0 /\ l.reservedOutput = 0
  BY <1>1 DEF Fields, Shaped
<1>3. Cost(0, 0) = 0
  BY CostIs
<1>4. Within(m, l, f)
  BY <1>2, <1>3, RoomGrows DEF Within
<1> QED
  BY <1>2, <1>4, NothingHeld DEF Books, l

LEMMA HeldBy ==
  /\ Idle.held = None
  /\ \A k : Fresh(k).held = None
  /\ \A a, p, reads, result : Settled(a, p, reads, result).held = None
  /\ \A a, p, reads, result : Settled(a, p, reads, result).phase = p
<1>1. \A k : Fresh(k).held = None /\ Row(Fresh(k))
  BY FreshRow DEF Fresh
<1>2. Idle.held = None
  BY <1>1 DEF Idle, Row
<1>3. ASSUME NEW a, NEW p, NEW reads, NEW result
      PROVE  Settled(a, p, reads, result).held = None
  <2>1. Row(Idle)
    BY IdleRow
  <2> QED
    BY <1>2, <2>1 DEF Settled, Row
<1> QED
  BY <1>1, <1>2, <1>3, SettledRow

-----------------------------------------------------------------------------
(* The steps of the harness. *)

LEMMA BudgetParts ==
  ASSUME GroundInv, BudgetInv, NEW a \in Agents
  PROVE  /\ mode \in Configurations /\ agent = [b \in Agents |-> agent[b]] /\ Row(agent[a])
         /\ Books(mode, agent, ledger, faults) /\ StreamsOK(agent) /\ OpenOK(agent[a])
         /\ Fields(ledger) /\ faults \in 0 .. mode.faults /\ Within(mode, ledger, faults)
         /\ InOrder(agent)
         /\ agent[a].phase # "streaming" => agent[a].held = None
         /\ agent[a].held # None => agent[a].held \in Tokens
BY GroundParts DEF BudgetInv, Books, StreamsOK, OpenOK

(* One loop moves and the books are in order. *)
LEMMA BudgetMoves ==
  ASSUME GroundInv, BudgetInv, NEW a \in Agents, NEW n, agent' = [agent EXCEPT ![a] = n],
         agent[a].phase # "done", UNCHANGED mode,
         a = Evaluator => agent[Synthesis].phase = "done",
         Books(mode, agent', ledger', faults'),
         run'.status = "assessed" => a = Evaluator /\ n.held = None
  PROVE  BudgetInv'
<1>1. \A b \in Agents : agent'[b] = IF b = a THEN n ELSE agent[b]
  BY GroundParts
<1>2. Synthesis \in Agents /\ Evaluator \in Agents /\ Synthesis # Evaluator
      /\ Evaluator \notin Hypotheses /\ Synthesis \notin Hypotheses
  BY DEF Agents, Hypotheses, Retryable, Short, Posted, Synthesis, Evaluator
<1>3. InOrder(agent')
  BY <1>1, <1>2, BudgetParts DEF InOrder
<1>4. ASSUME run'.status = "assessed" PROVE AllReleased(agent')
  <2>1. a = Evaluator /\ n.held = None /\ agent[Synthesis].phase = "done"
    BY <1>4
  <2>2. Gathered(mode, agent)
    BY <2>1 DEF GroundInv, StageInv
  <2>3. \A b \in Agents : b # Evaluator => agent[b].phase = "done"
    BY <2>1, <2>2 DEF Gathered, Agents
  <2>4. \A b \in Agents : b # Evaluator => agent[b].held = None
    BY <2>3, BudgetParts
  <2> QED
    BY <1>1, <2>1, <2>4 DEF AllReleased
<1>5. Books(mode', agent', ledger', faults')
  OBVIOUS
<1> QED
  BY <1>3, <1>4, <1>5 DEF BudgetInv

(* An evaluator at work follows a synthesis that is done. *)
LEMMA EvaluatorWaits ==
  ASSUME GroundInv, BudgetInv, NEW a \in Agents, agent[a].phase \in Working
  PROVE  /\ agent[a].phase # "done"
         /\ a = Evaluator => agent[Synthesis].phase = "done"
BY BudgetParts DEF InOrder, Working

LEMMA FailedMoves ==
  ASSUME GroundInv, NEW a \in Agents, FailedStep(a)
  PROVE  /\ run'.status # "assessed"
         /\ \E n : n.held = None /\ agent' = [agent EXCEPT ![a] = n]
<1>1. run'.status # "assessed"
  BY GroundParts DEF FailedStep, Running
<1> QED
  BY <1>1, HeldBy DEF FailedStep

LEMMA FailedBudget ==
  ASSUME GroundInv, BudgetInv, NEW a \in Agents, FailedStep(a),
         Books(mode, agent', ledger', faults')
  PROVE  BudgetInv'
<1>1. PICK n : n.held = None /\ agent' = [agent EXCEPT ![a] = n]
  BY FailedMoves
<1>2. run'.status # "assessed"
  BY FailedMoves
<1>3. agent[a].phase \in Working /\ UNCHANGED mode
  BY DEF FailedStep
<1> QED
  BY <1>1, <1>2, <1>3, EvaluatorWaits, BudgetMoves

LEMMA StartBudget ==
  ASSUME GroundInv, BudgetInv, NEW a \in Agents, Running, agent[a].phase = "idle",
         a = Evaluator => agent[Synthesis].phase = "done",
         agent' = [agent EXCEPT ![a] = Fresh(1)], UNCHANGED <<mode, ledger, run, faults>>
  PROVE  BudgetInv'
<1>1. agent[a].held = None /\ Fresh(1).held = None
  BY BudgetParts, HeldBy
<1>2. Books(mode, agent', ledger', faults')
  BY <1>1, BudgetParts, BooksStay
<1>3. run'.status # "assessed"
  BY DEF Running
<1> QED
  BY <1>2, <1>3, BudgetMoves

LEMMA OpenRequestBudget ==
  ASSUME GroundInv, BudgetInv, NEW a \in Agents, NEW length \in mode.lengths,
         OpenRequest(a, length)
  PROVE  BudgetInv'
<1> DEFINE r == Reservation(ledger, mode.budget, length, mode.ceiling)
           open == agent' = [agent EXCEPT ![a].phase = "streaming", ![a].turns = @ + 1]
           held == agent' = [agent EXCEPT ![a].phase = "streaming", ![a].turns = @ + 1,
                                          ![a].held = r]
<1>1. Running /\ agent[a].phase = "turn" /\ UNCHANGED <<mode, faults>>
  BY DEF OpenRequest
<1>2. \/ open /\ UNCHANGED <<ledger, run>>
      \/ held /\ UNCHANGED run /\ Fits(ledger, mode.budget, r) /\ ledger' = Reserve(ledger, r)
      \/ AttemptFails(a, FALSE, {}) /\ ledger' = Refuse(ledger)
  <2> HIDE DEF r
  <2> QED
    BY DEF OpenRequest, r
<1>3. agent[a].held = None /\ agent[a].phase \in Working /\ run.status # "assessed"
  BY <1>1, BudgetParts DEF Working, Running
<1> HIDE DEF r
<1>4. CASE open /\ UNCHANGED <<ledger, run>>
  <2> DEFINE n == [[agent[a] EXCEPT !.phase = "streaming"] EXCEPT !.turns = agent[a].turns + 1]
  <2>1. agent' = [agent EXCEPT ![a] = n]
    BY <1>4, GroundParts
  <2>2. n.held = None
    BY <1>3, GroundParts DEF Row
  <2> HIDE DEF n
  <2>3. Books(mode, agent', ledger', faults')
    <3>1. ledger' = ledger /\ faults' = faults
      BY <1>1, <1>4
    <3>2. /\ mode \in Configurations /\ agent = [b \in Agents |-> agent[b]]
          /\ Books(mode, agent, ledger, faults)
      BY BudgetParts
    <3> QED
      BY ONLY a \in Agents, <1>3, <2>1, <2>2, <3>1, <3>2, BooksStay
  <2> QED
    BY <1>1, <1>3, <1>4, <2>1, <2>3, EvaluatorWaits, BudgetMoves
<1>5. CASE held /\ UNCHANGED run /\ Fits(ledger, mode.budget, r) /\ ledger' = Reserve(ledger, r)
  <2> DEFINE n2 == [[agent[a] EXCEPT !.phase = "streaming"] EXCEPT !.turns = agent[a].turns + 1]
             n == [n2 EXCEPT !.held = r]
  <2>1. agent' = [agent EXCEPT ![a] = n]
    BY <1>5, GroundParts
  <2>2. n.held = r /\ n.phase = "streaming"
    BY GroundParts DEF Row
  <2> HIDE DEF n
  <2>3. length \in Nat
    BY GroundParts DEF Configurations
  <2>4. /\ r \in Tokens /\ Fields(ledger') /\ Within(mode, ledger', faults)
        /\ ledger'.reservedInput = ledger.reservedInput + r.input
        /\ ledger'.reservedOutput = ledger.reservedOutput + r.output
    BY <1>5, <2>3, BudgetParts, ReserveKeeps DEF r
  <2>5. r # None /\ OpenOK(n)
    BY <2>2, <2>4, NoReservationAssumption DEF OpenOK, Tokens
  <2>6. /\ Part(n.held, "input") = r.input /\ Part(n.held, "output") = r.output
        /\ Part(agent[a].held, "input") = 0 /\ Part(agent[a].held, "output") = 0
    BY <1>3, <2>2, <2>5 DEF Part
  <2>7. /\ ledger.reservedInput \in Int /\ ledger.reservedOutput \in Int
        /\ r.input \in Nat /\ r.output \in Nat
    BY <2>4, BudgetParts DEF Fields, Tokens
  <2>8. /\ ledger'.reservedInput
             = ledger.reservedInput - Part(agent[a].held, "input") + Part(n.held, "input")
        /\ ledger'.reservedOutput
             = ledger.reservedOutput - Part(agent[a].held, "output") + Part(n.held, "output")
    BY <2>4, <2>6, <2>7
  <2>9. Books(mode, agent', ledger', faults')
    <3>1. faults' = faults
      BY <1>1
    <3>2. /\ mode \in Configurations /\ agent = [b \in Agents |-> agent[b]]
          /\ Books(mode, agent, ledger, faults) /\ faults \in 0 .. mode.faults
      BY BudgetParts
    <3> QED
      BY ONLY a \in Agents, <2>1, <2>4, <2>5, <2>8, <3>1, <3>2, BooksMove
  <2> QED
    BY <1>1, <1>3, <1>5, <2>1, <2>9, EvaluatorWaits, BudgetMoves
<1>6. CASE AttemptFails(a, FALSE, {}) /\ ledger' = Refuse(ledger)
  <2>1. FailedStep(a)
    BY <1>1, <1>3, <1>6, FailsAre
  <2>2. PICK n : n.held = None /\ agent' = [agent EXCEPT ![a] = n]
    BY <2>1, FailedMoves
  <2>3. Books(mode, agent', ledger', faults')
    BY <1>1, <1>3, <1>6, <2>2, BudgetParts, BooksStay
  <2> QED
    BY <2>1, <2>3, FailedBudget
<1> QED
  BY <1>2, <1>4, <1>5, <1>6

(* A stream that ends within its reservation. *)
LEMMA StreamBooks ==
  ASSUME GroundInv, BudgetInv, NEW a \in Agents, StreamEnds(a),
         NEW n, n.held = None, agent' = [agent EXCEPT ![a] = n]
  PROVE  Books(mode, agent', ledger', faults')
<1>1. UNCHANGED faults
  BY DEF StreamEnds
<1>2. CASE agent[a].held = None
  BY <1>1, <1>2, BudgetParts, BooksStay DEF StreamEnds
<1>3. CASE agent[a].held # None
  <2>1. PICK output \in mode.outputs :
          LET usage == [input |-> agent[a].held.input, output |-> output]
          IN  /\ ~ Overspends(ledger, mode.budget, agent[a].held, usage)
              /\ ledger' = Reconcile(ledger, mode.budget, agent[a].held, usage)
    BY <1>3 DEF StreamEnds
  <2> DEFINE u == [input |-> agent[a].held.input, output |-> output]
             r == agent[a].held
  <2>2. output \in Nat /\ r \in Tokens /\ r.input \in Nat /\ r.output \in Nat
    BY <1>3, BudgetParts DEF Configurations, Tokens
  <2>3. u \in Tokens /\ u.input = r.input /\ u.output = output
    BY <2>2 DEF Tokens
  <2> HIDE DEF u
  <2>4. ~ Overspends(ledger, mode.budget, r, u) /\ ledger' = Reconcile(ledger, mode.budget, r, u)
    BY <2>1 DEF u
  <2>5. u.output <= r.output /\ u.input <= r.input
    BY <2>2, <2>3, <2>4 DEF Overspends
  <2>6. /\ Fields(ledger') /\ ledger'.requests = ledger.requests
        /\ ledger'.input = ledger.input + u.input /\ ledger'.output = ledger.output + u.output
        /\ ledger'.reservedInput = ledger.reservedInput - r.input
        /\ ledger'.reservedOutput = ledger.reservedOutput - r.output
    BY <2>2, <2>3, <2>4, BudgetParts, ReconcileIs
  <2> QED
    BY <1>1, <1>3, <2>3, <2>5, <2>6, BudgetParts, BooksSettle
<1> QED
  BY <1>2, <1>3

LEMMA NextHeld ==
  ASSUME NEW more, "held" \in DOMAIN more
  PROVE  [more EXCEPT !.phase = "turn", !.held = None].held = None
OBVIOUS

LEMMA TurnBudget ==
  ASSUME GroundInv, BudgetInv, NEW a \in Agents, StreamEnds(a), UNCHANGED run,
         NEW more, "held" \in DOMAIN more, NextTurn(a, more)
  PROVE  BudgetInv'
<1> DEFINE n == [more EXCEPT !.phase = "turn", !.held = None]
<1>1. n.held = None /\ agent' = [agent EXCEPT ![a] = n]
  BY NextHeld DEF NextTurn
<1> HIDE DEF n
<1>2. Books(mode, agent', ledger', faults')
  BY <1>1, StreamBooks
<1>3. agent[a].phase \in Working /\ run'.status # "assessed" /\ UNCHANGED mode
  BY DEF StreamEnds, Working, Running
<1> QED
  BY <1>1, <1>2, <1>3, EvaluatorWaits, BudgetMoves

LEMMA ReadSearchBudget ==
  ASSUME GroundInv, BudgetInv, NEW h \in Hypotheses,
         \/ \E ids : ReadTurn(h, ids)
         \/ \E current : SearchTurn(h, current)
  PROVE  BudgetInv'
<1>0. \A r : Row(r) => "held" \in DOMAIN r
  BY DEF Row
<1>1. h \in Agents /\ "held" \in DOMAIN agent[h]
  <2>1. h \in Agents
    BY DEF Agents
  <2> QED
    BY <1>0, <2>1, GroundParts
<1>2. ASSUME NEW ids, ReadTurn(h, ids) PROVE BudgetInv'
  <2>1. PICK accepted : NextTurn(h, [agent[h] EXCEPT !.reads = @ \cup accepted,
                                                     !.readCount = @ + Cardinality(accepted),
                                                     !.bad = @ \/ accepted # ids])
    BY <1>2 DEF ReadTurn
  <2>2. DOMAIN [agent[h] EXCEPT !.reads = @ \cup accepted,
                                !.readCount = @ + Cardinality(accepted),
                                !.bad = @ \/ accepted # ids] = DOMAIN agent[h]
    OBVIOUS
  <2> QED
    BY <1>1, <1>2, <2>1, <2>2, TurnBudget DEF ReadTurn
<1>3. ASSUME NEW current, SearchTurn(h, current) PROVE BudgetInv'
  <2> DEFINE more == IF agent[h].searches < mode.searches /\ current
                     THEN [agent[h] EXCEPT !.searches = @ + 1]
                     ELSE [agent[h] EXCEPT !.bad = TRUE]
  <2>1. NextTurn(h, more)
    BY <1>3 DEF SearchTurn
  <2>2. DOMAIN more = DOMAIN agent[h]
    OBVIOUS
  <2> HIDE DEF more
  <2> QED
    BY <1>1, <1>3, <2>1, <2>2, TurnBudget DEF SearchTurn
<1> QED
  BY <1>2, <1>3

(* An answer that is accepted, or that fails the attempt. *)
LEMMA AnswerBudget ==
  ASSUME GroundInv, BudgetInv, NEW a \in Agents, StreamEnds(a),
         \/ FailedStep(a)
         \/ /\ \E reads, answer : agent' = [agent EXCEPT ![a] = Settled(a, "done", reads, answer)]
            /\ run'.status = "assessed" => a = Evaluator
  PROVE  BudgetInv'
<1>1. agent[a].phase \in Working /\ UNCHANGED mode
  BY DEF StreamEnds, Working
<1>2. CASE FailedStep(a)
  <2>1. PICK n : n.held = None /\ agent' = [agent EXCEPT ![a] = n]
    BY <1>2, FailedMoves
  <2> QED
    BY <1>2, <2>1, StreamBooks, FailedBudget
<1>3. CASE /\ \E reads, answer : agent' = [agent EXCEPT ![a] = Settled(a, "done", reads, answer)]
           /\ run'.status = "assessed" => a = Evaluator
  <2>0. PICK reads, answer : agent' = [agent EXCEPT ![a] = Settled(a, "done", reads, answer)]
    BY <1>3
  <2>1. PICK n : n.held = None /\ agent' = [agent EXCEPT ![a] = n]
    <3>1. Settled(a, "done", reads, answer).held = None
      BY HeldBy
    <3> QED
      BY <2>0, <3>1
  <2>2. Books(mode, agent', ledger', faults')
    BY <2>1, StreamBooks
  <2> QED
    BY <1>1, <1>3, <2>1, <2>2, EvaluatorWaits, BudgetMoves
<1> QED
  BY <1>2, <1>3

LEMMA AnswersBudget ==
  ASSUME GroundInv, BudgetInv,
         \/ \E h \in Hypotheses : \E r, corrections : AnswerInvestigator(h, r, corrections)
         \/ \E s, corrections : AnswerSynthesis(s, corrections)
         \/ \E e, corrections : AnswerEvaluator(e, corrections)
  PROVE  BudgetInv'
<1>1. ASSUME NEW h \in Hypotheses, NEW r, NEW corrections, AnswerInvestigator(h, r, corrections)
      PROVE  BudgetInv'
  <2>1. StreamEnds(h) /\ h \in Agents
    BY <1>1 DEF AnswerInvestigator, Agents
  <2>2. Running /\ agent[h].phase \in Working /\ UNCHANGED mode
    BY <2>1 DEF StreamEnds, Working
  <2>3. \/ AttemptFails(h, ~mode.chat, {}) \/ AttemptFails(h, FALSE, {})
        \/ /\ agent' = [agent EXCEPT ![h] = Settled(h, "done", agent[h].reads, r)]
           /\ run' = run \/ run' = [run EXCEPT !.status = "chat"]
    BY <1>1 DEF AnswerInvestigator
  <2>4. CASE AttemptFails(h, ~mode.chat, {}) \/ AttemptFails(h, FALSE, {})
    <3>1. FailedStep(h)
      BY <2>2, <2>4 DEF AttemptFails, FailedStep, Working, Completed, Started, Event
    <3> QED
      BY <2>1, <3>1, AnswerBudget
  <2>5. CASE /\ agent' = [agent EXCEPT ![h] = Settled(h, "done", agent[h].reads, r)]
             /\ run' = run \/ run' = [run EXCEPT !.status = "chat"]
    <3>1. run'.status # "assessed"
      BY <2>1, <2>2, <2>5, GroundParts DEF Running
    <3> QED
      BY <2>1, <2>5, <3>1, AnswerBudget
  <2> QED
    BY <2>3, <2>4, <2>5
<1>2. ASSUME NEW s, NEW corrections, AnswerSynthesis(s, corrections) PROVE BudgetInv'
  <2> DEFINE told == {Completed(Synthesis, "COMPLETED")}
  <2>1. StreamEnds(Synthesis) /\ Synthesis \in Agents
    BY <1>2 DEF AnswerSynthesis, Agents
  <2>2. Running /\ agent[Synthesis].phase \in Working /\ UNCHANGED mode
    BY <2>1 DEF StreamEnds, Working
  <2>3. \/ AttemptFails(Synthesis, TRUE, told) \/ AttemptFails(Synthesis, FALSE, told)
        \/ /\ agent' = [agent EXCEPT ![Synthesis] = Settled(Synthesis, "done", {}, s)]
           /\ UNCHANGED run
    BY <1>2 DEF AnswerSynthesis
  <2>4. CASE AttemptFails(Synthesis, TRUE, told) \/ AttemptFails(Synthesis, FALSE, told)
    <3>1. FailedStep(Synthesis)
      BY <2>2, <2>4 DEF AttemptFails, FailedStep, Working, Completed, Started, Event
    <3> QED
      BY <2>1, <3>1, AnswerBudget
  <2>5. CASE /\ agent' = [agent EXCEPT ![Synthesis] = Settled(Synthesis, "done", {}, s)]
             /\ UNCHANGED run
    <3>1. run'.status # "assessed"
      BY <2>2, <2>5 DEF Running
    <3> QED
      BY <2>1, <2>5, <3>1, AnswerBudget
  <2> QED
    BY <2>3, <2>4, <2>5
<1>3. ASSUME NEW e, NEW corrections, AnswerEvaluator(e, corrections) PROVE BudgetInv'
  <2> DEFINE told == {Completed(Evaluator, "COMPLETED")}
  <2>1. StreamEnds(Evaluator) /\ Evaluator \in Agents
    BY <1>3 DEF AnswerEvaluator, Agents
  <2>2. Running /\ agent[Evaluator].phase \in Working /\ UNCHANGED mode
    BY <2>1 DEF StreamEnds, Working
  <2>3. \/ AttemptFails(Evaluator, TRUE, told) \/ AttemptFails(Evaluator, FALSE, told)
        \/ agent' = [agent EXCEPT ![Evaluator] = Settled(Evaluator, "done", {}, e)]
    BY <1>3 DEF AnswerEvaluator
  <2>4. CASE AttemptFails(Evaluator, TRUE, told) \/ AttemptFails(Evaluator, FALSE, told)
    <3>1. FailedStep(Evaluator)
      BY <2>2, <2>4 DEF AttemptFails, FailedStep, Working, Completed, Started, Event
    <3> QED
      BY <2>1, <3>1, AnswerBudget
  <2>5. CASE agent' = [agent EXCEPT ![Evaluator] = Settled(Evaluator, "done", {}, e)]
    BY <2>1, <2>5, AnswerBudget
  <2> QED
    BY <2>3, <2>4, <2>5
<1> QED
  BY <1>1, <1>2, <1>3

(* An open stream that is cut off is settled with the usage seen so far. *)
LEMMA CutOffIs ==
  ASSUME GroundInv, BudgetInv, NEW a \in Agents, NEW l, Fields(l)
  PROVE  /\ Fields(CutOff(a, l)) /\ CutOff(a, l).requests = l.requests
         /\ CutOff(a, l).input = l.input /\ CutOff(a, l).output = l.output
         /\ CutOff(a, l).reservedInput = l.reservedInput - Part(agent[a].held, "input")
         /\ CutOff(a, l).reservedOutput = l.reservedOutput - Part(agent[a].held, "output")
<1>1. /\ l.input \in Int /\ l.output \in Int /\ l.reservedInput \in Int /\ l.reservedOutput \in Int
  BY DEF Fields
<1>2. CASE agent[a].held = None
  BY <1>1, <1>2 DEF CutOff, Part
<1>3. CASE agent[a].held # None
  <2> DEFINE u == [input |-> 0, output |-> 0]
  <2>1. u \in Tokens /\ u.input = 0 /\ u.output = 0
    BY DEF Tokens
  <2> HIDE DEF u
  <2>2. agent[a].held \in Tokens
    BY <1>3, BudgetParts
  <2>3. CutOff(a, l) = Reconcile(l, mode.budget, agent[a].held, u)
    BY <1>3 DEF CutOff, u
  <2>4. PICK l2 : l2 = CutOff(a, l)
    OBVIOUS
  <2>5. /\ Fields(l2) /\ l2.requests = l.requests
        /\ l2.input = l.input + u.input /\ l2.output = l.output + u.output
        /\ l2.reservedInput = l.reservedInput - agent[a].held.input
        /\ l2.reservedOutput = l.reservedOutput - agent[a].held.output
    BY <2>1, <2>2, <2>3, <2>4, ReconcileIs
  <2>6. /\ Part(agent[a].held, "input") = agent[a].held.input
        /\ Part(agent[a].held, "output") = agent[a].held.output
    BY <1>3 DEF Part
  <2>7. l2.input = l.input /\ l2.output = l.output
    BY <1>1, <2>1, <2>5
  <2> QED
    BY <2>4, <2>5, <2>6, <2>7
<1> QED
  BY <1>2, <1>3

LEMMA FaultBudget ==
  ASSUME GroundInv, BudgetInv, NEW a \in Agents,
         TimeOut(a) \/ ProviderFails(a) \/ MalformedUsage(a) \/ UsageOverrun(a) \/ NoAnswer(a)
  PROVE  BudgetInv'
<1>1. Running /\ agent[a].phase \in Working /\ UNCHANGED mode
  BY DEF TimeOut, ProviderFails, MalformedUsage, UsageOverrun, NoAnswer, Fault, Working
<1>2. FailedStep(a)
  <2>1. \E k \in BOOLEAN : AttemptFails(a, k, {})
    <3>1. CASE TimeOut(a)
      <4> DEFINE k == ~mode.chat /\ ledger'.errors = ledger.errors
      <4>1. AttemptFails(a, k, {}) /\ k \in BOOLEAN
        BY <3>1 DEF TimeOut
      <4> QED
        BY <4>1
    <3>2. CASE ProviderFails(a) \/ MalformedUsage(a) \/ UsageOverrun(a)
      BY <3>2 DEF ProviderFails, MalformedUsage, UsageOverrun
    <3>3. CASE NoAnswer(a)
      <4> DEFINE k == ~mode.chat
      <4>1. AttemptFails(a, k, {}) /\ k \in BOOLEAN
        BY <3>3 DEF NoAnswer
      <4> QED
        BY <4>1
    <3> QED
      BY <3>1, <3>2, <3>3
  <2> QED
    BY <1>1, <2>1, FailsAre
<1>3. PICK n : n.held = None /\ agent' = [agent EXCEPT ![a] = n]
  BY <1>2, FailedMoves
<1>4. /\ mode \in Configurations /\ agent = [b \in Agents |-> agent[b]]
      /\ Books(mode, agent, ledger, faults) /\ Fields(ledger)
      /\ ledger.input \in Int /\ ledger.output \in Int
      /\ agent[a].held # None =>
           /\ agent[a].held \in Tokens
           /\ agent[a].held.input \in Nat /\ agent[a].held.output \in Nat
  BY BudgetParts DEF Fields, Tokens
<1>5. CASE NoAnswer(a)
  <2>1. agent[a].held = None /\ ledger' = ledger /\ faults' = faults
    BY <1>5, BudgetParts DEF NoAnswer
  <2>2. Books(mode, agent', ledger', faults')
    BY <1>3, <1>4, <2>1, BooksStay
  <2> QED
    BY <1>2, <2>2, FailedBudget
<1>6. CASE TimeOut(a) \/ ProviderFails(a)
  <2>1. ledger' = CutOff(a, ledger) /\ faults > 0 /\ faults' = faults - 1
    BY <1>6 DEF TimeOut, ProviderFails, Fault
  <2>2. CASE agent[a].held = None
    <3>1. ledger' = ledger
      BY <2>1, <2>2 DEF CutOff
    <3>2. Books(mode, agent', ledger', faults')
      BY <1>3, <1>4, <2>1, <2>2, <3>1, BooksStay
    <3> QED
      BY <1>2, <3>2, FailedBudget
  <2>3. CASE agent[a].held # None
    <3> DEFINE u == [input |-> 0, output |-> 0]
    <3>1. u \in Tokens /\ u.input = 0 /\ u.output = 0
      BY DEF Tokens
    <3> HIDE DEF u
    <3>2. /\ Fields(ledger') /\ ledger'.requests = ledger.requests
          /\ ledger'.input = ledger.input /\ ledger'.output = ledger.output
          /\ ledger'.reservedInput = ledger.reservedInput - agent[a].held.input
          /\ ledger'.reservedOutput = ledger.reservedOutput - agent[a].held.output
      BY <1>4, <2>1, <2>3, CutOffIs DEF Part
    <3>3. /\ ledger'.input = ledger.input + u.input /\ ledger'.output = ledger.output + u.output
          /\ u.input <= agent[a].held.input /\ u.output <= agent[a].held.output
      BY <1>4, <2>3, <3>1, <3>2
    <3>4. Books(mode, agent', ledger', faults')
      BY <1>3, <1>4, <2>1, <2>3, <3>1, <3>2, <3>3, BooksSettle
    <3> QED
      BY <1>2, <3>4, FailedBudget
  <2> QED
    BY <2>2, <2>3
<1>7. CASE MalformedUsage(a)
  <2>1. /\ ledger' = Abandon(ledger, agent[a].held) /\ faults > 0 /\ faults' = faults - 1
        /\ agent[a].held # None
    BY <1>7 DEF MalformedUsage, Fault
  <2> DEFINE u == [input |-> 0, output |-> 0]
  <2>2. u \in Tokens /\ u.input = 0 /\ u.output = 0
    BY DEF Tokens
  <2> HIDE DEF u
  <2>3. /\ Fields(ledger') /\ ledger'.requests = ledger.requests
        /\ ledger'.input = ledger.input /\ ledger'.output = ledger.output
        /\ ledger'.reservedInput = ledger.reservedInput - agent[a].held.input
        /\ ledger'.reservedOutput = ledger.reservedOutput - agent[a].held.output
    BY <1>4, <2>1, AbandonIs
  <2>4. /\ ledger'.input = ledger.input + u.input /\ ledger'.output = ledger.output + u.output
        /\ u.input <= agent[a].held.input /\ u.output <= agent[a].held.output
    BY <1>4, <2>1, <2>2, <2>3
  <2>5. Books(mode, agent', ledger', faults')
    BY <1>3, <1>4, <2>1, <2>2, <2>3, <2>4, BooksSettle
  <2> QED
    BY <1>2, <2>5, FailedBudget
<1>8. CASE UsageOverrun(a)
  <2> DEFINE r == agent[a].held
             u == [input |-> r.input + 1, output |-> r.output]
  <2>1. /\ ledger' = Reconcile(ledger, mode.budget, r, u) /\ faults > 0 /\ faults' = faults - 1
        /\ r # None
    BY <1>8 DEF UsageOverrun, Fault
  <2>2. r \in Tokens /\ r.input \in Nat /\ r.output \in Nat
    BY <1>4, <2>1
  <2>3. u \in Tokens /\ u.input = r.input + 1 /\ u.output = r.output
    BY <2>2 DEF Tokens
  <2> HIDE DEF u
  <2>4. /\ Fields(ledger') /\ ledger'.requests = ledger.requests
        /\ ledger'.input = ledger.input + u.input /\ ledger'.output = ledger.output + u.output
        /\ ledger'.reservedInput = ledger.reservedInput - r.input
        /\ ledger'.reservedOutput = ledger.reservedOutput - r.output
    BY <1>4, <2>1, <2>2, <2>3, ReconcileIs
  <2>5. u.input <= r.input + 1 /\ u.output <= r.output
    BY <2>2, <2>3
  <2>6. Books(mode, agent', ledger', faults')
    BY <1>3, <1>4, <2>1, <2>3, <2>4, <2>5, BooksSettle
  <2> QED
    BY <1>2, <2>6, FailedBudget
<1> QED
  BY <1>5, <1>6, <1>7, <1>8

(* A run that is cancelled cuts off every open stream. *)
LEMMA CancelBudget ==
  ASSUME GroundInv, BudgetInv, Running, CancelRun, UNCHANGED mode,
         faults' = faults \/ (faults > 0 /\ faults' = faults - 1)
  PROVE  BudgetInv'
<1>1. /\ run' = [run EXCEPT !.status = "error"] /\ ledger' = CutOffAll
      /\ agent' = [a \in Agents |-> IF agent[a].phase \in Working
                                    THEN Settled(a, "cancelled", {}, None) ELSE agent[a]]
  BY DEF CancelRun, Working
<1>2. Agents = {Retryable, Short, Posted, Synthesis, Evaluator}
  BY DEF Agents, Hypotheses
<1>3. /\ mode \in Configurations /\ Fields(ledger) /\ faults \in 0 .. mode.faults
      /\ Within(mode, ledger, faults) /\ Books(mode, agent, ledger, faults)
      /\ run = [status |-> run.status, decision |-> run.decision]
  BY <1>2, BudgetParts, GroundParts
<1>4. \A a \in Agents : Part(agent[a].held, "input") \in Nat /\ Part(agent[a].held, "output") \in Nat
  BY BudgetParts, PartIs
<1>5. \A a \in Agents : IF agent[a].phase \in Working
                        THEN agent'[a] = Settled(a, "cancelled", {}, None)
                        ELSE agent'[a] = agent[a]
  BY <1>1
<1>6. AllReleased(agent')
  BY <1>5, HeldBy, BudgetParts DEF AllReleased, Working
<1>7. InOrder(agent')
  <2>1. InOrder(agent)
    BY DEF BudgetInv
  <2>2. \A a \in Agents : agent[a].phase = "idle" => agent'[a].phase = "idle"
    BY <1>5 DEF Working
  <2>3. \A a \in Agents : agent[a].phase = "done" => agent'[a].phase = "done"
    BY <1>5 DEF Working
  <2> QED
    BY <1>2, <2>1, <2>2, <2>3 DEF InOrder
<1>8. /\ Fields(ledger') /\ ledger'.requests = ledger.requests
      /\ ledger'.input = ledger.input /\ ledger'.output = ledger.output
      /\ ledger'.reservedInput = 0 /\ ledger'.reservedOutput = 0
  <2>0. /\ Retryable \in Agents /\ Short \in Agents /\ Posted \in Agents
        /\ Synthesis \in Agents /\ Evaluator \in Agents
    BY <1>2
  <2>1. PICK l1 : l1 = CutOff(Evaluator, ledger)
    OBVIOUS
  <2>2. PICK l2 : l2 = CutOff(Synthesis, l1)
    OBVIOUS
  <2>3. PICK l3 : l3 = CutOff(Posted, l2)
    OBVIOUS
  <2>4. PICK l4 : l4 = CutOff(Short, l3)
    OBVIOUS
  <2>5. PICK l5 : l5 = CutOff(Retryable, l4)
    OBVIOUS
  <2>6. ledger' = l5
    BY <1>1, <2>1, <2>2, <2>3, <2>4, <2>5 DEF CutOffAll
  <2> DEFINE Cut(l, b, k) ==
        /\ Fields(b) /\ b.requests = l.requests /\ b.input = l.input /\ b.output = l.output
        /\ b.reservedInput = l.reservedInput - Part(agent[k].held, "input")
        /\ b.reservedOutput = l.reservedOutput - Part(agent[k].held, "output")
  <2>7. Cut(ledger, l1, Evaluator)
    BY <1>3, <2>0, <2>1, CutOffIs
  <2>8. Cut(l1, l2, Synthesis)
    BY <2>0, <2>2, <2>7, CutOffIs
  <2>9. Cut(l2, l3, Posted)
    BY <2>0, <2>3, <2>8, CutOffIs
  <2>10. Cut(l3, l4, Short)
    BY <2>0, <2>4, <2>9, CutOffIs
  <2>11. Cut(l4, l5, Retryable)
    BY <2>0, <2>5, <2>10, CutOffIs
  <2>12. ledger.reservedInput \in Int /\ ledger.reservedOutput \in Int
    BY <1>3 DEF Fields
  <2>13. /\ ledger.reservedInput = InReserve(agent, "input")
         /\ ledger.reservedOutput = InReserve(agent, "output")
    BY <1>3 DEF Books
  <2>14. l5.reservedInput = 0
    <3>1. l5.reservedInput = ledger.reservedInput - Part(agent[Evaluator].held, "input")
            - Part(agent[Synthesis].held, "input") - Part(agent[Posted].held, "input")
            - Part(agent[Short].held, "input") - Part(agent[Retryable].held, "input")
      BY <2>7, <2>8, <2>9, <2>10, <2>11
    <3> QED
      BY <1>4, <2>0, <2>12, <2>13, <3>1 DEF InReserve
  <2>15. l5.reservedOutput = 0
    <3>1. l5.reservedOutput = ledger.reservedOutput - Part(agent[Evaluator].held, "output")
            - Part(agent[Synthesis].held, "output") - Part(agent[Posted].held, "output")
            - Part(agent[Short].held, "output") - Part(agent[Retryable].held, "output")
      BY <2>7, <2>8, <2>9, <2>10, <2>11
    <3> QED
      BY <1>4, <2>0, <2>12, <2>13, <3>1 DEF InReserve
  <2> QED
    BY <2>6, <2>7, <2>8, <2>9, <2>10, <2>11, <2>14, <2>15
<1>9. ledger.reservedInput \in Nat /\ ledger.reservedOutput \in Nat
  BY <1>2, <1>3, <1>4 DEF Books, InReserve
<1>10. faults' \in 0 .. mode.faults /\ Within(mode, ledger', faults')
  <2>1. /\ ledger.input \in Int /\ ledger.output \in Int /\ ledger.requests \in Int
    BY <1>3 DEF Fields
  <2>2. /\ ledger'.requests <= ledger.requests
        /\ ledger'.output + ledger'.reservedOutput <= ledger.output + ledger.reservedOutput
        /\ ledger'.input + ledger'.reservedInput <= ledger.input + ledger.reservedInput
    BY <1>8, <1>9, <2>1
  <2> QED
    BY <1>3, <1>8, <2>2, WithinShrinks
<1>11. Books(mode', agent', ledger', faults')
  BY <1>6, <1>8, <1>10, NothingHeld DEF Books
<1>12. run'.status = "error"
  BY <1>1, <1>3
<1> QED
  BY <1>7, <1>11, <1>12 DEF BudgetInv

LEMMA NextBudget ==
  ASSUME GroundInv, BudgetInv, Next
  PROVE  BudgetInv'
<1>1. ASSUME NEW h \in Hypotheses, StartInvestigator(h) PROVE BudgetInv'
  <2>1. h \in Agents /\ h # Evaluator
    BY DEF Agents, Hypotheses, Retryable, Short, Posted, Evaluator
  <2> QED
    BY <1>1, <2>1, StartBudget DEF StartInvestigator
<1>2. CASE StartSynthesis
  <2>1. Synthesis \in Agents /\ Synthesis # Evaluator
    BY DEF Agents, Synthesis, Evaluator
  <2> QED
    BY <1>2, <2>1, StartBudget DEF StartSynthesis
<1>3. CASE StartEvaluator
  <2>1. Evaluator \in Agents
    BY DEF Agents
  <2> QED
    BY <1>3, <2>1, StartBudget DEF StartEvaluator
<1>4. ASSUME NEW a \in Agents, NEW length \in mode.lengths, OpenRequest(a, length)
      PROVE  BudgetInv'
  BY <1>4, OpenRequestBudget
<1>5. ASSUME NEW h \in Hypotheses, (\E ids : ReadTurn(h, ids)) \/ (\E current : SearchTurn(h, current))
      PROVE  BudgetInv'
  BY <1>5, ReadSearchBudget
<1>6. CASE \/ \E h \in Hypotheses : \E r, n : AnswerInvestigator(h, r, n)
           \/ \E s, n : AnswerSynthesis(s, n)
           \/ \E e, n : AnswerEvaluator(e, n)
  BY <1>6, AnswersBudget
<1>7. ASSUME NEW a \in Agents,
             \/ TimeOut(a) \/ ProviderFails(a) \/ MalformedUsage(a)
             \/ UsageOverrun(a) \/ NoAnswer(a)
      PROVE  BudgetInv'
  BY <1>7, FaultBudget
<1>8. CASE RunRaises
  BY <1>8, CancelBudget DEF RunRaises
<1>9. CASE WholeRunTimeout
  BY <1>9, CancelBudget DEF WholeRunTimeout
<1>10. CASE Finished
  BY <1>10 DEF Finished, vars, BudgetInv
<1> QED
  BY <1>1, <1>2, <1>3, <1>4, <1>5, <1>6, <1>7, <1>8, <1>9, <1>10 DEF Next

-----------------------------------------------------------------------------
(* The steps of the launches. *)

LEMMA FreshBudget ==
  ASSUME GroundInv, BudgetInv, FreshHarness(EmptyLedger), UNCHANGED <<mode, faults>>
  PROVE  BudgetInv'
<1>1. \A a \in Agents : agent'[a] = Idle
  BY DEF FreshHarness
<1>2. AllReleased(agent') /\ Evaluator \in Agents /\ agent'[Evaluator].phase = "idle"
  BY <1>1, HeldBy, IdleRow DEF AllReleased, Agents
<1>3. mode' \in Configurations /\ faults' \in 0 .. mode'.faults /\ ledger' = EmptyLedger
  BY <1>2, BudgetParts DEF FreshHarness
<1>4. Books(mode', agent', ledger', faults')
  BY <1>2, <1>3, EmptyBooks
<1>5. run'.status = "running"
  BY DEF FreshHarness
<1> QED
  BY <1>2, <1>4, <1>5 DEF BudgetInv, InOrder

(* The next profile of the smoke runs on the ledger of the one before. *)
LEMMA FinishProfileBudget ==
  ASSUME GroundInv, BudgetInv, NEW p \in Launches, FinishProfile(p)
  PROVE  BudgetInv'
<1> DEFINE current == mode.profiles[Len(profile) + 1]
           reports == Append(profile, Report(current.expected))
           next == mode.profiles[Len(reports) + 1]
<1>1. \/ UNCHANGED vars
      \/ /\ Workflow(current.expected) # "RAISES"
         /\ mode' = [mode EXCEPT !.facts = next.facts, !.admitted = next.admitted]
         /\ FreshHarness(ledger) /\ UNCHANGED faults
  BY DEF FinishProfile
<1>2. CASE UNCHANGED vars
  BY <1>2 DEF vars, BudgetInv
<1>3. CASE /\ Workflow(current.expected) # "RAISES"
           /\ mode' = [mode EXCEPT !.facts = next.facts, !.admitted = next.admitted]
           /\ FreshHarness(ledger) /\ UNCHANGED faults
  <2>1. AllReleased(agent)
    BY <1>3 DEF Workflow, BudgetInv
  <2>2. \A a \in Agents : agent'[a] = Idle
    BY <1>3 DEF FreshHarness
  <2>3. AllReleased(agent') /\ Evaluator \in Agents /\ agent'[Evaluator].phase = "idle"
    BY <2>2, HeldBy, IdleRow DEF AllReleased, Agents
  <2> HIDE DEF next
  <2>4. mode \in Configurations /\ Books(mode, agent, ledger, faults)
    BY <2>3, BudgetParts
  <2>5. mode'.budget = mode.budget /\ mode'.faults = mode.faults
    <3>1. PICK facts, admitted, m, m2 :
            facts = next.facts /\ admitted = next.admitted /\ m = mode /\ m2 = mode'
      OBVIOUS
    <3>2. m \in Configurations /\ m2 = [m EXCEPT !.facts = facts, !.admitted = admitted]
      BY <1>3, <2>4, <3>1
    <3>3. m2.budget = m.budget /\ m2.faults = m.faults
      BY ONLY <3>2 DEF Configurations
    <3> QED
      BY ONLY <3>1, <3>3
  <2>6. ledger' = ledger /\ faults' = faults /\ run'.status = "running"
    BY <1>3 DEF FreshHarness
  <2>7. Within(mode, ledger, faults) => Within(mode', ledger, faults)
    BY <2>5 DEF Within
  <2>8. Books(mode', agent', ledger', faults')
    BY <2>1, <2>3, <2>4, <2>5, <2>6, <2>7, NothingHeld DEF Books
  <2> QED
    BY <2>3, <2>6, <2>8 DEF BudgetInv, InOrder
<1> QED
  BY <1>1, <1>2, <1>3

LEMMA BudgetStep ==
  ASSUME GroundInv, BudgetInv, [ProofNext]_<<vars, proofVars>>
  PROVE  BudgetInv'
<1>1. CASE HarnessStep
  BY <1>1, NextBudget DEF HarnessStep
<1>2. ASSUME NEW p \in Launches, SyncDirectory(p) \/ Crash(p) PROVE BudgetInv'
  BY <1>2, FreshBudget DEF SyncDirectory, Crash
<1>3. CASE PowerLoss
  BY <1>3, FreshBudget DEF PowerLoss
<1>4. ASSUME NEW p \in Launches, FinishProfile(p) PROVE BudgetInv'
  BY <1>4, FinishProfileBudget
<1>5. ASSUME UNCHANGED vars PROVE BudgetInv'
  BY <1>5 DEF vars, BudgetInv
<1>6. ASSUME NEW p \in Launches, Claim(p) \/ WriteClaim(p) \/ FinishAdvisory(p) \/ Save(p)
      PROVE  UNCHANGED vars
  BY <1>6 DEF Claim, WriteClaim, FinishAdvisory, Save
<1>7. ASSUME Review \/ (\E offline \in BOOLEAN : Compose(offline)) \/ UNCHANGED <<vars, proofVars>>
      PROVE  UNCHANGED vars
  BY <1>7 DEF Review, Compose
<1> QED
  BY <1>1, <1>2, <1>3, <1>4, <1>5, <1>6, <1>7 DEF ProofNext

LEMMA BudgetInit ==
  ASSUME ProofInit
  PROVE  BudgetInv
<1>1. /\ mode \in Modes /\ agent = [a \in Agents |-> Idle] /\ ledger = EmptyLedger
      /\ run.status = "running" /\ faults = mode.faults
  BY DEF ProofInit, Init
<1>2. mode \in Configurations
  BY <1>1, ConfigurationsAssumption
<1>3. faults \in 0 .. mode.faults
  BY <1>1, <1>2 DEF Configurations
<1>4. AllReleased(agent) /\ agent[Evaluator].phase = "idle"
  BY <1>1, HeldBy, IdleRow DEF AllReleased, Agents
<1>5. Books(mode, agent, ledger, faults)
  BY <1>1, <1>2, <1>3, <1>4, EmptyBooks
<1> QED
  BY <1>1, <1>4, <1>5 DEF BudgetInv, InOrder

-----------------------------------------------------------------------------
(* The theorems. *)

(* Every reachable state satisfies the inductive invariant, whichever      *)
(* configuration is run, however the agents answer and however often       *)
(* launches start, die or lose their power.                                *)
THEOREM Invariance == ProofSpec => []IInv
<1>1. ProofInit => IInv
  BY ProofInitSound
<1>2. IInv /\ [ProofNext]_<<vars, proofVars>> => IInv'
  BY StepSound
<1> QED
  BY <1>1, <1>2, PTL DEF ProofSpec

(* One launch only ever opens a provider request, under a claim that is    *)
(* complete on disk, and a promotion rests on the records of the one       *)
(* attempt of that launch (provider.py, _authority_b_proof, run_all).      *)
THEOREM PromotionFromOneAttempt == ProofSpec => []PromotionIsOneAttempt
<1>1. ASSUME IInv PROVE PromotionIsOneAttempt
  <2>1. LaunchInv /\ PromotedInv
    BY <1>1 DEF IInv, ProofInv
  <2>2. \A p \in callers : disk.claim = [by |-> p, written |-> TRUE]
    BY <2>1 DEF LaunchInv, Complete
  <2>3. Cardinality(callers) <= 1
    <3>1. CASE callers = {}
      BY <3>1, FS_EmptySet
    <3>2. ASSUME NEW p \in callers PROVE Cardinality(callers) <= 1
      <4>0. \A q : Complete(q).by = q
        BY DEF Complete
      <4>1. \A q \in callers : disk.claim.by = q
        BY <2>1, <4>0 DEF LaunchInv
      <4>2. callers = {p}
        BY <4>1
      <4>3. Cardinality({p}) = 1
        BY FS_Singleton
      <4> QED
        BY <4>2, <4>3
    <3> QED
      BY <3>1, <3>2
  <2> QED
    BY <2>1, <2>2, <2>3 DEF PromotionIsOneAttempt, PromotedInv
<1> QED
  BY <1>1, Invariance, PTL

(* A conclusion rests on what was read: the hand-offs, the start of the    *)
(* synthesis and a recommended restart (run_investigator, run_async,       *)
(* ActionRecommendationPolicy).                                            *)
THEOREM RecommendationGrounded == ProofSpec => []ActionIsGrounded
<1>1. ASSUME IInv PROVE ActionIsGrounded
  <2>1. LoopInv /\ StageInv /\ RunInv
    BY <1>1 DEF IInv, GroundInv
  <2>2. ASSUME NEW h \in Hypotheses, NEW e \in Handoffs(events, h)
        PROVE  /\ e.ids = Read(events, h, e.attempt)
               /\ Referenced(agent[h].result) \subseteq e.ids
    <3>1. LoopOK(mode, events, h, agent[h])
      BY <2>1 DEF LoopInv
    <3>2. agent[h].phase = "done" /\ ~mode.chat
      BY <3>1 DEF LoopOK
    <3>3. e = Event("HANDOFF", h, agent[h].attempt, "HANDED_OFF", agent[h].reads)
      BY <3>1, <3>2 DEF LoopOK
    <3>4. e.ids = agent[h].reads /\ e.attempt = agent[h].attempt
      BY <3>3 DEF Event
    <3>5. agent[h].reads = Read(events, h, agent[h].attempt)
      BY <3>1, <3>2 DEF LoopOK
    <3>6. Referenced(agent[h].result) \subseteq agent[h].reads
      BY <3>1, <3>2 DEF LoopOK, InvestigatorValid
    <3> QED
      BY <3>4, <3>5, <3>6
  <2>3. ASSUME Started(Synthesis, 1) \in events, NEW h \in Hypotheses
        PROVE  Cardinality(Handoffs(events, h)) = 1
    <3>1. Gathered(mode, agent)
      BY <2>1, <2>3 DEF StageInv, Started, Event
    <3>2. Handoffs(events, h)
             = {Event("HANDOFF", h, agent[h].attempt, "HANDED_OFF", agent[h].reads)}
      BY <2>1, <3>1 DEF LoopInv, LoopOK, Gathered
    <3> QED
      BY <3>2, FS_Singleton
  <2>4. ASSUME run.decision = Restart
        PROVE  /\ Read(events, Retryable, agent[Retryable].attempt) = Sources
               /\ Supporting(agent[Retryable].result) = Sources
               /\ Contradicting(agent[Retryable].result) = {}
               /\ mode.facts.queue = "FAILED_RETRYABLE" /\ ~mode.facts.documents
               /\ mode.facts.warehouse = mode.facts.erp + mode.facts.message
    <3>1. Gathered(mode, agent) /\ Warranted(mode, agent[Retryable])
      BY <2>1, <2>4 DEF RunInv
    <3>2. Retryable \in Hypotheses
      BY DEF Hypotheses
    <3>3. Read(events, Retryable, agent[Retryable].attempt) = agent[Retryable].reads
      BY <2>1, <3>1, <3>2 DEF LoopInv, LoopOK, Gathered
    <3> QED
      BY <3>1, <3>3 DEF Warranted
  <2> QED
    BY <2>2, <2>3, <2>4 DEF ActionIsGrounded, Read, Handoffs, Restart
<1> QED
  BY <1>1, Invariance, PTL

(* Whatever the providers report and however the streams end, the ledger   *)
(* reserves exactly what the open streams hold, and it stays within every  *)
(* cap of the configuration, save one input token for each report of more  *)
(* than was reserved (AgentBudgetLedger, BudgetedModel.stream).            *)
THEOREM BudgetKept == ProofSpec => []BudgetHolds
<1>1. ProofInit => BudgetInv
  BY BudgetInit
<1>2. IInv /\ BudgetInv /\ [ProofNext]_<<vars, proofVars>> => BudgetInv'
  BY BudgetStep DEF IInv
<1>3. BudgetInv => BudgetHolds
  <2>1. SUFFICES ASSUME BudgetInv PROVE BudgetHolds
    OBVIOUS
  <2>2. /\ Within(mode, ledger, faults)
        /\ ledger.reservedInput = InReserve(agent, "input")
        /\ ledger.reservedOutput = InReserve(agent, "output")
    BY <2>1 DEF BudgetInv, Books
  <2>3. HeldByAll("input") = InReserve(agent, "input") /\ HeldByAll("output") = InReserve(agent, "output")
    BY DEF HeldByAll, Held, InReserve, Part
  <2> QED
    BY <2>2, <2>3 DEF BudgetHolds, Within
<1> QED
  BY <1>1, <1>2, <1>3, Invariance, PTL DEF ProofSpec

===============================================================================
