-------------------------- MODULE AmbiguousCaseProofs --------------------------
(***************************************************************************)
(* The case platform for any number of diagnoses, questions, conversations *)
(* and resets: only a warranted plan goes ahead, a refusal is remembered,  *)
(* and an accepted answer has its specialists in the journal.              *)
(*                                                                         *)
(* The argument follows the current run.  While its thread is under way    *)
(* nobody else can release a plan; once it has delivered, no other result  *)
(* carries the run's identifier.  A command acts on what it found in its   *)
(* tests: that is still so when it writes, unless the case was reset,      *)
(* claimed or put to another command in between, and `crossed` remembers   *)
(* which.  A conversation belongs to one opening of the case and a journal *)
(* scope to one thread at a time.                                          *)
(***************************************************************************)
EXTENDS AmbiguousCase, FiniteSetTheorems, TLAPS

Primary == "uncommitted_receipt"

-----------------------------------------------------------------------------
(* The invariant. *)

Shape(r, fields) == DOMAIN r = fields /\ r = [x \in fields |-> r[x]]

PlatformFields == {"variant", "facts", "version", "epoch", "run", "agent", "finding", "policy",
                   "advice", "approval", "rejection", "execution", "scope", "dialogue",
                   "refused", "turns", "crossed"}
ThreadFields == {"pc", "kind", "id", "version", "epoch", "expected", "readOnly", "refused",
                 "reads", "round", "failed", "closed", "owned", "claimed", "result"}
UseCounts == [runs : Nat, conversations : Nat, asks : Nat, executions : Nat, resets : Nat,
              crashes : Nat]
TaskRows == [question : Questions \cup {""},
             status : {"NONE", "RUNNING", "COMPLETED", "FAILED", "CANCELLED"},
             attempt : Nat, live : BOOLEAN]

ShapeInv ==
  /\ mode \in Configurations
  /\ Shape(p, PlatformFields)
  /\ threads = [t \in Threads |-> threads[t]] /\ \A t \in Threads : Shape(threads[t], ThreadFields)
  /\ \A t \in Threads : threads[t].owned \in [Roles -> Nat] /\ threads[t].claimed \in [Roles -> Nat]
  /\ desk = [m \in Managers |-> desk[m]]
  /\ tasks \in [Scopes -> [Roles -> TaskRows]]
  /\ used \in UseCounts
  /\ used.runs <= mode.runs /\ used.conversations <= mode.conversations
  /\ used.executions <= mode.executions

(* No other command and no reset has overlapped one of this opening. *)
Alone(q) == "command" \notin q.crossed /\ "reset" \notin q.crossed

(* The case: what its facts, its plan and its execution presuppose. *)
CaseOK(q) ==
  /\ q.variant \in Variants /\ q.run \in Nat /\ q.version \in Nat /\ q.version > 0
  /\ "key" \in DOMAIN q.facts
  /\ q.facts = CaseOf(q.variant) \/ (q.execution # None /\ q.facts.key = TRUE)
  /\ q.agent = "PLAN_READY" =>
       /\ q.variant = Primary
       /\ q.advice # None /\ q.advice.status = "COMPLETE"
       /\ q.advice.run = q.run /\ q.advice.disposition = "RECOVERY_READY"
  /\ "reset" \notin q.crossed /\ (q.approval # None \/ q.execution # None) => q.variant = Primary
  /\ Alone(q) /\ q.execution # None =>
       q.scope = <<CaseOf(Primary).unresolved, CaseOf(Primary).hold>>
  /\ q.crossed = {} /\ q.rejection # None =>
       q.approval = None /\ q.execution = None /\ q.agent # "PLAN_READY"

(* The dialogue carries the refusal; the turns are of this opening. *)
DialogueOK(q) ==
  /\ q.refused \in BOOLEAN
  /\ q.refused => q.dialogue # None /\ q.dialogue.readOnly = TRUE
  /\ q.dialogue # None => q.dialogue \in Dialogues /\ q.dialogue.id > 0
  /\ \A turn \in q.turns : turn.epoch = q.epoch /\ (turn.refused => ~turn.writes)

(* A thread that is under way, by itself. *)
ThreadOK(r) ==
  /\ r.pc \in Working \cup {"idle", "deliver"}
  /\ r.pc # "idle" =>
       /\ r.kind \in {"run", "turn"} /\ r.version \in Nat /\ r.version > 0 /\ r.id \in Nat /\ r.id > 0
       /\ r.refused \in BOOLEAN
  /\ r.pc \in Working =>
       /\ r.expected \in Dispositions /\ r.readOnly \in BOOLEAN
       /\ r.refused => r.readOnly = TRUE
  /\ r.pc = "deliver" =>
       IF r.result.status = "COMPLETE"
       THEN r.result \in Advisories /\ r.result.run = r.id /\ (r.refused => r.result.writes = FALSE)
       ELSE r.result.run = 0

(* The thread of the current run and the platform. *)
Current(q, r) == r.pc # "idle" /\ r.kind = "run" /\ r.id = q.run

CurrentOK(q, r) ==
  Current(q, r) =>
    /\ q.agent # "PLAN_READY" /\ (q.crossed = {} => q.rejection = None)
    /\ q.policy.status = "PLAN_READY" => q.variant = Primary
    /\ r.pc \in Working => r.expected = ExpectedDisposition(q.variant)
    /\ r.pc = "deliver" /\ r.result.status = "COMPLETE" =>
         r.result.disposition = ExpectedDisposition(q.variant)

(* A command past its tests and the platform. *)
DeskOK(q, d) ==
  /\ d.pc \in {"rest", "bind", "grant", "refuse", "apply", "verify"}
  /\ d.pc # "rest" /\ "reset" \notin q.crossed => q.variant = Primary
  /\ d.pc # "rest" /\ q.crossed = {} =>
       IF d.pc = "refuse" THEN q.approval = None /\ q.execution = None ELSE q.rejection = None
  /\ Alone(q) => /\ d.pc = "apply" => q.execution = None
                 /\ d.pc = "verify" => q.execution # None

(* The thread of the current conversation and the platform. *)
TurnOK(q, r) ==
  r.pc # "idle" /\ r.kind = "turn" /\ q.dialogue # None /\ q.dialogue.id = r.id =>
    r.epoch = q.epoch

(* Identifiers are fresh: of runs, of conversations, of journal scopes;    *)
(* and a version counts executions.                                        *)
FreshInv ==
  /\ p.run <= used.runs
  /\ p.dialogue # None => p.dialogue.id <= used.conversations
  /\ p.version <= 1 + used.executions
  /\ \A t \in Threads : threads[t].pc # "idle" =>
       /\ threads[t].version <= 1 + used.executions
       /\ threads[t].kind = "run" => threads[t].id <= used.runs
       /\ threads[t].kind = "turn" => threads[t].id <= used.conversations /\ t \in Asks
  /\ \A t, s \in Threads :
       threads[t].pc # "idle" /\ threads[s].pc # "idle" /\ threads[t].kind = threads[s].kind =>
         /\ threads[t].kind = "run" /\ threads[t].id = threads[s].id => t = s
         /\ threads[t].kind = "turn" => t = s

(* The specialists of a thread, in the rows of its scope. *)
TeamOK(rows, r) ==
  \A role \in Roles : r.claimed[role] > 0 =>
    /\ r.pc \in Working /\ ~r.failed =>
         /\ rows[role].attempt = r.claimed[role]
         /\ IF r.owned[role] > 0 THEN rows[role].status = "RUNNING" /\ r.owned[role] = r.claimed[role]
            ELSE rows[role].status = "COMPLETED"
    /\ r.pc = "deliver" /\ r.result.status = "COMPLETE" =>
         rows[role].status = "COMPLETED" /\ rows[role].attempt = r.claimed[role]

CaseInv == CaseOK(p) /\ DialogueOK(p)
ThreadInv ==
  \A t \in Threads : ThreadOK(threads[t]) /\ CurrentOK(p, threads[t]) /\ TurnOK(p, threads[t])
TeamInv == \A t \in Threads : threads[t].pc # "idle" => TeamOK(tasks[Scope(t)], threads[t])

DeskInv ==
  /\ \A m \in Managers : DeskOK(p, desk[m])
  /\ \A m, n \in Managers : desk[m].pc # "rest" /\ desk[n].pc # "rest" /\ m # n => ~Alone(p)
  /\ \A m \in Managers, t \in Threads :
       desk[m].pc = "refuse" /\ p.crossed = {} => ~Current(p, threads[t])

IInv == ShapeInv /\ CaseInv /\ ThreadInv /\ FreshInv /\ TeamInv /\ DeskInv

-----------------------------------------------------------------------------
(* The constant tables. *)

LEMMA Absent == None \notin Int /\ None \notin BOOLEAN /\ None # "VERIFYING" /\ None # "VERIFIED"
                /\ None \notin Dialogues /\ None \notin Advisories
BY AbsentAssumption

LEMMA PrimaryIs ==
  /\ CaseOf(Primary) = PrimaryCase
  /\ PrimaryCase.key = FALSE /\ PrimaryCase.transfer = FALSE /\ PrimaryCase.quality = "APPROVED"
  /\ PrimaryCase.arrived = 100 /\ PrimaryCase.available = 80 /\ PrimaryCase.hold = 8
  /\ PrimaryCase.unresolved = 12
BY DEF CaseOf, PrimaryCase, Primary

(* Of the counterfactuals only the primary one can be recovered. *)
LEMMA OnlyPrimary ==
  ASSUME NEW v \in Variants, ConsolePolicy(v, CaseOf(v)).status = "PLAN_READY"
  PROVE  v = Primary
<1>1. CASE v \in {"physical_shortage", "evidence_conflict", "duplicate_invoice",
                  "unit_price_variance", "uom_conversion_missing", "po_revision_race",
                  "supplier_hold", "lot_trace_mismatch", "normal_complete"}
  <2>1. ConsolePolicy(v, CaseOf(v)).status \in {"BLOCKED", "RECOVERY_COMPLETE"}
    BY <1>1 DEF ConsolePolicy
  <2> QED
    BY <2>1
<1>2. CASE v \in {"lost_ack", "wrong_quality_lot", "lookup_unavailable", "transfer_already_present"}
  <2>1. CaseDisposition(CaseOf(v)) # "RECOVERY_READY"
    <3>1. CASE v = "lost_ack"
      <4>1. CaseOf(v).key = TRUE
        BY <3>1 DEF CaseOf, PrimaryCase
      <4> QED
        BY <4>1 DEF CaseDisposition
    <3>2. CASE v = "wrong_quality_lot"
      <4>1. CaseOf(v).quality = "PENDING"
        BY <3>2 DEF CaseOf, PrimaryCase
      <4> QED
        BY <4>1 DEF CaseDisposition
    <3>3. CASE v = "lookup_unavailable"
      <4>1. CaseOf(v).key = None
        BY <3>3 DEF CaseOf, PrimaryCase
      <4> QED
        BY <4>1 DEF CaseDisposition, EvidenceComplete
    <3>4. CASE v = "transfer_already_present"
      <4>1. CaseOf(v).transfer = TRUE
        BY <3>4 DEF CaseOf, PrimaryCase
      <4> QED
        BY <4>1 DEF CaseDisposition
    <3> QED
      BY <1>2, <3>1, <3>2, <3>3, <3>4
  <2>2. ConsolePolicy(v, CaseOf(v)).status = "BLOCKED"
    BY <1>2, <2>1 DEF ConsolePolicy
  <2> QED
    BY <2>2
<1> QED
  BY <1>1, <1>2 DEF Variants, Primary

LEMMA PrimaryReady ==
  ConsolePolicy(Primary, CaseOf(Primary)).status = "PLAN_READY"
<1>1. CaseDisposition(PrimaryCase) = "RECOVERY_READY"
  BY PrimaryIs, Absent DEF CaseDisposition, EvidenceComplete
<1> QED
  BY <1>1, PrimaryIs DEF ConsolePolicy, Primary

LEMMA CaseHasKey ==
  ASSUME NEW v \in Variants
  PROVE  "key" \in DOMAIN CaseOf(v)
BY DEF CaseOf, PrimaryCase

LEMMA RecoveredHasKey ==
  ASSUME NEW c, "key" \in DOMAIN c
  PROVE  "key" \in DOMAIN Recovered(c) /\ Recovered(c).key = TRUE
BY DEF Recovered

(* A case that was recovered is not recovered again. *)
LEMMA RecoveredIsDone ==
  ASSUME NEW v \in Variants, NEW c, c.key = TRUE
  PROVE  ConsolePolicy(v, c).status # "PLAN_READY"
<1>1. CaseDisposition(c) # "RECOVERY_READY"
  BY DEF CaseDisposition
<1>2. ConsolePolicy(v, c).status \in {"BLOCKED", "RECOVERY_COMPLETE"}
  BY <1>1 DEF ConsolePolicy
<1> QED
  BY <1>2

LEMMA PlanIsPrimary ==
  ASSUME NEW q, CaseOK(q), ConsolePolicy(q.variant, q.facts).status = "PLAN_READY"
  PROVE  q.variant = Primary
<1>1. CASE q.facts = CaseOf(q.variant)
  BY <1>1, OnlyPrimary DEF CaseOK
<1>2. CASE q.facts.key = TRUE
  BY <1>2, RecoveredIsDone DEF CaseOK
<1> QED
  BY <1>1, <1>2 DEF CaseOK

LEMMA ExpectedIs ==
  /\ \A v \in Variants : ExpectedDisposition(v) \in Dispositions
  /\ ExpectedDisposition(Primary) = "RECOVERY_READY"
BY DEF ExpectedDisposition, Dispositions, Variants, Primary

(* An answer to a refused question proposes no write. *)
LEMMA AnswersHonour ==
  ASSUME NEW e \in Dispositions, NEW k \in BOOLEAN, NEW writes \in Answers[e][k]
  PROVE  writes \in BOOLEAN /\ (k = TRUE => writes = FALSE)
<1>1. writes \in {c.step.writes : c \in Accepted(Required, e, k)}
  BY DEF Answers
<1>2. PICK c \in Accepted(Required, e, k) : writes = c.step.writes
  BY <1>1
<1>3. c \in Candidates /\ StepAllowed(c.step, e, k)
  BY <1>2 DEF Accepted, Valid
<1>4. c.step \in Steps
  BY <1>3 DEF Candidates
<1> QED
  BY <1>2, <1>3, <1>4 DEF Steps, StepAllowed

-----------------------------------------------------------------------------
(* Sums of few rows, and the policy over the joined records of the primary *)
(* case.                                                                   *)

Adds(g, S) == g = [s \in SUBSET S |-> IF s = {} THEN 0
                     ELSE g[s \ {CHOOSE x \in s : TRUE}] + (CHOOSE x \in s : TRUE).quantity]

LEMMA TotalAdds ==
  ASSUME NEW S, NEW g, Adds(g, S)
  PROVE  \E h : Adds(h, S) /\ Total(S) = h[S]
<1> DEFINE iter == CHOOSE h : h = [s \in SUBSET S |-> IF s = {} THEN 0
                     ELSE h[s \ {CHOOSE x \in s : TRUE}] + (CHOOSE x \in s : TRUE).quantity]
<1>1. Total(S) = iter[S]
  BY DEF Total, FoldSet, MapThenFoldSet
<1>2. Adds(iter, S)
  BY DEF Adds
<1> QED
  BY <1>1, <1>2

LEMMA AddsUp ==
  ASSUME NEW S, NEW h, Adds(h, S), NEW s \in SUBSET S, s # {}
  PROVE  \E x \in s : h[s] = h[s \ {x}] + x.quantity
<1>1. (CHOOSE x \in s : TRUE) \in s
  OBVIOUS
<1>2. h[s] = h[s \ {CHOOSE x \in s : TRUE}] + (CHOOSE x \in s : TRUE).quantity
  BY DEF Adds
<1> QED
  BY <1>1, <1>2

LEMMA TotalOfThree ==
  ASSUME NEW a, NEW b, NEW c, a # b, b # c, a # c,
         a.quantity \in Int, b.quantity \in Int, c.quantity \in Int,
         NEW S \in SUBSET {a, b, c}
  PROVE  Total(S) = (IF a \in S THEN a.quantity ELSE 0) + (IF b \in S THEN b.quantity ELSE 0)
                      + (IF c \in S THEN c.quantity ELSE 0)
<1> DEFINE sum(s) == (IF a \in s THEN a.quantity ELSE 0) + (IF b \in s THEN b.quantity ELSE 0)
                       + (IF c \in s THEN c.quantity ELSE 0)
           g == [s \in SUBSET S |-> sum(s)]
<1>1. \A s \in SUBSET S : \A x \in s : sum(s) = sum(s \ {x}) + x.quantity
  OBVIOUS
<1>2. Adds(g, S)
  <2>1. \A s \in SUBSET S : sum(s) = IF s = {} THEN 0
           ELSE g[s \ {CHOOSE x \in s : TRUE}] + (CHOOSE x \in s : TRUE).quantity
    <3>1. sum({}) = 0
      OBVIOUS
    <3>2. ASSUME NEW s \in SUBSET S, s # {}
          PROVE  sum(s) = g[s \ {CHOOSE x \in s : TRUE}] + (CHOOSE x \in s : TRUE).quantity
      <4>1. (CHOOSE x \in s : TRUE) \in s /\ s \ {CHOOSE x \in s : TRUE} \in SUBSET S
        BY <3>2
      <4>2. g[s \ {CHOOSE x \in s : TRUE}] = sum(s \ {CHOOSE x \in s : TRUE})
        BY <4>1
      <4> HIDE DEF g, sum
      <4> QED
        BY <1>1, <4>1, <4>2
    <3> QED
      BY <3>1, <3>2
  <2> HIDE DEF sum
  <2> QED
    BY <2>1 DEF Adds
<1>3. PICK h : Adds(h, S) /\ Total(S) = h[S]
  BY <1>2, TotalAdds
<1>4. h[{}] = 0
  BY <1>3 DEF Adds
<1>5. ASSUME NEW x \in S PROVE h[{x}] = x.quantity
  <2>1. \E y \in {x} : h[{x}] = h[{x} \ {y}] + y.quantity
    BY <1>3, AddsUp
  <2>2. {x} \ {x} = {} /\ x.quantity \in Int
    OBVIOUS
  <2>3. h[{x}] = h[{x} \ {x}] + x.quantity
    BY <2>1
  <2>4. h[{x}] = 0 + x.quantity
    BY <1>4, <2>2, <2>3
  <2> QED
    BY <2>2, <2>4
<1>6. ASSUME NEW x \in S, NEW y \in S, x # y PROVE h[{x, y}] = x.quantity + y.quantity
  <2>0. {x, y} \in SUBSET S /\ {x, y} # {}
    OBVIOUS
  <2>1. PICK z \in {x, y} : h[{x, y}] = h[{x, y} \ {z}] + z.quantity
    BY <1>3, <2>0, AddsUp
  <2>2. {x, y} \ {x} = {y} /\ {x, y} \ {y} = {x} /\ x.quantity \in Int /\ y.quantity \in Int
    BY <1>6
  <2>3. h[{x}] = x.quantity /\ h[{y}] = y.quantity
    BY <1>5
  <2>4. CASE z = x
    <3>1. h[{x, y}] = h[{y}] + x.quantity
      BY <2>1, <2>2, <2>4
    <3> QED
      BY <2>2, <2>3, <3>1
  <2>5. CASE z = y
    <3>1. h[{x, y}] = h[{x}] + y.quantity
      BY <2>1, <2>2, <2>5
    <3> QED
      BY <2>2, <2>3, <3>1
  <2> QED
    BY <2>4, <2>5
<1>7. CASE S = {a, b, c}
  <2>1. PICK z \in {a, b, c} : h[{a, b, c}] = h[{a, b, c} \ {z}] + z.quantity
    BY <1>3, <1>7, AddsUp
  <2>2. {a, b, c} \ {a} = {b, c} /\ {a, b, c} \ {b} = {a, c} /\ {a, b, c} \ {c} = {a, b}
    OBVIOUS
  <2>3. h[{b, c}] = b.quantity + c.quantity /\ h[{a, c}] = a.quantity + c.quantity
        /\ h[{a, b}] = a.quantity + b.quantity
    BY <1>6, <1>7
  <2>4. \/ h[{a, b, c}] = h[{b, c}] + a.quantity
        \/ h[{a, b, c}] = h[{a, c}] + b.quantity
        \/ h[{a, b, c}] = h[{a, b}] + c.quantity
    BY <2>1, <2>2
  <2>5. h[{a, b, c}] = a.quantity + b.quantity + c.quantity
    BY <2>3, <2>4
  <2> QED
    BY <1>3, <1>7, <2>5
<1>8. CASE S # {a, b, c}
  <2>1. \/ S = {} \/ S = {a} \/ S = {b} \/ S = {c} \/ S = {a, b} \/ S = {a, c} \/ S = {b, c}
    BY <1>8
  <2>2. CASE S = {}
    BY <1>3, <1>4, <2>2
  <2>3. ASSUME NEW x, S = {x} PROVE Total(S) = x.quantity
    BY <1>3, <1>5, <2>3
  <2>4. ASSUME NEW x, NEW y, x # y, S = {x, y} PROVE Total(S) = x.quantity + y.quantity
    BY <1>3, <1>6, <2>4
  <2>5. CASE S = {a} \/ S = {b} \/ S = {c}
    BY <2>3, <2>5
  <2>6. CASE S = {a, b} \/ S = {a, c} \/ S = {b, c}
    BY <2>4, <2>6
  <2> QED
    BY <2>1, <2>2, <2>5, <2>6
<1> QED
  BY <1>7, <1>8

(* What the join computes, one observation each. *)
Held(s) == {r \in s.ledger.rows : r.stock = "QUALITY"}
Lots(s) == {r.lot : r \in Held(s)}
Approvals(s, l) == {q \in s.quality : q.lot = l}
Known(s, l) == Cardinality(Approvals(s, l)) = 1 /\ Total({r \in Held(s) : r.lot = l}) > 0
Exactly(s, l) == \A q \in Approvals(s, l) : q.quantity = Total({r \in Held(s) : r.lot = l})

LEMMA JoinCopies ==
  ASSUME NEW s
  PROVE  /\ Correlate(s).invoice_quantity = s.invoice.quantity
         /\ Correlate(s).invoice_status = s.invoice.status
         /\ Correlate(s).complete = s.ledger.complete
         /\ Correlate(s).duplicate = s.duplicates
         /\ Correlate(s).supplier_active = s.supplier_active
         /\ s.invoice.price = s.po.price => Correlate(s).price_matches = TRUE
         /\ s.attempt.revision = s.po.revision => Correlate(s).revision_matches = TRUE
<1>1. Correlate(s).invoice_quantity = s.invoice.quantity
  BY DEF Correlate
<1>2. Correlate(s).invoice_status = s.invoice.status
  BY DEF Correlate
<1>3. Correlate(s).complete = s.ledger.complete
  BY DEF Correlate
<1>4. Correlate(s).duplicate = s.duplicates
  BY DEF Correlate
<1>5. Correlate(s).supplier_active = s.supplier_active
  BY DEF Correlate
<1>6. s.invoice.price = s.po.price => Correlate(s).price_matches = TRUE
  BY DEF Correlate
<1>7. s.attempt.revision = s.po.revision => Correlate(s).revision_matches = TRUE
  BY DEF Correlate
<1> QED
  BY <1>1, <1>2, <1>3, <1>4, <1>5, <1>6, <1>7

LEMMA JoinSums ==
  ASSUME NEW s
  PROVE  /\ Correlate(s).physical = Total(s.scans)
         /\ Correlate(s).held = Total(Held(s))
         /\ Correlate(s).accounted =
              Total({r \in s.ledger.rows : r.stock = "AVAILABLE"}) + Total(Held(s))
         /\ Correlate(s).attempt = IF s.attempt.factor = None THEN None
                                   ELSE s.attempt.quantity * s.attempt.factor
<1>1. Correlate(s).physical = Total(s.scans)
  BY DEF Correlate
<1>2. Correlate(s).held = Total(Held(s))
  BY DEF Correlate, Held
<1>3. Correlate(s).accounted =
              Total({r \in s.ledger.rows : r.stock = "AVAILABLE"}) + Total(Held(s))
  BY DEF Correlate, Held
<1>4. Correlate(s).attempt = IF s.attempt.factor = None THEN None
                            ELSE s.attempt.quantity * s.attempt.factor
  BY DEF Correlate
<1> QED
  BY <1>1, <1>2, <1>3, <1>4

LEMMA JoinKey ==
  ASSUME NEW s, s.ledger.complete = TRUE, \A r \in s.ledger.rows : r.key # s.attempt.key
  PROVE  Correlate(s).key_present = FALSE
BY DEF Correlate

LEMMA JoinDispositions ==
  ASSUME NEW s, NEW q, {x \in s.quality : x.lot \in Lots(s)} = {q}
  PROVE  Correlate(s).dispositions = {q.disposition}
<1>1. Correlate(s).dispositions = {x.disposition : x \in {x \in s.quality : x.lot \in Lots(s)}}
  BY DEF Correlate, Lots, Held
<1> QED
  BY <1>1

LEMMA JoinQuality ==
  ASSUME NEW s, Lots(s) # {}, \A l \in Lots(s) : Known(s, l) /\ Exactly(s, l)
  PROVE  Correlate(s).quantity_known = TRUE /\ Correlate(s).quantity_matches = TRUE
<1>1. Correlate(s).quantity_known = (Lots(s) # {} /\ \A l \in Lots(s) : Known(s, l))
  BY DEF Correlate, Lots, Held, Known, Approvals
<1>2. Correlate(s).quantity_matches =
        (Lots(s) # {} /\ \A l \in Lots(s) : Known(s, l) /\ Exactly(s, l))
  BY DEF Correlate, Lots, Held, Known, Approvals, Exactly
<1> QED
  BY <1>1, <1>2

LEMMA JoinLots ==
  ASSUME NEW s, s.transfers = {}, Lots(s) \subseteq {r.lot : r \in s.scans}
  PROVE  Correlate(s).transfer_present = FALSE /\ Correlate(s).lots_scanned = TRUE
<1>1. Correlate(s).transfer_present = (\E l \in s.transfers : l \in Lots(s))
  BY DEF Correlate, Lots, Held
<1>2. Correlate(s).lots_scanned = (Lots(s) \subseteq {r.lot : r \in s.scans})
  BY DEF Correlate, Lots, Held
<1> QED
  BY <1>1, <1>2

(* The first rule that applies is the last one. *)
LEMMA PolicyReleases ==
  ASSUME NEW o, o.duplicate = FALSE, o.price_matches = TRUE, o.supplier_active = TRUE,
         o.lots_scanned = TRUE, o.attempt = 12, o.revision_matches = TRUE, o.complete = TRUE,
         o.accounted = 88, o.invoice_quantity = 100, o.held = 8, o.invoice_status = "HELD",
         o.key_present = FALSE, o.dispositions = {"APPROVED"}, o.quantity_known = TRUE,
         o.quantity_matches = TRUE, o.physical = 100, o.transfer_present = FALSE
  PROVE  EvaluatePolicy(o) = "RECOVERY_READY"
<1> DEFINE gap == ClampedMinus(o.invoice_quantity, o.accounted)
           r1 == o.duplicate \/ ~o.price_matches \/ ~o.supplier_active \/ ~o.lots_scanned
           r2 == o.attempt = None \/ ~o.revision_matches
           r3 == /\ o.complete /\ o.accounted = o.invoice_quantity /\ o.held = 0
                 /\ o.invoice_status = "OPEN"
           r4 == /\ o.complete /\ o.accounted = o.invoice_quantity /\ o.held = 0
                 /\ o.invoice_status = "PAYMENT_HOLD"
           r5 == ~o.complete
           r6 == o.key_present = TRUE
           r7 == o.attempt # gap
           r8 == o.held > 0 /\ Cardinality(o.dispositions) = 1 /\ o.dispositions # {"APPROVED"}
           r9 == o.held > 0 /\ ~o.quantity_known
           r10 == o.held > 0 /\ ~(o.dispositions = {"APPROVED"} /\ o.quantity_matches)
           r11 == o.physical # o.invoice_quantity \/ o.transfer_present
<1>1. ~r1
  OBVIOUS
<1>2. ~r2
  BY Absent
<1>3. ~r3 /\ ~r4 /\ ~r5 /\ ~r6
  OBVIOUS
<1>4. ~r7
  BY DEF ClampedMinus
<1>5. ~r8
  OBVIOUS
<1>6. ~r9 /\ ~r10 /\ ~r11
  OBVIOUS
<1> DEFINE rules == << <<r1, "DENY">>, <<r2, "NEEDS_EVIDENCE">>, <<r3, "RECOVERY_COMPLETE">>,
                       <<r4, "RECOVERY_READY">>, <<r5, "NEEDS_EVIDENCE">>, <<r6, "DENY">>,
                       <<r7, "NEEDS_EVIDENCE">>, <<r8, "DENY">>, <<r9, "NEEDS_EVIDENCE">>,
                       <<r10, "DENY">>, <<r11, "DENY">>, <<TRUE, "RECOVERY_READY">> >>
           applies(i) == rules[i][1]
<1>7. EvaluatePolicy(o) = rules[CHOOSE i \in DOMAIN rules :
                             rules[i][1] /\ \A j \in 1 .. (i - 1) : ~rules[j][1]][2]
  BY DEF EvaluatePolicy
<1> HIDE DEF r1, r2, r3, r4, r5, r6, r7, r8, r9, r10, r11
<1>8. DOMAIN rules = 1 .. 12
  OBVIOUS
<1>9. /\ rules[1] = <<r1, "DENY">> /\ rules[2] = <<r2, "NEEDS_EVIDENCE">>
      /\ rules[3] = <<r3, "RECOVERY_COMPLETE">> /\ rules[4] = <<r4, "RECOVERY_READY">>
      /\ rules[5] = <<r5, "NEEDS_EVIDENCE">> /\ rules[6] = <<r6, "DENY">>
      /\ rules[7] = <<r7, "NEEDS_EVIDENCE">> /\ rules[8] = <<r8, "DENY">>
      /\ rules[9] = <<r9, "NEEDS_EVIDENCE">> /\ rules[10] = <<r10, "DENY">>
      /\ rules[11] = <<r11, "DENY">> /\ rules[12] = <<TRUE, "RECOVERY_READY">>
  OBVIOUS
<1> HIDE DEF rules
<1>10. /\ ~rules[1][1] /\ ~rules[2][1] /\ ~rules[3][1] /\ ~rules[4][1] /\ ~rules[5][1]
       /\ ~rules[6][1] /\ ~rules[7][1] /\ ~rules[8][1] /\ ~rules[9][1] /\ ~rules[10][1]
       /\ ~rules[11][1] /\ rules[12][1] /\ rules[12][2] = "RECOVERY_READY"
  BY <1>1, <1>2, <1>3, <1>4, <1>5, <1>6, <1>9
<1>11. \A i \in 1 .. 12 : rules[i][1] => i = 12
  BY <1>10
<1>12. \A j \in 1 .. (12 - 1) : ~rules[j][1]
  BY <1>10
<1>13. (CHOOSE i \in DOMAIN rules : rules[i][1] /\ \A j \in 1 .. (i - 1) : ~rules[j][1]) = 12
  BY <1>8, <1>10, <1>11, <1>12
<1> QED
  BY <1>7, <1>10, <1>13

LEMMA JoinReleases ==
  EvaluatePolicy(Correlate(Sources(Primary, PrimaryCase))) = "RECOVERY_READY"
<1> DEFINE s == Sources(Primary, PrimaryCase)
           o == Correlate(s)
           R1 == [id |-> 1, quantity |-> 80, stock |-> "AVAILABLE", lot |-> "none", key |-> "first"]
           R2 == [id |-> 2, quantity |-> 8, stock |-> "QUALITY", lot |-> "LOT-B", key |-> "none"]
           C1 == [id |-> 1, lot |-> "LOT-A", quantity |-> 80]
           C2 == [id |-> 2, lot |-> "LOT-B", quantity |-> 8]
           C3 == [id |-> 3, lot |-> "LOT-C", quantity |-> 12]
           Q1 == [lot |-> "LOT-B", quantity |-> 8, disposition |-> "APPROVED"]
           Q2 == [lot |-> "LOT-X", quantity |-> 8, disposition |-> "APPROVED"]
<1>1. LedgerRows(Primary, PrimaryCase) = {R1, R2}
  BY PrimaryIs DEF LedgerRows, Primary
<1>2. Scans(Primary, PrimaryCase) = {C1, C2, C3}
  BY PrimaryIs DEF Scans, Primary
<1>3. s.ledger.rows = {R1, R2} /\ s.ledger.complete = TRUE
  BY <1>1 DEF Sources, Primary
<1>4. s.scans = {C1, C2, C3}
  BY <1>2 DEF Sources
<1>5. s.quality = {Q1, Q2}
  BY PrimaryIs DEF Sources, Primary
<1>6. s.transfers = {}
  BY DEF Sources, Primary
<1>7. s.duplicates = FALSE /\ s.supplier_active = TRUE
  BY DEF Sources, Primary
<1>8. s.invoice.quantity = 100 /\ s.invoice.status = "HELD" /\ s.invoice.price = 5000
  BY PrimaryIs DEF Sources, Primary
<1>9. s.po.price = 5000 /\ s.po.revision = 4
  BY DEF Sources
<1>10. s.attempt.quantity = 12 /\ s.attempt.factor = 1
  BY PrimaryIs DEF Sources, Primary
<1>11. s.attempt.revision = 4 /\ s.attempt.key = "attempt"
  BY DEF Sources, Primary
<1>12. /\ R1.quantity = 80 /\ R1.stock = "AVAILABLE" /\ R1.key = "first" /\ R1.id = 1
       /\ R2.quantity = 8 /\ R2.stock = "QUALITY" /\ R2.lot = "LOT-B" /\ R2.key = "none"
       /\ R2.id = 2
  OBVIOUS
<1>13. /\ C1.quantity = 80 /\ C2.quantity = 8 /\ C3.quantity = 12 /\ C2.lot = "LOT-B"
       /\ C1.id = 1 /\ C2.id = 2 /\ C3.id = 3
  OBVIOUS
<1>14. Q1.lot = "LOT-B" /\ Q1.quantity = 8 /\ Q1.disposition = "APPROVED" /\ Q2.lot = "LOT-X"
  OBVIOUS
<1> HIDE DEF s, R1, R2, C1, C2, C3, Q1, Q2
<1>15. Held(s) = {R2} /\ {r \in s.ledger.rows : r.stock = "AVAILABLE"} = {R1}
  BY <1>3, <1>12 DEF Held
<1>16. Lots(s) = {"LOT-B"}
  BY <1>12, <1>15 DEF Lots
<1>17. {r \in Held(s) : r.lot = "LOT-B"} = {R2}
  BY <1>12, <1>15
<1>18. Approvals(s, "LOT-B") = {Q1}
  BY <1>5, <1>14 DEF Approvals
<1>19. {q \in s.quality : q.lot \in Lots(s)} = {Q1}
  BY <1>5, <1>14, <1>16
<1>20. Total({R1}) = 80 /\ Total({R2}) = 8
  <2>1. R1 # R2 /\ R1 # C3 /\ R2 # C3
    BY <1>12, <1>13
  <2>2. {R1} \in SUBSET {R1, R2, C3} /\ {R2} \in SUBSET {R1, R2, C3}
    OBVIOUS
  <2>3. Total({R1}) = (IF R1 \in {R1} THEN R1.quantity ELSE 0)
          + (IF R2 \in {R1} THEN R2.quantity ELSE 0) + (IF C3 \in {R1} THEN C3.quantity ELSE 0)
    BY <1>12, <1>13, <2>1, <2>2, TotalOfThree
  <2>4. Total({R2}) = (IF R1 \in {R2} THEN R1.quantity ELSE 0)
          + (IF R2 \in {R2} THEN R2.quantity ELSE 0) + (IF C3 \in {R2} THEN C3.quantity ELSE 0)
    BY <1>12, <1>13, <2>1, <2>2, TotalOfThree
  <2> QED
    BY <1>12, <2>1, <2>3, <2>4
<1>21. Total({C1, C2, C3}) = 100
  <2>1. C1 # C2 /\ C1 # C3 /\ C2 # C3
    BY <1>13
  <2>2. Total({C1, C2, C3}) = (IF C1 \in {C1, C2, C3} THEN C1.quantity ELSE 0)
          + (IF C2 \in {C1, C2, C3} THEN C2.quantity ELSE 0)
          + (IF C3 \in {C1, C2, C3} THEN C3.quantity ELSE 0)
    BY <1>13, <2>1, TotalOfThree
  <2> QED
    BY <1>13, <2>2
<1>22. /\ o.invoice_quantity = 100 /\ o.invoice_status = "HELD" /\ o.complete = TRUE
       /\ o.duplicate = FALSE /\ o.price_matches = TRUE /\ o.supplier_active = TRUE
       /\ o.revision_matches = TRUE
  <2>1. /\ o.invoice_quantity = s.invoice.quantity /\ o.invoice_status = s.invoice.status
        /\ o.complete = s.ledger.complete /\ o.duplicate = s.duplicates
        /\ o.supplier_active = s.supplier_active
        /\ (s.invoice.price = s.po.price => o.price_matches = TRUE)
        /\ (s.attempt.revision = s.po.revision => o.revision_matches = TRUE)
    BY JoinCopies
  <2> HIDE DEF o
  <2>2. o.invoice_quantity = 100 /\ o.invoice_status = "HELD"
    BY <1>8, <2>1
  <2>3. o.complete = TRUE
    BY <1>3, <2>1
  <2>4. o.duplicate = FALSE /\ o.supplier_active = TRUE
    BY <1>7, <2>1
  <2>5. o.price_matches = TRUE
    BY <1>8, <1>9, <2>1
  <2>6. o.revision_matches = TRUE
    BY <1>9, <1>11, <2>1
  <2> QED
    BY <2>2, <2>3, <2>4, <2>5, <2>6
<1>23. o.physical = 100 /\ o.held = 8 /\ o.accounted = 88
  <2>1. /\ o.physical = Total(s.scans) /\ o.held = Total(Held(s))
        /\ o.accounted = Total({r \in s.ledger.rows : r.stock = "AVAILABLE"}) + Total(Held(s))
    BY JoinSums
  <2>2. o.physical = Total({C1, C2, C3}) /\ o.held = Total({R2})
        /\ o.accounted = Total({R1}) + Total({R2})
    BY <1>4, <1>15, <2>1
  <2> HIDE DEF o
  <2> QED
    BY <1>20, <1>21, <2>2
<1>24. o.attempt = 12
  <2>1. o.attempt = IF s.attempt.factor = None THEN None ELSE s.attempt.quantity * s.attempt.factor
    BY JoinSums
  <2> QED
    BY <1>10, <2>1, Absent
<1>25. o.key_present = FALSE
  BY <1>3, <1>11, <1>12, JoinKey
<1>26. o.dispositions = {"APPROVED"}
  BY <1>14, <1>19, JoinDispositions
<1>27. o.quantity_known = TRUE /\ o.quantity_matches = TRUE
  <2>1. Known(s, "LOT-B")
    BY <1>17, <1>18, <1>20, FS_Singleton DEF Known
  <2>2. Exactly(s, "LOT-B")
    BY <1>14, <1>17, <1>18, <1>20 DEF Exactly
  <2>3. Lots(s) # {} /\ \A l \in Lots(s) : Known(s, l) /\ Exactly(s, l)
    BY <1>16, <2>1, <2>2
  <2> QED
    BY <2>3, JoinQuality
<1>28. o.transfer_present = FALSE /\ o.lots_scanned = TRUE
  <2>1. Lots(s) \subseteq {r.lot : r \in s.scans}
    BY <1>4, <1>13, <1>16
  <2> QED
    BY <1>6, <2>1, JoinLots
<1> HIDE DEF o
<1>29. EvaluatePolicy(o) = "RECOVERY_READY"
  BY <1>22, <1>23, <1>24, <1>25, <1>26, <1>27, <1>28, PolicyReleases
<1> QED
  BY <1>29 DEF o, s

-----------------------------------------------------------------------------
(* Steps of the platform alone. *)

(* What nobody but a question or a reset changes. *)
SameTalk(q, r) == r.epoch = q.epoch /\ r.dialogue = q.dialogue

(* What a command in flight relies on. *)
SamePlan(q, r) ==
  /\ r.variant = q.variant /\ r.crossed = q.crossed
  /\ r.rejection = q.rejection /\ r.execution = q.execution
  /\ q.approval = None => r.approval = None

(* What a run and a stop leave alone. *)
SameOpening(q, r) ==
  /\ r.run = q.run /\ r.epoch = q.epoch /\ r.dialogue = q.dialogue /\ r.version = q.version
  /\ r.variant = q.variant /\ r.crossed = q.crossed
  /\ r.rejection = q.rejection /\ r.execution = q.execution
  /\ q.approval = None => r.approval = None

LEMMA OpeningIs ==
  ASSUME NEW q, NEW r, SameOpening(q, r)
  PROVE  SameTalk(q, r) /\ SamePlan(q, r)
BY DEF SameOpening, SameTalk, SamePlan

LEMMA TurnStep ==
  ASSUME NEW q, NEW q2, NEW r, SameTalk(q, q2), TurnOK(q, r)
  PROVE  TurnOK(q2, r)
BY DEF SameTalk, TurnOK

LEMMA DeskKept ==
  ASSUME DeskInv, desk' = desk, SamePlan(p, p'),
         \A t \in Threads : Current(p', threads'[t]) => Current(p, threads[t])
  PROVE  DeskInv'
<1>1. ASSUME NEW m \in Managers PROVE DeskOK(p', desk[m])
  BY DEF DeskInv, DeskOK, SamePlan, Alone
<1>2. Alone(p') = Alone(p)
  BY DEF SamePlan, Alone
<1>3. ASSUME NEW m \in Managers, NEW t \in Threads, desk[m].pc = "refuse", p'.crossed = {}
      PROVE  ~Current(p', threads'[t])
  BY <1>3 DEF DeskInv, SamePlan
<1> QED
  BY <1>1, <1>2, <1>3 DEF DeskInv

LEMMA CommandStep ==
  ASSUME IInv, UNCHANGED <<mode, threads, tasks>>, desk' = [m \in Managers |-> desk'[m]],
         used' \in UseCounts, used'.runs = used.runs, used'.conversations = used.conversations,
         used.executions <= used'.executions, used'.executions <= mode.executions,
         p'.version <= 1 + used'.executions,
         Shape(p', PlatformFields), CaseOK(p'), DialogueOK(p'), p'.run = p.run, SameTalk(p, p'),
         \A t \in Threads : CurrentOK(p', threads[t]), DeskInv'
  PROVE  IInv'
<1>1. ShapeInv'
  BY DEF IInv, ShapeInv, Scopes
<1>2. CaseInv'
  BY DEF CaseInv
<1>3. ThreadInv'
  <2>1. ASSUME NEW t \in Threads PROVE TurnOK(p', threads[t])
    BY TurnStep DEF IInv, ThreadInv
  <2> QED
    BY <2>1 DEF IInv, ThreadInv
<1>4. FreshInv'
  <2>1. used.executions \in Nat /\ used'.executions \in Nat
    BY DEF IInv, ShapeInv, UseCounts
  <2>2. \A t \in Threads : threads[t].pc # "idle" =>
          threads[t].version \in Nat /\ threads[t].version <= 1 + used.executions
    BY DEF IInv, ThreadInv, ThreadOK, FreshInv
  <2>3. \A t \in Threads : threads[t].pc # "idle" => threads[t].version <= 1 + used'.executions
    BY <2>1, <2>2
  <2>4. p'.dialogue = p.dialogue
    BY DEF SameTalk
  <2> QED
    BY <2>3, <2>4 DEF IInv, FreshInv
<1>5. TeamInv'
  BY DEF IInv, TeamInv, Scope
<1> QED
  BY <1>1, <1>2, <1>3, <1>4, <1>5 DEF IInv

LEMMA CountIs ==
  ASSUME IInv
  PROVE  /\ used \in UseCounts /\ used.executions \in Nat /\ mode.executions \in Nat
         /\ used.executions <= mode.executions /\ p.version <= 1 + used.executions
         /\ p.version \in Nat
BY DEF IInv, ShapeInv, UseCounts, Configurations, FreshInv, CaseInv, CaseOK

LEMMA PlatformStep ==
  ASSUME IInv, Command, Shape(p', PlatformFields), CaseOK(p'), DialogueOK(p'),
         SameOpening(p, p'), \A t \in Threads : CurrentOK(p', threads[t])
  PROVE  IInv'
<1>1. UNCHANGED <<mode, threads, tasks, used, desk>>
  BY DEF Command
<1>2. DeskInv'
  <2>1. \A t \in Threads : Current(p', threads'[t]) => Current(p, threads[t])
    BY <1>1 DEF Current, SameOpening
  <2> QED
    BY <1>1, <2>1, OpeningIs, DeskKept DEF IInv
<1>3. desk' = [m \in Managers |-> desk'[m]]
  BY <1>1 DEF IInv, ShapeInv
<1>4. p'.version = p.version /\ p'.run = p.run
  BY DEF SameOpening
<1> QED
  BY <1>1, <1>2, <1>3, <1>4, CountIs, OpeningIs, CommandStep

LEMMA StopStep ==
  ASSUME IInv, StopRun
  PROVE  IInv'
<1>1. /\ Shape(p', PlatformFields) /\ p'.agent = "STOPPED" /\ p'.variant = p.variant
      /\ p'.facts = p.facts /\ p'.version = p.version /\ p'.policy = p.policy
      /\ p'.advice = p.advice /\ p'.approval = p.approval /\ p'.rejection = p.rejection
      /\ p'.execution = p.execution /\ p'.scope = p.scope /\ p'.refused = p.refused
      /\ p'.turns = p.turns /\ SameOpening(p, p')
  BY DEF IInv, ShapeInv, Shape, PlatformFields, StopRun, SameOpening
<1>2. CaseOK(p') /\ DialogueOK(p')
  BY <1>1 DEF IInv, CaseInv, CaseOK, Alone, DialogueOK, SameOpening
<1>3. ASSUME NEW t \in Threads PROVE CurrentOK(p', threads[t])
  BY <1>1 DEF IInv, ThreadInv, CurrentOK, Current, SameOpening
<1> QED
  BY <1>1, <1>2, <1>3, PlatformStep DEF StopRun

(* Commands: the tests, and the writes. *)

LEMMA DeskIs ==
  ASSUME IInv, NEW m \in Managers, NEW d, desk' = [desk EXCEPT ![m] = d]
  PROVE  /\ desk'[m] = d /\ \A n \in Managers : n # m => desk'[n] = desk[n]
         /\ desk' = [n \in Managers |-> desk'[n]]
BY DEF IInv, ShapeInv

(* What a command found is still so when more has overlapped. *)
LEMMA DeskGrows ==
  ASSUME NEW q, NEW kinds, NEW d, DeskOK(q, d), Shape(q, PlatformFields),
         NEW r, r = [q EXCEPT !.crossed = @ \cup kinds]
  PROVE  DeskOK(r, d)
<1>1. /\ r.crossed = q.crossed \cup kinds /\ r.variant = q.variant /\ r.approval = q.approval
      /\ r.execution = q.execution /\ r.rejection = q.rejection
  BY DEF Shape, PlatformFields
<1>2. /\ "reset" \notin r.crossed => "reset" \notin q.crossed
      /\ r.crossed = {} => q.crossed = {}
      /\ Alone(r) => Alone(q)
  BY <1>1 DEF Alone
<1> QED
  BY <1>1, <1>2 DEF DeskOK

LEMMA BeginStep ==
  ASSUME IInv, NEW m \in Managers, NEW pc, Begin(m, pc), DeskOK(p, [pc |-> pc, binding |-> None]),
         pc = "refuse" => \A t \in Threads : ~Current(p, threads[t])
  PROVE  IInv'
<1> DEFINE d == [pc |-> pc, binding |-> None]
<1>1. /\ desk[m].pc = "rest" /\ desk' = [desk EXCEPT ![m] = d]
      /\ p' = [p EXCEPT !.crossed = @ \cup Overlapping("command")]
      /\ UNCHANGED <<mode, threads, tasks, used>>
  BY DEF Begin
<1>2. d.pc = pc
  OBVIOUS
<1> HIDE DEF d
<1>3. /\ desk'[m] = d /\ \A n \in Managers : n # m => desk'[n] = desk[n]
      /\ desk' = [n \in Managers |-> desk'[n]]
  BY <1>1, DeskIs
<1>4. /\ Shape(p', PlatformFields) /\ p'.agent = p.agent /\ p'.variant = p.variant
      /\ p'.facts = p.facts /\ p'.version = p.version /\ p'.policy = p.policy
      /\ p'.advice = p.advice /\ p'.approval = p.approval /\ p'.rejection = p.rejection
      /\ p'.execution = p.execution /\ p'.scope = p.scope /\ p'.refused = p.refused
      /\ p'.turns = p.turns /\ p'.run = p.run /\ SameTalk(p, p')
      /\ p'.crossed = p.crossed \cup Overlapping("command")
  BY <1>1 DEF IInv, ShapeInv, Shape, PlatformFields, SameTalk
<1>5. /\ "reset" \notin p'.crossed => "reset" \notin p.crossed
      /\ p'.crossed = {} => p.crossed = {}
      /\ Alone(p') => Alone(p)
  BY <1>4 DEF Alone
<1>6. CaseOK(p')
  <2>1. CaseOK(p)
    BY DEF IInv, CaseInv
  <2> QED
    BY <1>4, <1>5, <2>1 DEF CaseOK
<1>7. DialogueOK(p')
  BY <1>4 DEF IInv, CaseInv, DialogueOK, SameTalk
<1>8. ASSUME NEW t \in Threads PROVE CurrentOK(p', threads[t])
  BY <1>4, <1>5 DEF IInv, ThreadInv, CurrentOK, Current
<1>9. DeskInv'
  <2>1. ASSUME NEW n \in Managers PROVE DeskOK(p', desk'[n])
    <3>1. Shape(p, PlatformFields)
      BY DEF IInv, ShapeInv
    <3>2. DeskOK(p, desk'[n])
      BY <1>3 DEF IInv, DeskInv, d
    <3> QED
      BY <1>1, <3>1, <3>2, DeskGrows
  <2>2. ASSUME NEW n \in Managers, NEW k \in Managers, desk'[n].pc # "rest", desk'[k].pc # "rest",
               n # k
        PROVE  ~Alone(p')
    <3>1. CASE n = m
      <4>1. k \in InFlight
        BY <1>3, <2>2, <3>1 DEF InFlight
      <4> QED
        BY <1>4, <4>1 DEF Overlapping, Alone
    <3>2. CASE k = m
      <4>1. n \in InFlight
        BY <1>3, <2>2, <3>2 DEF InFlight
      <4> QED
        BY <1>4, <4>1 DEF Overlapping, Alone
    <3>3. CASE n # m /\ k # m
      <4>1. ~Alone(p)
        BY <1>3, <2>2, <3>3 DEF IInv, DeskInv
      <4> QED
        BY <1>5, <4>1
    <3> QED
      BY <3>1, <3>2, <3>3
  <2>3. ASSUME NEW n \in Managers, NEW t \in Threads, desk'[n].pc = "refuse", p'.crossed = {}
        PROVE  ~Current(p', threads'[t])
    <3>1. ~Current(p, threads[t])
      BY <1>2, <1>3, <1>5, <2>3 DEF IInv, DeskInv
    <3> QED
      BY <1>1, <1>4, <3>1 DEF Current
  <2> HIDE DEF IInv
  <2> QED
    BY <2>1, <2>2, <2>3 DEF DeskInv
<1>10. /\ used' \in UseCounts /\ used'.runs = used.runs /\ used'.conversations = used.conversations
       /\ used.executions <= used'.executions /\ used'.executions <= mode.executions
       /\ p'.version <= 1 + used'.executions
  BY <1>1, <1>4, CountIs
<1>11. UNCHANGED <<mode, threads, tasks>>
  BY <1>1
<1> QED
  BY <1>3, <1>4, <1>6, <1>7, <1>8, <1>9, <1>10, <1>11, CommandStep

(* A command that writes was alone, or something was marked as overlapping *)
(* it; either way the others are left with what they may rely on.          *)
LEMMA EndDesk ==
  ASSUME IInv, NEW m \in Managers, desk[m].pc # "rest", desk' = [desk EXCEPT ![m] = AtRest],
         p'.crossed = p.crossed, p'.variant = p.variant, p'.run = p.run, threads' = threads
  PROVE  DeskInv' /\ desk' = [n \in Managers |-> desk'[n]]
<1>1. /\ desk'[m] = AtRest /\ \A n \in Managers : n # m => desk'[n] = desk[n]
      /\ desk' = [n \in Managers |-> desk'[n]]
  BY DeskIs
<1>2. AtRest.pc = "rest"
  BY DEF AtRest
<1>3. ASSUME NEW n \in Managers, desk'[n].pc # "rest"
      PROVE  n # m /\ ~Alone(p) /\ desk'[n] = desk[n]
  BY <1>1, <1>2, <1>3 DEF IInv, DeskInv
<1>4. Alone(p') = Alone(p) /\ (p.crossed = {} => Alone(p))
  BY DEF Alone
<1>5. ASSUME NEW n \in Managers PROVE DeskOK(p', desk'[n])
  <2>1. CASE desk'[n].pc = "rest"
    BY <2>1 DEF DeskOK
  <2>2. CASE desk'[n].pc # "rest"
    <3>1. DeskOK(p, desk[n]) /\ ~Alone(p) /\ desk'[n] = desk[n]
      BY <1>3, <2>2 DEF IInv, DeskInv
    <3> QED
      BY <1>4, <3>1 DEF DeskOK
  <2> QED
    BY <2>1, <2>2
<1>6. ASSUME NEW n \in Managers, NEW k \in Managers, desk'[n].pc # "rest", desk'[k].pc # "rest",
             n # k
      PROVE  ~Alone(p')
  BY <1>3, <1>4, <1>6
<1>7. ASSUME NEW n \in Managers, NEW t \in Threads, desk'[n].pc = "refuse", p'.crossed = {}
      PROVE  ~Current(p', threads'[t])
  BY <1>3, <1>4, <1>7
<1> HIDE DEF IInv
<1> QED
  BY <1>1, <1>5, <1>6, <1>7 DEF DeskInv

(* approve *)
LEMMA ApproveStep ==
  ASSUME IInv, NEW m \in Managers, Approve(m)
  PROVE  IInv'
<1>1. CaseOK(p) /\ DeskOK(p, desk[m])
  BY DEF IInv, CaseInv, DeskInv
<1>2. CASE p.agent = "PLAN_READY" /\ Begin(m, "bind")
  <2>1. DeskOK(p, [pc |-> "bind", binding |-> None])
    BY <1>1, <1>2 DEF CaseOK, DeskOK
  <2> QED
    BY <1>2, <2>1, BeginStep
<1>3. CASE /\ desk[m].pc = "bind"
           /\ desk' = [desk EXCEPT ![m] = [pc |-> "grant", binding |-> Binding(p)]]
           /\ UNCHANGED <<mode, p, threads, tasks, used>>
  <2> DEFINE d == [pc |-> "grant", binding |-> Binding(p)]
  <2>1. d.pc = "grant" /\ desk' = [desk EXCEPT ![m] = d]
    BY <1>3
  <2> HIDE DEF d
  <2>2. /\ desk'[m] = d /\ \A n \in Managers : n # m => desk'[n] = desk[n]
        /\ desk' = [n \in Managers |-> desk'[n]]
    BY <2>1, DeskIs
  <2>3. ASSUME NEW n \in Managers
        PROVE  /\ DeskOK(p, desk'[n]) /\ (desk'[n].pc # "rest" => desk[n].pc # "rest")
               /\ desk'[n].pc = "refuse" => desk[n].pc = "refuse"
    <3>1. CASE n = m
      BY <1>1, <1>3, <2>1, <2>2, <3>1 DEF DeskOK
    <3>2. CASE n # m
      BY <2>2, <3>2 DEF IInv, DeskInv
    <3> QED
      BY <3>1, <3>2
  <2>4. DeskInv'
    BY <1>3, <2>3 DEF IInv, DeskInv
  <2>5. /\ Shape(p', PlatformFields) /\ CaseOK(p') /\ DialogueOK(p') /\ SameTalk(p, p')
        /\ \A t \in Threads : CurrentOK(p', threads[t])
    BY <1>3 DEF IInv, ShapeInv, CaseInv, ThreadInv, SameTalk
  <2> QED
    BY <1>3, <2>2, <2>4, <2>5, CountIs, CommandStep
<1>4. CASE End(m, "grant", [p EXCEPT !.approval = desk[m].binding]) /\ UNCHANGED used
  <2>1. /\ desk[m].pc = "grant" /\ desk' = [desk EXCEPT ![m] = AtRest]
        /\ p' = [p EXCEPT !.approval = desk[m].binding] /\ UNCHANGED <<mode, threads, tasks, used>>
    BY <1>4 DEF End
  <2>2. /\ Shape(p', PlatformFields) /\ p'.agent = p.agent /\ p'.variant = p.variant
        /\ p'.facts = p.facts /\ p'.version = p.version /\ p'.policy = p.policy
        /\ p'.advice = p.advice /\ p'.rejection = p.rejection
        /\ p'.execution = p.execution /\ p'.scope = p.scope /\ p'.refused = p.refused
        /\ p'.turns = p.turns /\ p'.run = p.run /\ p'.crossed = p.crossed /\ SameTalk(p, p')
    BY <2>1 DEF IInv, ShapeInv, Shape, PlatformFields, SameTalk
  <2>3. CaseOK(p')
    BY <1>1, <2>1, <2>2 DEF CaseOK, DeskOK, Alone
  <2>4. DialogueOK(p')
    BY <2>2 DEF IInv, CaseInv, DialogueOK, SameTalk
  <2>5. ASSUME NEW t \in Threads PROVE CurrentOK(p', threads[t])
    BY <2>2 DEF IInv, ThreadInv, CurrentOK, Current
  <2>6. DeskInv' /\ desk' = [n \in Managers |-> desk'[n]]
    BY <2>1, <2>2, EndDesk
  <2> QED
    BY <2>1, <2>2, <2>3, <2>4, <2>5, <2>6, CountIs, CommandStep
<1> QED
  BY <1>2, <1>3, <1>4 DEF Approve

(* reject_plan *)
LEMMA RejectStep ==
  ASSUME IInv, NEW m \in Managers, RejectPlan(m)
  PROVE  IInv'
<1>1. CaseOK(p) /\ DeskOK(p, desk[m])
  BY DEF IInv, CaseInv, DeskInv
<1>2. CASE p.agent = "PLAN_READY" /\ p.approval = None /\ p.execution = None /\ Begin(m, "refuse")
  <2>1. DeskOK(p, [pc |-> "refuse", binding |-> None])
    BY <1>1, <1>2 DEF CaseOK, DeskOK
  <2>2. \A t \in Threads : ~Current(p, threads[t])
    BY <1>2 DEF IInv, ThreadInv, CurrentOK, Current
  <2> QED
    BY <1>2, <2>1, <2>2, BeginStep
<1>3. CASE /\ End(m, "refuse", [p EXCEPT !.rejection = Binding(p), !.agent = "BLOCKED",
                                         !.finding = "HUMAN_REJECTED_PLAN"])
           /\ UNCHANGED used
  <2>1. /\ desk[m].pc = "refuse" /\ desk' = [desk EXCEPT ![m] = AtRest]
        /\ p' = [p EXCEPT !.rejection = Binding(p), !.agent = "BLOCKED",
                          !.finding = "HUMAN_REJECTED_PLAN"]
        /\ UNCHANGED <<mode, threads, tasks, used>>
    BY <1>3 DEF End
  <2>2. /\ Shape(p', PlatformFields) /\ p'.agent = "BLOCKED" /\ p'.variant = p.variant
        /\ p'.facts = p.facts /\ p'.version = p.version /\ p'.policy = p.policy
        /\ p'.advice = p.advice /\ p'.approval = p.approval
        /\ p'.execution = p.execution /\ p'.scope = p.scope /\ p'.refused = p.refused
        /\ p'.turns = p.turns /\ p'.run = p.run /\ p'.crossed = p.crossed /\ SameTalk(p, p')
    BY <2>1 DEF IInv, ShapeInv, Shape, PlatformFields, SameTalk
  <2>3. CaseOK(p')
    BY <1>1, <2>1, <2>2 DEF CaseOK, DeskOK, Alone
  <2>4. DialogueOK(p')
    BY <2>2 DEF IInv, CaseInv, DialogueOK, SameTalk
  <2>5. ASSUME NEW t \in Threads PROVE CurrentOK(p', threads[t])
    <3>1. p.crossed = {} => ~Current(p, threads[t])
      BY <2>1 DEF IInv, DeskInv
    <3> QED
      BY <2>2, <3>1 DEF IInv, ThreadInv, CurrentOK, Current
  <2>6. DeskInv' /\ desk' = [n \in Managers |-> desk'[n]]
    BY <2>1, <2>2, EndDesk
  <2> QED
    BY <2>1, <2>2, <2>3, <2>4, <2>5, <2>6, CountIs, CommandStep
<1> QED
  BY <1>2, <1>3 DEF RejectPlan

LEMMA CountExecution ==
  ASSUME NEW u \in UseCounts, NEW n \in Nat
  PROVE  /\ [u EXCEPT !.executions = n] \in UseCounts
         /\ [u EXCEPT !.executions = n].executions = n
         /\ [u EXCEPT !.executions = n].runs = u.runs
         /\ [u EXCEPT !.executions = n].conversations = u.conversations
BY DEF UseCounts

(* execute *)
LEMMA ExecuteStep ==
  ASSUME IInv, NEW m \in Managers, Execute(m)
  PROVE  IInv'
<1>1. CaseOK(p) /\ DeskOK(p, desk[m])
  BY DEF IInv, CaseInv, DeskInv
<1>2. CASE p.approval # None /\ p.execution = None /\ Begin(m, "apply")
  <2>1. DeskOK(p, [pc |-> "apply", binding |-> None])
    BY <1>1, <1>2 DEF CaseOK, DeskOK
  <2> QED
    BY <1>2, <2>1, BeginStep
<1>3. CASE /\ used.executions < mode.executions
           /\ used' = [used EXCEPT !.executions = @ + 1]
           /\ End(m, "apply", [p EXCEPT !.scope = <<p.facts.unresolved, p.facts.hold>>,
                                 !.execution = "VERIFYING", !.facts = Recovered(p.facts),
                                 !.version = @ + 1])
  <2>1. /\ desk[m].pc = "apply" /\ desk' = [desk EXCEPT ![m] = AtRest]
        /\ p' = [p EXCEPT !.scope = <<p.facts.unresolved, p.facts.hold>>,
                          !.execution = "VERIFYING", !.facts = Recovered(p.facts),
                          !.version = p.version + 1]
        /\ UNCHANGED <<mode, threads, tasks>>
    BY <1>3 DEF End
  <2>2. /\ Shape(p', PlatformFields) /\ p'.agent = p.agent /\ p'.variant = p.variant
        /\ p'.facts = Recovered(p.facts) /\ p'.version = p.version + 1 /\ p'.policy = p.policy
        /\ p'.advice = p.advice /\ p'.approval = p.approval /\ p'.rejection = p.rejection
        /\ p'.execution = "VERIFYING" /\ p'.scope = <<p.facts.unresolved, p.facts.hold>>
        /\ p'.refused = p.refused /\ p'.turns = p.turns /\ p'.run = p.run
        /\ p'.crossed = p.crossed /\ SameTalk(p, p')
    BY <2>1 DEF IInv, ShapeInv, Shape, PlatformFields, SameTalk
  <2>3. p'.version \in Nat /\ p'.version > 0
    BY <1>1, <2>2 DEF CaseOK
  <2>4. "key" \in DOMAIN p'.facts /\ p'.facts.key = TRUE
    BY <1>1, <2>2, RecoveredHasKey DEF CaseOK
  <2>5. Alone(p) => p.execution = None /\ p.facts = CaseOf(p.variant) /\ p.variant = Primary
    BY <1>1, <2>1 DEF CaseOK, DeskOK, Alone
  <2>6. CaseOK(p')
    <3>1. Alone(p') = Alone(p)
      BY <2>2 DEF Alone
    <3>2. "reset" \notin p.crossed => p.variant = Primary
      BY <1>1, <2>1 DEF DeskOK
    <3>3. p.crossed = {} => p.rejection = None
      BY <1>1, <2>1 DEF DeskOK
    <3> QED
      BY <1>1, <2>2, <2>3, <2>4, <2>5, <3>1, <3>2, <3>3, Absent DEF CaseOK
  <2>7. DialogueOK(p')
    BY <2>2 DEF IInv, CaseInv, DialogueOK, SameTalk
  <2>8. ASSUME NEW t \in Threads PROVE CurrentOK(p', threads[t])
    BY <2>2 DEF IInv, ThreadInv, CurrentOK, Current
  <2>9. DeskInv' /\ desk' = [n \in Managers |-> desk'[n]]
    BY <2>1, <2>2, EndDesk
  <2>10. PICK n \in Nat : n = used.executions + 1
    BY CountIs
  <2>11. /\ used' \in UseCounts /\ used'.executions = n /\ used'.runs = used.runs
         /\ used'.conversations = used.conversations
    BY <1>3, <2>10, CountIs, CountExecution
  <2>12. /\ used.executions <= used'.executions /\ used'.executions <= mode.executions
         /\ p'.version <= 1 + used'.executions
    BY <1>3, <2>2, <2>10, <2>11, CountIs
  <2> QED
    BY <2>1, <2>2, <2>6, <2>7, <2>8, <2>9, <2>11, <2>12, CommandStep
<1> QED
  BY <1>2, <1>3 DEF Execute

(* verify *)
LEMMA VerifyStep ==
  ASSUME IInv, NEW m \in Managers, Verify(m)
  PROVE  IInv'
<1>1. CaseOK(p) /\ DeskOK(p, desk[m])
  BY DEF IInv, CaseInv, DeskInv
<1>2. CASE p.execution = "VERIFYING" /\ Begin(m, "verify")
  <2>1. DeskOK(p, [pc |-> "verify", binding |-> None])
    BY <1>1, <1>2, Absent DEF CaseOK, DeskOK
  <2> QED
    BY <1>2, <2>1, BeginStep
<1>3. CASE /\ End(m, "verify", [p EXCEPT !.execution = "VERIFIED", !.agent = "VERIFIED",
                                         !.finding = "RECOVERY_VERIFIED"])
           /\ UNCHANGED used
  <2>1. /\ desk[m].pc = "verify" /\ desk' = [desk EXCEPT ![m] = AtRest]
        /\ p' = [p EXCEPT !.execution = "VERIFIED", !.agent = "VERIFIED",
                          !.finding = "RECOVERY_VERIFIED"]
        /\ UNCHANGED <<mode, threads, tasks, used>>
    BY <1>3 DEF End
  <2>2. /\ Shape(p', PlatformFields) /\ p'.agent = "VERIFIED" /\ p'.variant = p.variant
        /\ p'.facts = p.facts /\ p'.version = p.version /\ p'.policy = p.policy
        /\ p'.advice = p.advice /\ p'.approval = p.approval /\ p'.rejection = p.rejection
        /\ p'.execution = "VERIFIED" /\ p'.scope = p.scope /\ p'.refused = p.refused
        /\ p'.turns = p.turns /\ p'.run = p.run /\ p'.crossed = p.crossed /\ SameTalk(p, p')
    BY <2>1 DEF IInv, ShapeInv, Shape, PlatformFields, SameTalk
  <2>3. CaseOK(p')
    BY <1>1, <2>1, <2>2, Absent DEF CaseOK, DeskOK, Alone
  <2>4. DialogueOK(p')
    BY <2>2 DEF IInv, CaseInv, DialogueOK, SameTalk
  <2>5. ASSUME NEW t \in Threads PROVE CurrentOK(p', threads[t])
    BY <2>2 DEF IInv, ThreadInv, CurrentOK, Current
  <2>6. DeskInv' /\ desk' = [n \in Managers |-> desk'[n]]
    BY <2>1, <2>2, EndDesk
  <2> QED
    BY <2>1, <2>2, <2>3, <2>4, <2>5, <2>6, CountIs, CommandStep
<1> QED
  BY <1>2, <1>3 DEF Verify

-----------------------------------------------------------------------------
(* One step of a thread. *)

(* A thread under way has a scope of its own in the journal. *)
LEMMA ScopeIs ==
  ASSUME IInv, NEW t \in Threads, threads[t].pc # "idle"
  PROVE  Scope(t) \in Scopes
<1>0. threads[t].version \in 1 .. 1 + mode.executions
  <2>1. threads[t].version \in Nat /\ threads[t].version > 0
    BY DEF IInv, ThreadInv, ThreadOK
  <2>2. threads[t].version <= 1 + used.executions
    BY DEF IInv, FreshInv
  <2> QED
    BY <2>1, <2>2, CountIs
<1>1. /\ threads[t].kind \in {"run", "turn"}
      /\ threads[t].id \in Nat /\ threads[t].id > 0
  BY DEF IInv, ThreadInv, ThreadOK
<1>2. /\ mode.runs \in Nat /\ mode.conversations \in Nat /\ used.runs \in Nat
      /\ used.conversations \in Nat
      /\ used.runs <= mode.runs /\ used.conversations <= mode.conversations
  BY DEF IInv, ShapeInv, Configurations, UseCounts
<1>3. CASE threads[t].kind = "run"
  <2>1. threads[t].id <= used.runs
    BY <1>3 DEF IInv, FreshInv
  <2>2. threads[t].id \in 1 .. mode.runs
    BY <1>1, <1>2, <2>1
  <2> QED
    BY <1>0, <1>3, <2>2 DEF Scope, Scopes
<1>4. CASE threads[t].kind = "turn"
  <2>1. threads[t].id <= used.conversations
    BY <1>4 DEF IInv, FreshInv
  <2>2. threads[t].id \in 1 .. mode.conversations
    BY <1>1, <1>2, <2>1
  <2> QED
    BY <1>0, <1>4, <2>2 DEF Scope, Scopes
<1> QED
  BY <1>1, <1>3, <1>4

LEMMA ScopesDiffer ==
  ASSUME IInv, NEW t \in Threads, NEW s \in Threads, t # s,
         threads[t].pc # "idle", threads[s].pc # "idle"
  PROVE  Scope(t) # Scope(s)
<1>1. threads[t].kind \in {"run", "turn"}
  BY DEF IInv, ThreadInv, ThreadOK
<1> QED
  BY <1>1 DEF Scope, IInv, FreshInv

(* The thread is the same request; only how far it has come has changed. *)
SameRequest(old, new) ==
  /\ new.kind = old.kind /\ new.id = old.id
  /\ new.version = old.version /\ new.epoch = old.epoch

LEMMA ThreadStep ==
  ASSUME IInv, NEW t \in Threads, NEW r, threads[t].pc # "idle",
         threads' = [threads EXCEPT ![t] = r], mode' = mode, used' = used, desk' = desk,
         Shape(p', PlatformFields), CaseOK(p'), DialogueOK(p'), SameOpening(p, p'),
         \A s \in Threads : s # t => CurrentOK(p', threads[s]),
         Shape(r, ThreadFields), r.owned \in [Roles -> Nat], r.claimed \in [Roles -> Nat],
         ThreadOK(r), r.pc # "idle" => SameRequest(threads[t], r), CurrentOK(p', r),
         tasks' \in [Scopes -> [Roles -> TaskRows]],
         \A c \in Scopes : c # Scope(t) => tasks'[c] = tasks[c],
         r.pc # "idle" => TeamOK(tasks'[Scope(t)], r)
  PROVE  IInv'
<1>1. /\ threads'[t] = r /\ \A s \in Threads : s # t => threads'[s] = threads[s]
      /\ threads' = [s \in Threads |-> threads'[s]]
  BY DEF IInv, ShapeInv
<1> HIDE DEF IInv
<1>2. ShapeInv'
  <2>1. \A s \in Threads : Shape(threads'[s], ThreadFields)
    BY <1>1 DEF IInv, ShapeInv
  <2>2. \A s \in Threads : threads'[s].owned \in [Roles -> Nat] /\ threads'[s].claimed \in [Roles -> Nat]
    BY <1>1 DEF IInv, ShapeInv
  <2>3. Scopes' = Scopes
    BY DEF Scopes
  <2>4. mode' \in Configurations /\ used' \in UseCounts /\ desk' = [m \in Managers |-> desk'[m]]
        /\ used'.runs <= mode'.runs /\ used'.conversations <= mode'.conversations
        /\ used'.executions <= mode'.executions
    BY DEF IInv, ShapeInv
  <2> QED
    BY <1>1, <2>1, <2>2, <2>3, <2>4 DEF ShapeInv
<1>3. ThreadInv'
  <2>1. ASSUME NEW s \in Threads PROVE TurnOK(p', threads'[s])
    <3>1. CASE s = t
      <4>1. TurnOK(p, threads[t])
        BY DEF IInv, ThreadInv
      <4>2. r.pc = "idle" \/ TurnOK(p, r)
        BY <4>1 DEF TurnOK, SameRequest
      <4> QED
        BY <1>1, <3>1, <4>2, OpeningIs, TurnStep DEF TurnOK
    <3>2. CASE s # t
      BY <1>1, <3>2, OpeningIs, TurnStep DEF IInv, ThreadInv
    <3> QED
      BY <3>1, <3>2
  <2>2. ASSUME NEW s \in Threads PROVE ThreadOK(threads'[s]) /\ CurrentOK(p', threads'[s])
    BY <1>1 DEF IInv, ThreadInv
  <2> QED
    BY <2>1, <2>2 DEF ThreadInv
<1>4. FreshInv'
  <2>1. /\ p'.run <= used'.runs /\ (p'.dialogue # None => p'.dialogue.id <= used'.conversations)
        /\ p'.version <= 1 + used'.executions
    BY DEF IInv, FreshInv, SameOpening
  <2>2. \A s \in Threads : threads'[s].pc # "idle" =>
          /\ threads[s].pc # "idle" /\ threads'[s].kind = threads[s].kind
          /\ threads'[s].id = threads[s].id /\ threads'[s].version = threads[s].version
    BY <1>1 DEF SameRequest
  <2>3. /\ \A s \in Threads : threads'[s].pc # "idle" =>
           /\ threads'[s].version <= 1 + used'.executions
           /\ threads'[s].kind = "run" => threads'[s].id <= used'.runs
           /\ threads'[s].kind = "turn" => threads'[s].id <= used'.conversations /\ s \in Asks
    BY <2>2 DEF IInv, FreshInv
  <2>4. \A s, u \in Threads :
          threads'[s].pc # "idle" /\ threads'[u].pc # "idle" /\ threads'[s].kind = threads'[u].kind =>
            /\ threads'[s].kind = "run" /\ threads'[s].id = threads'[u].id => s = u
            /\ threads'[s].kind = "turn" => s = u
    BY <2>2 DEF IInv, FreshInv
  <2> QED
    BY <2>1, <2>3, <2>4 DEF FreshInv
<1>5. TeamInv'
  <2>1. ASSUME NEW s \in Threads, threads'[s].pc # "idle"
        PROVE  TeamOK(tasks'[Scope(s)'], threads'[s])
    <3>1. CASE s = t
      <4>1. Scope(s)' = Scope(t)
        BY <1>1, <2>1, <3>1 DEF Scope, SameRequest
      <4> QED
        BY <1>1, <2>1, <3>1, <4>1
    <3>2. CASE s # t
      <4>1. Scope(s)' = Scope(s) /\ threads'[s] = threads[s]
        BY <1>1, <3>2 DEF Scope
      <4>2. Scope(s) \in Scopes /\ Scope(s) # Scope(t)
        BY <2>1, <3>2, <4>1, ScopeIs, ScopesDiffer
      <4>3. tasks'[Scope(s)] = tasks[Scope(s)]
        BY <4>2
      <4>4. TeamOK(tasks[Scope(s)], threads[s])
        BY <2>1, <4>1 DEF IInv, TeamInv
      <4> QED
        BY <4>1, <4>3, <4>4
    <3> QED
      BY <3>1, <3>2
  <2> QED
    BY <2>1 DEF TeamInv
<1>6. CaseInv'
  BY DEF CaseInv
<1>7. DeskInv'
  <2>1. ASSUME NEW s \in Threads, Current(p', threads'[s]) PROVE Current(p, threads[s])
    BY <1>1, <2>1 DEF Current, SameRequest, SameOpening
  <2> QED
    BY <2>1, OpeningIs, DeskKept DEF IInv
<1> QED
  BY <1>2, <1>3, <1>4, <1>5, <1>6, <1>7 DEF IInv

(* The run goes on: what it was asked and what it may answer are the same. *)
Onward(old, new) ==
  /\ Shape(new, ThreadFields) /\ SameRequest(old, new)
  /\ new.expected = old.expected /\ new.readOnly = old.readOnly /\ new.refused = old.refused
  /\ old.pc \in Working /\ new.pc \in Working

LEMMA WorkingIs == \A pc \in Working : pc # "idle" /\ pc # "deliver"
BY DEF Working

LEMMA OnwardKeeps ==
  ASSUME NEW old, NEW new, Onward(old, new), ThreadOK(old), NEW q, CurrentOK(q, old)
  PROVE  ThreadOK(new) /\ CurrentOK(q, new)
BY WorkingIs DEF Onward, ThreadOK, CurrentOK, Current, SameRequest

LEMMA TeamKept ==
  ASSUME NEW old, NEW new, Onward(old, new), NEW rows, TeamOK(rows, old),
         new.owned = old.owned, new.claimed = old.claimed, new.failed = old.failed
  PROVE  TeamOK(rows, new)
BY WorkingIs DEF Onward, TeamOK

(* A report of progress only marks the case as being worked on. *)
LEMMA ProgressStep ==
  ASSUME IInv, NEW t \in Threads, threads[t].pc # "idle", p' = Progressed(t)
  PROVE  /\ Shape(p', PlatformFields) /\ CaseOK(p') /\ DialogueOK(p') /\ SameOpening(p, p')
         /\ \A r : CurrentOK(p, r) => CurrentOK(p', r)
<1>1. CASE p' = p
  BY <1>1 DEF IInv, ShapeInv, CaseInv, SameOpening
<1>2. CASE p' # p
  <2>1. threads[t].kind = "run" /\ p.run = threads[t].id /\ p' = [p EXCEPT !.agent = "ACTIVE"]
    BY <1>2 DEF Progressed
  <2>2. /\ Shape(p', PlatformFields) /\ p'.agent = "ACTIVE" /\ p'.variant = p.variant
        /\ p'.facts = p.facts /\ p'.version = p.version /\ p'.policy = p.policy
        /\ p'.advice = p.advice /\ p'.approval = p.approval /\ p'.rejection = p.rejection
        /\ p'.execution = p.execution /\ p'.scope = p.scope /\ p'.refused = p.refused
        /\ p'.turns = p.turns /\ SameOpening(p, p')
    BY <2>1 DEF IInv, ShapeInv, Shape, PlatformFields, SameOpening
  <2>3. CaseOK(p') /\ DialogueOK(p')
    BY <2>2 DEF IInv, CaseInv, CaseOK, Alone, DialogueOK, SameOpening
  <2>4. ASSUME NEW r, CurrentOK(p, r) PROVE CurrentOK(p', r)
    BY <2>2, <2>4 DEF CurrentOK, Current, SameOpening
  <2> QED
    BY <2>2, <2>3, <2>4
<1> QED
  BY <1>1, <1>2

LEMMA SameShape ==
  ASSUME IInv
  PROVE  /\ threads = [s \in Threads |-> threads[s]]
         /\ \A s \in Threads : Shape(threads[s], ThreadFields)
         /\ \A s \in Threads : threads[s].owned \in [Roles -> Nat] /\ threads[s].claimed \in [Roles -> Nat]
         /\ tasks \in [Scopes -> [Roles -> TaskRows]]
BY DEF IInv, ShapeInv

(* A step that reports progress and leaves the team alone. *)
LEMMA QuietStep ==
  ASSUME IInv, NEW t \in Threads, NEW r, threads' = [threads EXCEPT ![t] = r],
         Onward(threads[t], r), r.owned = threads[t].owned, r.claimed = threads[t].claimed,
         r.failed = threads[t].failed, p' = Progressed(t), UNCHANGED <<mode, tasks, used, desk>>
  PROVE  IInv'
<1>1. threads[t].pc # "idle" /\ r.pc # "idle"
  BY WorkingIs DEF Onward
<1>2. /\ Shape(p', PlatformFields) /\ CaseOK(p') /\ DialogueOK(p') /\ SameOpening(p, p')
      /\ \A s : CurrentOK(p, s) => CurrentOK(p', s)
  BY <1>1, ProgressStep
<1>3. /\ \A s \in Threads : ThreadOK(threads[s]) /\ CurrentOK(p, threads[s])
      /\ TeamOK(tasks[Scope(t)], threads[t])
  BY <1>1 DEF IInv, ThreadInv, TeamInv
<1>4. ThreadOK(r) /\ CurrentOK(p', r)
  BY <1>2, <1>3, OnwardKeeps
<1>5. TeamOK(tasks[Scope(t)], r)
  BY <1>3, TeamKept
<1>6. Shape(r, ThreadFields) /\ SameRequest(threads[t], r)
  BY DEF Onward
<1>7. r.owned \in [Roles -> Nat] /\ r.claimed \in [Roles -> Nat] /\ tasks \in [Scopes -> [Roles -> TaskRows]]
  BY SameShape
<1> QED
  BY <1>1, <1>2, <1>3, <1>4, <1>5, <1>6, <1>7, ThreadStep

LEMMA AcquireStep ==
  ASSUME IInv, NEW t \in Threads, Acquire(t)
  PROVE  IInv'
<1>1. PICK reads \in Readable(threads[t].reads) :
       \/ threads' = [threads EXCEPT ![t].reads = reads, ![t].round = 1,
                                     ![t].pc = IF mode.roles THEN "consult" ELSE "answer"]
       \/ threads' = [threads EXCEPT ![t].reads = reads, ![t].round = 2]
  BY DEF Acquire
<1>2. ASSUME NEW pc \in {"consult", "answer"},
             threads' = [threads EXCEPT ![t].reads = reads, ![t].round = 1, ![t].pc = pc]
      PROVE  IInv'
  <2> DEFINE r == [threads[t] EXCEPT !.reads = reads, !.round = 1, !.pc = pc]
  <2>1. threads' = [threads EXCEPT ![t] = r]
    BY <1>2, SameShape
  <2>2. /\ Onward(threads[t], r) /\ r.owned = threads[t].owned /\ r.claimed = threads[t].claimed
        /\ r.failed = threads[t].failed
    BY SameShape DEF Acquire, Onward, SameRequest, Shape, ThreadFields, Working
  <2> HIDE DEF r
  <2> QED
    BY <2>1, <2>2, QuietStep DEF Acquire
<1>3. CASE threads' = [threads EXCEPT ![t].reads = reads, ![t].round = 2]
  <2> DEFINE r == [threads[t] EXCEPT !.reads = reads, !.round = 2]
  <2>1. threads' = [threads EXCEPT ![t] = r]
    BY <1>3, SameShape
  <2>2. /\ Onward(threads[t], r) /\ r.owned = threads[t].owned /\ r.claimed = threads[t].claimed
        /\ r.failed = threads[t].failed
    BY SameShape DEF Acquire, Onward, SameRequest, Shape, ThreadFields, Working
  <2> HIDE DEF r
  <2> QED
    BY <2>1, <2>2, QuietStep DEF Acquire
<1>4. CASE threads' = [threads EXCEPT ![t].reads = reads, ![t].round = 1,
                                      ![t].pc = IF mode.roles THEN "consult" ELSE "answer"]
  <2>1. CASE mode.roles
    BY <1>2, <1>4, <2>1
  <2>2. CASE ~mode.roles
    BY <1>2, <1>4, <2>2
  <2> QED
    BY <2>1, <2>2
<1> QED
  BY <1>1, <1>3, <1>4

LEMMA ConverseStep ==
  ASSUME IInv, NEW t \in Threads, Converse(t)
  PROVE  IInv'
<1> DEFINE r == [threads[t] EXCEPT !.pc = "answer"]
<1>1. threads' = [threads EXCEPT ![t] = r]
  BY SameShape DEF Converse, Goto
<1>2. /\ Onward(threads[t], r) /\ r.owned = threads[t].owned /\ r.claimed = threads[t].claimed
      /\ r.failed = threads[t].failed
  BY SameShape DEF Converse, Onward, SameRequest, Shape, ThreadFields, Working
<1> HIDE DEF r
<1> QED
  BY <1>1, <1>2, QuietStep DEF Converse

(* What an advisory run hands over, usable or not. *)
Handed(old, result) ==
  [Idle EXCEPT !.pc = "deliver", !.result = result, !.kind = old.kind, !.id = old.id,
               !.version = old.version, !.epoch = old.epoch, !.refused = old.refused,
               !.claimed = old.claimed]

LEMMA HandedIs ==
  ASSUME NEW old, NEW result
  PROVE  /\ Shape(Handed(old, result), ThreadFields) /\ SameRequest(old, Handed(old, result))
         /\ Handed(old, result).pc = "deliver" /\ Handed(old, result).result = result
         /\ Handed(old, result).refused = old.refused
         /\ Handed(old, result).claimed = old.claimed
         /\ Handed(old, result).owned = NoTasks
BY DEF Handed, Idle, Shape, ThreadFields, SameRequest

LEMMA NoTasksIs == NoTasks \in [Roles -> Nat] /\ \A role \in Roles : NoTasks[role] = 0
BY DEF NoTasks

LEMMA DeliveringIs ==
  ASSUME NEW t \in Threads, NEW result, Delivering(t, result)
  PROVE  threads' = [threads EXCEPT ![t] = Handed(threads[t], result)]
BY DEF Delivering, Handed

LEMMA HandingStep ==
  ASSUME IInv, NEW t \in Threads, NEW result, Delivering(t, result), mode' = mode, used' = used, desk' = desk,
         threads[t].pc \in Working, p' = Progressed(t) \/ p' = p,
         IF result.status = "COMPLETE"
         THEN /\ result \in Advisories /\ result.run = threads[t].id
              /\ threads[t].refused => result.writes = FALSE
              /\ result.disposition = threads[t].expected
              /\ Waiting(t) /\ ~threads[t].failed /\ tasks' = tasks
         ELSE result.run = 0,
         tasks' \in [Scopes -> [Roles -> TaskRows]],
         \A c \in Scopes : c # Scope(t) => tasks'[c] = tasks[c]
  PROVE  IInv'
<1> DEFINE r == Handed(threads[t], result)
<1>1. threads' = [threads EXCEPT ![t] = r]
  BY DeliveringIs
<1>2. /\ Shape(r, ThreadFields) /\ SameRequest(threads[t], r) /\ r.pc = "deliver"
      /\ r.result = result /\ r.refused = threads[t].refused /\ r.claimed = threads[t].claimed
      /\ r.owned = NoTasks
  BY HandedIs
<1> HIDE DEF r
<1>3. threads[t].pc # "idle"
  BY WorkingIs
<1>4. /\ Shape(p', PlatformFields) /\ CaseOK(p') /\ DialogueOK(p') /\ SameOpening(p, p')
      /\ \A s : CurrentOK(p, s) => CurrentOK(p', s)
  <2>1. CASE p' = p
    BY <2>1 DEF IInv, ShapeInv, CaseInv, SameOpening
  <2>2. CASE p' = Progressed(t)
    BY <1>3, <2>2, ProgressStep
  <2> QED
    BY <2>1, <2>2
<1>5. \A s \in Threads : ThreadOK(threads[s]) /\ CurrentOK(p, threads[s])
  BY DEF IInv, ThreadInv
<1>6. ThreadOK(r)
  BY <1>2, <1>3, <1>5, WorkingIs DEF ThreadOK, SameRequest
<1>7. CurrentOK(p, r)
  BY <1>2, <1>3, <1>5, WorkingIs DEF CurrentOK, Current, SameRequest
<1>8. TeamOK(tasks'[Scope(t)], r)
  <2>1. CASE result.status = "COMPLETE"
    <3>1. TeamOK(tasks[Scope(t)], threads[t])
      BY <1>3 DEF IInv, TeamInv
    <3> QED
      BY <1>2, <2>1, <3>1, NoTasksIs, WorkingIs DEF TeamOK, Waiting
  <2>2. CASE result.status # "COMPLETE"
    BY <1>2, <2>2, WorkingIs DEF TeamOK
  <2> QED
    BY <2>1, <2>2
<1>9. r.owned \in [Roles -> Nat] /\ r.claimed \in [Roles -> Nat]
  BY <1>2, NoTasksIs, SameShape
<1> QED
  BY <1>1, <1>2, <1>3, <1>4, <1>5, <1>6, <1>7, <1>8, <1>9, ThreadStep

LEMMA AnswerStep ==
  ASSUME IInv, NEW t \in Threads, Answer(t)
  PROVE  IInv'
<1>0. /\ threads[t].pc \in Working /\ Waiting(t) /\ ~threads[t].failed /\ p' = Progressed(t)
      /\ mode' = mode /\ tasks' = tasks /\ used' = used /\ desk' = desk /\ threads[t].pc # "idle"
  BY DEF Answer, Working
<1>1. ThreadOK(threads[t])
  BY DEF IInv, ThreadInv
<1>2. tasks' \in [Scopes -> [Roles -> TaskRows]] /\ \A c \in Scopes : tasks'[c] = tasks[c]
  BY <1>0, SameShape
<1>3. CASE Complete(t)
  <2>1. /\ threads[t].expected \in Dispositions /\ threads[t].readOnly \in BOOLEAN
        /\ (threads[t].refused => threads[t].readOnly = TRUE) /\ threads[t].id \in Nat
    BY <1>0, <1>1 DEF ThreadOK
  <2>2. PICK writes \in Answers[threads[t].expected][threads[t].readOnly] :
          Delivering(t, [status |-> "COMPLETE", run |-> threads[t].id,
                         disposition |-> threads[t].expected, writes |-> writes])
    BY <1>3 DEF Complete
  <2>3. writes \in BOOLEAN /\ (threads[t].readOnly = TRUE => writes = FALSE)
    BY <2>1, <2>2, AnswersHonour
  <2> DEFINE a == [status |-> "COMPLETE", run |-> threads[t].id,
                   disposition |-> threads[t].expected, writes |-> writes]
  <2>4. /\ a \in Advisories /\ a.status = "COMPLETE" /\ a.run = threads[t].id
        /\ a.disposition = threads[t].expected /\ (threads[t].refused => a.writes = FALSE)
    BY <2>1, <2>3 DEF Advisories
  <2>5. Delivering(t, a)
    BY <2>2
  <2> HIDE DEF a
  <2> QED
    BY <1>0, <1>2, <2>4, <2>5, HandingStep
<1>4. CASE Delivering(t, Failure("VALIDATION_FAILED"))
  <2>1. Failure("VALIDATION_FAILED").status # "COMPLETE" /\ Failure("VALIDATION_FAILED").run = 0
    BY DEF Failure
  <2> QED
    BY <1>0, <1>2, <1>4, <2>1, HandingStep
<1>5. CASE Repair(t)
  <2> DEFINE r == [threads[t] EXCEPT !.pc = "repair", !.closed = TRUE,
                                     !.round = IF threads[t].pc = "answer" THEN 1 ELSE 2]
  <2>1. threads' = [threads EXCEPT ![t] = r]
    BY <1>5, SameShape DEF Repair
  <2>2. /\ Onward(threads[t], r) /\ r.owned = threads[t].owned /\ r.claimed = threads[t].claimed
        /\ r.failed = threads[t].failed
    BY <1>0, SameShape DEF Onward, SameRequest, Shape, ThreadFields, Working
  <2> HIDE DEF r
  <2> QED
    BY <1>0, <2>1, <2>2, QuietStep
<1> QED
  BY <1>3, <1>4, <1>5 DEF Answer

LEMMA FinishedIs ==
  ASSUME NEW row \in TaskRows, NEW token, NEW status \in {"COMPLETED", "FAILED", "CANCELLED"}
  PROVE  /\ Finished(row, token, status) \in TaskRows
         /\ Finished(row, token, status).attempt = row.attempt
         /\ Owns(row, token) => Finished(row, token, status).status = status
BY DEF Finished, TaskRows

LEMMA SettledIs ==
  ASSUME NEW rows \in [Roles -> TaskRows], NEW owned, NEW status \in {"COMPLETED", "FAILED", "CANCELLED"}
  PROVE  Settled(rows, owned, status) \in [Roles -> TaskRows]
<1>1. \A role \in Roles : Finished(rows[role], owned[role], status) \in TaskRows /\ rows[role] \in TaskRows
  BY FinishedIs
<1> QED
  BY <1>1 DEF Settled

(* The rows of the scopes that a step does not write. *)
LEMMA RowsStep ==
  ASSUME IInv, NEW t \in Threads, threads[t].pc # "idle", NEW rows \in [Roles -> TaskRows],
         tasks' = [tasks EXCEPT ![Scope(t)] = rows]
  PROVE  /\ tasks' \in [Scopes -> [Roles -> TaskRows]]
         /\ \A c \in Scopes : c # Scope(t) => tasks'[c] = tasks[c]
         /\ tasks'[Scope(t)] = rows /\ tasks[Scope(t)] \in [Roles -> TaskRows]
<1>1. Scope(t) \in Scopes /\ tasks \in [Scopes -> [Roles -> TaskRows]]
  BY ScopeIs, SameShape
<1> QED
  BY <1>1

LEMMA AbortStep ==
  ASSUME IInv, NEW t \in Threads, Abort(t)
  PROVE  IInv'
<1>1. /\ threads[t].pc \in Working /\ threads[t].pc # "idle" /\ p' = p /\ mode' = mode
      /\ used' = used /\ desk' = desk /\ Delivering(t, Failure("AGENT_UNAVAILABLE"))
  BY WorkingIs DEF Abort
<1>2. PICK status \in {"FAILED", "CANCELLED"} :
        tasks' = [tasks EXCEPT ![Scope(t)] = Settled(tasks[Scope(t)], threads[t].owned, status)]
  <2>1. tasks' = [tasks EXCEPT ![Scope(t)] = Settled(tasks[Scope(t)], threads[t].owned,
                                   IF Continues(t) THEN "FAILED" ELSE "CANCELLED")]
    BY ScopeIs, SameShape, <1>1 DEF Abort
  <2> QED
    BY <2>1
<1>3. tasks[Scope(t)] \in [Roles -> TaskRows]
  BY <1>1, ScopeIs, SameShape
<1>4. Settled(tasks[Scope(t)], threads[t].owned, status) \in [Roles -> TaskRows]
  BY <1>3, SettledIs
<1>5. /\ tasks' \in [Scopes -> [Roles -> TaskRows]]
      /\ \A c \in Scopes : c # Scope(t) => tasks'[c] = tasks[c]
  BY <1>1, <1>2, <1>4, RowsStep
<1>6. Failure("AGENT_UNAVAILABLE").status # "COMPLETE" /\ Failure("AGENT_UNAVAILABLE").run = 0
  BY DEF Failure
<1> QED
  BY <1>1, <1>5, <1>6, HandingStep

(* A step of the team: the run and the rows of its scope. *)
LEMMA TeamStep ==
  ASSUME IInv, NEW t \in Threads, NEW r, threads' = [threads EXCEPT ![t] = r],
         Onward(threads[t], r), r.owned \in [Roles -> Nat], r.claimed \in [Roles -> Nat],
         UNCHANGED <<mode, p, used, desk>>,
         tasks' \in [Scopes -> [Roles -> TaskRows]],
         \A c \in Scopes : c # Scope(t) => tasks'[c] = tasks[c],
         TeamOK(tasks'[Scope(t)], r)
  PROVE  IInv'
<1>1. threads[t].pc # "idle" /\ r.pc # "idle"
  BY WorkingIs DEF Onward
<1>2. Shape(p', PlatformFields) /\ CaseOK(p') /\ DialogueOK(p') /\ SameOpening(p, p')
  BY DEF IInv, ShapeInv, CaseInv, SameOpening
<1>3. \A s \in Threads : ThreadOK(threads[s]) /\ CurrentOK(p', threads[s])
  BY DEF IInv, ThreadInv
<1>4. ThreadOK(r) /\ CurrentOK(p', r)
  BY <1>3, OnwardKeeps
<1>5. Shape(r, ThreadFields) /\ SameRequest(threads[t], r)
  BY DEF Onward
<1> QED
  BY <1>1, <1>2, <1>3, <1>4, <1>5, ThreadStep

LEMMA ClaimedIs ==
  ASSUME NEW row \in TaskRows, NEW q \in Questions
  PROVE  /\ Claimed(row, q) \in TaskRows /\ Claimed(row, q).status = "RUNNING"
         /\ Claimed(row, q).attempt \in Nat /\ Claimed(row, q).attempt > 0
<1>1. row.attempt \in Nat
  BY DEF TaskRows
<1>2. PICK n \in Nat : n = row.attempt + 1 /\ n > 0
  BY <1>1
<1>3. Claimed(row, q) = [question |-> q, status |-> "RUNNING", live |-> TRUE, attempt |-> n]
  BY <1>2 DEF Claimed
<1>4. [question |-> q, status |-> "RUNNING", live |-> TRUE, attempt |-> n] \in TaskRows
  BY DEF TaskRows
<1>5. Claimed(row, q).status = "RUNNING" /\ Claimed(row, q).attempt = n
  BY <1>3
<1> QED
  BY <1>2, <1>3, <1>4, <1>5

LEMMA ExpiredIs ==
  ASSUME NEW row \in TaskRows
  PROVE  Expired(row) \in TaskRows
BY DEF Expired, TaskRows

LEMMA ConsultStep ==
  ASSUME IInv, NEW t \in Threads, NEW role \in Roles, NEW q \in Questions, Consult(t, role, q)
  PROVE  IInv'
<1>0. threads[t].pc \in Working /\ threads[t].pc # "idle" /\ ~threads[t].failed
  BY WorkingIs DEF Consult
<1>1. CASE threads' = [threads EXCEPT ![t].failed = TRUE] /\ UNCHANGED tasks
  <2> DEFINE r == [threads[t] EXCEPT !.failed = TRUE]
  <2>1. threads' = [threads EXCEPT ![t] = r]
    BY <1>1, SameShape
  <2>2. /\ Onward(threads[t], r) /\ r.owned = threads[t].owned /\ r.claimed = threads[t].claimed
        /\ r.failed = TRUE
    BY <1>0, SameShape DEF Onward, SameRequest, Shape, ThreadFields
  <2> HIDE DEF r
  <2>3. TeamOK(tasks[Scope(t)], r)
    BY <2>2, WorkingIs DEF TeamOK, Onward
  <2>4. r.owned \in [Roles -> Nat] /\ r.claimed \in [Roles -> Nat]
    BY <2>2, SameShape
  <2>5. tasks' \in [Scopes -> [Roles -> TaskRows]] /\ \A c \in Scopes : tasks'[c] = tasks[c]
    BY <1>1, SameShape
  <2>6. TeamOK(tasks'[Scope(t)], r)
    BY <1>1, <2>3
  <2> QED
    BY <2>1, <2>2, <2>4, <2>5, <2>6, TeamStep DEF Consult
<1>2. CASE /\ tasks' = [tasks EXCEPT ![Scope(t)][role] = Claimed(tasks[Scope(t)][role], q)]
           /\ threads' = [threads EXCEPT
                ![t].owned[role] = Claimed(tasks[Scope(t)][role], q).attempt,
                ![t].claimed[role] = Claimed(tasks[Scope(t)][role], q).attempt]
  <2>0. Scope(t) \in Scopes /\ tasks[Scope(t)] \in [Roles -> TaskRows]
    BY <1>0, ScopeIs, SameShape
  <2>1. PICK task \in TaskRows : /\ task = Claimed(tasks[Scope(t)][role], q)
                                 /\ task.status = "RUNNING" /\ task.attempt \in Nat
                                 /\ task.attempt > 0
    BY <2>0, ClaimedIs
  <2>2. PICK token \in Nat : token = task.attempt
    BY <2>1
  <2> DEFINE rows == [tasks[Scope(t)] EXCEPT ![role] = task]
             r == [threads[t] EXCEPT !.owned = [@ EXCEPT ![role] = token],
                                     !.claimed = [@ EXCEPT ![role] = token]]
  <2>3. tasks' = [tasks EXCEPT ![Scope(t)] = rows]
    BY <1>2, <2>1
  <2>4. threads' = [threads EXCEPT ![t] = r]
    BY <1>2, <2>1, <2>2, SameShape
  <2>5. /\ Onward(threads[t], r) /\ r.failed = threads[t].failed
        /\ r.owned = [threads[t].owned EXCEPT ![role] = token]
        /\ r.claimed = [threads[t].claimed EXCEPT ![role] = token]
    BY <1>0, SameShape DEF Onward, SameRequest, Shape, ThreadFields
  <2>6. rows \in [Roles -> TaskRows]
    BY <2>0
  <2>7. /\ r.owned[role] = token /\ r.claimed[role] = token /\ rows[role] = task
        /\ r.owned \in [Roles -> Nat] /\ r.claimed \in [Roles -> Nat]
        /\ \A other \in Roles : other # role =>
             /\ r.owned[other] = threads[t].owned[other]
             /\ r.claimed[other] = threads[t].claimed[other]
             /\ rows[other] = tasks[Scope(t)][other]
    BY <2>0, <2>5, SameShape
  <2> HIDE DEF rows, r
  <2>8. TeamOK(tasks[Scope(t)], threads[t])
    BY <1>0 DEF IInv, TeamInv
  <2>9. TeamOK(rows, r)
    <3>1. r.pc \in Working /\ r.pc # "deliver"
      BY <2>5, WorkingIs DEF Onward
    <3>2. ASSUME NEW other \in Roles, r.claimed[other] > 0
          PROVE  /\ rows[other].attempt = r.claimed[other]
                 /\ IF r.owned[other] > 0
                    THEN rows[other].status = "RUNNING" /\ r.owned[other] = r.claimed[other]
                    ELSE rows[other].status = "COMPLETED"
      <4>1. CASE other = role
        BY <2>1, <2>2, <2>7, <4>1
      <4>2. CASE other # role
        BY <1>0, <2>7, <2>8, <3>2, <4>2 DEF TeamOK
      <4> QED
        BY <4>1, <4>2
    <3> QED
      BY <3>1, <3>2 DEF TeamOK
  <2>10. /\ tasks' \in [Scopes -> [Roles -> TaskRows]]
         /\ \A c \in Scopes : c # Scope(t) => tasks'[c] = tasks[c]
         /\ tasks'[Scope(t)] = rows
    BY <1>0, <2>3, <2>6, RowsStep
  <2>11. TeamOK(tasks'[Scope(t)], r)
    BY <2>9, <2>10
  <2> QED
    BY <2>4, <2>5, <2>7, <2>10, <2>11, TeamStep DEF Consult
<1> QED
  BY <1>1, <1>2 DEF Consult

LEMMA SpecialistStep ==
  ASSUME IInv, NEW t \in Threads, NEW role \in Roles, Specialist(t, role)
  PROVE  IInv'
<1>0. threads[t].pc \in Working /\ threads[t].pc # "idle"
  BY WorkingIs DEF Specialist
<1>1. Scope(t) \in Scopes /\ tasks[Scope(t)] \in [Roles -> TaskRows]
  BY <1>0, ScopeIs, SameShape
<1>2. PICK status \in {"COMPLETED", "FAILED", "CANCELLED"}, failed \in {threads[t].failed, TRUE} :
        /\ tasks' = [tasks EXCEPT ![Scope(t)][role] =
                       Finished(@, threads[t].owned[role], status)]
        /\ threads' = [threads EXCEPT ![t].owned[role] = 0, ![t].failed = failed]
        /\ failed = TRUE \/ /\ failed = threads[t].failed /\ status = "COMPLETED"
                            /\ Owns(tasks[Scope(t)][role], threads[t].owned[role])
  <2>1. CASE /\ Owns(tasks[Scope(t)][role], threads[t].owned[role])
             /\ tasks' = [tasks EXCEPT ![Scope(t)][role] =
                            Finished(@, threads[t].owned[role], "COMPLETED")]
             /\ threads' = [threads EXCEPT ![t].owned[role] = 0]
    <3>1. threads' = [threads EXCEPT ![t].owned[role] = 0, ![t].failed = threads[t].failed]
      <4>1. [threads EXCEPT ![t].owned[role] = 0] =
              [threads EXCEPT ![t].owned[role] = 0, ![t].failed = threads[t].failed]
        BY SameShape DEF Shape, ThreadFields
      <4> QED
        BY <2>1, <4>1
    <3> QED
      BY <2>1, <3>1
  <2>2. CASE Unusable(t, role, IF Continues(t) THEN "FAILED" ELSE "CANCELLED")
    <3>1. PICK status \in {"FAILED", "CANCELLED"} : Unusable(t, role, status)
      BY <2>2
    <3> QED
      BY <3>1 DEF Unusable
  <2> QED
    BY <2>1, <2>2 DEF Specialist
<1>3. PICK task \in TaskRows :
        /\ task = Finished(tasks[Scope(t)][role], threads[t].owned[role], status)
        /\ task.attempt = tasks[Scope(t)][role].attempt
        /\ Owns(tasks[Scope(t)][role], threads[t].owned[role]) => task.status = status
  BY <1>1, FinishedIs
<1> DEFINE rows == [tasks[Scope(t)] EXCEPT ![role] = task]
           r == [threads[t] EXCEPT !.owned = [@ EXCEPT ![role] = 0], !.failed = failed]
<1>4. tasks' = [tasks EXCEPT ![Scope(t)] = rows]
  BY <1>1, <1>2, <1>3, SameShape
<1>5. threads' = [threads EXCEPT ![t] = r]
  BY <1>2, SameShape
<1>6. /\ Onward(threads[t], r) /\ r.failed = failed /\ r.claimed = threads[t].claimed
      /\ r.owned = [threads[t].owned EXCEPT ![role] = 0]
  BY <1>0, SameShape DEF Onward, SameRequest, Shape, ThreadFields
<1>7. rows \in [Roles -> TaskRows]
  BY <1>1
<1>8. /\ r.owned[role] = 0 /\ rows[role] = task
      /\ r.owned \in [Roles -> Nat] /\ r.claimed \in [Roles -> Nat]
      /\ \A other \in Roles : other # role => r.owned[other] = threads[t].owned[other]
      /\ \A other \in Roles : other # role => rows[other] = tasks[Scope(t)][other]
  BY <1>1, <1>6, SameShape
<1> HIDE DEF rows, r
<1>9. TeamOK(tasks[Scope(t)], threads[t])
  BY <1>0 DEF IInv, TeamInv
<1>10. TeamOK(rows, r)
  <2>1. r.pc \in Working /\ r.pc # "deliver"
    BY <1>6, WorkingIs DEF Onward
  <2>2. ASSUME NEW other \in Roles, r.claimed[other] > 0, ~r.failed
        PROVE  /\ rows[other].attempt = r.claimed[other]
               /\ IF r.owned[other] > 0
                  THEN rows[other].status = "RUNNING" /\ r.owned[other] = r.claimed[other]
                  ELSE rows[other].status = "COMPLETED"
    <3>0. ~threads[t].failed /\ Owns(tasks[Scope(t)][role], threads[t].owned[role])
          /\ status = "COMPLETED"
      BY <1>2, <1>6, <2>2
    <3>1. CASE other = role
      BY <1>0, <1>3, <1>6, <1>8, <1>9, <2>2, <3>0, <3>1 DEF TeamOK
    <3>2. CASE other # role
      BY <1>0, <1>6, <1>8, <1>9, <2>2, <3>0, <3>2 DEF TeamOK
    <3> QED
      BY <3>1, <3>2
  <2> QED
    BY <2>1, <2>2 DEF TeamOK
<1>11. /\ tasks' \in [Scopes -> [Roles -> TaskRows]]
       /\ \A c \in Scopes : c # Scope(t) => tasks'[c] = tasks[c]
       /\ tasks'[Scope(t)] = rows
  BY <1>0, <1>4, <1>7, RowsStep
<1>12. TeamOK(tasks'[Scope(t)], r)
  BY <1>10, <1>11
<1> QED
  BY <1>5, <1>6, <1>8, <1>11, <1>12, TeamStep DEF Specialist

LEMMA LeaseStep ==
  ASSUME IInv, NEW s \in Scopes, NEW role \in Roles, LeaseExpires(s, role)
  PROVE  IInv'
<1>1. tasks' = [tasks EXCEPT ![s][role] = Expired(@)] /\ UNCHANGED <<mode, p, threads, used, desk>>
  BY DEF LeaseExpires
<1>2. tasks' \in [Scopes -> [Roles -> TaskRows]]
  <2>0. tasks[s][role] \in TaskRows
    BY SameShape
  <2>1. Expired(tasks[s][role]) \in TaskRows
    BY <2>0, ExpiredIs
  <2> QED
    BY <1>1, <2>1, SameShape
<1>3. ShapeInv'
  BY <1>1, <1>2 DEF IInv, ShapeInv, Scopes
<1>4. CaseInv' /\ ThreadInv' /\ FreshInv' /\ DeskInv'
  BY <1>1 DEF IInv, CaseInv, ThreadInv, FreshInv, DeskInv
<1>5. TeamInv'
  <2>1. ASSUME NEW t \in Threads, threads[t].pc # "idle"
        PROVE  TeamOK(tasks'[Scope(t)], threads[t])
    <3>1. Scope(t) # s /\ Scope(t) \in Scopes
      BY <2>1, ScopeIs DEF LeaseExpires
    <3>2. tasks'[Scope(t)] = tasks[Scope(t)]
      BY <1>1, <3>1, SameShape
    <3> QED
      BY <2>1, <3>2 DEF IInv, TeamInv
  <2> QED
    BY <1>1, <2>1 DEF TeamInv, Scope
<1> QED
  BY <1>3, <1>4, <1>5 DEF IInv

-----------------------------------------------------------------------------
(* The result of a run. *)

LEMMA IdleIs ==
  /\ Shape(Idle, ThreadFields) /\ Idle.pc = "idle"
  /\ Idle.owned \in [Roles -> Nat] /\ Idle.claimed \in [Roles -> Nat]
  /\ ThreadOK(Idle) /\ \A q : CurrentOK(q, Idle) /\ TurnOK(q, Idle)
<1>1. Shape(Idle, ThreadFields)
  BY DEF Shape, ThreadFields, Idle
<1>2. Idle.pc = "idle" /\ Idle.owned = NoTasks /\ Idle.claimed = NoTasks
  BY DEF Idle
<1> QED
  BY <1>1, <1>2, NoTasksIs, WorkingIs DEF ThreadOK, CurrentOK, Current, TurnOK

(* What recording a result, or filing a turn, leaves of the platform. *)
Recording(t) ==
  /\ Shape(p', PlatformFields) /\ CaseOK(p') /\ DialogueOK(p') /\ SameOpening(p, p')
  /\ \A s \in Threads : s # t => CurrentOK(p', threads[s])

LEMMA NothingRecorded ==
  ASSUME IInv, NEW t \in Threads, p' = p
  PROVE  Recording(t)
BY DEF Recording, IInv, ShapeInv, CaseInv, ThreadInv, SameOpening

LEMMA CompleteRecorded ==
  ASSUME IInv, NEW t \in Threads, threads[t].pc = "deliver", threads[t].kind = "run",
         threads[t].result.status = "COMPLETE", p' = Recorded(p, threads[t].result)
  PROVE  Recording(t)
<1> DEFINE a == threads[t].result
<1>1. /\ a \in Advisories /\ a.run = threads[t].id /\ threads[t].id > 0 /\ threads[t].id \in Nat
      /\ a.status = "COMPLETE"
  BY DEF IInv, ThreadInv, ThreadOK
<1>2. CASE p.agent = "STOPPED" \/ a.run # p.run
  <2>1. p' = p
    BY <1>1, <1>2 DEF Recorded
  <2> QED
    BY <2>1, NothingRecorded
<1>3. CASE p.agent # "STOPPED" /\ a.run = p.run
  <2> DEFINE agent == IF p.policy = None THEN "BLOCKED" ELSE p.policy.status
             finding == IF p.policy = None THEN "AGENT_VALIDATED" ELSE p.policy.finding
  <2>0. ~(p.agent = "STOPPED" \/ (a.run # 0 /\ a.run # p.run)) /\ a.status = "COMPLETE"
    BY <1>1, <1>3
  <2>1. /\ p' = [p EXCEPT !.advice = a, !.agent = agent, !.finding = finding]
        /\ agent = "BLOCKED" \/ agent = p.policy.status
    BY <2>0 DEF Recorded
  <2> HIDE DEF agent, finding
  <2>2. /\ Shape(p', PlatformFields) /\ p'.agent = agent /\ p'.variant = p.variant
        /\ p'.facts = p.facts /\ p'.version = p.version /\ p'.policy = p.policy
        /\ p'.advice = a /\ p'.approval = p.approval /\ p'.rejection = p.rejection
        /\ p'.execution = p.execution /\ p'.scope = p.scope /\ p'.refused = p.refused
        /\ p'.turns = p.turns /\ SameOpening(p, p')
    BY <2>1 DEF IInv, ShapeInv, Shape, PlatformFields, SameOpening
  <2>3. /\ p.policy.status = "PLAN_READY" => p.variant = Primary
        /\ p.crossed = {} => p.rejection = None
        /\ a.disposition = ExpectedDisposition(p.variant)
    BY <1>1, <1>3 DEF IInv, ThreadInv, CurrentOK, Current
  <2>4. CaseOK(p)
    BY DEF IInv, CaseInv
  <2>5. agent = "PLAN_READY" => p.variant = Primary /\ a.disposition = "RECOVERY_READY"
    BY <2>1, <2>3, <2>4, ExpectedIs
  <2>6. a # None
    BY <1>1, Absent
  <2> HIDE DEF a
  <2>7. CaseOK(p')
    BY <1>1, <1>3, <2>2, <2>3, <2>4, <2>5, <2>6 DEF CaseOK, Alone, SameOpening
  <2>8. DialogueOK(p')
    BY <2>2 DEF IInv, CaseInv, DialogueOK, SameOpening
  <2>9. ASSUME NEW s \in Threads, s # t PROVE CurrentOK(p', threads[s])
    <3>1. ~(threads[s].pc # "idle" /\ threads[s].kind = "run" /\ threads[s].id = p.run)
      BY <1>1, <1>3, <2>9 DEF IInv, FreshInv
    <3> QED
      BY <2>2, <3>1 DEF CurrentOK, Current, SameOpening
  <2> QED
    BY <2>2, <2>7, <2>8, <2>9 DEF Recording
<1> QED
  BY <1>2, <1>3

LEMMA FailureRecorded ==
  ASSUME IInv, NEW t \in Threads, threads[t].result.status # "COMPLETE",
         p' = Recorded(p, threads[t].result)
  PROVE  Recording(t)
<1> DEFINE a == threads[t].result
<1>1. CASE p' = p
  BY <1>1, NothingRecorded
<1>2. CASE p' # p
  <2>1. PICK finding : p' = [p EXCEPT !.advice = a, !.agent = "BLOCKED", !.approval = None,
                                      !.finding = finding]
    BY <1>2 DEF Recorded
  <2> HIDE DEF a
  <2>2. /\ Shape(p', PlatformFields) /\ p'.agent = "BLOCKED" /\ p'.variant = p.variant
        /\ p'.facts = p.facts /\ p'.version = p.version /\ p'.policy = p.policy
        /\ p'.approval = None /\ p'.rejection = p.rejection
        /\ p'.execution = p.execution /\ p'.scope = p.scope /\ p'.refused = p.refused
        /\ p'.turns = p.turns /\ SameOpening(p, p')
    BY <2>1 DEF IInv, ShapeInv, Shape, PlatformFields, SameOpening
  <2>3. CaseOK(p') /\ DialogueOK(p')
    BY <2>2 DEF IInv, CaseInv, CaseOK, Alone, DialogueOK, SameOpening
  <2>4. ASSUME NEW s \in Threads PROVE CurrentOK(p', threads[s])
    BY <2>2 DEF IInv, ThreadInv, CurrentOK, Current, SameOpening
  <2> QED
    BY <2>2, <2>3, <2>4 DEF Recording
<1> QED
  BY <1>1, <1>2

LEMMA TurnFiled ==
  ASSUME IInv, NEW t \in Threads, threads[t].pc = "deliver", threads[t].kind = "turn",
         threads[t].result.status = "COMPLETE", p' = Answered(p, threads[t])
  PROVE  Recording(t)
<1>1. CASE p' = p
  BY <1>1, NothingRecorded
<1>2. CASE p' # p
  <2> DEFINE turn == [epoch |-> threads[t].epoch, id |-> threads[t].id,
                      writes |-> threads[t].result.writes, refused |-> threads[t].refused]
  <2>1. /\ p.dialogue # None /\ p.dialogue.id = threads[t].id
        /\ p' = [p EXCEPT !.turns = @ \cup {turn}]
    BY <1>2 DEF Answered
  <2>2. threads[t].epoch = p.epoch
    BY <2>1 DEF IInv, ThreadInv, TurnOK
  <2>3. threads[t].refused => threads[t].result.writes = FALSE
    BY DEF IInv, ThreadInv, ThreadOK
  <2>4. turn.epoch = p.epoch /\ (turn.refused => ~turn.writes)
    BY <2>2, <2>3
  <2> HIDE DEF turn
  <2>5. /\ Shape(p', PlatformFields) /\ p'.agent = p.agent /\ p'.variant = p.variant
        /\ p'.facts = p.facts /\ p'.version = p.version /\ p'.policy = p.policy
        /\ p'.advice = p.advice /\ p'.approval = p.approval /\ p'.rejection = p.rejection
        /\ p'.execution = p.execution /\ p'.scope = p.scope /\ p'.refused = p.refused
        /\ p'.turns = p.turns \cup {turn} /\ SameOpening(p, p')
    BY <2>1 DEF IInv, ShapeInv, Shape, PlatformFields, SameOpening
  <2>6. CaseOK(p')
    BY <2>5 DEF IInv, CaseInv, CaseOK, Alone, SameOpening
  <2>7. DialogueOK(p')
    BY <2>4, <2>5 DEF IInv, CaseInv, DialogueOK, SameOpening
  <2>8. ASSUME NEW s \in Threads PROVE CurrentOK(p', threads[s])
    BY <2>5 DEF IInv, ThreadInv, CurrentOK, Current, SameOpening
  <2> QED
    BY <2>5, <2>6, <2>7, <2>8 DEF Recording
<1> QED
  BY <1>1, <1>2

LEMMA DeliverStep ==
  ASSUME IInv, NEW t \in Threads, Deliver(t)
  PROVE  IInv'
<1>1. /\ threads[t].pc = "deliver" /\ threads' = [threads EXCEPT ![t] = Idle]
      /\ UNCHANGED <<mode, tasks, used, desk>>
  BY DEF Deliver
<1>2. Recording(t)
  <2>1. threads[t].kind \in {"run", "turn"}
    BY <1>1 DEF IInv, ThreadInv, ThreadOK
  <2>2. CASE threads[t].kind = "run"
    <3>1. p' = Recorded(p, threads[t].result)
      BY <2>2 DEF Deliver
    <3> QED
      BY <1>1, <2>2, <3>1, CompleteRecorded, FailureRecorded
  <2>3. CASE threads[t].kind = "turn" /\ threads[t].result.status = "COMPLETE"
    <3>1. p' = Answered(p, threads[t])
      BY <2>3 DEF Deliver
    <3> QED
      BY <1>1, <2>3, <3>1, TurnFiled
  <2>4. CASE threads[t].kind = "turn" /\ threads[t].result.status # "COMPLETE"
    <3>1. p' = p
      BY <2>4 DEF Deliver
    <3> QED
      BY <3>1, NothingRecorded
  <2> QED
    BY <2>1, <2>2, <2>3, <2>4
<1>3. tasks' \in [Scopes -> [Roles -> TaskRows]] /\ \A c \in Scopes : tasks'[c] = tasks[c]
  BY <1>1, SameShape
<1>4. threads[t].pc # "idle" /\ mode' = mode /\ used' = used /\ desk' = desk
  BY <1>1
<1> QED
  BY ONLY IInv, t \in Threads, <1>1, <1>2, <1>3, <1>4, IdleIs, ThreadStep DEF Recording

-----------------------------------------------------------------------------
(* Requests arrive, the case is reset, the process dies. *)

(* A fresh case, and what its reset overlapped. *)
LEMMA FreshIs ==
  ASSUME NEW v \in Variants, NEW epoch, NEW crossed
  PROVE  LET q == [Fresh(v, epoch) EXCEPT !.crossed = crossed] IN
         /\ Shape(q, PlatformFields) /\ CaseOK(q) /\ DialogueOK(q)
         /\ q.run = 0 /\ q.dialogue = None /\ q.version = 1 /\ q.crossed = crossed
<1> DEFINE q == [Fresh(v, epoch) EXCEPT !.crossed = crossed]
<1>1. Shape(q, PlatformFields)
  BY DEF Fresh, Shape, PlatformFields
<1>2. /\ q.variant = v /\ q.facts = CaseOf(v) /\ q.version = 1 /\ q.epoch = epoch /\ q.run = 0
      /\ q.agent = "IDLE" /\ q.approval = None /\ q.rejection = None /\ q.execution = None
      /\ q.dialogue = None /\ q.refused = FALSE /\ q.turns = {} /\ q.crossed = crossed
  BY DEF Fresh
<1> HIDE DEF q
<1>3. CaseOK(q)
  BY <1>2, CaseHasKey DEF CaseOK
<1>4. DialogueOK(q)
  BY <1>2 DEF DialogueOK
<1>5. /\ Shape(q, PlatformFields) /\ CaseOK(q) /\ DialogueOK(q)
      /\ q.run = 0 /\ q.dialogue = None /\ q.version = 1 /\ q.crossed = crossed
  BY <1>1, <1>2, <1>3, <1>4
<1> QED
  BY <1>5 DEF q

LEMMA FreshPlain ==
  ASSUME NEW v, NEW epoch
  PROVE  Fresh(v, epoch) = [Fresh(v, epoch) EXCEPT !.crossed = {}]
<1> DEFINE q == Fresh(v, epoch)
<1>1. Shape(q, PlatformFields) /\ q.crossed = {}
  BY DEF Fresh, Shape, PlatformFields
<1> HIDE DEF q
<1>2. q = [q EXCEPT !.crossed = {}]
  BY <1>1 DEF Shape
<1> QED
  BY <1>2 DEF q

Asked(r, q, kind, id) ==
  /\ Shape(r, ThreadFields) /\ r.pc = "acquire" /\ r.kind = kind /\ r.id = id
  /\ r.version = q.version /\ r.epoch = q.epoch
  /\ r.expected = ExpectedDisposition(q.variant)
  /\ r.readOnly = FALSE /\ r.refused = FALSE
  /\ r.owned = NoTasks /\ r.claimed = NoTasks

LEMMA PacketIs ==
  ASSUME NEW q, NEW kind, NEW id
  PROVE  Asked(Packet(q, kind, id), q, kind, id)
BY DEF Asked, Packet, Idle, Shape, ThreadFields

LEMMA StartStep ==
  ASSUME IInv, NEW t \in Threads, NEW r, threads' = [threads EXCEPT ![t] = r],
         UNCHANGED <<mode, tasks, desk>>, FreshInv', DeskInv',
         used' \in UseCounts, used'.executions = used.executions,
         used'.runs <= mode.runs, used'.conversations <= mode.conversations,
         Shape(p', PlatformFields), CaseOK(p'), DialogueOK(p'),
         Shape(r, ThreadFields), r.owned = NoTasks, r.claimed = NoTasks, ThreadOK(r),
         CurrentOK(p', r), TurnOK(p', r),
         \A s \in Threads : s # t => CurrentOK(p', threads[s]) /\ TurnOK(p', threads[s])
  PROVE  IInv'
<1>1. /\ threads'[t] = r /\ \A s \in Threads : s # t => threads'[s] = threads[s]
      /\ threads' = [s \in Threads |-> threads'[s]]
  BY SameShape
<1>2. ShapeInv'
  <2>1. \A s \in Threads : Shape(threads'[s], ThreadFields)
    BY <1>1, SameShape
  <2>2. \A s \in Threads : threads'[s].owned \in [Roles -> Nat] /\ threads'[s].claimed \in [Roles -> Nat]
    BY <1>1, NoTasksIs, SameShape
  <2>3. Scopes' = Scopes
    BY DEF Scopes
  <2>4. tasks' \in [Scopes -> [Roles -> TaskRows]]
    BY SameShape
  <2>5. mode' \in Configurations /\ desk' = [m \in Managers |-> desk'[m]]
        /\ used'.executions <= mode'.executions
    BY DEF IInv, ShapeInv
  <2> HIDE DEF IInv
  <2> QED
    BY <1>1, <2>1, <2>2, <2>3, <2>4, <2>5 DEF ShapeInv
<1>3. ThreadInv'
  <2>1. \A s \in Threads : ThreadOK(threads[s])
    BY DEF IInv, ThreadInv
  <2> QED
    BY <1>1, <2>1 DEF ThreadInv
<1>4. TeamInv'
  <2>1. ASSUME NEW s \in Threads, threads'[s].pc # "idle"
        PROVE  TeamOK(tasks'[Scope(s)'], threads'[s])
    <3>1. CASE s = t
      BY <1>1, <3>1, NoTasksIs DEF TeamOK
    <3>2. CASE s # t
      <4>1. Scope(s)' = Scope(s) /\ threads'[s] = threads[s]
        BY <1>1, <3>2 DEF Scope
      <4> QED
        BY <2>1, <4>1 DEF IInv, TeamInv
    <3> QED
      BY <3>1, <3>2
  <2> QED
    BY <2>1 DEF TeamInv
<1>5. CaseInv'
  BY DEF CaseInv
<1> QED
  BY <1>2, <1>3, <1>4, <1>5 DEF IInv

LEMMA UsedIs ==
  ASSUME IInv
  PROVE  /\ used \in UseCounts
         /\ used.runs \in Nat /\ used.conversations \in Nat /\ used.asks \in Nat
         /\ mode.runs \in Nat /\ mode.conversations \in Nat
         /\ used.runs <= mode.runs /\ used.conversations <= mode.conversations
BY DEF IInv, ShapeInv, Configurations, UseCounts

LEMMA DiagnoseStep ==
  ASSUME IInv, NEW t \in Diagnoses, Diagnose(t)
  PROVE  IInv'
<1>0. t \in Threads /\ threads[t].pc = "idle" /\ used.runs < mode.runs
  BY DEF Diagnose, Threads
<1>1. PICK n \in Nat : n = used.runs + 1
  BY UsedIs
<1>2. /\ used' \in UseCounts
      /\ used'.runs = n /\ used'.conversations = used.conversations
      /\ used'.executions = used.executions
      /\ used'.runs <= mode.runs /\ used'.conversations <= mode.conversations /\ n > 0
  BY <1>0, <1>1, UsedIs DEF Diagnose, UseCounts
<1>3. /\ Shape(p', PlatformFields) /\ p'.agent = "ACTIVE" /\ p'.variant = p.variant
      /\ p'.facts = p.facts /\ p'.version = p.version
      /\ p'.policy = ConsolePolicy(p.variant, p.facts)
      /\ p'.advice = None /\ p'.approval = None /\ p'.rejection = None
      /\ p'.execution = p.execution /\ p'.scope = p.scope /\ p'.refused = p.refused
      /\ p'.turns = p.turns /\ p'.run = n /\ p'.epoch = p.epoch /\ p'.dialogue = p.dialogue
      /\ p'.crossed = p.crossed \cup Overlapping("claim")
  <2>1. p' = [Claim(p, n) EXCEPT !.crossed = @ \cup Overlapping("claim")]
    BY <1>2 DEF Diagnose
  <2> QED
    BY <2>1 DEF IInv, ShapeInv, Shape, PlatformFields, Claim
<1>4. CaseOK(p)
  BY DEF IInv, CaseInv
<1>14. /\ "reset" \notin p'.crossed => "reset" \notin p.crossed
       /\ p'.crossed = {} => p.crossed = {} /\ InFlight = {}
       /\ Alone(p') = Alone(p)
  BY <1>3 DEF Alone, Overlapping
<1>5. CaseOK(p') /\ DialogueOK(p')
  BY <1>3, <1>4, <1>14 DEF IInv, CaseInv, CaseOK, DialogueOK
<1> DEFINE r == Packet(p', "run", n)
<1>6. /\ Shape(r, ThreadFields) /\ r.pc = "acquire" /\ r.kind = "run" /\ r.id = n
      /\ r.version = p'.version /\ r.epoch = p'.epoch
      /\ r.expected = ExpectedDisposition(p'.variant)
      /\ r.readOnly = FALSE /\ r.refused = FALSE
      /\ r.owned = NoTasks /\ r.claimed = NoTasks
  <2>1. Asked(r, p', "run", n)
    BY PacketIs
  <2> HIDE DEF r
  <2> QED
    BY <2>1 DEF Asked
<1>7. threads' = [threads EXCEPT ![t] = r]
  BY <1>3 DEF Diagnose
<1> HIDE DEF r
<1>8. ThreadOK(r)
  <2>1. r.version \in Nat /\ r.version > 0 /\ r.expected \in Dispositions
    BY <1>3, <1>4, <1>6, ExpectedIs DEF CaseOK
  <2> QED
    BY <1>2, <1>6, <2>1 DEF ThreadOK, Working
<1>9. CurrentOK(p', r) /\ TurnOK(p', r)
  BY <1>3, <1>4, <1>6, PlanIsPrimary DEF CurrentOK, Current, TurnOK
<1>10. \A s \in Threads : threads[s].pc # "idle" /\ threads[s].kind = "run" =>
          threads[s].id \in Nat /\ threads[s].id < n
  <2>1. \A s \in Threads : threads[s].pc # "idle" => threads[s].id \in Nat
    BY DEF IInv, ThreadInv, ThreadOK
  <2> QED
    BY <1>1, <2>1, UsedIs DEF IInv, FreshInv
<1>11. ASSUME NEW s \in Threads PROVE CurrentOK(p', threads[s]) /\ TurnOK(p', threads[s])
  <2>1. TurnOK(p, threads[s])
    BY DEF IInv, ThreadInv
  <2> QED
    BY <1>3, <1>10, <2>1 DEF CurrentOK, Current, TurnOK
<1>12. FreshInv'
  <2>1. /\ p'.run <= used'.runs /\ (p'.dialogue # None => p'.dialogue.id <= used'.conversations)
        /\ p'.version <= 1 + used'.executions
    BY <1>2, <1>3 DEF IInv, FreshInv
  <2>2. threads'[t] = r /\ \A s \in Threads : s # t => threads'[s] = threads[s]
    BY <1>0, <1>7, SameShape
  <2>3. ASSUME NEW s \in Threads, threads'[s].pc # "idle"
        PROVE  /\ threads'[s].version <= 1 + used'.executions
               /\ threads'[s].kind = "run" => threads'[s].id <= used'.runs
               /\ threads'[s].kind = "turn" => threads'[s].id <= used'.conversations /\ s \in Asks
    <3>1. CASE s = t
      BY <1>2, <1>3, <1>6, <2>1, <2>2, <3>1
    <3>2. CASE s # t
      BY <1>1, <1>2, <1>10, <2>2, <2>3, <3>2 DEF IInv, FreshInv
    <3> QED
      BY <3>1, <3>2
  <2>4. ASSUME NEW s \in Threads, NEW u \in Threads, threads'[s].pc # "idle",
               threads'[u].pc # "idle", threads'[s].kind = threads'[u].kind
        PROVE  /\ threads'[s].kind = "run" /\ threads'[s].id = threads'[u].id => s = u
               /\ threads'[s].kind = "turn" => s = u
    <3>1. CASE s = t /\ u # t
      BY <1>6, <1>10, <2>2, <2>4, <3>1
    <3>2. CASE s # t /\ u = t
      BY <1>6, <1>10, <2>2, <2>4, <3>2
    <3>3. CASE s # t /\ u # t
      BY <2>2, <2>4, <3>3 DEF IInv, FreshInv
    <3> QED
      BY <3>1, <3>2, <3>3
  <2> HIDE DEF IInv
  <2> QED
    BY <2>1, <2>3, <2>4 DEF FreshInv
<1>13. UNCHANGED <<mode, tasks, desk>>
  BY DEF Diagnose
<1>15. DeskInv'
  <2>1. ASSUME NEW m \in Managers PROVE DeskOK(p', desk[m])
    <3>1. DeskOK(p, desk[m])
      BY DEF IInv, DeskInv
    <3>2. p'.crossed = {} => desk[m].pc = "rest"
      BY <1>14 DEF InFlight
    <3> QED
      BY <1>3, <1>14, <3>1, <3>2 DEF DeskOK
  <2>2. \A m \in Managers : p'.crossed = {} => desk[m].pc # "refuse"
    BY <1>14 DEF InFlight
  <2> QED
    BY <1>13, <1>14, <2>1, <2>2 DEF IInv, DeskInv
<1> QED
  BY <1>0, <1>2, <1>3, <1>5, <1>7, <1>6, <1>8, <1>9, <1>11, <1>12, <1>13, <1>15, StartStep

(* The dialogue after a request: a conversation, and what was refused. *)
Follows(q, d, id, new, refuses) ==
  /\ q \in Dialogues
  /\ d = None \/ new = TRUE => q.id = id
  /\ ~(d = None \/ new = TRUE) => q.id = d.id
  /\ refuses = TRUE => q.readOnly = TRUE
  /\ d # None /\ d.readOnly = TRUE => q.readOnly = TRUE

LEMMA RequestedIs ==
  ASSUME NEW d, d # None => d \in Dialogues /\ d.id > 0,
         NEW id \in Nat, NEW new \in BOOLEAN, NEW refuses \in BOOLEAN
  PROVE  Follows(Requested(d, id, new, refuses), d, id, new, refuses)
<1> DEFINE kept == IF d = None
                   THEN [id |-> id, readOnly |-> FALSE, requests |-> 0, omitted |-> 0]
                   ELSE IF new
                   THEN [id |-> id, readOnly |-> d.readOnly, requests |-> 0, omitted |-> 0]
                   ELSE d
<1>1. /\ kept \in Dialogues /\ kept.id = (IF d = None \/ new = TRUE THEN id ELSE d.id)
      /\ (d # None /\ d.readOnly = TRUE => kept.readOnly = TRUE)
  <2>1. CASE d = None
    BY <2>1 DEF Dialogues
  <2>2. CASE d # None /\ new = TRUE
    <3>1. d.readOnly \in BOOLEAN
      BY <2>2 DEF Dialogues
    <3>2. kept = [id |-> id, readOnly |-> d.readOnly, requests |-> 0, omitted |-> 0]
      BY <2>2
    <3> HIDE DEF kept
    <3> QED
      BY <2>2, <3>1, <3>2 DEF Dialogues
  <2>3. CASE d # None /\ new = FALSE
    <3>1. kept = d
      BY <2>3
    <3> QED
      BY <2>3, <3>1
  <2> QED
    BY <2>1, <2>2, <2>3
<1>2. Requested(d, id, new, refuses) =
        [kept EXCEPT !.readOnly = @ \/ refuses,
                     !.requests = IF kept.requests + 1 > MaxRequests THEN MaxRequests
                                  ELSE kept.requests + 1,
                     !.omitted = @ + ClampedMinus(kept.requests + 1, MaxRequests)]
  BY DEF Requested
<1> HIDE DEF kept
<1>3. kept.requests \in Nat /\ kept.omitted \in Nat /\ kept.readOnly \in BOOLEAN /\ MaxRequests \in Nat
  BY <1>1, ConfigurationsAssumption DEF Dialogues
<1>4. PICK requests \in Nat, omitted \in Nat :
        /\ requests = IF kept.requests + 1 > MaxRequests THEN MaxRequests ELSE kept.requests + 1
        /\ omitted = kept.omitted + ClampedMinus(kept.requests + 1, MaxRequests)
  BY <1>3 DEF ClampedMinus
<1>5. PICK readOnly \in BOOLEAN : readOnly = (kept.readOnly \/ refuses)
  BY <1>3
<1>6. Requested(d, id, new, refuses) =
        [kept EXCEPT !.readOnly = readOnly, !.requests = requests, !.omitted = omitted]
  BY <1>2, <1>4, <1>5
<1>7. /\ Requested(d, id, new, refuses) \in Dialogues
      /\ Requested(d, id, new, refuses).id = kept.id
      /\ Requested(d, id, new, refuses).readOnly = readOnly
  BY <1>1, <1>6 DEF Dialogues
<1> QED
  BY <1>1, <1>5, <1>7 DEF Follows


LEMMA UsedAsk ==
  ASSUME NEW u \in UseCounts, NEW a \in Nat, NEW c \in Nat
  PROVE  /\ [u EXCEPT !.asks = a, !.conversations = c] \in UseCounts
         /\ [u EXCEPT !.asks = a, !.conversations = c].runs = u.runs
         /\ [u EXCEPT !.asks = a, !.conversations = c].conversations = c
         /\ [u EXCEPT !.asks = a, !.conversations = c].executions = u.executions
BY DEF UseCounts

LEMMA AskStep ==
  ASSUME IInv, NEW t \in Asks, NEW new \in BOOLEAN, NEW refuses \in BOOLEAN, Ask(t, new, refuses)
  PROVE  IInv'
<1>0. t \in Threads /\ \A a \in Asks : threads[a].pc = "idle"
  BY DEF Ask, Threads
<1>1. PICK n \in Nat : n = (IF p.dialogue = None \/ new = TRUE THEN used.conversations + 1
                            ELSE used.conversations)
  BY UsedIs
<1>2. /\ used' \in UseCounts
      /\ used'.runs = used.runs /\ used'.conversations = n
      /\ used'.executions = used.executions
      /\ used'.runs <= mode.runs /\ used'.conversations <= mode.conversations
      /\ used.conversations <= n
  <2>0. \A a, c \in Nat :
          /\ [used EXCEPT !.asks = a, !.conversations = c] \in UseCounts
          /\ [used EXCEPT !.asks = a, !.conversations = c].runs = used.runs
          /\ [used EXCEPT !.asks = a, !.conversations = c].conversations = c
          /\ [used EXCEPT !.asks = a, !.conversations = c].executions = used.executions
    BY UsedIs, UsedAsk DEF UseCounts
  <2>1. CASE p.dialogue = None \/ new = TRUE
    <3>1. used.conversations < mode.conversations /\ n = used.conversations + 1
      BY <1>1, <2>1 DEF Ask
    <3>2. used' = [used EXCEPT !.asks = used.asks + 1, !.conversations = n]
      BY <2>1, <3>1 DEF Ask
    <3> QED
      <4>1. used.asks + 1 \in Nat
        BY UsedIs
      <4>2. used' \in UseCounts /\ used'.runs = used.runs /\ used'.conversations = n
              /\ used'.executions = used.executions
        BY <2>0, <3>2, <4>1
      <4> QED
        BY <3>1, <4>2, UsedIs DEF UseCounts
  <2>2. CASE ~(p.dialogue = None \/ new = TRUE)
    <3>1. n = used.conversations
      BY <1>1, <2>2
    <3>2. used' = [used EXCEPT !.asks = used.asks + 1, !.conversations = n]
      BY <2>2, <3>1 DEF Ask
    <3> QED
      <4>1. used.asks + 1 \in Nat
        BY UsedIs
      <4>2. used' \in UseCounts /\ used'.runs = used.runs /\ used'.conversations = n
              /\ used'.executions = used.executions
        BY <2>0, <3>2, <4>1
      <4> QED
        BY <3>1, <4>2, UsedIs DEF UseCounts
  <2> QED
    BY <2>1, <2>2
<1>3. p.dialogue # None => /\ p.dialogue \in Dialogues /\ p.dialogue.id > 0
                           /\ p.dialogue.id \in Nat /\ p.dialogue.id <= used.conversations
  <2>1. p.dialogue # None => p.dialogue \in Dialogues /\ p.dialogue.id > 0
    BY DEF IInv, CaseInv, DialogueOK
  <2> QED
    BY <2>1 DEF Dialogues, IInv, FreshInv
<1>4. n > 0
  BY <1>1, <1>3, UsedIs
<1>5. PICK d : d = Requested(p.dialogue, n, new, refuses) /\ Follows(d, p.dialogue, n, new, refuses)
  <2>1. p.dialogue # None => p.dialogue \in Dialogues /\ p.dialogue.id > 0
    BY <1>3
  <2>2. Follows(Requested(p.dialogue, n, new, refuses), p.dialogue, n, new, refuses)
    BY <2>1, RequestedIs
  <2> QED
    BY <2>2
<1>6. PICK refused \in BOOLEAN : refused = (p.refused \/ refuses)
  BY DEF IInv, CaseInv, DialogueOK
<1>7. /\ Shape(p', PlatformFields) /\ p'.agent = p.agent /\ p'.variant = p.variant
      /\ p'.facts = p.facts /\ p'.version = p.version /\ p'.policy = p.policy
      /\ p'.advice = p.advice /\ p'.approval = p.approval /\ p'.rejection = p.rejection
      /\ p'.execution = p.execution /\ p'.scope = p.scope /\ p'.refused = refused
      /\ p'.turns = p.turns /\ p'.run = p.run /\ p'.epoch = p.epoch /\ p'.dialogue = d
      /\ p'.crossed = p.crossed
  <2>1. p' = [p EXCEPT !.dialogue = d, !.refused = refused]
    <3>1. p' = [p EXCEPT !.dialogue = Requested(p.dialogue, n, new, refuses),
                         !.refused = p.refused \/ refuses]
      BY <1>2 DEF Ask
    <3> QED
      BY <1>5, <1>6, <3>1
  <2> QED
    BY <2>1 DEF IInv, ShapeInv, Shape, PlatformFields
<1>8. d # None /\ d \in Dialogues /\ d.id \in Nat /\ d.id > 0 /\ d.id <= n /\ d.readOnly \in BOOLEAN
  BY <1>1, <1>2, <1>3, <1>4, <1>5, UsedIs, Absent DEF Dialogues, Follows
<1>9. CaseOK(p)
  BY DEF IInv, CaseInv
<1>10. CaseOK(p')
  BY <1>7, <1>9 DEF CaseOK, Alone
<1>11. refused => d.readOnly = TRUE
  <2>1. p.refused \in BOOLEAN /\ (p.refused => p.dialogue # None /\ p.dialogue.readOnly = TRUE)
    BY DEF IInv, CaseInv, DialogueOK
  <2>2. CASE p.refused = TRUE
    BY <1>5, <2>1, <2>2 DEF Follows
  <2>3. CASE refuses = TRUE
    BY <1>5, <2>3 DEF Follows
  <2>4. CASE p.refused = FALSE /\ refuses = FALSE
    BY <1>6, <2>4
  <2> QED
    BY <2>1, <2>2, <2>3, <2>4
<1>12. DialogueOK(p')
  <2>1. \A turn \in p.turns : turn.epoch = p.epoch /\ (turn.refused => ~turn.writes)
    BY DEF IInv, CaseInv, DialogueOK
  <2> QED
    BY <1>7, <1>8, <1>11, <2>1 DEF DialogueOK
<1> DEFINE packet == Packet(p', "turn", p'.dialogue.id)
           r == [packet EXCEPT !.readOnly = p'.dialogue.readOnly, !.refused = p'.refused]
<1>13. threads' = [threads EXCEPT ![t] = r]
  BY DEF Ask
<1>14. Asked(packet, p', "turn", p'.dialogue.id)
  BY PacketIs
<1> HIDE DEF packet
<1>15. /\ Shape(r, ThreadFields) /\ r.pc = "acquire" /\ r.kind = "turn" /\ r.id = d.id
       /\ r.version = p.version /\ r.epoch = p'.epoch /\ r.expected = ExpectedDisposition(p.variant)
       /\ r.readOnly = d.readOnly /\ r.refused = refused
       /\ r.owned = NoTasks /\ r.claimed = NoTasks
  BY <1>7, <1>14 DEF Asked, Shape, ThreadFields
<1> HIDE DEF r
<1>16. ThreadOK(r)
  <2>1. r.version \in Nat /\ r.version > 0 /\ r.expected \in Dispositions
    BY <1>9, <1>15, ExpectedIs DEF CaseOK
  <2> QED
    BY <1>8, <1>11, <1>15, <2>1 DEF ThreadOK, Working
<1>17. CurrentOK(p', r) /\ TurnOK(p', r)
  BY <1>15 DEF CurrentOK, Current, TurnOK
<1>18. \A s \in Threads : threads[s].pc # "idle" => threads[s].kind # "turn"
  BY <1>0 DEF IInv, FreshInv
<1>19. ASSUME NEW s \in Threads PROVE CurrentOK(p', threads[s]) /\ TurnOK(p', threads[s])
  <2>1. CurrentOK(p, threads[s])
    BY DEF IInv, ThreadInv
  <2>2. CurrentOK(p', threads[s])
    BY <1>7, <2>1 DEF CurrentOK, Current
  <2> QED
    BY <1>18, <2>2 DEF TurnOK
<1>20. FreshInv'
  <2>1. /\ p'.run <= used'.runs /\ (p'.dialogue # None => p'.dialogue.id <= used'.conversations)
        /\ p'.version <= 1 + used'.executions
    BY <1>2, <1>7, <1>8 DEF IInv, FreshInv
  <2>2. threads'[t] = r /\ \A s \in Threads : s # t => threads'[s] = threads[s]
    BY <1>0, <1>13, SameShape
  <2>3. ASSUME NEW s \in Threads, threads'[s].pc # "idle"
        PROVE  /\ threads'[s].version <= 1 + used'.executions
               /\ threads'[s].kind = "run" => threads'[s].id <= used'.runs
               /\ threads'[s].kind = "turn" => threads'[s].id <= used'.conversations /\ s \in Asks
    <3>1. CASE s = t
      BY <1>2, <1>7, <1>8, <1>15, <2>1, <2>2, <3>1
    <3>2. CASE s # t
      BY <1>2, <1>18, <2>2, <2>3, <3>2 DEF IInv, FreshInv
    <3> QED
      BY <3>1, <3>2
  <2>4. ASSUME NEW s \in Threads, NEW u \in Threads, threads'[s].pc # "idle",
               threads'[u].pc # "idle", threads'[s].kind = threads'[u].kind
        PROVE  /\ threads'[s].kind = "run" /\ threads'[s].id = threads'[u].id => s = u
               /\ threads'[s].kind = "turn" => s = u
    <3>1. CASE s = t \/ u = t
      BY <1>15, <1>18, <2>2, <2>4, <3>1
    <3>2. CASE s # t /\ u # t
      BY <2>2, <2>4, <3>2 DEF IInv, FreshInv
    <3> QED
      BY <3>1, <3>2
  <2> HIDE DEF IInv
  <2> QED
    BY <2>1, <2>3, <2>4 DEF FreshInv
<1>21. UNCHANGED <<mode, tasks, desk>>
  BY DEF Ask
<1>22. DeskInv'
  <2>1. threads'[t] = r /\ \A s \in Threads : s # t => threads'[s] = threads[s]
    BY <1>0, <1>13, SameShape
  <2>2. \A s \in Threads : Current(p', threads'[s]) => Current(p, threads[s])
    BY <1>7, <1>15, <2>1 DEF Current
  <2>3. SamePlan(p, p')
    BY <1>7 DEF SamePlan
  <2> QED
    BY <1>21, <2>2, <2>3, DeskKept DEF IInv
<1> QED
  BY <1>22, <1>0, <1>2, <1>7, <1>10, <1>12, <1>13, <1>15, <1>16, <1>17, <1>19, <1>20, <1>21, StartStep

LEMMA VariantsOf ==
  ASSUME IInv
  PROVE  mode.variants \subseteq Variants
BY DEF IInv, ShapeInv, Configurations

LEMMA CountOther ==
  ASSUME NEW u \in UseCounts, NEW n \in Nat
  PROVE  /\ [u EXCEPT !.resets = n] \in UseCounts /\ [u EXCEPT !.crashes = n] \in UseCounts
         /\ \A w \in {[u EXCEPT !.resets = n], [u EXCEPT !.crashes = n]} :
              /\ w.runs = u.runs /\ w.conversations = u.conversations
              /\ w.executions = u.executions
BY DEF UseCounts

LEMMA ResetStep ==
  ASSUME IInv, NEW v \in mode.variants, Reset(v)
  PROVE  IInv'
<1>1. /\ v \in Variants /\ p' = [Fresh(v, p.epoch + 1) EXCEPT !.crossed = Overlapping("reset")]
      /\ UNCHANGED <<mode, threads, tasks, desk>> /\ used' = [used EXCEPT !.resets = @ + 1]
  BY VariantsOf DEF Reset
<1>2. /\ Shape(p', PlatformFields) /\ CaseOK(p') /\ DialogueOK(p') /\ p'.run = 0
      /\ p'.dialogue = None /\ p'.version = 1 /\ p'.crossed = Overlapping("reset")
  BY <1>1, FreshIs
<1>3. /\ used' \in UseCounts /\ used'.executions = used.executions
      /\ used'.runs = used.runs /\ used'.conversations = used.conversations
  <2>1. used \in UseCounts /\ used.resets + 1 \in Nat
    BY UsedIs DEF UseCounts
  <2> QED
    BY <1>1, <2>1, CountOther
<1>4. ShapeInv'
  BY <1>1, <1>2, <1>3 DEF IInv, ShapeInv, Scopes
<1>5. CaseInv'
  BY <1>2 DEF CaseInv
<1>6. ASSUME NEW s \in Threads
      PROVE  /\ ThreadOK(threads[s]) /\ CurrentOK(p', threads[s]) /\ TurnOK(p', threads[s])
             /\ ~Current(p', threads[s])
  <2>1. ThreadOK(threads[s])
    BY DEF IInv, ThreadInv
  <2>2. threads[s].pc # "idle" => threads[s].id # 0
    BY <2>1 DEF ThreadOK
  <2> QED
    BY <1>2, <2>1, <2>2 DEF CurrentOK, Current, TurnOK
<1>7. ThreadInv'
  BY <1>1, <1>6 DEF ThreadInv
<1>8. FreshInv'
  <2>1. p'.run <= used'.runs /\ p'.version <= 1 + used'.executions
    BY <1>2, <1>3, UsedIs, CountIs
  <2> QED
    BY <1>1, <1>2, <1>3, <2>1 DEF IInv, FreshInv
<1>9. TeamInv'
  BY <1>1 DEF IInv, TeamInv, Scope
<1>10. DeskInv'
  <2>1. ASSUME NEW m \in Managers, desk[m].pc # "rest" PROVE "reset" \in p'.crossed
    <3>1. m \in InFlight
      BY <2>1 DEF InFlight
    <3> QED
      BY <1>2, <3>1 DEF Overlapping
  <2>2. ASSUME NEW m \in Managers PROVE DeskOK(p', desk[m])
    <3>1. desk[m].pc \in {"rest", "bind", "grant", "refuse", "apply", "verify"}
      BY DEF IInv, DeskInv, DeskOK
    <3> QED
      BY <2>1, <3>1 DEF DeskOK, Alone
  <2> QED
    BY <1>1, <1>6, <2>1, <2>2 DEF DeskInv, Alone
<1> QED
  BY <1>4, <1>5, <1>7, <1>8, <1>9, <1>10 DEF IInv

LEMMA RestIs == AtRest.pc = "rest" /\ \A q : DeskOK(q, AtRest)
<1>1. AtRest.pc = "rest"
  BY DEF AtRest
<1> QED
  BY <1>1 DEF DeskOK

LEMMA CrashStep ==
  ASSUME IInv, Crash
  PROVE  IInv'
<1>1. /\ threads' = [t \in Threads |-> Idle] /\ UNCHANGED <<mode, tasks>>
      /\ desk' = [m \in Managers |-> AtRest] /\ used' = [used EXCEPT !.crashes = @ + 1]
  BY DEF Crash
<1>2. /\ Shape(p', PlatformFields) /\ CaseOK(p') /\ DialogueOK(p')
      /\ p'.run <= used.runs /\ (p'.dialogue # None => p'.dialogue.id <= used.conversations)
      /\ p'.version <= 1 + used.executions
  <2>1. CASE p' = p
    BY <2>1 DEF IInv, ShapeInv, CaseInv, FreshInv
  <2>2. CASE p' = Fresh("uncommitted_receipt", p.epoch + 1)
    <3>1. "uncommitted_receipt" \in Variants
      BY DEF Variants
    <3>2. p' = [Fresh("uncommitted_receipt", p.epoch + 1) EXCEPT !.crossed = {}]
      BY <2>2, FreshPlain
    <3> QED
      BY <3>1, <3>2, FreshIs, UsedIs, CountIs
  <2> QED
    BY <2>1, <2>2 DEF Crash
<1>3. /\ used' \in UseCounts /\ used'.executions = used.executions
      /\ used'.runs = used.runs /\ used'.conversations = used.conversations
  <2>1. used \in UseCounts /\ used.crashes + 1 \in Nat
    BY UsedIs DEF UseCounts
  <2> QED
    BY <1>1, <2>1, CountOther
<1>4. /\ \A t \in Threads : threads'[t] = Idle
      /\ \A m \in Managers : desk'[m] = AtRest
  BY <1>1
<1>5. ShapeInv'
  <2>1. Scopes' = Scopes
    BY <1>1 DEF Scopes
  <2> QED
    BY <1>1, <1>2, <1>3, <1>4, <2>1, IdleIs DEF IInv, ShapeInv
<1>6. CaseInv'
  BY <1>2 DEF CaseInv
<1>7. ThreadInv'
  BY <1>4, IdleIs DEF ThreadInv
<1>8. FreshInv'
  BY <1>2, <1>3, <1>4, IdleIs DEF FreshInv
<1>9. TeamInv'
  BY <1>4, IdleIs DEF TeamInv
<1>10. DeskInv'
  BY <1>4, RestIs DEF DeskInv
<1> QED
  BY <1>5, <1>6, <1>7, <1>8, <1>9, <1>10 DEF IInv

-----------------------------------------------------------------------------
LEMMA InitIInv ==
  ASSUME Init
  PROVE  IInv
<1>1. mode \in Configurations
  BY ConfigurationsAssumption DEF Init
<1>2. PICK v \in Variants : p = Fresh(v, 0)
  BY <1>1 DEF Init, Configurations
<1>3. /\ Shape(p, PlatformFields) /\ CaseOK(p) /\ DialogueOK(p) /\ p.run = 0
      /\ p.dialogue = None /\ p.version = 1
  <2>1. p = [Fresh(v, 0) EXCEPT !.crossed = {}]
    BY <1>2, FreshPlain
  <2> QED
    BY <1>2, <2>1, FreshIs
<1>4. /\ threads = [t \in Threads |-> Idle] /\ \A t \in Threads : threads[t] = Idle
      /\ desk = [m \in Managers |-> AtRest] /\ \A m \in Managers : desk[m] = AtRest
  BY DEF Init
<1>5. NoTask \in TaskRows
  BY DEF NoTask, TaskRows
<1>6. tasks \in [Scopes -> [Roles -> TaskRows]]
  BY <1>5 DEF Init
<1>7. /\ used \in UseCounts
      /\ used.runs = 0 /\ used.conversations = 0 /\ mode.runs \in Nat /\ mode.conversations \in Nat
      /\ used.executions = 0 /\ mode.executions \in Nat
  BY <1>1 DEF Init, Configurations, UseCounts
<1>8. ShapeInv
  BY <1>1, <1>3, <1>4, <1>6, <1>7, IdleIs DEF ShapeInv
<1>9. CaseInv
  BY <1>3 DEF CaseInv
<1>10. ThreadInv
  BY <1>4, IdleIs DEF ThreadInv
<1>11. FreshInv
  BY <1>3, <1>4, <1>7, IdleIs DEF FreshInv
<1>12. TeamInv
  BY <1>4, IdleIs DEF TeamInv
<1>13. DeskInv
  BY <1>4, RestIs DEF DeskInv
<1> QED
  BY <1>8, <1>9, <1>10, <1>11, <1>12, <1>13 DEF IInv

LEMMA NextStep ==
  ASSUME IInv, [Next]_vars
  PROVE  IInv'
<1>1. CASE \E t \in Diagnoses : Diagnose(t)
  BY <1>1, DiagnoseStep
<1>2. CASE \E t \in Asks, new \in BOOLEAN, refuses \in BOOLEAN : Ask(t, new, refuses)
  BY <1>2, AskStep
<1>3. ASSUME NEW t \in Threads, Advance(t) PROVE IInv'
  BY <1>3, AcquireStep, ConverseStep, AnswerStep, AbortStep, DeliverStep, SpecialistStep
     DEF Advance
<1>4. CASE \E t \in Threads, r \in Roles, q \in Questions : Consult(t, r, q)
  BY <1>4, ConsultStep
<1>5. CASE StopRun \/ \E m \in Managers : Approve(m) \/ RejectPlan(m) \/ Execute(m) \/ Verify(m)
  BY <1>5, StopStep, ApproveStep, RejectStep, ExecuteStep, VerifyStep
<1>6. CASE \E v \in mode.variants : Reset(v)
  BY <1>6, ResetStep
<1>7. CASE Crash
  BY <1>7, CrashStep
<1>8. CASE \E s \in Scopes, r \in Roles : LeaseExpires(s, r)
  BY <1>8, LeaseStep
<1>9. CASE UNCHANGED vars
  BY <1>9 DEF vars, IInv, ShapeInv, CaseInv, ThreadInv, FreshInv, TeamInv, DeskInv, Scope, Scopes
<1> QED
  BY <1>1, <1>2, <1>3, <1>4, <1>5, <1>6, <1>7, <1>8, <1>9 DEF Next

(* The inductive invariant holds of every behaviour of the platform. *)
THEOREM Invariance == Spec => []IInv
<1>1. Init => IInv
  BY InitIInv
<1>2. IInv /\ [Next]_vars => IInv'
  BY NextStep
<1> QED
  BY <1>1, <1>2, PTL DEF Spec

(* A plan is released by the current run's own accepted advice and only    *)
(* where the policy over the joined records releases one, whatever         *)
(* overlaps.  Where nothing overlaps a command, a refused plan is neither  *)
(* approved nor executed; where the case is not reset under a command, a   *)
(* recovery is executed only for the counterfactual that warrants one, and *)
(* over the quantities its case was opened with if no two commands overlap *)
(* either.                                                                 *)
THEOREM PlanWarranted == Spec => []PlanIsWarranted
<1>1. IInv => PlanIsWarranted
  <2> SUFFICES ASSUME IInv PROVE PlanIsWarranted
    OBVIOUS
  <2>1. CaseOK(p)
    BY DEF IInv, CaseInv
  <2>2. p.agent = "PLAN_READY" /\ p.execution = None =>
          EvaluatePolicy(Correlate(Sources(p.variant, p.facts))) = "RECOVERY_READY"
    <3> HAVE p.agent = "PLAN_READY" /\ p.execution = None
    <3>1. p.variant = Primary /\ p.facts = PrimaryCase
      BY <2>1, PrimaryIs DEF CaseOK
    <3> QED
      BY <3>1, JoinReleases
  <2>3. p.execution # None /\ "reset" \notin p.crossed =>
          /\ ConsolePolicy(p.variant, CaseOf(p.variant)).status = "PLAN_READY"
          /\ "command" \notin p.crossed =>
               p.scope = <<CaseOf(p.variant).unresolved, CaseOf(p.variant).hold>>
    BY <2>1, PrimaryReady DEF CaseOK, Alone
  <2>4. p.agent = "PLAN_READY" =>
          /\ p.advice # None /\ p.advice.status = "COMPLETE"
          /\ p.advice.run = p.run /\ p.advice.disposition = "RECOVERY_READY"
    BY <2>1 DEF CaseOK
  <2>5. p.rejection # None /\ p.crossed = {} =>
          p.approval = None /\ p.execution = None /\ p.agent # "PLAN_READY"
    BY <2>1 DEF CaseOK
  <2> QED
    BY <2>2, <2>3, <2>4, <2>5 DEF PlanIsWarranted
<1> QED
  BY <1>1, Invariance, PTL

(* A turn is filed only under the opening of the case it was asked in, and *)
(* none proposes a write once the human has refused.                       *)
THEOREM RefusalRemembered == Spec => []RefusalHonoured
<1>1. IInv => RefusalHonoured
  BY DEF IInv, CaseInv, DialogueOK, RefusalHonoured
<1> QED
  BY <1>1, Invariance, PTL

(* Behind an accepted answer every specialist the run started is completed *)
(* in the journal, under the token this run was given.                     *)
THEOREM TeamSettled == Spec => []AnswerHasSettledTeam
<1>1. IInv => AnswerHasSettledTeam
  <2> SUFFICES ASSUME IInv, NEW t \in Threads, threads[t].pc = "deliver",
                      threads[t].result.status = "COMPLETE", NEW r \in Roles,
                      threads[t].claimed[r] > 0
               PROVE  /\ tasks[Scope(t)][r].status = "COMPLETED"
                      /\ tasks[Scope(t)][r].attempt = threads[t].claimed[r]
    BY DEF AnswerHasSettledTeam
  <2>1. TeamOK(tasks[Scope(t)], threads[t])
    BY DEF IInv, TeamInv
  <2> QED
    BY <2>1 DEF TeamOK
<1> QED
  BY <1>1, Invariance, PTL

===============================================================================
