------------------------ MODULE ExperimentSessionProofs ------------------------
(***************************************************************************)
(* The incident session for any sessions to look at, any threads and any   *)
(* number of crashes and failed writes: what is published is durable, the  *)
(* console promises nothing the session would refuse, and nothing happens  *)
(* without its cause.                                                      *)
(*                                                                         *)
(* The argument follows each thread through its own steps.  What a thread  *)
(* has established (a key in the ledger, an effect, a binding, a signed    *)
(* intent) is never taken back by another one: the ledger, the effects and *)
(* the store only grow, and an intent that was granted can only become     *)
(* consumed.  The four stores are then related by what the execution       *)
(* thread must have seen before it wrote the next one.                     *)
(***************************************************************************)
EXTENDS ExperimentSession, TLAPS

-----------------------------------------------------------------------------
(* The invariant. *)

Shape(r, fields) == DOMAIN r = fields /\ r = [x \in fields |-> r[x]]

IntentFields == {"status", "decision", "attested", "grant"}
AttemptFields == {"grant", "attempt"}
ThreadFields == {"pc", "tool", "before", "refresh"}

OpeningSteps == {"recover", "publish", "detect", "announce", "start", "startNow"}
PrepareSteps == {"investigate", "own", "await", "refresh", "decide", "prepared", "requested"}
ApprovalSteps == {"attest", "recorded"}

Unposted == {"begin", "check", "reserve", "blocked"}
Unconsumed == {"post", "complete", "consume"}
Consuming == {"replay", "effectCompleted", "executed", "refresh", "verified"}

(* One intent: nobody has signed an open one, one person a pending one, and *)
(* both roles a granted one.                                                *)
IntentOK(i) ==
  /\ Shape(i, IntentFields)
  /\ i.status \in {"NONE", "OPEN", "QUORUM_PENDING", "EXPIRED", "GRANTED", "CONSUMED"}
  /\ i.attested \in SUBSET Principals
  /\ i.status \in {"NONE", "OPEN"} => i.attested = {}
  /\ i.status = "QUORUM_PENDING" => \E p \in Principals : i.attested = {p}
  /\ i.status \in {"GRANTED", "CONSUMED"} => { RoleOf[p] : p \in i.attested } = Roles

IntentsOK(q) == Shape(q, Tools) /\ \A t \in Tools : IntentOK(q[t])

(* The quorum file and the copy of the running process. *)
QuorumInv ==
  /\ IntentsOK(quorum) /\ IntentsOK(saved)
  /\ \A t \in Tools : quorum[t].status # "NONE" \/ saved[t].status # "NONE" => case # None
  /\ up \in {"up", "opening"} =>
       \A t \in Tools : saved[t].status = "CONSUMED" => quorum[t].status = "CONSUMED"

(* The case, its attempts and the enterprise. *)
StoreInv ==
  /\ case = None \/ case \in CaseRows
  /\ case # None /\ case.status = "RECEIPT_VERIFIED" => Restart \in effects
  /\ case # None /\ case.status = "CLOSED" => effects = Tools
  /\ effects \in SUBSET Tools /\ (Release \in effects => Restart \in effects)
  /\ Shape(store, Tools)
  /\ \A t \in Tools :
       /\ Shape(store[t], AttemptFields)
       /\ store[t] # NoBinding => store[t].attempt \in {"RESERVED", "COMPLETED"}
       /\ store[t].attempt = "COMPLETED" => t \in effects
  /\ store[Release] # NoBinding => Restart \in effects

(* The public events: what each of them says is in the stores. *)
LedgerInv ==
  /\ faults \in Nat
  /\ Has(Detected) => case # None
  /\ run => Named("evaluation") # {}
  /\ \A t \in Tools : Has(<<"executed", t>>) =>
       /\ t \in effects /\ store[t].attempt = "COMPLETED"
       /\ Unraced => saved[t].status = "CONSUMED"

(* The investigation worker. *)
HarnessInv ==
  /\ harness \in {"idle", "synthesis", "evaluation", "done", "degrade", "block"}
  /\ harness # "idle" => Has(Started)
  /\ harness = "done" => Named("evaluation") # {}

(* The holder of the command lock. *)
CommandInv ==
  /\ up \in {"down", "opening", "up", "refused"}
  /\ up = "refused" => Closed
  /\ cmd = Free \/ cmd.pc \in OpeningSteps \union PrepareSteps \union ApprovalSteps
  /\ "pc" \in DOMAIN cmd
  /\ cmd.pc \in OpeningSteps => up \in {"up", "opening"}
  /\ cmd.pc \in PrepareSteps \union ApprovalSteps \union {"startNow"} => up = "up"
  /\ cmd.pc \in PrepareSteps \union ApprovalSteps => "tool" \in DOMAIN cmd /\ cmd.tool \in Tools
  /\ cmd.pc \in ApprovalSteps => "by" \in DOMAIN cmd /\ cmd.by \in Principals
  /\ cmd.pc \in {"detect", "announce", "start"} => Has(Injected)
  /\ cmd.pc \in {"announce", "start"} \union (PrepareSteps \ {"investigate"}) => case # None
  /\ cmd.pc \in {"refresh", "decide", "prepared", "requested"} =>
       Named("evaluation") \union Named("degraded") # {}
  /\ cmd.pc = "requested" => Has(<<"prepared", cmd.tool>>)

(* One execution thread: what it has seen and done so far. *)
ThreadOK(r) ==
  /\ Shape(r, ThreadFields)
  /\ r.tool \in Tools /\ r.pc \in Unposted \union Unconsumed \union Consuming
  /\ quorum[r.tool].status \in {"GRANTED", "CONSUMED"}
  /\ r.pc = "reserve" /\ r.tool = Release => Restart \in effects
  /\ r.pc \in Unconsumed \union Consuming => store[r.tool] # NoBinding
  /\ r.pc \in {"complete", "consume"} \union Consuming => r.tool \in effects
  /\ r.pc \in {"consume"} \union Consuming => store[r.tool].attempt = "COMPLETED"
  /\ r.pc \in Consuming => quorum[r.tool].status = "CONSUMED"
  /\ r.pc \in {"check", "reserve"} \union Unconsumed \union Consuming =>
       (Unraced /\ quorum[r.tool].status = "CONSUMED" => saved[r.tool].status = "CONSUMED")
  /\ r.pc \in {"refresh", "verified"} => Has(<<"executed", r.tool>>)

WorkersInv ==
  /\ Shape(wk, Workers)
  /\ \A w \in Workers :
       wk[w] # Free => up = "up" /\ w \in mode.workers /\ ThreadOK(wk[w])

IInv == QuorumInv /\ StoreInv /\ LedgerInv /\ HarnessInv /\ CommandInv /\ WorkersInv

-----------------------------------------------------------------------------
(* The operators of the quorum and of the ledger.                          *)

(* What a step on the quorum that consumes nothing leaves as it is. *)
Keeps(q, r) ==
  \A t \in Tools :
    /\ q[t].status \in {"GRANTED", "CONSUMED"} => r[t].status = q[t].status
    /\ r[t].status = "CONSUMED" => q[t].status = "CONSUMED"

SameIntents(q, r) == \A t \in Tools : q[t].status = "NONE" => r[t].status = "NONE"

(* A created intent is open and unsigned; every other intent is kept. *)
LEMMA CreatedKeeps ==
  ASSUME NEW q, IntentsOK(q), NEW t \in Tools, q[t].status = "NONE", NEW d
  PROVE  IntentsOK(IntentCreated(q, t, d)) /\ Keeps(q, IntentCreated(q, t, d))
<1> DEFINE r == IntentCreated(q, t, d)
<1>1. /\ Shape(r, Tools)
      /\ \A u \in Tools : u # t => r[u] = q[u]
      /\ r[t] = [status |-> "OPEN", decision |-> d, attested |-> {}, grant |-> None]
  BY DEF IntentCreated, IntentsOK, Shape
<1>2. IntentOK(r[t])
  BY <1>1 DEF IntentOK, Shape, IntentFields
<1>3. \A u \in Tools : IntentOK(r[u])
  BY <1>1, <1>2 DEF IntentsOK
<1>4. Keeps(q, r)
  BY <1>1 DEF Keeps
<1> QED BY <1>1, <1>3, <1>4 DEF IntentsOK

(* Expiry closes an intent that still waits for a signature. *)
LEMMA ExpiredKeeps ==
  ASSUME NEW q, IntentsOK(q), NEW t \in Tools, NEW gone
  PROVE  /\ IntentsOK(Expired(q, t, gone)) /\ Keeps(q, Expired(q, t, gone))
         /\ SameIntents(q, Expired(q, t, gone))
<1> DEFINE r == Expired(q, t, gone)
<1>1. CASE q[t].status \in Pending /\ t \in gone
  <2>1. /\ Shape(r, Tools)
        /\ \A u \in Tools : u # t => r[u] = q[u]
        /\ r[t] = [q[t] EXCEPT !.status = "EXPIRED"]
    BY <1>1 DEF Expired, IntentsOK, Shape
  <2>2. IntentOK(q[t])
    BY DEF IntentsOK
  <2>3. Shape(r[t], IntentFields) /\ r[t].status = "EXPIRED" /\ r[t].attested = q[t].attested
    BY <2>1, <2>2 DEF IntentOK, Shape, IntentFields
  <2>4. IntentOK(r[t])
    BY <2>2, <2>3 DEF IntentOK
  <2>5. \A u \in Tools : IntentOK(r[u])
    BY <2>1, <2>4 DEF IntentsOK
  <2>6. Keeps(q, r) /\ SameIntents(q, r)
    BY <1>1, <2>1, <2>3 DEF Keeps, SameIntents, Pending
  <2> QED BY <2>1, <2>5, <2>6 DEF IntentsOK
<1>2. CASE ~(q[t].status \in Pending /\ t \in gone)
  <2>1. r = q
    BY <1>2 DEF Expired
  <2> QED BY <2>1 DEF Keeps, SameIntents
<1> QED BY <1>1, <1>2

(* The second signature is of the other role, so a granted intent carries  *)
(* a signature of both.                                                    *)
LEMMA AttestedKeeps ==
  ASSUME NEW q, IntentsOK(q), NEW t \in Tools, NEW p \in Principals, MayAttest(q, t, p),
         NEW issue
  PROVE  /\ IntentsOK(Attested(q, t, p, issue)) /\ Keeps(q, Attested(q, t, p, issue))
         /\ SameIntents(q, Attested(q, t, p, issue))
<1> DEFINE r == Attested(q, t, p, issue)
           first == q[t].status = "OPEN"
<1>1. q[t].status \in {"OPEN", "QUORUM_PENDING"} /\ IntentOK(q[t])
  BY DEF MayAttest, Pending, IntentsOK
<1>2. /\ Shape(r, Tools)
      /\ \A u \in Tools : u # t => r[u] = q[u]
      /\ Shape(r[t], IntentFields)
      /\ r[t].attested = q[t].attested \union {p}
      /\ first => r[t].status = "QUORUM_PENDING"
      /\ ~first => r[t].status = "GRANTED"
  BY <1>1 DEF Attested, IntentsOK, IntentOK, Shape, IntentFields
<1>3. IntentOK(r[t])
  <2>1. CASE first
    <3>1. r[t].attested = {p}
      BY <1>1, <1>2, <2>1 DEF IntentOK
    <3> QED BY <1>2, <2>1, <3>1 DEF IntentOK
  <2>2. CASE ~first
    <3>1. PICK other \in Principals : q[t].attested = {other}
      BY <1>1, <2>2 DEF IntentOK
    <3>2. RoleOf[other] # RoleOf[p]
      BY <3>1 DEF MayAttest
    <3>3. RoleOf[other] \in Roles /\ RoleOf[p] \in Roles
      BY DirectoryAssumption
    <3>4. { RoleOf[x] : x \in r[t].attested } = {RoleOf[other], RoleOf[p]}
      BY <1>2, <3>1
    <3>5. {RoleOf[other], RoleOf[p]} = Roles
      BY <3>2, <3>3 DEF Roles
    <3>6. r[t].attested \in SUBSET Principals
      BY <1>2, <3>1
    <3> QED BY <1>2, <2>2, <3>4, <3>5, <3>6 DEF IntentOK
  <2> QED BY <2>1, <2>2
<1>4. \A u \in Tools : IntentOK(r[u])
  BY <1>2, <1>3 DEF IntentsOK
<1>5. Keeps(q, r) /\ SameIntents(q, r)
  BY <1>1, <1>2 DEF Keeps, SameIntents
<1> QED BY <1>2, <1>4, <1>5 DEF IntentsOK

(* A granted intent is consumed; the others are kept. *)
LEMMA ConsumedKeeps ==
  ASSUME NEW q, IntentsOK(q), NEW t \in Tools, q[t].status \in {"GRANTED", "CONSUMED"}
  PROVE  /\ IntentsOK(Consumed(q, t)) /\ SameIntents(q, Consumed(q, t))
         /\ Consumed(q, t)[t].status = "CONSUMED"
         /\ \A u \in Tools : u # t => Consumed(q, t)[u] = q[u]
<1> DEFINE r == Consumed(q, t)
<1>1. /\ Shape(r, Tools)
      /\ \A u \in Tools : u # t => r[u] = q[u]
      /\ r[t] = [q[t] EXCEPT !.status = "CONSUMED"]
  BY DEF Consumed, IntentsOK, Shape
<1>2. IntentOK(q[t])
  BY DEF IntentsOK
<1>3. Shape(r[t], IntentFields) /\ r[t].status = "CONSUMED" /\ r[t].attested = q[t].attested
  BY <1>1, <1>2 DEF IntentOK, Shape, IntentFields
<1>4. IntentOK(r[t])
  BY <1>2, <1>3 DEF IntentOK
<1>5. \A u \in Tools : IntentOK(r[u])
  BY <1>1, <1>4 DEF IntentsOK
<1>6. SameIntents(q, r)
  BY <1>1, <1>3 DEF SameIntents
<1> QED BY <1>1, <1>3, <1>5, <1>6 DEF IntentsOK

(* An append publishes its key, or nothing and the thread takes its other  *)
(* branch.                                                                 *)
Appended(key) == DOMAIN ledger' = DOMAIN ledger \union {key} /\ faults' = faults
Dropped == DOMAIN ledger' = DOMAIN ledger /\ faults' \in {faults, faults + 1}

LEMMA AddedKeys ==
  ASSUME NEW key, NEW version, NEW data
  PROVE  DOMAIN Added(key, version, data) = DOMAIN ledger \union {key}
BY DEF Added, Has, Put

LEMMA Appending ==
  ASSUME NEW key, NEW version, NEW data,
         ledger' = Added(key, version, data), UNCHANGED faults
  PROVE  Appended(key)
BY AddedKeys DEF Appended

LEMMA Dropping ==
  ASSUME NEW key, NEW version, NEW data,
         faults' = (IF Fits(key, version, data) THEN faults + 1 ELSE faults), UNCHANGED ledger
  PROVE  Dropped
BY DEF Dropped

(* A write of the quorum file reaches it, or only the memory.              *)
LEMMA PersistWrites ==
  ASSUME NEW next, NEW ACTION ok, NEW ACTION failed, Persist(next, ok, failed)
  PROVE  /\ quorum' = next
         /\ \/ saved' = next /\ faults' = faults /\ ok
            \/ saved' = saved /\ faults' = faults + 1 /\ failed
BY DEF Persist

-----------------------------------------------------------------------------
(* What a step leaves to the others.                                       *)

(* No step takes back an event, an effect or an attempt. *)
Grows ==
  /\ DOMAIN ledger \subseteq DOMAIN ledger' /\ effects \subseteq effects' /\ mode' = mode
  /\ faults' \in {faults, faults + 1}
  /\ case # None => case' # None
  /\ \A t \in Tools :
       /\ store[t] # NoBinding => store'[t] # NoBinding
       /\ store[t].attempt = "COMPLETED" => store'[t].attempt = "COMPLETED"

(* Nor a granted intent, and a consumption on disk stays there. *)
KeepsIntents ==
  /\ Keeps(quorum, quorum')
  /\ \A t \in Tools : saved[t].status = "CONSUMED" => saved'[t].status = "CONSUMED"

(* No execution is announced as completed. *)
Silent == \A t \in Tools : <<"executed", t>> \in DOMAIN ledger' => Has(<<"executed", t>>)

LEMMA GrowingNames ==
  ASSUME DOMAIN ledger \subseteq DOMAIN ledger', NEW name, Named(name) # {}
  PROVE  Named(name)' # {}
BY DEF Named

LEMMA UnracedBefore ==
  ASSUME mode' = mode, faults \in Nat, faults' \in {faults, faults + 1}, Unraced'
  PROVE  Unraced
<1>1. faults' = 0 => faults = 0
  OBVIOUS
<1> QED BY <1>1 DEF Unraced

LEMMA QuorumKept ==
  ASSUME QuorumInv, UNCHANGED <<quorum, saved>>, case # None => case' # None,
         up' \in {"up", "opening"} => up \in {"up", "opening"}
  PROVE  QuorumInv'
BY DEF QuorumInv, IntentsOK

LEMMA StoreKept ==
  ASSUME StoreInv, UNCHANGED <<case, effects, store>>
  PROVE  StoreInv'
BY DEF StoreInv

LEMMA LedgerKept ==
  ASSUME LedgerInv, Grows, KeepsIntents, Silent,
         Detected \in DOMAIN ledger' => Has(Detected) \/ case' # None,
         run' => run \/ Named("evaluation")' # {}
  PROVE  LedgerInv'
<1>1. faults' \in Nat
  BY DEF LedgerInv, Grows
<1>2. Has(Detected)' => (case # None)'
  BY DEF LedgerInv, Grows, Has, Detected
<1>3. run' => Named("evaluation")' # {}
  BY GrowingNames DEF LedgerInv, Grows
<1>4. Unraced' => Unraced
  BY UnracedBefore DEF LedgerInv, Grows
<1>5. ASSUME NEW t \in Tools, Has(<<"executed", t>>)'
      PROVE  /\ t \in effects' /\ store'[t].attempt = "COMPLETED"
             /\ Unraced' => saved'[t].status = "CONSUMED"
  <2>1. Has(<<"executed", t>>)
    BY <1>5 DEF Silent, Has
  <2> QED BY <2>1, <1>4 DEF LedgerInv, Grows, KeepsIntents
<1> QED BY <1>1, <1>2, <1>3, <1>5 DEF LedgerInv

LEMMA HarnessKept ==
  ASSUME HarnessInv, DOMAIN ledger \subseteq DOMAIN ledger', harness' = harness
  PROVE  HarnessInv'
<1>1. harness' = "done" => Named("evaluation")' # {}
  BY GrowingNames DEF HarnessInv
<1>2. harness' # "idle" => Has(Started)'
  BY DEF HarnessInv, Has, Started
<1> QED BY <1>1, <1>2 DEF HarnessInv

LEMMA ThreadKept ==
  ASSUME NEW r, ThreadOK(r), Grows, KeepsIntents, faults \in Nat
  PROVE  ThreadOK(r)'
<1>1. Unraced' => Unraced
  BY UnracedBefore DEF Grows
<1>2. r.tool \in Tools
  BY DEF ThreadOK
<1>3. /\ quorum[r.tool].status \in {"GRANTED", "CONSUMED"} =>
           quorum'[r.tool].status = quorum[r.tool].status
      /\ quorum'[r.tool].status = "CONSUMED" => quorum[r.tool].status = "CONSUMED"
      /\ saved[r.tool].status = "CONSUMED" => saved'[r.tool].status = "CONSUMED"
  BY <1>2 DEF KeepsIntents, Keeps
<1>4. /\ store[r.tool] # NoBinding => store'[r.tool] # NoBinding
      /\ store[r.tool].attempt = "COMPLETED" => store'[r.tool].attempt = "COMPLETED"
      /\ effects \subseteq effects'
      /\ DOMAIN ledger \subseteq DOMAIN ledger'
  BY <1>2 DEF Grows
<1>5. r.pc \in {"refresh", "verified"} => Has(<<"executed", r.tool>>)'
  BY <1>4 DEF ThreadOK, Has
<1> QED BY <1>1, <1>2, <1>3, <1>4, <1>5 DEF ThreadOK

(* The other threads, when the thread w moves. *)
LEMMA ThreadMoves ==
  ASSUME WorkersInv, Grows, KeepsIntents, faults \in Nat, up' = up,
         NEW w \in Workers, NEW x, wk' = [wk EXCEPT ![w] = x],
         x # Free => up = "up" /\ w \in mode.workers /\ ThreadOK(x)'
  PROVE  WorkersInv'
<1>1. Shape(wk', Workers) /\ wk'[w] = x /\ \A v \in Workers : v # w => wk'[v] = wk[v]
  BY DEF WorkersInv, Shape
<1>2. ASSUME NEW v \in Workers, wk'[v] # Free
      PROVE  up' = "up" /\ v \in mode'.workers /\ ThreadOK(wk[v])'
  <2>1. CASE v = w
    <3>1. wk'[v] = x /\ x # Free
      BY <1>1, <1>2, <2>1
    <3>2. ThreadOK(wk[v])'
      BY <3>1 DEF ThreadOK
    <3> QED BY <3>1, <3>2, <2>1 DEF Grows
  <2>2. CASE v # w
    <3>1. PICK y : y = wk[v]
      OBVIOUS
    <3>2. y # Free /\ ThreadOK(y) /\ up = "up" /\ v \in mode.workers /\ wk'[v] = y
      BY <1>1, <1>2, <2>2, <3>1 DEF WorkersInv
    <3>3. ThreadOK(y)'
      BY <3>2, ThreadKept
    <3>4. ThreadOK(wk[v])'
      BY <3>2, <3>3 DEF ThreadOK
    <3> QED BY <3>2, <3>3, <3>4 DEF Grows
  <2> QED BY <2>1, <2>2
<1> QED BY <1>1, <1>2 DEF WorkersInv

(* All threads, when none of them moves. *)
LEMMA ThreadsKept ==
  ASSUME WorkersInv, Grows, KeepsIntents, faults \in Nat, wk' = wk, up = "up" => up' = "up"
  PROVE  WorkersInv'
<1>1. ASSUME NEW v \in Workers, wk'[v] # Free
      PROVE  up' = "up" /\ v \in mode'.workers /\ ThreadOK(wk[v])'
  <2>1. PICK y : y = wk[v]
    OBVIOUS
  <2>2. y # Free /\ ThreadOK(y) /\ up = "up" /\ v \in mode.workers /\ wk'[v] = y
    BY <1>1, <2>1 DEF WorkersInv
  <2>3. ThreadOK(y)'
    BY <2>2, ThreadKept
  <2>4. ThreadOK(wk[v])'
    BY <2>2, <2>3 DEF ThreadOK
  <2> QED BY <2>2, <2>4 DEF Grows
<1> QED BY <1>1 DEF WorkersInv

(* The thread of the command lock alone moves, the stores stay. *)
Quiet ==
  /\ UNCHANGED <<quorum, saved, case, effects, store, wk, mode>>
  /\ DOMAIN ledger \subseteq DOMAIN ledger' /\ Silent /\ faults' \in {faults, faults + 1}
  /\ up = "up" => up' = "up"
  /\ up' \in {"up", "opening"} => up \in {"up", "opening"}

LEMMA QuietGrows == ASSUME Quiet PROVE Grows /\ KeepsIntents
BY DEF Quiet, Grows, KeepsIntents, Keeps

LEMMA QuietStep ==
  ASSUME IInv, Quiet,
         Detected \in DOMAIN ledger' => Has(Detected) \/ case' # None,
         run' => run \/ Named("evaluation")' # {}
  PROVE  QuorumInv' /\ StoreInv' /\ LedgerInv' /\ WorkersInv'
<1>1. Grows /\ KeepsIntents
  BY QuietGrows
<1>2. QuorumInv'
  BY QuorumKept DEF IInv, Quiet
<1>3. StoreInv'
  BY StoreKept DEF IInv, Quiet
<1>4. LedgerInv'
  BY <1>1, LedgerKept DEF IInv, Quiet
<1>5. WorkersInv'
  BY <1>1, ThreadsKept DEF IInv, Quiet, LedgerInv
<1> QED BY <1>2, <1>3, <1>4, <1>5

Writes(key) == Appended(key) \/ Dropped

LEMMA WritesGrow ==
  ASSUME NEW key, Writes(key), key[1] # "executed"
  PROVE  DOMAIN ledger \subseteq DOMAIN ledger' /\ Silent /\ faults' \in {faults, faults + 1}
<1>1. \A t \in Tools : <<"executed", t>> # key
  <2>1. \A t \in Tools : <<"executed", t>>[1] = "executed"
    OBVIOUS
  <2> QED BY <2>1
<1>2. DOMAIN ledger' \subseteq DOMAIN ledger \union {key} /\ DOMAIN ledger \subseteq DOMAIN ledger'
  BY DEF Writes, Appended, Dropped
<1>3. faults' \in {faults, faults + 1}
  BY DEF Writes, Appended, Dropped
<1> QED BY <1>1, <1>2, <1>3 DEF Silent, Has

LEMMA NothingWritten ==
  ASSUME UNCHANGED <<ledger, faults>>
  PROVE  DOMAIN ledger \subseteq DOMAIN ledger' /\ Silent /\ faults' \in {faults, faults + 1}
BY DEF Silent, Has

LEMMA CommandKept ==
  ASSUME CommandInv, UNCHANGED <<cmd, up>>, DOMAIN ledger \subseteq DOMAIN ledger',
         case # None => case' # None, up = "refused" => case' = case
  PROVE  CommandInv'
<1>1. \A key : Has(key) => Has(key)'
  BY DEF Has
<1>2. \A name : Named(name) # {} => Named(name)' # {}
  BY GrowingNames
<1>3. Has(Injected) => Has(Injected)'
  BY <1>1 DEF Injected
<1>4. cmd.pc = "requested" => Has(<<"prepared", cmd.tool>>)'
  BY <1>1 DEF CommandInv
<1>5. cmd.pc \in {"refresh", "decide", "prepared", "requested"} =>
        Named("evaluation")' \union Named("degraded")' # {}
  BY <1>2 DEF CommandInv
<1>6. up = "refused" => Closed'
  BY DEF CommandInv, Closed
<1> QED BY <1>3, <1>4, <1>5, <1>6 DEF CommandInv

LEMMA CommandLeft ==
  ASSUME CommandInv, NEW state \in {"up", "down", "refused"}, Leave(state),
         up # "refused", state = "refused" => Closed'
  PROVE  CommandInv'
<1>1. cmd' = Free /\ up' = (IF up = "opening" THEN state ELSE up)
  BY DEF Leave
<1>2. up' \in {"down", "opening", "up", "refused"} /\ (up' = "refused" => Closed')
  BY <1>1 DEF CommandInv
<1>3. "pc" \in DOMAIN Free /\ Free.pc = "free"
  BY DEF Free
<1> QED BY <1>1, <1>2, <1>3 DEF CommandInv, OpeningSteps, PrepareSteps, ApprovalSteps

LEMMA LeavingKeepsUp ==
  ASSUME CommandInv, NEW state, Leave(state), up \in {"up", "opening"}
  PROVE  (up = "up" => up' = "up") /\ (up' \in {"up", "opening"} => up \in {"up", "opening"})
BY DEF Leave

LEMMA Gone ==
  ASSUME "pc" \in DOMAIN cmd, NEW x, Goto(x)
  PROVE  /\ cmd'.pc = x /\ DOMAIN cmd' = DOMAIN cmd
         /\ "tool" \in DOMAIN cmd => cmd'.tool = cmd.tool
         /\ "by" \in DOMAIN cmd => cmd'.by = cmd.by
BY DEF Goto

(* What holds after any quiet step of the command lock's thread. *)
LEMMA QuietCommand ==
  ASSUME IInv, Quiet, CommandInv', UNCHANGED <<run, harness>>,
         Detected \in DOMAIN ledger' => Has(Detected) \/ case # None
  PROVE  IInv'
<1>1. QuorumInv' /\ StoreInv' /\ LedgerInv' /\ WorkersInv'
  BY QuietStep DEF Quiet
<1>2. HarnessInv'
  BY HarnessKept DEF IInv, Quiet
<1> QED BY <1>1, <1>2 DEF IInv

(* The key an append may publish, among those of the command thread. *)
LEMMA NotDetected ==
  ASSUME NEW key, Writes(key), key[1] # "detected"
  PROVE  Detected \in DOMAIN ledger' => Has(Detected)
<1>1. Detected # key
  BY DEF Detected
<1> QED BY <1>1 DEF Writes, Appended, Dropped, Has

LEMMA OpeningUp ==
  ASSUME CommandInv, cmd.pc \in OpeningSteps \union PrepareSteps \union ApprovalSteps
  PROVE  up \in {"up", "opening"} /\ "pc" \in DOMAIN cmd /\ up # "refused"
BY DEF CommandInv, OpeningSteps, PrepareSteps, ApprovalSteps

-----------------------------------------------------------------------------
(* The steps of the constructor, of an injection and of the start command. *)

LEMMA OpenSafe == ASSUME IInv, Open PROVE IInv'
<1>1. /\ up \in {"down", "refused"} /\ up' = "opening" /\ quorum' = saved
      /\ cmd' = [pc |-> "recover"]
      /\ UNCHANGED <<ledger, effects, case, store, saved, run, harness, wk, mode, faults>>
  BY DEF Open, disk
<1>2. QuorumInv'
  BY <1>1 DEF IInv, QuorumInv, IntentsOK
<1>3. StoreInv'
  BY <1>1, StoreKept DEF IInv
<1>4. LedgerInv' /\ HarnessInv'
  BY <1>1 DEF IInv, LedgerInv, HarnessInv, Has, Named, Unraced
<1>5. CommandInv'
  <2>1. cmd'.pc = "recover" /\ "pc" \in DOMAIN cmd'
    BY <1>1
  <2> QED BY <1>1, <2>1 DEF CommandInv, OpeningSteps, PrepareSteps, ApprovalSteps
<1>6. \A v \in Workers : wk[v] = Free
  BY <1>1 DEF IInv, WorkersInv
<1>7. WorkersInv'
  BY <1>1, <1>6 DEF IInv, WorkersInv
<1> QED BY <1>2, <1>3, <1>4, <1>5, <1>7 DEF IInv

LEMMA PublishedInjected ==
  ASSUME IInv, cmd.pc \in {"recover", "publish"},
         \/ Appended(Injected) /\ Goto("detect") /\ UNCHANGED up
         \/ Dropped /\ Fail
         \/ UNCHANGED <<ledger, faults>> /\ Stop,
         UNCHANGED <<disk, memory, harness, wk, world>>
  PROVE  IInv'
<1>1. up \in {"up", "opening"} /\ "pc" \in DOMAIN cmd /\ up # "refused"
  BY OpeningUp DEF IInv, OpeningSteps
<1>2. Writes(Injected)
  BY DEF Writes, Dropped
<1>3. Injected[1] = "injected"
  BY DEF Injected
<1>4. (up = "up" => up' = "up") /\ (up' \in {"up", "opening"} => up \in {"up", "opening"})
  BY <1>1, LeavingKeepsUp DEF Stop, Fail, IInv
<1>5. Quiet
  BY <1>2, <1>3, <1>4, WritesGrow DEF Quiet, disk, memory, world
<1>6. CommandInv'
  <2>1. CASE Appended(Injected) /\ Goto("detect") /\ UNCHANGED up
    <3>1. cmd'.pc = "detect" /\ DOMAIN cmd' = DOMAIN cmd
      BY <1>1, <2>1, Gone
    <3>2. Has(Injected)'
      BY <2>1 DEF Appended, Has, Injected
    <3>3. "pc" \in DOMAIN cmd'
      BY <3>1, <1>1
    <3> QED BY <1>1, <2>1, <3>1, <3>2, <3>3
            DEF CommandInv, OpeningSteps, PrepareSteps, ApprovalSteps
  <2>2. CASE Fail
    BY <1>1, <2>2, CommandLeft DEF Fail, IInv
  <2>3. CASE Stop
    BY <1>1, <2>3, CommandLeft DEF Stop, IInv
  <2> QED BY <2>1, <2>2, <2>3
<1>7. Detected \in DOMAIN ledger' => Has(Detected)
  BY <1>2, <1>3, NotDetected
<1> QED BY <1>5, <1>6, <1>7, QuietCommand DEF memory

LEMMA RecoverSafe == ASSUME IInv, Recover PROVE IInv'
<1>1. \/ Appended(Injected) /\ Goto("detect") /\ UNCHANGED up
      \/ Dropped /\ Fail
      \/ UNCHANGED <<ledger, faults>> /\ Stop
  BY Appending, Dropping DEF Recover, Emit
<1>2. cmd.pc \in {"recover", "publish"}
  BY DEF Recover
<1>3. UNCHANGED <<disk, memory, harness, wk, world>>
  BY DEF Recover
<1> QED BY <1>1, <1>2, <1>3, PublishedInjected

LEMMA PublishSourceSafe == ASSUME IInv, PublishSource PROVE IInv'
<1>1. \/ Appended(Injected) /\ Goto("detect") /\ UNCHANGED up
      \/ Dropped /\ Fail
  BY Appending, Dropping DEF PublishSource, Emit
<1>2. cmd.pc \in {"recover", "publish"}
  BY DEF PublishSource
<1>3. UNCHANGED <<disk, memory, harness, wk, world>>
  BY DEF PublishSource
<1> QED BY <1>1, <1>2, <1>3, PublishedInjected

LEMMA InjectSafe == ASSUME IInv, Inject PROVE IInv'
<1>1. /\ up = "up" /\ cmd' = [pc |-> IF Has(Injected) THEN "detect" ELSE "publish"]
      /\ UNCHANGED <<ledger, effects, case, store, saved, up, quorum, run, harness, wk, mode,
                     faults>>
  BY DEF Inject, memory, world
<1>2. Quiet
  BY <1>1, NothingWritten DEF Quiet
<1>3. CommandInv'
  <2>1. /\ "pc" \in DOMAIN cmd' /\ cmd'.pc \in {"detect", "publish"}
        /\ cmd'.pc = "detect" => Has(Injected)'
    BY <1>1 DEF Has, Injected
  <2> QED BY <1>1, <2>1 DEF IInv, CommandInv, OpeningSteps, PrepareSteps, ApprovalSteps
<1>4. Detected \in DOMAIN ledger' => Has(Detected)
  BY <1>1 DEF Has
<1> QED BY <1>1, <1>2, <1>3, <1>4, QuietCommand

LEMMA DetectSafe == ASSUME IInv, Detect PROVE IInv'
<1>1. /\ cmd.pc = "detect"
      /\ UNCHANGED <<ledger, effects, store, saved, up, quorum, run, harness, wk, mode, faults>>
  BY DEF Detect, memory, world
<1>2. up \in {"up", "opening"} /\ "pc" \in DOMAIN cmd /\ up # "refused"
  BY <1>1, OpeningUp DEF IInv, OpeningSteps
<1>3. \/ Has(Detected) /\ Goto("start") /\ case' = case
      \/ /\ Goto("announce")
         /\ case' = IF case = None THEN [status |-> "INVESTIGATING", version |-> 1] ELSE case
  BY DEF Detect
<1>4. case' # None
  <2>1. [status |-> "INVESTIGATING", version |-> 1] \in CaseRows
    BY DEF CaseRows
  <2> QED BY <1>3, <2>1, AbsentAssumption DEF IInv, LedgerInv
<1>5. case' = case \/ (case' \in CaseRows /\ case'.status = "INVESTIGATING")
  BY <1>3 DEF CaseRows
<1>6. Grows /\ KeepsIntents /\ Silent
  BY <1>1, <1>4, NothingWritten DEF Grows, KeepsIntents, Keeps
<1>7. QuorumInv'
  BY <1>1, <1>4, QuorumKept DEF IInv
<1>8. StoreInv'
  BY <1>1, <1>4, <1>5 DEF IInv, StoreInv
<1>9. LedgerInv'
  BY <1>1, <1>4, <1>6, LedgerKept DEF IInv
<1>10. HarnessInv'
  BY <1>1, HarnessKept DEF IInv
<1>11. WorkersInv'
  BY <1>1, <1>6, ThreadsKept DEF IInv, LedgerInv
<1>12. CommandInv'
  <2>1. cmd'.pc \in {"start", "announce"} /\ "pc" \in DOMAIN cmd'
    BY <1>2, <1>3, Gone
  <2>2. Has(Injected)'
    BY <1>1 DEF IInv, CommandInv, Has, Injected
  <2> QED BY <1>1, <1>2, <1>4, <2>1, <2>2
          DEF CommandInv, OpeningSteps, PrepareSteps, ApprovalSteps
<1> QED BY <1>7, <1>8, <1>9, <1>10, <1>11, <1>12 DEF IInv

LEMMA AnnounceSafe == ASSUME IInv, Announce PROVE IInv'
<1>1. \/ Appended(Detected) /\ Goto("start") /\ UNCHANGED up
      \/ Dropped /\ Fail
  BY Appending, Dropping DEF Announce, Emit
<1>2. cmd.pc = "announce" /\ UNCHANGED <<disk, memory, harness, wk, world>>
  BY DEF Announce
<1>3. /\ up \in {"up", "opening"} /\ "pc" \in DOMAIN cmd /\ up # "refused"
      /\ case # None /\ Has(Injected)
  BY <1>2, OpeningUp DEF IInv, CommandInv, OpeningSteps
<1>4. Writes(Detected) /\ Detected[1] = "detected"
  BY <1>1 DEF Writes, Detected
<1>5. (up = "up" => up' = "up") /\ (up' \in {"up", "opening"} => up \in {"up", "opening"})
  BY <1>1, <1>3, LeavingKeepsUp DEF Fail, IInv
<1>6. Quiet
  BY <1>2, <1>4, <1>5, WritesGrow DEF Quiet, disk, memory, world
<1>7. CommandInv'
  <2>1. CASE Goto("start") /\ UNCHANGED up
    <3>1. cmd'.pc = "start" /\ "pc" \in DOMAIN cmd'
      BY <1>3, <2>1, Gone
    <3>2. Has(Injected)' /\ case' # None
      BY <1>3, <1>6 DEF Quiet, Has, Injected
    <3> QED BY <1>3, <2>1, <3>1, <3>2
            DEF CommandInv, OpeningSteps, PrepareSteps, ApprovalSteps
  <2>2. CASE Fail
    BY <1>3, <2>2, CommandLeft DEF Fail, IInv
  <2> QED BY <1>1, <2>1, <2>2
<1> QED BY <1>2, <1>3, <1>6, <1>7, QuietCommand DEF memory

LEMMA StartCommandSafe == ASSUME IInv, StartCommand PROVE IInv'
<1>1. /\ up = "up" /\ cmd' = [pc |-> "startNow"]
      /\ UNCHANGED <<ledger, disk, up, quorum, run, harness, wk, mode, faults>>
  BY DEF StartCommand, memory, world
<1>2. Quiet
  BY <1>1, NothingWritten DEF Quiet, disk
<1>3. CommandInv'
  <2>1. "pc" \in DOMAIN cmd' /\ cmd'.pc = "startNow"
    BY <1>1
  <2> QED BY <1>1, <2>1 DEF CommandInv, OpeningSteps, PrepareSteps, ApprovalSteps
<1>4. Detected \in DOMAIN ledger' => Has(Detected)
  BY <1>1 DEF Has
<1> QED BY <1>1, <1>2, <1>3, <1>4, QuietCommand

(* The investigation worker is started: its cause is in the ledger. *)
LEMMA HarnessStarted ==
  ASSUME HarnessInv, Appended(Started), harness' = "synthesis"
  PROVE  HarnessInv'
<1>1. Has(Started)'
  BY DEF Appended, Has, Started
<1> QED BY <1>1 DEF HarnessInv

LEMMA AutoStartSafe == ASSUME IInv, AutoStart PROVE IInv'
<1>1. cmd.pc \in {"start", "startNow"} /\ UNCHANGED <<disk, memory, wk, world>>
  BY DEF AutoStart
<1>2. up \in {"up", "opening"} /\ "pc" \in DOMAIN cmd /\ up # "refused"
  BY <1>1, OpeningUp DEF IInv, OpeningSteps
<1>3. \/ Stop /\ UNCHANGED <<ledger, harness, faults>>
      \/ /\ cmd.pc = "start" => ~Degraded
         /\ StartDenied /\ Leave("refused") /\ UNCHANGED <<ledger, harness, faults>>
      \/ Appended(Started) /\ Stop /\ harness' = "synthesis"
      \/ Dropped /\ Fail /\ UNCHANGED harness
  BY Appending, Dropping DEF AutoStart, Emit
<1>4. Writes(Started) \/ UNCHANGED <<ledger, faults>>
  BY <1>3 DEF Writes
<1>5. Started[1] = "started"
  BY DEF Started
<1>6. (up = "up" => up' = "up") /\ (up' \in {"up", "opening"} => up \in {"up", "opening"})
  BY <1>2, <1>3, LeavingKeepsUp DEF Stop, Fail, IInv
<1>7. Quiet
  BY <1>1, <1>4, <1>5, <1>6, WritesGrow, NothingWritten DEF Quiet, disk, memory, world
<1>8. CommandInv'
  <2>1. CASE Stop \/ Fail
    BY <1>2, <2>1, CommandLeft DEF Stop, Fail, IInv
  <2>2. CASE (cmd.pc = "start" => ~Degraded) /\ StartDenied /\ Leave("refused")
    <3>1. CASE cmd.pc = "start"
      <4>1. Has(Injected) /\ case # None
        BY <3>1 DEF IInv, CommandInv
      <4>2. Closed'
        BY <2>2, <3>1, <4>1, <1>7 DEF StartDenied, Closed, Quiet
      <4> QED BY <1>2, <2>2, <4>2, CommandLeft DEF IInv
    <3>2. CASE cmd.pc = "startNow"
      <4>1. up = "up" /\ Leave("up")
        BY <3>2, <2>2 DEF IInv, CommandInv, Leave
      <4> QED BY <1>2, <4>1, CommandLeft DEF IInv
    <3> QED BY <1>1, <3>1, <3>2
  <2> QED BY <1>3, <2>1, <2>2
<1>9. Detected \in DOMAIN ledger' => Has(Detected)
  BY <1>4, <1>5, NotDetected DEF Has
<1>10. HarnessInv'
  BY <1>3, <1>7, HarnessKept, HarnessStarted DEF IInv, Quiet
<1>11. QuorumInv' /\ StoreInv' /\ LedgerInv' /\ WorkersInv'
  BY <1>1, <1>7, <1>9, QuietStep DEF memory
<1> QED BY <1>8, <1>10, <1>11 DEF IInv

-----------------------------------------------------------------------------
(* The investigation worker and the chat.                                  *)

LEMMA NamedNew ==
  ASSUME NEW key, Appended(key), NEW name, key[1] = name
  PROVE  Named(name)' # {}
<1>1. key \in DOMAIN ledger'
  BY DEF Appended
<1> QED BY <1>1 DEF Named

(* A quiet step that leaves the command lock alone. *)
LEMMA QuietElsewhere ==
  ASSUME IInv, Quiet, HarnessInv', UNCHANGED <<cmd, up>>,
         run' => run \/ Named("evaluation")' # {},
         Detected \in DOMAIN ledger' => Has(Detected)
  PROVE  IInv'
<1>1. QuorumInv' /\ StoreInv' /\ LedgerInv' /\ WorkersInv'
  BY QuietStep
<1>2. CommandInv'
  BY CommandKept DEF IInv, Quiet
<1> QED BY <1>1, <1>2 DEF IInv

LEMMA HarnessStageSafe == ASSUME IInv, HarnessStage PROVE IInv'
<1>1. /\ harness \in {"synthesis", "evaluation"}
      /\ UNCHANGED <<disk, up, memory, cmd, wk, world>>
  BY DEF HarnessStage, Stages
<1> DEFINE key == <<harness, None>>
<1>2. \/ Appended(key) /\ harness' = After(harness)
      \/ Dropped /\ harness' = "degrade"
      \/ UNCHANGED <<ledger, faults>> /\ harness' = "degrade"
  BY Appending, Dropping DEF HarnessStage, Emit
<1>3. key[1] = harness /\ (Writes(key) \/ UNCHANGED <<ledger, faults>>)
  BY <1>2 DEF Writes
<1> HIDE DEF key
<1>4. key[1] # "executed" /\ key[1] # "detected"
  BY <1>1, <1>3
<1>5. Quiet
  BY <1>1, <1>3, <1>4, WritesGrow, NothingWritten DEF Quiet, disk, memory, world
<1>6. Detected \in DOMAIN ledger' => Has(Detected)
  BY <1>3, <1>4, NotDetected DEF Has
<1>7. HarnessInv'
  <2>1. Has(Started)'
    BY <1>1, <1>5 DEF IInv, HarnessInv, Quiet, Has, Started
  <2>2. harness' = "done" => Named("evaluation")' # {}
    <3>1. ASSUME harness' = "done" PROVE Appended(key) /\ key[1] = "evaluation"
      BY <1>1, <1>2, <1>3, <3>1 DEF After
    <3> QED BY <3>1, NamedNew
  <2>3. harness' \in {"evaluation", "done", "degrade"}
    BY <1>1, <1>2 DEF After
  <2> QED BY <2>1, <2>2, <2>3 DEF HarnessInv
<1> QED BY <1>1, <1>5, <1>6, <1>7, QuietElsewhere DEF memory

LEMMA HarnessDoneSafe == ASSUME IInv, HarnessDone PROVE IInv'
<1>1. /\ harness = "done" /\ harness' = "idle"
      /\ UNCHANGED <<ledger, disk, up, quorum, cmd, wk, world, faults>>
  BY DEF HarnessDone
<1>2. Quiet
  BY <1>1, NothingWritten DEF Quiet, disk, world
<1>3. Named("evaluation")' # {}
  BY <1>1 DEF IInv, HarnessInv, Named
<1>4. HarnessInv'
  BY <1>1 DEF HarnessInv
<1>5. Detected \in DOMAIN ledger' => Has(Detected)
  BY <1>1 DEF Has
<1> QED BY <1>1, <1>2, <1>3, <1>4, <1>5, QuietElsewhere

LEMMA HarnessDegradeSafe == ASSUME IInv, HarnessDegrade PROVE IInv'
<1>1. /\ harness \in {"degrade", "block"}
      /\ UNCHANGED <<disk, up, memory, cmd, wk, world>>
  BY DEF HarnessDegrade
<1> DEFINE key == IF harness = "degrade" THEN <<"degraded", None>> ELSE <<"blocked", None>>
<1>2. \/ Appended(key) /\ harness' \in {"block", "idle"}
      \/ Dropped /\ harness' = "idle"
  <2>1. CASE harness = "degrade"
    BY <2>1, Appending, Dropping DEF HarnessDegrade, Emit
  <2>2. CASE harness # "degrade"
    BY <2>2, Appending, Dropping DEF HarnessDegrade, Emit
  <2> QED BY <2>1, <2>2
<1>3. key[1] # "executed" /\ key[1] # "detected"
  BY DEF Writes
<1> HIDE DEF key
<1>4. Writes(key)
  BY <1>2 DEF Writes
<1>5. Quiet
  BY <1>1, <1>3, <1>4, WritesGrow DEF Quiet, disk, memory, world
<1>6. Detected \in DOMAIN ledger' => Has(Detected)
  BY <1>3, <1>4, NotDetected
<1>7. HarnessInv'
  <2>1. Has(Started)'
    BY <1>1, <1>5 DEF IInv, HarnessInv, Quiet, Has, Started
  <2> QED BY <1>2, <2>1 DEF HarnessInv
<1> QED BY <1>1, <1>5, <1>6, <1>7, QuietElsewhere DEF memory

LEMMA ChatSafe == ASSUME IInv, Chat PROVE IInv'
<1>1. UNCHANGED <<disk, up, quorum, results, harness, cmd, wk, world, faults>>
  BY DEF Chat
<1>2. \/ Appended(<<"degraded", "chat">>) /\ run' = run
      \/ Appended(<<"evaluation", "chat">>)
  BY <1>1, Appending DEF Chat
<1>3. run' => run \/ Named("evaluation")' # {}
  <2>1. <<"evaluation", "chat">>[1] = "evaluation"
    OBVIOUS
  <2> QED BY <1>2, <2>1, NamedNew
<1>4. PICK key : Appended(key) /\ key[1] # "executed" /\ key[1] # "detected"
  <2>1. <<"evaluation", "chat">>[1] = "evaluation" /\ <<"degraded", "chat">>[1] = "degraded"
    OBVIOUS
  <2> QED BY <1>2, <2>1
<1>5. Writes(key)
  BY <1>4 DEF Writes
<1>6. Quiet
  BY <1>1, <1>4, <1>5, WritesGrow DEF Quiet, disk, world
<1>7. Detected \in DOMAIN ledger' => Has(Detected)
  BY <1>4, <1>5, NotDetected
<1>8. HarnessInv'
  BY <1>1, <1>6, HarnessKept DEF IInv, Quiet
<1> QED BY <1>1, <1>3, <1>6, <1>7, <1>8, QuietElsewhere

-----------------------------------------------------------------------------
(* A manager command.                                                      *)

LEMMA PrepareSafe == ASSUME IInv, NEW t \in Tools, Prepare(t) PROVE IInv'
<1>1. /\ up = "up"
      /\ cmd' = [pc |-> "investigate", tool |-> t, refresh |-> None, cached |-> FALSE]
      /\ UNCHANGED <<ledger, disk, up, memory, harness, wk, world, faults>>
  BY DEF Prepare
<1>2. Quiet
  BY <1>1, NothingWritten DEF Quiet, disk, memory, world
<1>3. CommandInv'
  <2>1. "pc" \in DOMAIN cmd' /\ "tool" \in DOMAIN cmd' /\ cmd'.pc = "investigate" /\ cmd'.tool = t
    BY <1>1
  <2> QED BY <1>1, <2>1 DEF CommandInv, OpeningSteps, PrepareSteps, ApprovalSteps
<1>4. Detected \in DOMAIN ledger' => Has(Detected)
  BY <1>1 DEF Has
<1> QED BY <1>1, <1>2, <1>3, <1>4, QuietCommand DEF memory

LEMMA InvestigateSafe == ASSUME IInv, Investigate PROVE IInv'
<1>1. cmd.pc = "investigate" /\ UNCHANGED <<disk, memory, wk, world>>
  BY DEF Investigate
<1>2. /\ up = "up" /\ "pc" \in DOMAIN cmd /\ "tool" \in DOMAIN cmd /\ cmd.tool \in Tools
  BY <1>1 DEF IInv, CommandInv, PrepareSteps, ApprovalSteps
<1>3. \/ Stop /\ UNCHANGED <<ledger, harness, faults>>
      \/ Goto("await") /\ case # None /\ UNCHANGED <<ledger, up, harness, faults>>
      \/ /\ Appended(Started) /\ harness' = "synthesis"
         /\ Goto("own") /\ case # None /\ up' = up
      \/ Dropped /\ Fail /\ UNCHANGED harness
  BY Appending, Dropping DEF Investigate, Emit
<1>4. Writes(Started) \/ UNCHANGED <<ledger, faults>>
  BY <1>3 DEF Writes
<1>5. Started[1] = "started"
  BY DEF Started
<1>6. (up = "up" => up' = "up") /\ (up' \in {"up", "opening"} => up \in {"up", "opening"})
  BY <1>2, <1>3, LeavingKeepsUp DEF Stop, Fail, IInv
<1>7. Quiet
  BY <1>1, <1>4, <1>5, <1>6, WritesGrow, NothingWritten DEF Quiet, disk, memory, world
<1>8. CommandInv'
  <2>1. CASE Stop \/ Fail
    BY <1>2, <2>1, CommandLeft DEF Stop, Fail, IInv
  <2>2. CASE (Goto("await") \/ Goto("own")) /\ case # None /\ up' = up
    <3>1. /\ cmd'.pc \in {"await", "own"} /\ "pc" \in DOMAIN cmd' /\ "tool" \in DOMAIN cmd'
          /\ cmd'.tool = cmd.tool
      BY <1>2, <2>2, Gone
    <3> QED BY <1>2, <1>7, <2>2, <3>1
            DEF CommandInv, OpeningSteps, PrepareSteps, ApprovalSteps, Quiet
  <2> QED BY <1>3, <2>1, <2>2
<1>9. Detected \in DOMAIN ledger' => Has(Detected)
  BY <1>4, <1>5, NotDetected DEF Has
<1>10. HarnessInv'
  BY <1>3, <1>7, HarnessKept, HarnessStarted DEF IInv, Quiet
<1>11. QuorumInv' /\ StoreInv' /\ LedgerInv' /\ WorkersInv'
  BY <1>1, <1>7, <1>9, QuietStep DEF memory
<1> QED BY <1>8, <1>10, <1>11 DEF IInv

(* An answer, or a degraded incident, is in the ledger. *)
LEMMA InvestigatedNamed ==
  ASSUME LedgerInv, Investigated
  PROVE  Named("evaluation") \union Named("degraded") # {}
BY DEF LedgerInv, Investigated, Available, Degraded

LEMMA AwaitSafe == ASSUME IInv, Await PROVE IInv'
<1>1. cmd.pc \in {"await", "own"} /\ UNCHANGED <<ledger, disk, memory, harness, wk, world, faults>>
  BY DEF Await
<1>2. /\ up = "up" /\ "pc" \in DOMAIN cmd /\ "tool" \in DOMAIN cmd /\ cmd.tool \in Tools
      /\ case # None
  BY <1>1 DEF IInv, CommandInv, PrepareSteps, ApprovalSteps
<1>3. \/ /\ Investigated /\ up' = up
         /\ DOMAIN cmd' = DOMAIN cmd /\ cmd'.pc \in {"refresh", "decide"} /\ cmd'.tool = cmd.tool
      \/ Stop
  BY <1>2, Gone DEF Await
<1>4. (up = "up" => up' = "up") /\ (up' \in {"up", "opening"} => up \in {"up", "opening"})
  BY <1>2, <1>3, LeavingKeepsUp DEF Stop, IInv
<1>5. Quiet
  BY <1>1, <1>4, NothingWritten DEF Quiet, disk, memory, world
<1>6. CommandInv'
  <2>1. CASE Stop
    BY <1>2, <2>1, CommandLeft DEF Stop, IInv
  <2>2. CASE /\ Investigated /\ up' = up
             /\ DOMAIN cmd' = DOMAIN cmd /\ cmd'.pc \in {"refresh", "decide"}
             /\ cmd'.tool = cmd.tool
    <3>1. Named("evaluation")' \union Named("degraded")' # {}
      BY <2>2, <1>1, InvestigatedNamed DEF IInv, Named
    <3>2. "pc" \in DOMAIN cmd' /\ "tool" \in DOMAIN cmd' /\ case' # None
      BY <1>2, <2>2, <1>5 DEF Quiet
    <3> QED BY <1>2, <2>2, <3>1, <3>2
            DEF CommandInv, OpeningSteps, PrepareSteps, ApprovalSteps
  <2> QED BY <1>3, <2>1, <2>2
<1>7. Detected \in DOMAIN ledger' => Has(Detected)
  BY <1>1 DEF Has
<1> QED BY <1>1, <1>5, <1>6, <1>7, QuietCommand DEF memory

LEMMA RefreshSafe == ASSUME IInv, Refresh PROVE IInv'
<1>1. /\ cmd.pc = "refresh"
      /\ UNCHANGED <<ledger, injected, effects, case, store, saved, memory, harness, wk,
                     world, faults>>
  BY DEF Refresh
<1>2. /\ up = "up" /\ "pc" \in DOMAIN cmd /\ "tool" \in DOMAIN cmd /\ cmd.tool \in Tools
      /\ case # None /\ Named("evaluation") \union Named("degraded") # {}
  BY <1>1 DEF IInv, CommandInv, PrepareSteps, ApprovalSteps
<1>3. \/ /\ up' = up /\ DOMAIN cmd' = DOMAIN cmd /\ cmd'.pc \in {"refresh", "decide"}
         /\ cmd'.tool = cmd.tool
      \/ Stop
  <2>1. \/ Stop
        \/ Goto("decide") /\ up' = up
        \/ \E r : cmd' = [cmd EXCEPT !.refresh = r] /\ up' = up
    BY DEF Refresh, Insert
  <2>2. ASSUME NEW r, cmd' = [cmd EXCEPT !.refresh = r]
        PROVE  DOMAIN cmd' = DOMAIN cmd /\ cmd'.pc = "refresh" /\ cmd'.tool = cmd.tool
    BY <1>1, <1>2, <2>2
  <2> QED BY <1>2, <2>1, <2>2, Gone
<1>4. (up = "up" => up' = "up") /\ (up' \in {"up", "opening"} => up \in {"up", "opening"})
  BY <1>2, <1>3, LeavingKeepsUp DEF Stop, IInv
<1>5. Quiet
  BY <1>1, <1>4, NothingWritten DEF Quiet, memory, world
<1>6. CommandInv'
  <2>1. CASE Stop
    BY <1>2, <2>1, CommandLeft DEF Stop, IInv
  <2>2. CASE /\ up' = up /\ DOMAIN cmd' = DOMAIN cmd /\ cmd'.pc \in {"refresh", "decide"}
             /\ cmd'.tool = cmd.tool
    <3>1. Named("evaluation")' \union Named("degraded")' # {}
      BY <1>1, <1>2 DEF Named
    <3>2. "pc" \in DOMAIN cmd' /\ "tool" \in DOMAIN cmd' /\ case' # None
      BY <1>2, <2>2, <1>5 DEF Quiet
    <3> QED BY <1>2, <2>2, <3>1, <3>2
            DEF CommandInv, OpeningSteps, PrepareSteps, ApprovalSteps
  <2> QED BY <1>3, <2>1, <2>2
<1>7. Detected \in DOMAIN ledger' => Has(Detected)
  BY <1>1 DEF Has
<1> QED BY <1>1, <1>5, <1>6, <1>7, QuietCommand DEF memory

(* A step that changes intents without consuming one. *)
LEMMA IntentsWritten ==
  ASSUME IInv, up = "up", up' = up, NEW next, IntentsOK(next), Keeps(quorum, next),
         SameIntents(quorum, next) \/ case # None,
         quorum' = next, saved' = next \/ saved' = saved, faults' \in {faults, faults + 1},
         UNCHANGED <<ledger, effects, case, store, run, harness, wk, mode>>
  PROVE  QuorumInv' /\ StoreInv' /\ LedgerInv' /\ HarnessInv' /\ WorkersInv'
<1>1. \A t \in Tools : saved[t].status = "CONSUMED" => next[t].status = "CONSUMED"
  BY DEF IInv, QuorumInv, Keeps
<1>2. KeepsIntents
  BY <1>1 DEF KeepsIntents
<1>3. Grows /\ Silent
  BY DEF Grows, Silent, Has
<1>4. QuorumInv'
  <2>1. IntentsOK(quorum') /\ IntentsOK(saved')
    BY DEF IInv, QuorumInv
  <2>2. \A t \in Tools : quorum'[t].status # "NONE" \/ saved'[t].status # "NONE" => case' # None
    BY DEF IInv, QuorumInv, SameIntents
  <2> QED BY <1>1, <2>1, <2>2 DEF IInv, QuorumInv, IntentsOK
<1>5. StoreInv'
  BY StoreKept DEF IInv
<1>6. LedgerInv'
  BY <1>2, <1>3, LedgerKept DEF IInv, Has
<1>7. HarnessInv'
  BY HarnessKept DEF IInv
<1>8. WorkersInv'
  BY <1>2, <1>3, ThreadsKept DEF IInv, LedgerInv
<1> QED BY <1>4, <1>5, <1>6, <1>7, <1>8

LEMMA DecideSafe == ASSUME IInv, Decide PROVE IInv'
<1> DEFINE t == cmd.tool
           next == IntentCreated(quorum, t, Decision(case, evidence))
<1>1. /\ cmd.pc = "decide"
      /\ UNCHANGED <<ledger, injected, effects, case, evidence, store, run, harness, wk, world>>
  BY DEF Decide
<1>2. /\ up = "up" /\ "pc" \in DOMAIN cmd /\ "tool" \in DOMAIN cmd /\ cmd.tool \in Tools
      /\ case # None /\ Named("evaluation") \union Named("degraded") # {}
  BY <1>1 DEF IInv, CommandInv, PrepareSteps, ApprovalSteps
<1>3. \/ Stop /\ UNCHANGED <<quorum, saved, faults>>
      \/ /\ quorum[t].status = "NONE" /\ quorum' = next
         /\ \/ saved' = next /\ faults' = faults /\ Goto("prepared") /\ up' = up
            \/ saved' = saved /\ faults' = faults + 1 /\ Fail
      \/ /\ cmd' = [cmd EXCEPT !.pc = "prepared", !.cached = TRUE]
         /\ UNCHANGED <<quorum, saved, up, faults>>
  BY DEF Decide, Persist
<1>4. \/ Stop
      \/ Fail
      \/ /\ up' = up /\ DOMAIN cmd' = DOMAIN cmd /\ cmd'.pc = "prepared" /\ cmd'.tool = t
  <2>1. ASSUME cmd' = [cmd EXCEPT !.pc = "prepared", !.cached = TRUE]
        PROVE  DOMAIN cmd' = DOMAIN cmd /\ cmd'.pc = "prepared" /\ cmd'.tool = t
    BY <1>2, <2>1
  <2> HIDE DEF next
  <2> QED BY <1>2, <1>3, <2>1, Gone
<1>5. up' = up
  BY <1>2, <1>4 DEF Stop, Fail, Leave
<1>6. CommandInv'
  <2>1. CASE Stop \/ Fail
    BY <1>2, <2>1, CommandLeft DEF Stop, Fail, IInv
  <2>2. CASE up' = up /\ DOMAIN cmd' = DOMAIN cmd /\ cmd'.pc = "prepared" /\ cmd'.tool = t
    <3>1. Named("evaluation")' \union Named("degraded")' # {}
      BY <1>1, <1>2 DEF Named
    <3>2. "pc" \in DOMAIN cmd' /\ "tool" \in DOMAIN cmd' /\ case' # None
      BY <1>1, <1>2, <2>2
    <3> QED BY <1>2, <2>2, <3>1, <3>2
            DEF CommandInv, OpeningSteps, PrepareSteps, ApprovalSteps
  <2> QED BY <1>4, <2>1, <2>2
<1>7. CASE UNCHANGED <<quorum, saved, faults>>
  <2>1. Quiet
    BY <1>1, <1>2, <1>5, <1>7, NothingWritten DEF Quiet, world
  <2>2. Detected \in DOMAIN ledger' => Has(Detected)
    BY <1>1 DEF Has
  <2> QED BY <1>1, <1>6, <2>1, <2>2, QuietCommand
<1>8. CASE /\ quorum[t].status = "NONE" /\ quorum' = next
           /\ \/ saved' = next /\ faults' = faults
              \/ saved' = saved /\ faults' = faults + 1
  <2>1. IntentsOK(next) /\ Keeps(quorum, next)
    <3>1. PICK q, u, d : q = quorum /\ u = t /\ d = Decision(case, evidence)
      OBVIOUS
    <3>2. IntentsOK(q) /\ u \in Tools /\ q[u].status = "NONE"
      BY <1>2, <1>8, <3>1 DEF IInv, QuorumInv
    <3>3. IntentsOK(IntentCreated(q, u, d)) /\ Keeps(q, IntentCreated(q, u, d))
      BY ONLY <3>2, CreatedKeeps
    <3> QED BY <3>1, <3>3
  <2> HIDE DEF next
  <2>2. QuorumInv' /\ StoreInv' /\ LedgerInv' /\ HarnessInv' /\ WorkersInv'
    BY <1>1, <1>2, <1>5, <1>8, <2>1, IntentsWritten DEF world
  <2> QED BY <1>6, <2>2 DEF IInv
<1> QED BY <1>3, <1>7, <1>8

LEMMA AnnouncedSafe == ASSUME IInv, Announced PROVE IInv'
<1> DEFINE key == <<cmd.pc, cmd.tool>>
<1>1. cmd.pc \in {"prepared", "requested"} /\ UNCHANGED <<disk, quorum, run, harness, wk, world>>
  BY DEF Announced
<1>2. /\ up = "up" /\ "pc" \in DOMAIN cmd /\ "tool" \in DOMAIN cmd /\ cmd.tool \in Tools
      /\ case # None /\ Named("evaluation") \union Named("degraded") # {}
  BY <1>1 DEF IInv, CommandInv, PrepareSteps, ApprovalSteps
<1>3. \/ /\ Appended(key)
         /\ \/ cmd.pc = "prepared" /\ Goto("requested") /\ up' = up
            \/ Stop
      \/ Dropped /\ Fail
  BY Appending, Dropping DEF Announced, Emit
<1>4. key[1] = cmd.pc /\ Writes(key)
  BY <1>3 DEF Writes
<1>5. up' = up
  BY <1>2, <1>3 DEF Stop, Fail, Leave
<1>6. CommandInv'
  <2>1. CASE Stop \/ Fail
    BY <1>2, <2>1, CommandLeft DEF Stop, Fail, IInv
  <2>2. CASE Appended(key) /\ cmd.pc = "prepared" /\ Goto("requested") /\ up' = up
    <3>1. /\ cmd'.pc = "requested" /\ "pc" \in DOMAIN cmd' /\ "tool" \in DOMAIN cmd'
          /\ cmd'.tool = cmd.tool
      BY <1>2, <2>2, Gone
    <3>2. <<"prepared", cmd'.tool>> \in DOMAIN ledger'
      BY <2>2, <3>1 DEF Appended
    <3>3. Named("evaluation")' \union Named("degraded")' # {}
      BY <1>2, <2>2 DEF Appended, Named
    <3>4. case' # None
      BY <1>1, <1>2 DEF disk
    <3> QED BY <1>2, <2>2, <3>1, <3>2, <3>3, <3>4
            DEF CommandInv, OpeningSteps, PrepareSteps, ApprovalSteps, Has
  <2> QED BY <1>3, <2>1, <2>2
<1> HIDE DEF key
<1>7. Quiet
  BY <1>1, <1>2, <1>4, <1>5, WritesGrow DEF Quiet, disk, world
<1>8. Detected \in DOMAIN ledger' => Has(Detected)
  BY <1>1, <1>4, NotDetected
<1> QED BY <1>1, <1>6, <1>7, <1>8, QuietCommand

LEMMA ApproveSafe == ASSUME IInv, NEW t \in Tools, NEW p \in Principals, Approve(t, p) PROVE IInv'
<1>1. /\ up = "up"
      /\ \E x \in {"attest", "recorded"} : cmd' = [pc |-> x, tool |-> t, by |-> p]
      /\ UNCHANGED <<ledger, disk, up, memory, harness, wk, world, faults>>
  BY DEF Approve
<1>2. Quiet
  BY <1>1, NothingWritten DEF Quiet, disk, memory, world
<1>3. CommandInv'
  <2>1. /\ "pc" \in DOMAIN cmd' /\ "tool" \in DOMAIN cmd' /\ "by" \in DOMAIN cmd'
        /\ cmd'.pc \in {"attest", "recorded"} /\ cmd'.tool = t /\ cmd'.by = p
    BY <1>1
  <2> QED BY <1>1, <2>1 DEF CommandInv, OpeningSteps, PrepareSteps, ApprovalSteps
<1>4. Detected \in DOMAIN ledger' => Has(Detected)
  BY <1>1 DEF Has
<1> QED BY <1>1, <1>2, <1>3, <1>4, QuietCommand DEF memory

LEMMA KeepsTwice ==
  ASSUME NEW q, NEW r, NEW s, Keeps(q, r), Keeps(r, s), SameIntents(q, r), SameIntents(r, s)
  PROVE  Keeps(q, s) /\ SameIntents(q, s)
BY DEF Keeps, SameIntents

(* Each way the attempt to sign may change the intents. *)
LEMMA SigningKeeps ==
  ASSUME NEW q, IntentsOK(q), NEW t \in Tools, NEW p \in Principals, NEW gone, NEW issue,
         NEW next,
         \/ next = Expired(q, t, gone)
         \/ /\ MayAttest(Expired(q, t, gone), t, p)
            /\ next = Attested(Expired(q, t, gone), t, p, issue)
  PROVE  IntentsOK(next) /\ Keeps(q, next) /\ SameIntents(q, next)
<1>1. PICK r : r = Expired(q, t, gone)
  OBVIOUS
<1>2. IntentsOK(r) /\ Keeps(q, r) /\ SameIntents(q, r)
  BY <1>1, ExpiredKeeps
<1>3. CASE MayAttest(r, t, p) /\ next = Attested(r, t, p, issue)
  <2>1. IntentsOK(next) /\ Keeps(r, next) /\ SameIntents(r, next)
    BY <1>2, <1>3, AttestedKeeps
  <2> QED BY <1>2, <2>1, KeepsTwice
<1> QED BY <1>1, <1>2, <1>3

LEMMA AttestSafe == ASSUME IInv, Attest PROVE IInv'
<1> DEFINE t == cmd.tool
           now == Expired(quorum, t, late)
           signed == Attested(now, t, cmd.by, issued)
<1>1. /\ cmd.pc = "attest"
      /\ UNCHANGED <<ledger, injected, effects, case, evidence, store, results, run, harness, wk,
                     mode>>
  BY DEF Attest
<1>2. /\ up = "up" /\ "pc" \in DOMAIN cmd /\ "tool" \in DOMAIN cmd /\ cmd.tool \in Tools
      /\ "by" \in DOMAIN cmd /\ cmd.by \in Principals
  BY <1>1 DEF IInv, CommandInv, PrepareSteps, ApprovalSteps
<1>3. \/ Stop /\ UNCHANGED <<quorum, saved, faults>>
      \/ \E next \in {now, signed} :
           /\ next = signed => MayAttest(now, t, cmd.by) \/ next = now
           /\ quorum' = next
           /\ \/ saved' = next /\ faults' = faults
                   /\ (Stop \/ (Goto("recorded") /\ up' = up))
              \/ saved' = saved /\ faults' = faults + 1 /\ Fail
  <2>1. CASE MayAttest(now, t, cmd.by)
    <3>1. Persist(signed, Goto("recorded") /\ UNCHANGED up, Fail)
      BY <2>1 DEF Attest
    <3> QED BY <2>1, <3>1 DEF Persist
  <2>2. CASE ~MayAttest(now, t, cmd.by)
    <3>1. \/ Persist(now, Stop, Fail)
          \/ Stop /\ UNCHANGED <<quorum, saved, faults>>
      BY <2>2 DEF Attest
    <3> QED BY <3>1 DEF Persist
  <2> QED BY <2>1, <2>2
<1> HIDE DEF now, signed
<1>4. Stop \/ Fail \/ (Goto("recorded") /\ up' = up)
  BY <1>3
<1>5. up' = up
  BY <1>2, <1>4 DEF Stop, Fail, Leave
<1>6. CommandInv'
  <2>1. CASE Stop \/ Fail
    BY <1>2, <2>1, CommandLeft DEF Stop, Fail, IInv
  <2>2. CASE Goto("recorded") /\ up' = up
    <3>1. /\ cmd'.pc = "recorded" /\ DOMAIN cmd' = DOMAIN cmd /\ cmd'.tool = cmd.tool
          /\ cmd'.by = cmd.by
      BY <1>2, <2>2, Gone
    <3>2. "pc" \in DOMAIN cmd' /\ "tool" \in DOMAIN cmd' /\ "by" \in DOMAIN cmd'
      BY <1>2, <3>1
    <3> QED BY <1>2, <2>2, <3>1, <3>2
            DEF CommandInv, OpeningSteps, PrepareSteps, ApprovalSteps
  <2> QED BY <1>4, <2>1, <2>2
<1>7. CASE UNCHANGED <<quorum, saved, faults>>
  <2>1. Quiet
    BY <1>1, <1>2, <1>5, <1>7, NothingWritten DEF Quiet
  <2>2. Detected \in DOMAIN ledger' => Has(Detected)
    BY <1>1 DEF Has
  <2> QED BY <1>1, <1>6, <2>1, <2>2, QuietCommand
<1>8. ASSUME NEW next \in {now, signed},
             next = signed => MayAttest(now, t, cmd.by) \/ next = now,
             quorum' = next, saved' = next \/ saved' = saved,
             faults' \in {faults, faults + 1}
      PROVE  IInv'
  <2>1. IntentsOK(next) /\ Keeps(quorum, next) /\ SameIntents(quorum, next)
    <3>1. PICK q, u, p, gone, issue :
            q = quorum /\ u = t /\ p = cmd.by /\ gone = late /\ issue = issued
      OBVIOUS
    <3>2. IntentsOK(q) /\ u \in Tools /\ p \in Principals
      BY <1>2, <3>1 DEF IInv, QuorumInv
    <3>3. \/ next = Expired(q, u, gone)
          \/ /\ MayAttest(Expired(q, u, gone), u, p)
             /\ next = Attested(Expired(q, u, gone), u, p, issue)
      BY <1>8, <3>1 DEF now, signed
    <3>4. IntentsOK(next) /\ Keeps(q, next) /\ SameIntents(q, next)
      BY <3>2, <3>3, SigningKeeps
    <3> QED BY <3>1, <3>4
  <2>2. QuorumInv' /\ StoreInv' /\ LedgerInv' /\ HarnessInv' /\ WorkersInv'
    BY <1>1, <1>2, <1>5, <1>8, <2>1, IntentsWritten
  <2> QED BY <1>6, <2>2 DEF IInv
<1> QED BY <1>3, <1>7, <1>8

LEMMA RecordedSafe == ASSUME IInv, Recorded PROVE IInv'
<1> DEFINE key == <<"recorded", cmd.tool, cmd.by>>
<1>1. cmd.pc = "recorded" /\ UNCHANGED <<disk, memory, harness, wk, world>>
  BY DEF Recorded
<1>2. up = "up" /\ "pc" \in DOMAIN cmd
  BY <1>1 DEF IInv, CommandInv, PrepareSteps, ApprovalSteps
<1>3. (Appended(key) \/ Dropped) /\ (Stop \/ Fail)
  BY Appending, Dropping DEF Recorded, Emit
<1>4. key[1] = "recorded" /\ Writes(key)
  BY <1>3 DEF Writes
<1> HIDE DEF key
<1>5. up' = up
  BY <1>2, <1>3 DEF Stop, Fail, Leave
<1>6. CommandInv'
  BY <1>2, <1>3, CommandLeft DEF Stop, Fail, IInv
<1>7. Quiet
  BY <1>1, <1>2, <1>4, <1>5, WritesGrow DEF Quiet, disk, memory, world
<1>8. Detected \in DOMAIN ledger' => Has(Detected)
  BY <1>1, <1>4, NotDetected
<1> QED BY <1>1, <1>6, <1>7, <1>8, QuietCommand DEF memory

-----------------------------------------------------------------------------
(* The execution threads.                                                  *)

(* A step of one thread that leaves the stores and the intents. *)
Same ==
  /\ UNCHANGED <<quorum, saved, case, effects, store, run, harness, cmd, up, mode>>
  /\ DOMAIN ledger \subseteq DOMAIN ledger' /\ faults' \in {faults, faults + 1}

LEMMA SameGrows == ASSUME Same PROVE Grows /\ KeepsIntents
BY DEF Same, Grows, KeepsIntents, Keeps

LEMMA ThreadStep ==
  ASSUME IInv, Same, LedgerInv',
         NEW w \in Workers, NEW x, wk' = [wk EXCEPT ![w] = x],
         x # Free => up = "up" /\ w \in mode.workers /\ ThreadOK(x)'
  PROVE  IInv'
<1>1. Grows /\ KeepsIntents
  BY SameGrows
<1>2. QuorumInv'
  BY QuorumKept DEF IInv, Same
<1>3. StoreInv'
  BY StoreKept DEF IInv, Same
<1>4. HarnessInv'
  BY HarnessKept DEF IInv, Same
<1>5. CommandInv'
  BY CommandKept DEF IInv, Same
<1>6. WorkersInv'
  BY <1>1, ThreadMoves DEF IInv, Same, LedgerInv
<1> QED BY <1>2, <1>3, <1>4, <1>5, <1>6 DEF IInv

LEMMA SameLedger ==
  ASSUME IInv, Same, NEW key,
         (Writes(key) /\ key[1] # "executed" /\ key[1] # "detected")
           \/ UNCHANGED <<ledger, faults>>
  PROVE  LedgerInv'
<1>1. Silent /\ (Detected \in DOMAIN ledger' => Has(Detected))
  BY WritesGrow, NothingWritten, NotDetected DEF Has
<1> QED BY <1>1, SameGrows, LedgerKept DEF IInv, Same

(* What is known of a thread that acts. *)
LEMMA Acting ==
  ASSUME IInv, NEW w \in Workers, wk[w] # Free
  PROVE  /\ up = "up" /\ w \in mode.workers /\ ThreadOK(wk[w])
         /\ Shape(wk[w], ThreadFields) /\ wk[w].tool \in Tools
         /\ case # None /\ faults \in Nat
<1>1. up = "up" /\ w \in mode.workers /\ ThreadOK(wk[w])
  BY DEF IInv, WorkersInv
<1>2. wk[w].tool \in Tools /\ quorum[wk[w].tool].status \in {"GRANTED", "CONSUMED"}
  BY <1>1 DEF ThreadOK
<1>3. case # None
  BY <1>2 DEF IInv, QuorumInv
<1> QED BY <1>1, <1>2, <1>3 DEF ThreadOK, IInv, LedgerInv

(* The thread goes to the step pc, or ends. *)
LEMMA Arrives ==
  ASSUME NEW w \in Workers, Shape(wk, Workers), NEW r, r = wk[w], Shape(r, ThreadFields),
         NEW pc, At(w, pc)
  PROVE  /\ wk' = [wk EXCEPT ![w] = [r EXCEPT !.pc = pc]]
         /\ Shape([r EXCEPT !.pc = pc], ThreadFields)
         /\ [r EXCEPT !.pc = pc].pc = pc /\ [r EXCEPT !.pc = pc].tool = r.tool
BY DEF At, Shape, ThreadFields

(* What a thread has when it comes to the step pc and the stores stay. *)
Reaches(r, pc) ==
  \/ pc \in {"begin", "blocked"}
  \/ pc = "check" /\ r.pc = "begin" /\ quorum[r.tool].status # "CONSUMED"
  \/ pc = "reserve" /\ r.pc = "check" /\ (r.tool = Release => Restart \in effects)
  \/ pc = "post" /\ r.pc \in {"check", "reserve"} /\ store[r.tool] # NoBinding
  \/ pc = "replay" /\ r.pc = "consume" /\ quorum[r.tool].status = "CONSUMED"
  \/ pc \in {"effectCompleted", "executed"} /\ r.pc \in Consuming
  \/ /\ pc \in {"refresh", "verified"} /\ r.pc \in Consuming
     /\ <<"executed", r.tool>> \in DOMAIN ledger'

(* A thread that moves on while the stores stay has what the next step     *)
(* presupposes, once the clauses its step adds are met.                    *)
LEMMA Advances ==
  ASSUME NEW r, ThreadOK(r), Same, NEW x, Shape(x, ThreadFields), x.tool = r.tool,
         faults \in Nat,
         Reaches(r, x.pc)
  PROVE  ThreadOK(x)'
<1>1. Unraced' => Unraced
  BY UnracedBefore DEF Same
<1>2. x.pc \in {"begin", "check", "reserve", "blocked", "post", "replay", "effectCompleted",
                "executed", "refresh", "verified"}
  BY DEF Reaches
<1>3. x.pc \in Unposted \union Unconsumed \union Consuming
  BY <1>2 DEF Unposted, Unconsumed, Consuming
<1>4. x.tool \in Tools /\ quorum[x.tool].status \in {"GRANTED", "CONSUMED"}
  BY DEF ThreadOK
<1>5. x.pc = "reserve" /\ x.tool = Release => Restart \in effects
  BY DEF Reaches
<1>6. x.pc \in Unconsumed \union Consuming => store[x.tool] # NoBinding
  BY DEF ThreadOK, Reaches, Unconsumed, Consuming
<1>7. x.pc \in {"complete", "consume"} \union Consuming => x.tool \in effects
  BY DEF ThreadOK, Reaches, Consuming
<1>8. x.pc \in {"consume"} \union Consuming => store[x.tool].attempt = "COMPLETED"
  BY DEF ThreadOK, Reaches, Consuming
<1>9. x.pc \in Consuming => quorum[x.tool].status = "CONSUMED"
  BY DEF ThreadOK, Reaches, Consuming
<1>10. x.pc \in {"check", "reserve"} \union Unconsumed \union Consuming =>
         (Unraced' /\ quorum[x.tool].status = "CONSUMED" => saved[x.tool].status = "CONSUMED")
  BY <1>1 DEF ThreadOK, Reaches, Unconsumed, Consuming
<1>11. x.pc \in {"refresh", "verified"} => <<"executed", x.tool>> \in DOMAIN ledger'
  BY DEF Reaches
<1> QED BY <1>3, <1>4, <1>5, <1>6, <1>7, <1>8, <1>9, <1>10, <1>11 DEF ThreadOK, Same, Has

LEMMA AcceptSafe == ASSUME IInv, NEW w \in Workers, NEW t \in Tools, Accept(w, t) PROVE IInv'
<1> DEFINE key == <<"execStarted", t>>
           x == [pc |-> "begin", tool |-> t, before |-> {}, refresh |-> None]
<1>1. /\ up = "up" /\ w \in mode.workers /\ quorum[t].status \in {"GRANTED", "CONSUMED"}
      /\ UNCHANGED <<disk, up, memory, harness, cmd, world>>
  BY DEF Accept
<1>2. \/ Appended(key) /\ wk' = [wk EXCEPT ![w] = x]
      \/ Dropped /\ wk' = wk
  BY Appending, Dropping DEF Accept, Emit
<1>3. key[1] = "execStarted" /\ Writes(key)
  BY <1>2 DEF Writes
<1> HIDE DEF key
<1>4. Same
  BY <1>1, <1>3, WritesGrow DEF Same, disk, memory, world
<1>5. LedgerInv'
  BY <1>3, <1>4, SameLedger
<1>6. ThreadOK(x)'
  <2>1. Shape(x, ThreadFields) /\ x.tool = t /\ x.pc = "begin"
    BY DEF Shape, ThreadFields
  <2> HIDE DEF x
  <2> QED BY <1>1, <1>4, <2>1 DEF ThreadOK, Same, Unposted, Unconsumed, Consuming
<1>7. CASE wk' = wk
  <2>1. wk' = [wk EXCEPT ![w] = wk[w]]
    BY <1>7 DEF IInv, WorkersInv, Shape
  <2>2. PICK r : r = wk[w]
    OBVIOUS
  <2>3. r # Free => up = "up" /\ w \in mode.workers /\ ThreadOK(r)'
    BY <2>2, Acting, <1>4, SameGrows, ThreadKept
  <2>4. wk' = [wk EXCEPT ![w] = r]
    BY <2>1, <2>2
  <2> QED BY <1>4, <1>5, <2>3, <2>4, ThreadStep
<1>8. CASE wk' = [wk EXCEPT ![w] = x]
  <2> HIDE DEF x
  <2> QED BY <1>1, <1>4, <1>5, <1>6, <1>8, ThreadStep
<1> QED BY <1>2, <1>7, <1>8

(* A step of the thread w, which was r, that leaves the stores. *)
LEMMA ThreadBecomes ==
  ASSUME IInv, Same, LedgerInv', NEW w \in Workers, wk[w] # Free, NEW r, r = wk[w],
         NEW x, wk' = [wk EXCEPT ![w] = x], Shape(x, ThreadFields), x.tool = r.tool,
         Reaches(r, x.pc)
  PROVE  IInv'
<1>1. up = "up" /\ w \in mode.workers /\ ThreadOK(r) /\ faults \in Nat
  BY Acting
<1>2. ThreadOK(x)'
  BY <1>1, Advances
<1> QED BY <1>1, <1>2, ThreadStep

LEMMA ThreadGoes ==
  ASSUME IInv, Same, LedgerInv', NEW w \in Workers, wk[w] # Free, NEW r, r = wk[w],
         Die(w) \/ \E pc : At(w, pc) /\ Reaches(r, pc)
  PROVE  IInv'
<1>1. up = "up" /\ w \in mode.workers /\ Shape(wk, Workers) /\ Shape(r, ThreadFields)
  BY Acting DEF IInv, WorkersInv
<1>2. CASE Die(w)
  BY <1>2, ThreadStep DEF Die
<1>3. ASSUME NEW pc, At(w, pc), Reaches(r, pc)
      PROVE  IInv'
  <2>1. PICK x : x = [r EXCEPT !.pc = pc]
    OBVIOUS
  <2>2. /\ wk' = [wk EXCEPT ![w] = x] /\ Shape(x, ThreadFields)
        /\ x.pc = pc /\ x.tool = r.tool
    BY <1>1, <1>3, <2>1, Arrives
  <2>3. Reaches(r, x.pc)
    BY <1>3, <2>2
  <2> QED BY <2>2, <2>3, ThreadBecomes
<1> QED BY <1>2, <1>3

LEMMA BeginSafe == ASSUME IInv, NEW w \in Workers, Begin(w) PROVE IInv'
<1> DEFINE key == <<"effectStarted", wk[w].tool>>
<1>1. PICK r : r = wk[w]
  OBVIOUS
<1> DEFINE x == [r EXCEPT !.pc = "check", !.before = effects]
<1>2. /\ r # Free /\ r.pc = "begin" /\ UNCHANGED <<disk, up, memory, harness, cmd, world>>
  BY <1>1 DEF Begin
<1>3. Shape(wk, Workers) /\ Shape(r, ThreadFields)
  BY <1>1, <1>2, Acting DEF IInv, WorkersInv
<1>4. wk' = [wk EXCEPT ![w].pc = "check", ![w].before = effects] => wk' = [wk EXCEPT ![w] = x]
  BY <1>1, <1>3 DEF Shape
<1>5. \/ Die(w) /\ (UNCHANGED <<ledger, faults>> \/ Dropped)
      \/ /\ quorum[r.tool].status # "CONSUMED" /\ wk' = [wk EXCEPT ![w] = x]
         /\ Appended(key) \/ UNCHANGED <<ledger, faults>>
  <2> HIDE DEF x
  <2> QED BY <1>1, <1>4, Appending, Dropping DEF Begin, Emit
<1>6. key[1] = "effectStarted" /\ (Writes(key) \/ UNCHANGED <<ledger, faults>>)
  BY <1>5 DEF Writes
<1> HIDE DEF key
<1>7. Same
  BY <1>2, <1>6, WritesGrow, NothingWritten DEF Same, disk, memory, world
<1>8. LedgerInv'
  BY <1>6, <1>7, SameLedger
<1>9. CASE Die(w)
  BY <1>1, <1>2, <1>7, <1>8, <1>9, ThreadGoes
<1>10. CASE quorum[r.tool].status # "CONSUMED" /\ wk' = [wk EXCEPT ![w] = x]
  <2>1. Shape(x, ThreadFields) /\ x.tool = r.tool /\ x.pc = "check"
    BY <1>3 DEF Shape, ThreadFields
  <2> HIDE DEF x
  <2>2. Reaches(r, x.pc)
    BY <1>2, <1>10, <2>1 DEF Reaches
  <2> QED BY <1>1, <1>2, <1>7, <1>8, <1>10, <2>1, <2>2, ThreadBecomes
<1> QED BY <1>5, <1>9, <1>10

(* A thread's step that writes nothing at all. *)
LEMMA StillSame ==
  ASSUME IInv, UNCHANGED <<ledger, disk, up, memory, harness, cmd, world, faults>>
  PROVE  Same /\ LedgerInv'
<1>1. Same
  BY NothingWritten DEF Same, disk, memory, world
<1> QED BY <1>1, SameLedger

LEMMA CheckSafe == ASSUME IInv, NEW w \in Workers, Check(w) PROVE IInv'
<1>1. PICK r : r = wk[w]
  OBVIOUS
<1>2. /\ r # Free /\ r.pc = "check"
      /\ UNCHANGED <<ledger, disk, up, memory, harness, cmd, world, faults>>
  BY <1>1 DEF Check
<1>3. Same /\ LedgerInv'
  BY <1>2, StillSame
<1>4. \/ At(w, "blocked")
      \/ At(w, "reserve") /\ case.status = ReservableFrom(r.tool)
      \/ At(w, "post") /\ store[r.tool] # NoBinding
  BY <1>1 DEF Check, Binds
<1>5. r.tool = Release /\ case.status = ReservableFrom(r.tool) => Restart \in effects
  <2>1. case # None
    BY <1>1, <1>2, Acting
  <2> QED BY <2>1 DEF IInv, StoreInv, ReservableFrom, Release, Restart
<1>6. \E pc : At(w, pc) /\ Reaches(r, pc)
  BY <1>2, <1>4, <1>5 DEF Reaches
<1> QED BY <1>1, <1>2, <1>3, <1>6, ThreadGoes

LEMMA ReplayStepSafe == ASSUME IInv, NEW w \in Workers, Replay(w) PROVE IInv'
<1>1. PICK r : r = wk[w]
  OBVIOUS
<1>2. /\ r # Free /\ r.pc = "replay"
      /\ UNCHANGED <<ledger, disk, up, memory, harness, cmd, world, faults>>
      /\ At(w, "effectCompleted") \/ At(w, "blocked")
  BY <1>1 DEF Replay
<1>3. Same /\ LedgerInv'
  BY <1>2, StillSame
<1>4. \E pc : At(w, pc) /\ Reaches(r, pc)
  BY <1>2 DEF Reaches, Consuming
<1> QED BY <1>1, <1>2, <1>3, <1>4, ThreadGoes


(* An event of the thread w, other than the completed execution, that ends *)
(* it or sends it on.                                                      *)
LEMMA ThreadReports ==
  ASSUME IInv, NEW w \in Workers, wk[w] # Free, NEW r, r = wk[w], NEW key,
         Writes(key) \/ UNCHANGED <<ledger, faults>>,
         key[1] \notin {"executed", "detected"},
         UNCHANGED <<disk, up, memory, harness, cmd, world>>,
         Die(w) \/ \E pc : At(w, pc) /\ Reaches(r, pc)
  PROVE  IInv'
<1>1. Same
  BY WritesGrow, NothingWritten DEF Same, disk, memory, world
<1>2. LedgerInv'
  BY <1>1, SameLedger
<1> QED BY <1>1, <1>2, ThreadGoes

LEMMA BlockedSafe == ASSUME IInv, NEW w \in Workers, Blocked(w) PROVE IInv'
<1> DEFINE key == <<"execBlocked", wk[w].tool>>
<1>1. PICK r : r = wk[w]
  OBVIOUS
<1>2. /\ Appended(key) \/ Dropped
      /\ wk[w] # Free /\ Die(w) /\ UNCHANGED <<disk, up, memory, harness, cmd, world>>
  BY Appending, Dropping DEF Blocked, Emit
<1>3. key[1] = "execBlocked" /\ Writes(key)
  BY <1>2 DEF Writes
<1> HIDE DEF key
<1>4. key[1] \notin {"executed", "detected"}
  BY <1>3
<1> QED BY <1>1, <1>2, <1>3, <1>4, ThreadReports

LEMMA VerifiedSafe == ASSUME IInv, NEW w \in Workers, Verified(w) PROVE IInv'
<1> DEFINE key == <<"verified", wk[w].tool>>
<1>1. PICK r : r = wk[w]
  OBVIOUS
<1>2. /\ Appended(key) \/ Dropped
      /\ wk[w] # Free /\ Die(w) /\ UNCHANGED <<disk, up, memory, harness, cmd, world>>
  BY Appending, Dropping DEF Verified, Emit
<1>3. key[1] = "verified" /\ Writes(key)
  BY <1>2 DEF Writes
<1> HIDE DEF key
<1>4. key[1] \notin {"executed", "detected"}
  BY <1>3
<1> QED BY <1>1, <1>2, <1>3, <1>4, ThreadReports

LEMMA WorkerRefreshSafe == ASSUME IInv, NEW w \in Workers, WorkerRefresh(w) PROVE IInv'
<1>1. PICK r : r = wk[w]
  OBVIOUS
<1>2. /\ r # Free /\ r.pc = "refresh"
      /\ UNCHANGED <<ledger, injected, effects, case, store, saved, up, memory, harness,
                     cmd, world, faults>>
  BY <1>1 DEF WorkerRefresh
<1>3. Same
  BY <1>2, NothingWritten DEF Same, memory, world
<1>4. LedgerInv'
  BY <1>2, <1>3, SameLedger
<1>5. Has(<<"executed", r.tool>>) /\ Shape(wk, Workers) /\ Shape(r, ThreadFields)
  BY <1>1, <1>2, Acting DEF ThreadOK, IInv, WorkersInv
<1>6. <<"executed", r.tool>> \in DOMAIN ledger'
  BY <1>2, <1>5 DEF Has
<1>7. \/ Die(w) \/ At(w, "verified")
      \/ \E y : wk' = [wk EXCEPT ![w].refresh = y]
  BY <1>1 DEF WorkerRefresh, Insert
<1>8. CASE Die(w)
  BY <1>1, <1>2, <1>3, <1>4, <1>8, ThreadGoes
<1>9. CASE At(w, "verified")
  <2>1. Reaches(r, "verified")
    BY <1>2, <1>6 DEF Reaches, Consuming
  <2> QED BY <1>1, <1>2, <1>3, <1>4, <1>9, <2>1, ThreadGoes
<1>10. ASSUME NEW y, wk' = [wk EXCEPT ![w].refresh = y]
       PROVE  IInv'
  <2>1. PICK x : x = [r EXCEPT !.refresh = y]
    OBVIOUS
  <2>2. /\ wk' = [wk EXCEPT ![w] = x] /\ Shape(x, ThreadFields)
        /\ x.pc = "refresh" /\ x.tool = r.tool
    BY <1>1, <1>2, <1>5, <1>10, <2>1 DEF Shape, ThreadFields
  <2>3. Reaches(r, x.pc)
    BY <1>2, <1>6, <2>2 DEF Reaches, Consuming
  <2> QED BY <1>1, <1>2, <1>3, <1>4, <2>2, <2>3, ThreadBecomes
<1> QED BY <1>7, <1>8, <1>9, <1>10

(* EXECUTION_COMPLETED is the one event that speaks of the stores.  The    *)
(* thread that publishes it has them all.                                  *)
LEMMA ExecutedPublished ==
  ASSUME IInv, NEW w \in Workers, wk[w] # Free, NEW r, r = wk[w], r.pc = "executed",
         Same, Appended(<<"executed", r.tool>>)
  PROVE  LedgerInv'
<1>1. ThreadOK(r) /\ faults \in Nat /\ r.tool \in Tools
  BY Acting
<1>2. r.tool \in effects /\ store[r.tool].attempt = "COMPLETED"
  BY <1>1 DEF ThreadOK, Consuming
<1>3. Unraced => saved[r.tool].status = "CONSUMED"
  BY <1>1 DEF ThreadOK, Consuming
<1>4. Unraced' => Unraced
  BY <1>1, UnracedBefore DEF Same
<1>5. ASSUME NEW t \in Tools, Has(<<"executed", t>>)'
      PROVE  /\ t \in effects' /\ store'[t].attempt = "COMPLETED"
             /\ Unraced' => saved'[t].status = "CONSUMED"
  <2>1. CASE Has(<<"executed", t>>)
    BY <2>1, <1>4 DEF IInv, LedgerInv, Same
  <2>2. CASE ~Has(<<"executed", t>>)
    <3>1. <<"executed", t>> = <<"executed", r.tool>>
      BY <1>5, <2>2 DEF Appended, Has
    <3>2. t = r.tool
      BY <3>1
    <3> QED BY <3>2, <1>2, <1>3, <1>4 DEF Same
  <2> QED BY <2>1, <2>2
<1>6. Detected # <<"executed", r.tool>>
  BY DEF Detected
<1>7. Has(Detected)' => (case # None)'
  BY <1>6 DEF IInv, LedgerInv, Same, Appended, Has
<1>8. run' => Named("evaluation")' # {}
  BY GrowingNames DEF IInv, LedgerInv, Same
<1> QED BY <1>1, <1>5, <1>7, <1>8 DEF LedgerInv, Appended

LEMMA PublishSafe == ASSUME IInv, NEW w \in Workers, Publish(w) PROVE IInv'
<1>1. PICK r : r = wk[w]
  OBVIOUS
<1>2. r # Free /\ UNCHANGED <<disk, up, memory, harness, cmd, world>>
  BY <1>1 DEF Publish
<1>3. Shape(wk, Workers) /\ Shape(r, ThreadFields) /\ wk[w] # Free
  BY <1>1, <1>2, Acting DEF IInv, WorkersInv
<1>4. \/ /\ r.pc = "effectCompleted" /\ (At(w, "executed") \/ Die(w))
         /\ Appended(<<"effectCompleted", r.tool>>) \/ Dropped \/ UNCHANGED <<ledger, faults>>
      \/ r.pc = "executed" /\ Dropped /\ Die(w)
      \/ /\ r.pc = "executed" /\ Appended(<<"executed", r.tool>>)
         /\ wk' = [wk EXCEPT ![w].pc = "refresh", ![w].refresh = NewRefresh]
  BY <1>1, Appending, Dropping DEF Publish, Emit
<1>5. CASE /\ r.pc \in {"effectCompleted", "executed"} /\ (At(w, "executed") \/ Die(w))
           /\ \/ Appended(<<"effectCompleted", r.tool>>) \/ Dropped
              \/ UNCHANGED <<ledger, faults>>
  <2> DEFINE key == <<"effectCompleted", r.tool>>
  <2>1. key[1] \notin {"executed", "detected"}
    OBVIOUS
  <2>2. Writes(key) \/ UNCHANGED <<ledger, faults>>
    BY <1>5 DEF Writes
  <2> HIDE DEF key
  <2>3. Reaches(r, "executed")
    BY <1>5 DEF Reaches, Consuming
  <2>4. Die(w) \/ \E pc : At(w, pc) /\ Reaches(r, pc)
    BY <1>5, <2>3
  <2> QED BY <1>1, <1>2, <1>3, <2>1, <2>2, <2>4, ThreadReports
<1>6. CASE /\ r.pc = "executed" /\ Appended(<<"executed", r.tool>>)
           /\ wk' = [wk EXCEPT ![w].pc = "refresh", ![w].refresh = NewRefresh]
  <2>1. Same
    BY <1>2, <1>6 DEF Same, Appended, disk, memory, world
  <2>2. LedgerInv'
    BY <1>1, <1>3, <1>6, <2>1, ExecutedPublished
  <2>3. PICK y : y = NewRefresh
    OBVIOUS
  <2>4. PICK x : x = [r EXCEPT !.pc = "refresh", !.refresh = y]
    OBVIOUS
  <2>5. /\ wk' = [wk EXCEPT ![w] = x] /\ Shape(x, ThreadFields)
        /\ x.pc = "refresh" /\ x.tool = r.tool
    BY <1>1, <1>3, <1>6, <2>3, <2>4 DEF Shape, ThreadFields
  <2>6. Reaches(r, x.pc)
    BY <1>6, <2>5 DEF Reaches, Consuming, Appended
  <2> QED BY <1>1, <1>3, <2>1, <2>2, <2>5, <2>6, ThreadBecomes
<1> QED BY <1>4, <1>5, <1>6

-----------------------------------------------------------------------------
(* The steps of an execution thread that write a store.                    *)

(* No transaction of the thread touches the quorum or the ledger. *)
Transacts ==
  UNCHANGED <<ledger, quorum, saved, run, harness, cmd, up, mode, faults>>

LEMMA StoreStep ==
  ASSUME IInv, Transacts, Grows, StoreInv', NEW w \in Workers, wk[w] # Free,
         NEW x, wk' = [wk EXCEPT ![w] = x], ThreadOK(x)'
  PROVE  IInv'
<1>1. up = "up" /\ w \in mode.workers /\ case # None /\ case' # None
  BY Acting DEF Grows
<1>2. KeepsIntents /\ Silent
  BY DEF Transacts, KeepsIntents, Keeps, Silent, Has
<1>3. QuorumInv'
  BY <1>1, QuorumKept DEF IInv, Transacts
<1>4. LedgerInv'
  BY <1>1, <1>2, LedgerKept DEF IInv, Transacts
<1>5. HarnessInv'
  BY HarnessKept DEF IInv, Transacts
<1>6. CommandInv'
  BY <1>1, CommandKept DEF IInv, Transacts
<1>7. WorkersInv'
  BY <1>1, <1>2, ThreadMoves DEF IInv, Transacts, LedgerInv
<1> QED BY <1>3, <1>4, <1>5, <1>6, <1>7 DEF IInv

(* A reserved case is still a case, and one on its way. *)
LEMMA ReservedRow ==
  ASSUME case \in CaseRows, NEW t \in Tools
  PROVE  /\ Reserved(case, t) \in CaseRows /\ Reserved(case, t) # None
         /\ Reserved(case, t).status \in {"RECEIPT_EXECUTING", "INVOICE_EXECUTING"}
<1>1. Reserved(case, t) \in CaseRows
  BY DEF Reserved, CaseRows
<1> QED BY <1>1, AbsentAssumption DEF Reserved

LEMMA SettledRow ==
  ASSUME case \in CaseRows, NEW t \in Tools
  PROVE  /\ Settled(case, t) \in CaseRows /\ Settled(case, t) # None
         /\ Settled(case, t).status = "RECEIPT_VERIFIED" => t = Restart
         /\ Settled(case, t).status = "CLOSED" => t = Release
<1>1. Settled(case, t) \in CaseRows
  BY DEF Settled, CaseRows
<1> QED BY <1>1, AbsentAssumption DEF Settled, Tools

LEMMA ReserveSafe == ASSUME IInv, NEW w \in Workers, Reserve(w) PROVE IInv'
<1>1. PICK r : r = wk[w]
  OBVIOUS
<1>2. /\ r # Free /\ r.pc = "reserve" /\ wk[w] # Free
      /\ UNCHANGED <<ledger, injected, effects, evidence, saved, up, memory, harness, cmd,
                     world, faults>>
  BY <1>1 DEF Reserve
<1>3. /\ Shape(wk, Workers) /\ Shape(r, ThreadFields) /\ ThreadOK(r) /\ r.tool \in Tools
      /\ case # None /\ case \in CaseRows
  BY <1>1, <1>2, Acting DEF IInv, WorkersInv, StoreInv
<1>4. \/ UNCHANGED <<store, case>> /\ At(w, "blocked")
      \/ UNCHANGED <<store, case>> /\ At(w, "post") /\ store[r.tool] # NoBinding
      \/ /\ store[r.tool] = NoBinding /\ At(w, "post") /\ case' = Reserved(case, r.tool)
         /\ store' = [store EXCEPT ![r.tool] =
                        [grant |-> quorum[r.tool].grant, attempt |-> "RESERVED"]]
  BY <1>1 DEF Reserve
<1>5. CASE UNCHANGED <<store, case>>
  <2>1. Same
    BY <1>2, <1>5, NothingWritten DEF Same, memory, world
  <2>2. LedgerInv'
    BY <1>2, <2>1, SameLedger
  <2>3. \E pc : At(w, pc) /\ Reaches(r, pc)
    <3>1. Reaches(r, "blocked")
      BY DEF Reaches
    <3>2. store[r.tool] # NoBinding => Reaches(r, "post")
      BY <1>2 DEF Reaches
    <3>3. CASE At(w, "blocked")
      BY <3>1, <3>3
    <3>4. CASE At(w, "post") /\ store[r.tool] # NoBinding
      BY <3>2, <3>4
    <3>5. case' # Reserved(case, r.tool)
      <4>1. case'.version = case.version /\ case.version \in Nat
        BY <1>3, <1>5 DEF CaseRows
      <4>2. Reserved(case, r.tool).version # case.version
        BY <4>1 DEF Reserved
      <4> QED BY <4>1, <4>2
    <3> QED BY <1>4, <3>3, <3>4, <3>5
  <2> QED BY <1>1, <1>2, <2>1, <2>2, <2>3, ThreadGoes
<1>6. CASE /\ store[r.tool] = NoBinding /\ At(w, "post") /\ case' = Reserved(case, r.tool)
           /\ store' = [store EXCEPT ![r.tool] =
                          [grant |-> quorum[r.tool].grant, attempt |-> "RESERVED"]]
  <2>1. PICK b : b = [grant |-> quorum[r.tool].grant, attempt |-> "RESERVED"]
    OBVIOUS
  <2>2. b.attempt = "RESERVED" /\ Shape(b, AttemptFields) /\ b # NoBinding
    BY <2>1 DEF Shape, AttemptFields, NoBinding
  <2>3. NoBinding.attempt = "NONE"
    BY DEF NoBinding
  <2>4. /\ Shape(store', Tools) /\ store'[r.tool] = b
        /\ \A t \in Tools : t # r.tool => store'[t] = store[t]
    BY <1>3, <1>6, <2>1 DEF Shape, IInv, StoreInv
  <2>5. /\ case' \in CaseRows /\ case' # None
        /\ case'.status \in {"RECEIPT_EXECUTING", "INVOICE_EXECUTING"}
    BY <1>3, <1>6, ReservedRow
  <2>6. Transacts
    BY <1>2 DEF Transacts, memory, world
  <2>7. Grows
    <3>1. \A t \in Tools : /\ store[t] # NoBinding => store'[t] # NoBinding
                           /\ store[t].attempt = "COMPLETED" => store'[t].attempt = "COMPLETED"
      BY <1>6, <2>2, <2>3, <2>4
    <3> QED BY <1>2, <2>5, <3>1 DEF Grows, world
  <2>8. StoreInv'
    <3>1. \A t \in Tools :
            /\ Shape(store'[t], AttemptFields)
            /\ store'[t] # NoBinding => store'[t].attempt \in {"RESERVED", "COMPLETED"}
            /\ store'[t].attempt = "COMPLETED" => t \in effects'
      BY <1>2, <2>2, <2>4 DEF IInv, StoreInv
    <3>2. store'[Release] # NoBinding => Restart \in effects'
      <4>1. CASE r.tool = Release
        BY <1>2, <1>3, <4>1 DEF ThreadOK
      <4>2. CASE r.tool # Release
        <5>1. store'[Release] = store[Release]
          BY <2>4, <4>2 DEF Tools
        <5> QED BY <1>2, <5>1 DEF IInv, StoreInv
      <4> QED BY <4>1, <4>2
    <3> QED BY <1>2, <2>4, <2>5, <3>1, <3>2 DEF IInv, StoreInv
  <2>9. PICK x : x = [r EXCEPT !.pc = "post"]
    OBVIOUS
  <2>10. /\ wk' = [wk EXCEPT ![w] = x] /\ Shape(x, ThreadFields)
         /\ x.pc = "post" /\ x.tool = r.tool
    BY <1>1, <1>3, <1>6, <2>9, Arrives
  <2>11. ThreadOK(x)'
    <3>1. /\ quorum'[x.tool].status \in {"GRANTED", "CONSUMED"} /\ store'[x.tool] # NoBinding
          /\ (Unraced' /\ quorum'[x.tool].status = "CONSUMED" => saved'[x.tool].status = "CONSUMED")
      BY <1>2, <1>3, <2>2, <2>4, <2>6, <2>10 DEF ThreadOK, Transacts, Unraced
    <3> QED BY <1>3, <2>10, <3>1 DEF ThreadOK, Unposted, Unconsumed, Consuming
  <2> QED BY <1>2, <2>6, <2>7, <2>8, <2>10, <2>11, StoreStep
<1> QED BY <1>4, <1>5, <1>6

LEMMA PostSafe == ASSUME IInv, NEW w \in Workers, Post(w) PROVE IInv'
<1>1. PICK r : r = wk[w]
  OBVIOUS
<1>2. /\ r # Free /\ r.pc = "post" /\ wk[w] # Free /\ At(w, "complete")
      /\ effects' = IF store[r.tool].attempt = "RESERVED" THEN effects \union {r.tool} ELSE effects
      /\ UNCHANGED <<ledger, injected, case, evidence, store, saved, up, memory, harness,
                     cmd, world, faults>>
  BY <1>1 DEF Post
<1>3. Shape(wk, Workers) /\ Shape(r, ThreadFields) /\ ThreadOK(r) /\ r.tool \in Tools
  BY <1>1, <1>2, Acting DEF IInv, WorkersInv
<1>4. store[r.tool] # NoBinding
  BY <1>2, <1>3 DEF ThreadOK, Unconsumed
<1>5. effects \subseteq effects' /\ effects' \in SUBSET Tools /\ r.tool \in effects'
  BY <1>2, <1>3, <1>4 DEF IInv, StoreInv
<1>6. Release \in effects' => Restart \in effects'
  BY <1>2, <1>4, <1>5 DEF IInv, StoreInv
<1>7. Transacts /\ Grows
  BY <1>2, <1>5 DEF Transacts, Grows, memory, world
<1>8. StoreInv'
  <2>1. case # None /\ case.status = "CLOSED" => effects' = Tools
    BY <1>5 DEF IInv, StoreInv
  <2> QED BY <1>2, <1>5, <1>6, <2>1 DEF IInv, StoreInv
<1>9. PICK x : x = [r EXCEPT !.pc = "complete"]
  OBVIOUS
<1>10. /\ wk' = [wk EXCEPT ![w] = x] /\ Shape(x, ThreadFields)
       /\ x.pc = "complete" /\ x.tool = r.tool
  BY <1>1, <1>2, <1>3, <1>9, Arrives
<1>11. ThreadOK(x)'
  <2>1. /\ quorum'[x.tool].status \in {"GRANTED", "CONSUMED"} /\ store'[x.tool] # NoBinding
        /\ (Unraced' /\ quorum'[x.tool].status = "CONSUMED" => saved'[x.tool].status = "CONSUMED")
    BY <1>2, <1>3, <1>4, <1>7, <1>10 DEF ThreadOK, Transacts, Unraced, Unconsumed
  <2> QED BY <1>3, <1>5, <1>10, <2>1 DEF ThreadOK, Unposted, Unconsumed, Consuming
<1> QED BY <1>2, <1>7, <1>8, <1>10, <1>11, StoreStep

LEMMA CompleteSafe == ASSUME IInv, NEW w \in Workers, Complete(w) PROVE IInv'
<1>1. PICK r : r = wk[w]
  OBVIOUS
<1>2. /\ r # Free /\ r.pc = "complete" /\ wk[w] # Free /\ At(w, "consume")
      /\ UNCHANGED <<ledger, injected, effects, evidence, saved, up, memory, harness, cmd,
                     world, faults>>
  BY <1>1 DEF Complete
<1>3. /\ Shape(wk, Workers) /\ Shape(r, ThreadFields) /\ ThreadOK(r) /\ r.tool \in Tools
      /\ case # None /\ case \in CaseRows
  BY <1>1, <1>2, Acting DEF IInv, WorkersInv, StoreInv
<1>4. store[r.tool] # NoBinding /\ r.tool \in effects
  BY <1>2, <1>3 DEF ThreadOK, Unconsumed
<1>5. Transacts
  BY <1>2 DEF Transacts, memory, world
<1>6. /\ Grows /\ StoreInv' /\ store'[r.tool].attempt = "COMPLETED"
      /\ store'[r.tool] # NoBinding
  <2>1. CASE store[r.tool].attempt = "RESERVED"
    <3>1. PICK b : b = [store[r.tool] EXCEPT !.attempt = "COMPLETED"]
      OBVIOUS
    <3>2. b.attempt = "COMPLETED" /\ Shape(b, AttemptFields) /\ b # NoBinding
      <4>1. Shape(store[r.tool], AttemptFields)
        BY <1>3 DEF IInv, StoreInv
      <4> QED BY <3>1, <4>1 DEF Shape, AttemptFields, NoBinding
    <3>3. store' = [store EXCEPT ![r.tool] = b] /\ case' = Settled(case, r.tool)
      BY <1>1, <2>1, <3>1 DEF Complete
    <3>4. /\ Shape(store', Tools) /\ store'[r.tool] = b
          /\ \A t \in Tools : t # r.tool => store'[t] = store[t]
      BY <1>3, <3>3 DEF Shape, IInv, StoreInv
    <3>5. /\ case' \in CaseRows /\ case' # None
          /\ case'.status = "RECEIPT_VERIFIED" => r.tool = Restart
          /\ case'.status = "CLOSED" => r.tool = Release
      BY <1>3, <3>3, SettledRow
    <3>6. Grows
      <4>1. \A t \in Tools :
              /\ store[t] # NoBinding => store'[t] # NoBinding
              /\ store[t].attempt = "COMPLETED" => store'[t].attempt = "COMPLETED"
        BY <3>2, <3>4
      <4> QED BY <1>2, <3>5, <4>1 DEF Grows, world
    <3>7. case'.status = "CLOSED" => effects' = Tools
      BY <1>2, <1>4, <3>5 DEF IInv, StoreInv, Tools
    <3>8. \A t \in Tools :
            /\ Shape(store'[t], AttemptFields)
            /\ store'[t] # NoBinding => store'[t].attempt \in {"RESERVED", "COMPLETED"}
            /\ store'[t].attempt = "COMPLETED" => t \in effects'
      BY <1>2, <1>4, <3>2, <3>4 DEF IInv, StoreInv
    <3>9. store'[Release] # NoBinding => Restart \in effects'
      <4>1. store'[Release] # NoBinding => store[Release] # NoBinding
        BY <1>4, <3>4 DEF Tools
      <4> QED BY <1>2, <4>1 DEF IInv, StoreInv
    <3>10. StoreInv'
      BY <1>2, <1>4, <3>4, <3>5, <3>7, <3>8, <3>9 DEF IInv, StoreInv
    <3> QED BY <3>2, <3>4, <3>6, <3>10
  <2>2. CASE store[r.tool].attempt # "RESERVED"
    <3>1. UNCHANGED <<store, case>>
      BY <1>1, <2>2 DEF Complete
    <3>2. store[r.tool].attempt = "COMPLETED"
      BY <1>3, <1>4, <2>2 DEF IInv, StoreInv
    <3>3. StoreInv'
      BY <1>2, <3>1, StoreKept DEF IInv
    <3>4. Grows
      BY <1>2, <3>1 DEF Grows, world
    <3> QED BY <1>4, <3>1, <3>2, <3>3, <3>4
  <2> QED BY <2>1, <2>2
<1>7. PICK x : x = [r EXCEPT !.pc = "consume"]
  OBVIOUS
<1>8. /\ wk' = [wk EXCEPT ![w] = x] /\ Shape(x, ThreadFields)
      /\ x.pc = "consume" /\ x.tool = r.tool
  BY <1>1, <1>2, <1>3, <1>7, Arrives
<1>9. ThreadOK(x)'
  <2>1. /\ quorum'[x.tool].status \in {"GRANTED", "CONSUMED"} /\ store'[x.tool] # NoBinding
        /\ store'[x.tool].attempt = "COMPLETED" /\ x.tool \in effects'
        /\ (Unraced' /\ quorum'[x.tool].status = "CONSUMED" => saved'[x.tool].status = "CONSUMED")
    BY <1>2, <1>3, <1>4, <1>5, <1>6, <1>8 DEF ThreadOK, Transacts, Unraced, Unconsumed
  <2> QED BY <1>3, <1>8, <2>1 DEF ThreadOK, Unposted, Unconsumed, Consuming
<1> QED BY <1>2, <1>5, <1>6, <1>8, <1>9, StoreStep

(* What mark_consumed leaves of a thread that executes the same action: it *)
(* finds the consumption in memory, and on disk too unless a write failed. *)
LEMMA ConsumptionSeen ==
  ASSUME NEW y, ThreadOK(y), NEW t \in Tools, y.tool = t => y.pc \notin Consuming,
         DOMAIN ledger \subseteq DOMAIN ledger', UNCHANGED <<effects, store>>,
         Unraced' => Unraced,
         quorum'[t].status = "CONSUMED",
         y.tool = t /\ Unraced' => saved'[t].status = "CONSUMED",
         \A u \in Tools : u # t => quorum'[u] = quorum[u],
         \A u \in Tools : saved[u].status = "CONSUMED" => saved'[u].status = "CONSUMED"
  PROVE  ThreadOK(y)'
<1>1. y.pc \in {"refresh", "verified"} => Has(<<"executed", y.tool>>)'
  BY DEF ThreadOK, Has
<1>2. quorum'[y.tool].status \in {"GRANTED", "CONSUMED"}
  BY DEF ThreadOK
<1>3. y.pc \in Consuming => quorum'[y.tool].status = "CONSUMED"
  BY DEF ThreadOK
<1>4. y.pc \in {"check", "reserve"} \union Unconsumed \union Consuming =>
        (Unraced' /\ quorum'[y.tool].status = "CONSUMED" => saved'[y.tool].status = "CONSUMED")
  BY DEF ThreadOK
<1> QED BY <1>1, <1>2, <1>3, <1>4 DEF ThreadOK

LEMMA ConsumeSafe == ASSUME IInv, NEW w \in Workers, Consume(w) PROVE IInv'
<1>1. PICK r : r = wk[w]
  OBVIOUS
<1>2. /\ r # Free /\ r.pc = "consume" /\ wk[w] # Free
      /\ UNCHANGED <<ledger, injected, effects, case, evidence, store, up, results, run,
                     harness, cmd, world>>
  BY <1>1 DEF Consume
<1>3. /\ Shape(wk, Workers) /\ Shape(r, ThreadFields) /\ ThreadOK(r) /\ r.tool \in Tools
      /\ case # None /\ faults \in Nat /\ up = "up" /\ w \in mode.workers
  BY <1>1, <1>2, Acting DEF IInv, WorkersInv
<1>4. CASE quorum[r.tool].status = "CONSUMED"
  <2>1. At(w, "replay") /\ UNCHANGED <<quorum, saved, faults>>
    BY <1>1, <1>4 DEF Consume
  <2>2. Same
    BY <1>2, <2>1, NothingWritten DEF Same, world
  <2>3. LedgerInv'
    BY <1>2, <2>1, <2>2, SameLedger
  <2>4. Reaches(r, "replay")
    BY <1>2, <1>4 DEF Reaches
  <2> QED BY <1>1, <1>2, <2>1, <2>2, <2>3, <2>4, ThreadGoes
<1>5. CASE quorum[r.tool].status # "CONSUMED"
  <2>1. PICK next : next = Consumed(quorum, r.tool)
    OBVIOUS
  <2>2. /\ IntentsOK(next) /\ SameIntents(quorum, next) /\ next[r.tool].status = "CONSUMED"
        /\ \A u \in Tools : u # r.tool => next[u] = quorum[u]
    <3>1. PICK q, t : q = quorum /\ t = r.tool
      OBVIOUS
    <3>2. IntentsOK(q) /\ t \in Tools /\ q[t].status \in {"GRANTED", "CONSUMED"}
      BY <1>3, <3>1 DEF IInv, QuorumInv, ThreadOK
    <3>3. /\ IntentsOK(Consumed(q, t)) /\ SameIntents(q, Consumed(q, t))
          /\ Consumed(q, t)[t].status = "CONSUMED"
          /\ \A u \in Tools : u # t => Consumed(q, t)[u] = q[u]
      BY <3>2, ConsumedKeeps
    <3> QED BY <2>1, <3>1, <3>3
  <2>3. /\ quorum' = next
        /\ \/ saved' = next /\ faults' = faults /\ At(w, "replay")
           \/ saved' = saved /\ faults' = faults + 1 /\ At(w, "blocked")
    BY <1>1, <1>5, <2>1 DEF Consume, Persist
  <2>4. Unraced' => Unraced
    BY <1>2, <1>3, <2>3, UnracedBefore DEF world
  <2>5. \A u \in Tools : saved[u].status = "CONSUMED" => saved'[u].status = "CONSUMED"
    BY <1>3, <2>2, <2>3 DEF IInv, QuorumInv
  <2>6. QuorumInv'
    <3>1. IntentsOK(quorum') /\ IntentsOK(saved')
      BY <2>2, <2>3 DEF IInv, QuorumInv
    <3>2. \A u \in Tools : saved'[u].status = "CONSUMED" => quorum'[u].status = "CONSUMED"
      BY <1>3, <2>2, <2>3 DEF IInv, QuorumInv
    <3> QED BY <1>2, <1>3, <3>1, <3>2 DEF QuorumInv, IntentsOK
  <2>7. StoreInv'
    BY <1>2, StoreKept DEF IInv
  <2>8. LedgerInv'
    <3>1. faults' \in Nat
      BY <1>3, <2>3
    <3>2. /\ Has(Detected)' = Has(Detected) /\ Named("evaluation")' = Named("evaluation")
          /\ \A t \in Tools : Has(<<"executed", t>>)' = Has(<<"executed", t>>)
      BY <1>2 DEF Has, Named, Detected
    <3> QED BY <1>2, <2>4, <2>5, <3>1, <3>2 DEF IInv, LedgerInv
  <2>9. HarnessInv'
    BY <1>2, HarnessKept DEF IInv
  <2>10. CommandInv'
    BY <1>2, <1>3, CommandKept DEF IInv
  <2>11. WorkersInv'
    <3>1. ASSUME NEW v \in Workers, v # w, wk[v] # Free
          PROVE  v \in mode.workers /\ ThreadOK(wk[v])'
      <4>1. PICK y : y = wk'[v]
        OBVIOUS
      <4>2. y = wk[v]
        BY <1>3, <2>3, <3>1, <4>1 DEF At, Shape
      <4>3. v \in mode.workers /\ ThreadOK(y)
        BY <3>1, <4>2 DEF IInv, WorkersInv
      <4>4. y.tool = r.tool => y.pc \notin Consuming
        BY <1>5, <4>3 DEF ThreadOK
      <4>5. Unraced' => saved'[r.tool].status = "CONSUMED"
        <5>1. CASE saved' = next
          BY <2>2, <5>1
        <5>2. CASE faults' = faults + 1
          <6>1. faults' # 0
            BY <1>3, <5>2
          <6>2. ~Unraced'
            BY <1>2, <1>3, <3>1, <4>3, <6>1 DEF Unraced, world
          <6> QED BY <6>2
        <5> QED BY <2>3, <5>1, <5>2
      <4>6. /\ DOMAIN ledger \subseteq DOMAIN ledger' /\ quorum'[r.tool].status = "CONSUMED"
            /\ \A u \in Tools : u # r.tool => quorum'[u] = quorum[u]
        BY <1>2, <2>2, <2>3
      <4>7. ThreadOK(y)'
        BY <1>2, <1>3, <2>4, <2>5, <4>3, <4>4, <4>5, <4>6, ConsumptionSeen
      <4> QED BY <4>1, <4>3, <4>7 DEF ThreadOK
    <3>2. ASSUME NEW pc, At(w, pc), (pc = "replay" /\ saved' = next) \/ pc = "blocked"
          PROVE  ThreadOK(wk[w])'
      <4>1. PICK z : z = [r EXCEPT !.pc = pc]
        OBVIOUS
      <4>2. wk' = [wk EXCEPT ![w] = z] /\ Shape(z, ThreadFields) /\ z.pc = pc /\ z.tool = r.tool
        BY <1>1, <1>3, <3>2, <4>1, Arrives
      <4>3. /\ store'[z.tool] # NoBinding /\ z.tool \in effects'
            /\ store'[z.tool].attempt = "COMPLETED" /\ quorum'[z.tool].status = "CONSUMED"
            /\ z.pc = "replay" => saved'[z.tool].status = "CONSUMED"
        BY <1>2, <1>3, <2>2, <2>3, <3>2, <4>2 DEF ThreadOK, Unconsumed
      <4>4. ThreadOK(z)'
        BY <1>3, <3>2, <4>2, <4>3 DEF ThreadOK, Unposted, Unconsumed, Consuming
      <4>5. z = wk'[w]
        BY <1>3, <4>2 DEF Shape
      <4> QED BY <4>4, <4>5 DEF ThreadOK
    <3>3. ThreadOK(wk[w])'
      BY <2>3, <3>2
    <3>4. /\ Shape(wk', Workers) /\ mode' = mode /\ up' = up
          /\ \A v \in Workers : v # w => wk'[v] = wk[v]
      BY <1>2, <1>3, <2>3 DEF At, Shape, world
    <3> QED BY <1>3, <3>1, <3>3, <3>4 DEF WorkersInv
  <2> QED BY <2>6, <2>7, <2>8, <2>9, <2>10, <2>11 DEF IInv
<1> QED BY <1>4, <1>5

-----------------------------------------------------------------------------
(* The environment.                                                        *)

LEMMA ExpireSafe == ASSUME IInv, NEW t \in Tools, Expire(t) PROVE IInv'
<1>1. UNCHANGED <<ledger, disk, up, memory, harness, cmd, wk, mode, faults>>
  BY DEF Expire
<1>2. Quiet
  BY <1>1, NothingWritten DEF Quiet, disk, memory
<1>3. CommandInv'
  BY <1>1, CommandKept DEF IInv, disk
<1>4. Detected \in DOMAIN ledger' => Has(Detected)
  BY <1>1 DEF Has
<1> QED BY <1>1, <1>2, <1>3, <1>4, QuietCommand DEF memory

LEMMA CrashSafe == ASSUME IInv, Crash PROVE IInv'
<1>1. /\ up' = "down" /\ harness' = "idle" /\ cmd' = Free /\ wk' = [w \in Workers |-> Free]
      /\ run' = FALSE /\ quorum' = [t \in Tools |-> NoIntent]
      /\ UNCHANGED <<ledger, effects, case, store, saved, mode, faults>>
  BY DEF Crash, disk
<1>2. QuorumInv'
  <2>1. IntentOK(NoIntent) /\ NoIntent.status = "NONE"
    BY DEF NoIntent, IntentOK, Shape, IntentFields
  <2>2. Shape(quorum', Tools) /\ \A t \in Tools : quorum'[t] = NoIntent
    BY <1>1 DEF Shape
  <2>3. IntentsOK(quorum')
    BY <2>1, <2>2 DEF IntentsOK
  <2>4. IntentsOK(saved')
    BY <1>1 DEF IInv, QuorumInv
  <2>5. \A t \in Tools : quorum'[t].status # "NONE" \/ saved'[t].status # "NONE" => case' # None
    BY <1>1, <2>1, <2>2 DEF IInv, QuorumInv
  <2> QED BY <1>1, <2>3, <2>4, <2>5 DEF QuorumInv, IntentsOK
<1>3. StoreInv'
  BY <1>1, StoreKept DEF IInv
<1>4. LedgerInv'
  <2>1. /\ Has(Detected)' = Has(Detected) /\ Unraced' = Unraced
        /\ \A t \in Tools : Has(<<"executed", t>>)' = Has(<<"executed", t>>)
    BY <1>1 DEF Has, Detected, Unraced
  <2> QED BY <1>1, <2>1 DEF IInv, LedgerInv
<1>5. HarnessInv'
  BY <1>1 DEF HarnessInv
<1>6. CommandInv'
  <2>1. "pc" \in DOMAIN cmd' /\ cmd'.pc = "free"
    BY <1>1 DEF Free
  <2> QED BY <1>1, <2>1 DEF CommandInv, OpeningSteps, PrepareSteps, ApprovalSteps
<1>7. WorkersInv'
  <2>1. Shape(wk', Workers) /\ \A w \in Workers : wk'[w] = Free
    BY <1>1 DEF Shape
  <2> QED BY <2>1 DEF WorkersInv
<1> QED BY <1>2, <1>3, <1>4, <1>5, <1>6, <1>7 DEF IInv

-----------------------------------------------------------------------------
(* The invariant holds.                                                    *)

LEMMA InitSafe == Init => IInv
<1> SUFFICES ASSUME Init PROVE IInv
  OBVIOUS
<1>1. /\ IntentOK(NoIntent) /\ NoIntent.status = "NONE"
      /\ Shape(NoBinding, AttemptFields) /\ NoBinding.attempt = "NONE"
      /\ "pc" \in DOMAIN Free /\ Free.pc = "free"
  BY DEF NoIntent, IntentOK, Shape, IntentFields, NoBinding, AttemptFields, Free
<1>2. /\ Shape(quorum, Tools) /\ Shape(saved, Tools) /\ Shape(store, Tools) /\ Shape(wk, Workers)
      /\ \A t \in Tools : quorum[t] = NoIntent /\ saved[t] = NoIntent /\ store[t] = NoBinding
      /\ \A w \in Workers : wk[w] = Free
  BY DEF Init, Shape
<1>3. Release \in Tools
  BY DEF Tools
<1>4. QuorumInv
  BY <1>1, <1>2 DEF Init, QuorumInv, IntentsOK
<1>5. StoreInv
  BY <1>1, <1>2, <1>3 DEF Init, StoreInv
<1>6. LedgerInv
  BY DEF Init, LedgerInv, Has
<1>7. HarnessInv
  BY DEF Init, HarnessInv
<1>8. CommandInv
  BY <1>1 DEF Init, CommandInv, OpeningSteps, PrepareSteps, ApprovalSteps
<1>9. WorkersInv
  BY <1>2 DEF WorkersInv
<1> QED BY <1>4, <1>5, <1>6, <1>7, <1>8, <1>9 DEF IInv

LEMMA StutterSafe == ASSUME IInv, UNCHANGED vars PROVE IInv'
<1>1. UNCHANGED <<ledger, disk, up, memory, harness, cmd, wk, world, faults>>
  BY DEF vars
<1>2. Quiet
  BY <1>1, NothingWritten DEF Quiet, disk, memory, world
<1>3. CommandInv'
  BY <1>1, CommandKept DEF IInv, disk
<1>4. Detected \in DOMAIN ledger' => Has(Detected)
  BY <1>1 DEF Has
<1> QED BY <1>1, <1>2, <1>3, <1>4, QuietCommand DEF memory

LEMMA ExecutionSafe == ASSUME IInv, NEW w \in Workers, Execution(w) PROVE IInv'
<1>1. CASE Begin(w) BY <1>1, BeginSafe
<1>2. CASE Check(w) BY <1>2, CheckSafe
<1>3. CASE Reserve(w) BY <1>3, ReserveSafe
<1>4. CASE Post(w) BY <1>4, PostSafe
<1>5. CASE Complete(w) BY <1>5, CompleteSafe
<1>6. CASE Consume(w) BY <1>6, ConsumeSafe
<1>7. CASE Replay(w) BY <1>7, ReplayStepSafe
<1>8. CASE Blocked(w) BY <1>8, BlockedSafe
<1>9. CASE Publish(w) BY <1>9, PublishSafe
<1>10. CASE WorkerRefresh(w) BY <1>10, WorkerRefreshSafe
<1>11. CASE Verified(w) BY <1>11, VerifiedSafe
<1> QED BY <1>1, <1>2, <1>3, <1>4, <1>5, <1>6, <1>7, <1>8, <1>9, <1>10, <1>11 DEF Execution

LEMMA ManagerSafe == ASSUME IInv, Manager PROVE IInv'
<1>1. Restart \in Tools /\ Release \in Tools
  BY DEF Tools
<1>2. CASE Prepare(Restart) BY <1>1, <1>2, PrepareSafe
<1>3. CASE Prepare(Release) BY <1>1, <1>3, PrepareSafe
<1>4. CASE Investigate BY <1>4, InvestigateSafe
<1>5. CASE Await BY <1>5, AwaitSafe
<1>6. CASE Refresh BY <1>6, RefreshSafe
<1>7. CASE Decide BY <1>7, DecideSafe
<1>8. CASE Announced BY <1>8, AnnouncedSafe
<1>9. CASE \E t \in Tools, p \in Principals : Approve(t, p) BY <1>9, ApproveSafe
<1>10. CASE Attest BY <1>10, AttestSafe
<1>11. CASE Recorded BY <1>11, RecordedSafe
<1> QED BY <1>2, <1>3, <1>4, <1>5, <1>6, <1>7, <1>8, <1>9, <1>10, <1>11 DEF Manager

LEMMA NextSafe == IInv /\ [Next]_vars => IInv'
<1> SUFFICES ASSUME IInv, [Next]_vars PROVE IInv'
  OBVIOUS
<1>1. CASE Open BY <1>1, OpenSafe
<1>2. CASE Recover BY <1>2, RecoverSafe
<1>3. CASE Detect BY <1>3, DetectSafe
<1>4. CASE Announce BY <1>4, AnnounceSafe
<1>5. CASE AutoStart BY <1>5, AutoStartSafe
<1>6. CASE Inject BY <1>6, InjectSafe
<1>7. CASE PublishSource BY <1>7, PublishSourceSafe
<1>8. CASE StartCommand BY <1>8, StartCommandSafe
<1>9. CASE HarnessStage BY <1>9, HarnessStageSafe
<1>10. CASE HarnessDone BY <1>10, HarnessDoneSafe
<1>11. CASE HarnessDegrade BY <1>11, HarnessDegradeSafe
<1>12. CASE Chat BY <1>12, ChatSafe
<1>13. CASE Manager BY <1>13, ManagerSafe
<1>14. CASE \E w \in Workers : (\E t \in Tools : Accept(w, t)) \/ Execution(w)
  BY <1>14, AcceptSafe, ExecutionSafe
<1>15. CASE \E t \in Tools : Expire(t) BY <1>15, ExpireSafe
<1>16. CASE Crash BY <1>16, CrashSafe
<1>17. CASE UNCHANGED vars BY <1>17, StutterSafe
<1> QED BY <1>1, <1>2, <1>3, <1>4, <1>5, <1>6, <1>7, <1>8, <1>9, <1>10, <1>11, <1>12, <1>13,
           <1>14, <1>15, <1>16, <1>17 DEF Next, Opening

(* Every reachable state satisfies the invariant: what the four stores, the *)
(* ledger and the threads of the session hold about one another is never   *)
(* broken by a step, a failed write, a crash or a reopening.               *)
THEOREM Invariance == Spec => []IInv
<1>1. Init => IInv
  BY InitSafe
<1>2. IInv /\ [Next]_vars => IInv'
  BY NextSafe
<1> QED BY <1>1, <1>2, PTL DEF Spec

-----------------------------------------------------------------------------
(* What follows from it.                                                   *)

(* EXECUTION_COMPLETED is durable (PublishedIsDurable): when the ledger    *)
(* holds it, the effect exists, the attempt is completed and, unless a     *)
(* write failed under one of two threads, the grant is consumed on disk.   *)
THEOREM Durable == Spec => []PublishedIsDurable
<1>1. IInv => PublishedIsDurable
  BY DEF IInv, StoreInv, LedgerInv, PublishedIsDurable, Closed
<1> QED BY <1>1, Invariance, PTL

(* _case_console_actions offers nothing that the session would refuse, and *)
(* what it shows is backed by the stores (ConsoleAgrees).                  *)
THEOREM ConsoleIsBacked == Spec => []ConsoleAgrees
<1>1. ASSUME IInv PROVE ConsoleAgrees
  <2>1. up = "refused" => Closed
    BY <1>1 DEF IInv, CommandInv
  <2>2. ContinueEnabled => ~StartDenied
    BY DEF ContinueEnabled, IncidentReady, ShownState, StartDenied
  <2>3. \A t \in Tools : PrepareEnabled(t) => Investigated
    BY DEF PrepareEnabled, Investigated
  <2>4. ShownAdvisory = "COMPLETE" => Named("evaluation") # {}
    BY <1>1 DEF ShownAdvisory, IInv, LedgerInv
  <2>5. \A t \in Tools : ReplaySafe(t) => store[t].attempt = "COMPLETED"
    BY <1>1 DEF ReplaySafe, IInv, LedgerInv
  <2> QED BY <2>1, <2>2, <2>3, <2>4, <2>5 DEF ConsoleAgrees
<1> QED BY <1>1, Invariance, PTL

(* What a step must show of the effects it creates and the events it       *)
(* publishes.                                                              *)
Justified ==
  /\ \A t \in effects' \ effects : { RoleOf[p] : p \in quorum[t].attested } = Roles
  /\ \A key \in (DOMAIN ledger)' \ DOMAIN ledger : Explains(key)

Explained == { "synthesis", "evaluation", "degraded", "prepared", "requested", "verified" }

LEMMA NothingNew == ASSUME UNCHANGED <<ledger, effects>> PROVE Justified
BY DEF Justified

LEMMA EventExplained ==
  ASSUME effects' = effects, NEW key, Writes(key), Explains(key) PROVE Justified
BY DEF Justified, Writes, Appended, Dropped

LEMMA NoExplanation ==
  ASSUME effects' = effects, NEW key, Writes(key),
         key[1] \notin Explained \union {"detected", "started"}
  PROVE  Justified
<1>1. key # Detected /\ key # Started
  BY DEF Detected, Started
<1>2. key[1] \notin {"synthesis", "evaluation", "degraded"} /\ key[1] # "prepared"
      /\ key[1] # "requested" /\ key[1] # "verified"
  BY DEF Explained
<1>3. Explains(key)
  BY <1>1, <1>2 DEF Explains
<1> QED BY <1>3, EventExplained

(* investigation.started follows the detection of an injected condition.   *)
LEMMA StartExplained ==
  ASSUME effects' = effects, Writes(Started), Has(Injected), case # None
  PROVE  Justified
<1>1. Started # Detected /\ Started[1] = "started"
  BY DEF Started, Detected
<1>2. Explains(Started)
  BY <1>1 DEF Explains
<1> QED BY <1>2, EventExplained

LEMMA PublishedExplained ==
  ASSUME Recover \/ PublishSource PROVE Justified
<1>1. effects' = effects
  BY DEF Recover, PublishSource, disk
<1>2. Writes(Injected) \/ UNCHANGED ledger
  BY Appending, Dropping DEF Recover, PublishSource, Emit, Writes
<1>3. Injected[1] = "injected"
  BY DEF Injected
<1>4. "injected" \notin Explained \union {"detected", "started"}
  BY DEF Explained
<1> QED BY <1>1, <1>2, <1>3, <1>4, NoExplanation, NothingNew

LEMMA AnnounceExplained == ASSUME IInv, Announce PROVE Justified
<1>1. effects' = effects /\ cmd.pc = "announce"
  BY DEF Announce, disk
<1>2. Writes(Detected)
  BY Appending, Dropping DEF Announce, Emit, Writes
<1>3. Has(Injected)
  BY <1>1 DEF IInv, CommandInv
<1>4. Started # Detected /\ Detected[1] = "detected"
  BY DEF Started, Detected
<1>5. Explains(Detected)
  BY <1>3, <1>4 DEF Explains
<1> QED BY <1>1, <1>2, <1>5, EventExplained

LEMMA AutoStartExplained == ASSUME AutoStart PROVE Justified
<1>1. effects' = effects
  BY DEF AutoStart, disk
<1>2. UNCHANGED ledger \/ (Writes(Started) /\ Has(Injected) /\ case # None)
  BY Appending, Dropping DEF AutoStart, Emit, Writes, StartDenied
<1> QED BY <1>1, <1>2, StartExplained, NothingNew

LEMMA InvestigateExplained == ASSUME Investigate PROVE Justified
<1>1. effects' = effects
  BY DEF Investigate, disk
<1>2. UNCHANGED ledger \/ (Writes(Started) /\ Has(Injected) /\ case # None)
  BY Appending, Dropping DEF Investigate, Emit, Writes
<1> QED BY <1>1, <1>2, StartExplained, NothingNew

(* An event of the investigation worker follows investigation.started; one *)
(* of a chat turn names the turn.                                          *)
LEMMA AgentExplained ==
  ASSUME effects' = effects, NEW name \in {"synthesis", "evaluation", "degraded"}, NEW turn,
         Writes(<<name, turn>>), Has(Started) \/ turn = "chat"
  PROVE  Justified
<1> DEFINE key == <<name, turn>>
<1>1. key # Detected /\ key # Started
  BY DEF Detected, Started
<1>2. key[1] = name /\ key[2] = turn
  OBVIOUS
<1> HIDE DEF key
<1>3. Explains(key)
  BY <1>1, <1>2 DEF Explains
<1>4. Writes(key)
  BY DEF key
<1> QED BY <1>3, <1>4, EventExplained

LEMMA HarnessExplained == ASSUME IInv, HarnessStage \/ HarnessDegrade PROVE Justified
<1>1. effects' = effects /\ Has(Started)
  BY DEF HarnessStage, HarnessDegrade, disk, IInv, HarnessInv, Stages
<1>2. CASE HarnessStage
  <2>1. PICK h : h = harness
    OBVIOUS
  <2>2. h \in {"synthesis", "evaluation", "degraded"}
    BY <1>2, <2>1 DEF HarnessStage, Stages
  <2>3. UNCHANGED ledger \/ Writes(<<h, None>>)
    BY <1>2, <2>1, Appending, Dropping DEF HarnessStage, Emit, Writes
  <2> QED BY <1>1, <2>2, <2>3, AgentExplained, NothingNew
<1>3. CASE HarnessDegrade
  <2>1. Writes(<<"degraded", None>>) \/ Writes(<<"blocked", None>>)
    BY <1>3, Appending, Dropping DEF HarnessDegrade, Emit, Writes
  <2>2. CASE Writes(<<"blocked", None>>)
    <3>1. <<"blocked", None>>[1] \notin Explained \union {"detected", "started"}
      BY DEF Explained
    <3> QED BY <1>1, <2>2, <3>1, NoExplanation
  <2> QED BY <1>1, <2>1, <2>2, AgentExplained
<1> QED BY <1>2, <1>3

LEMMA ChatExplained == ASSUME Chat PROVE Justified
<1>1. effects' = effects /\ faults' = faults
  BY DEF Chat, disk
<1>2. Writes(<<"degraded", "chat">>) \/ Writes(<<"evaluation", "chat">>)
  <2>1. \/ ledger' = Added(<<"degraded", "chat">>, 0, None)
        \/ ledger' = Added(<<"evaluation", "chat">>, 0, <<"ACCEPT", 0>>)
    BY DEF Chat
  <2>2. ASSUME NEW key, NEW data, ledger' = Added(key, 0, data)
        PROVE  Writes(key)
    BY <1>1, <2>2, AddedKeys DEF Writes, Appended
  <2> QED BY <2>1, <2>2
<1>3. ASSUME NEW name \in {"degraded", "evaluation"}, Writes(<<name, "chat">>)
      PROVE  Justified
  BY <1>1, <1>3, AgentExplained
<1> QED BY <1>2, <1>3

LEMMA AnnouncedExplained == ASSUME IInv, Announced PROVE Justified
<1>1. PICK pc, t : pc = cmd.pc /\ t = cmd.tool
  OBVIOUS
<1> DEFINE key == <<pc, t>>
<1>2. effects' = effects /\ pc \in {"prepared", "requested"}
  BY <1>1 DEF Announced, disk
<1>3. Writes(key)
  BY <1>1, Appending, Dropping DEF Announced, Emit, Writes
<1>4. /\ pc = "prepared" => Named("evaluation") \union Named("degraded") # {}
      /\ pc = "requested" => Has(<<"prepared", t>>)
  BY <1>1, <1>2 DEF IInv, CommandInv
<1>5. key # Detected /\ key # Started
  BY <1>2 DEF Detected, Started
<1>6. key[1] = pc /\ key[2] = t
  OBVIOUS
<1> HIDE DEF key
<1>7. Explains(key)
  BY <1>2, <1>4, <1>5, <1>6 DEF Explains
<1> QED BY <1>2, <1>3, <1>7, EventExplained

LEMMA RecordedExplained == ASSUME Recorded PROVE Justified
<1> DEFINE key == <<"recorded", cmd.tool, cmd.by>>
<1>1. effects' = effects
  BY DEF Recorded, disk
<1>2. Writes(key)
  BY Appending, Dropping DEF Recorded, Emit, Writes
<1>3. key[1] = "recorded"
  OBVIOUS
<1>4. "recorded" \notin Explained \union {"detected", "started"}
  BY DEF Explained
<1> HIDE DEF key
<1> QED BY <1>1, <1>2, <1>3, <1>4, NoExplanation

(* The effect is created under an intent that was granted, and a granted   *)
(* intent carries the signatures of both roles.                            *)
LEMMA PostSigned == ASSUME IInv, NEW w \in Workers, Post(w) PROVE Justified
<1>1. PICK r : r = wk[w]
  OBVIOUS
<1>2. r # Free /\ effects' \subseteq effects \union {r.tool} /\ UNCHANGED ledger
  BY <1>1 DEF Post
<1>3. r.tool \in Tools /\ quorum[r.tool].status \in {"GRANTED", "CONSUMED"}
  BY <1>1, <1>2, Acting DEF ThreadOK
<1>4. { RoleOf[p] : p \in quorum[r.tool].attested } = Roles
  BY <1>3 DEF IInv, QuorumInv, IntentsOK, IntentOK
<1> QED BY <1>2, <1>4 DEF Justified

(* The other events of an execution thread explain others.                 *)
LEMMA ThreadExplained ==
  ASSUME effects' = effects, NEW t,
         NEW name \in {"execStarted", "effectStarted", "execBlocked", "effectCompleted",
                       "executed"},
         Writes(<<name, t>>) \/ UNCHANGED ledger
  PROVE  Justified
<1>1. <<name, t>>[1] \notin Explained \union {"detected", "started"}
  BY DEF Explained
<1> QED BY <1>1, NoExplanation, NothingNew

LEMMA VerifiedExplained == ASSUME IInv, NEW w \in Workers, Verified(w) PROVE Justified
<1>1. PICK r : r = wk[w]
  OBVIOUS
<1> DEFINE key == <<"verified", r.tool>>
<1>2. r # Free /\ r.pc = "verified" /\ effects' = effects
  BY <1>1 DEF Verified, disk
<1>3. Writes(key)
  BY <1>1, Appending, Dropping DEF Verified, Emit, Writes
<1>4. Has(<<"executed", r.tool>>)
  BY <1>1, <1>2, Acting DEF ThreadOK
<1>5. key # Detected /\ key # Started /\ key[1] = "verified" /\ key[2] = r.tool
  BY DEF Detected, Started
<1> HIDE DEF key
<1>6. Explains(key)
  BY <1>4, <1>5 DEF Explains
<1> QED BY <1>2, <1>3, <1>6, EventExplained

LEMMA ExecutionExplained ==
  ASSUME IInv, NEW w \in Workers, (\E t \in Tools : Accept(w, t)) \/ Execution(w)
  PROVE  Justified
<1>1. ASSUME NEW t \in Tools, Accept(w, t) PROVE Justified
  <2>1. effects' = effects
    BY <1>1 DEF Accept, disk
  <2>2. Writes(<<"execStarted", t>>)
    BY <1>1, Appending, Dropping DEF Accept, Emit, Writes
  <2> QED BY <2>1, <2>2, ThreadExplained
<1>2. CASE Begin(w)
  <2>1. effects' = effects
    BY <1>2 DEF Begin, disk
  <2>2. Writes(<<"effectStarted", wk[w].tool>>) \/ UNCHANGED ledger
    BY <1>2, Appending, Dropping DEF Begin, Emit, Writes
  <2>3. PICK t : t = wk[w].tool
    OBVIOUS
  <2> QED BY <2>1, <2>2, <2>3, ThreadExplained
<1>3. CASE Blocked(w)
  <2>1. effects' = effects
    BY <1>3 DEF Blocked, disk
  <2>2. Writes(<<"execBlocked", wk[w].tool>>)
    BY <1>3, Appending, Dropping DEF Blocked, Emit, Writes
  <2>3. PICK t : t = wk[w].tool
    OBVIOUS
  <2> QED BY <2>1, <2>2, <2>3, ThreadExplained
<1>4. CASE Publish(w)
  <2>1. effects' = effects
    BY <1>4 DEF Publish, disk
  <2>2. PICK t : t = wk[w].tool
    OBVIOUS
  <2>3. UNCHANGED ledger \/ Writes(<<"effectCompleted", t>>) \/ Writes(<<"executed", t>>)
    BY <1>4, <2>2, Appending, Dropping DEF Publish, Emit, Writes
  <2> QED BY <2>1, <2>3, ThreadExplained, NothingNew
<1>5. CASE Post(w) BY <1>5, PostSigned
<1>6. CASE Verified(w) BY <1>6, VerifiedExplained
<1>7. CASE Check(w) \/ Reserve(w) \/ Complete(w) \/ Consume(w) \/ Replay(w) \/ WorkerRefresh(w)
  <2>1. UNCHANGED <<ledger, effects>>
    BY <1>7 DEF Check, Reserve, Complete, Consume, Replay, WorkerRefresh, disk
  <2> QED BY <2>1, NothingNew
<1> QED BY <1>1, <1>2, <1>3, <1>4, <1>5, <1>6, <1>7 DEF Execution

LEMMA ManagerExplained == ASSUME IInv, Manager PROVE Justified
<1>1. CASE \/ Prepare(Restart) \/ Prepare(Release) \/ Await \/ Refresh \/ Decide
           \/ (\E t \in Tools, p \in Principals : Approve(t, p)) \/ Attest
  <2>1. UNCHANGED <<ledger, effects>>
    BY <1>1 DEF Prepare, Await, Refresh, Decide, Approve, Attest, disk
  <2> QED BY <2>1, NothingNew
<1>2. CASE Investigate BY <1>2, InvestigateExplained
<1>3. CASE Announced BY <1>3, AnnouncedExplained
<1>4. CASE Recorded BY <1>4, RecordedExplained
<1> QED BY <1>1, <1>2, <1>3, <1>4 DEF Manager

(* Authority B and the order of the public events (NothingWithoutCause):   *)
(* no enterprise effect without the signatures of both roles on the intent *)
(* in force, and no event before the one that explains it.                 *)
THEOREM Caused == Spec => NothingWithoutCause
<1>1. ASSUME IInv, [Next]_vars
      PROVE  Justified
  <2>1. CASE \/ Open \/ Detect \/ Inject \/ StartCommand \/ HarnessDone
             \/ (\E t \in Tools : Expire(t)) \/ Crash \/ UNCHANGED vars
    <3>1. UNCHANGED <<ledger, effects>>
      BY <2>1 DEF Open, Detect, Inject, StartCommand, HarnessDone, Expire, Crash, vars, disk
    <3> QED BY <3>1, NothingNew
  <2>2. CASE Recover \/ PublishSource BY <2>2, PublishedExplained
  <2>3. CASE Announce BY <1>1, <2>3, AnnounceExplained
  <2>4. CASE AutoStart BY <2>4, AutoStartExplained
  <2>5. CASE HarnessStage \/ HarnessDegrade BY <1>1, <2>5, HarnessExplained
  <2>6. CASE Chat BY <2>6, ChatExplained
  <2>7. CASE Manager BY <1>1, <2>7, ManagerExplained
  <2>8. CASE \E w \in Workers : (\E t \in Tools : Accept(w, t)) \/ Execution(w)
    BY <1>1, <2>8, ExecutionExplained
  <2> QED BY <1>1, <2>1, <2>2, <2>3, <2>4, <2>5, <2>6, <2>7, <2>8 DEF Next, Opening
<1>2. IInv /\ [Next]_vars =>
        [ /\ \A t \in effects' \ effects : { RoleOf[p] : p \in quorum[t].attested } = Roles
          /\ \A key \in (DOMAIN ledger)' \ DOMAIN ledger : Explains(key) ]_vars
  BY <1>1 DEF Justified
<1> QED BY <1>2, Invariance, PTL DEF Spec, NothingWithoutCause
=============================================================================
