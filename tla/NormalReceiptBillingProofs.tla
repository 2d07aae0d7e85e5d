---------------------- MODULE NormalReceiptBillingProofs ----------------------
(***************************************************************************)
(* The supplier-bill coordinator, for any number of request threads,       *)
(* managers, versions, tokens, edits and restarts: its type invariant, the *)
(* safety of the invoice, the finality of a stop, and that every behaviour *)
(* is one of OneInvoicePerBill.                                            *)
(*                                                                         *)
(* The argument follows the one insert.  The marker row.insert is written  *)
(* once; from then on the insert is in exactly one place: a request that   *)
(* is about to post it, a message on the wire, or the one document.        *)
(* Everything a later request holds (draft name, revision, submit marker)  *)
(* was read from that document, and stays true of it.                      *)
(*                                                                         *)
(* The read it prepares, inserts and submits on (BillingSource) follows at *)
(* the end, for any page size, limits and documents: a document the pages  *)
(* skip leaves a listed name that is lost.                                 *)
(***************************************************************************)
EXTENDS NormalReceiptBilling, BillingSource, FiniteSetTheorems, TLAPS

(* What the row says is a history: each column presupposes the one before. *)
RowInv ==
  /\ row.binding = row.version
  /\ row.version = 0 => row.token = 0
  /\ row.insert # 0 => row.insert = row.version /\ row.token # 0 /\ row.used
  /\ row.draftRev = 0
  /\ row.draft # 0 => row.draft = 1 /\ row.insert # 0 /\ row.ackFor = row.version
  /\ row.submit # 0 => row.submit = row.draft
  /\ row.submitted # 0 => row.submitted = row.draft /\ row.submit # 0

(* The ERP holds at most the one document that was asked for, and what the *)
(* row admitted is true of it.                                             *)
DocInv ==
  /\ Len(docs) <= 1
  /\ Len(docs) = 1 => row.insert # 0 /\ docs[1].version = row.insert
  /\ row.draft # 0 => Len(docs) = 1
  /\ row.submitted # 0 => docs[1].status = "submitted" /\ row.finalRev <= docs[1].rev
  /\ row.conflict => Len(docs) = 1 /\ docs[1].status = "submitted" /\ docs[1].rev > 0

(* What a request c knows at each of its steps. *)
CallOK(c) ==
  /\ c.pc = "insert_post" => row.insert # 0 /\ c.request = row.insert /\ Len(docs) = 0
  /\ c.pc = "insert_admit" => c.doc = 1 /\ c.rev = 0 /\ Len(docs) = 1
  /\ c.pc \in {"submit_read", "submit_refresh", "submit_claim", "submit_post"} =>
        c.doc = 1 /\ c.rev = 0 /\ row.draft = 1
  /\ c.pc = "submit_post" => row.submit # 0
  /\ c.pc \in {"reconcile_read", "reconcile_admit"} => c.doc = 1 /\ row.submit # 0
  /\ c.pc = "reconcile_admit" =>
        Len(docs) = 1 /\ docs[1].status = "submitted" /\ c.rev <= docs[1].rev

CallInv == \A w \in Workers : CallOK(calls[w])

(* What a message on the wire is about. *)
MessageOK(m) ==
  /\ m.kind = "insert" => row.insert # 0 /\ m.version = row.insert /\ Len(docs) = 0
  /\ m.kind = "submit" => row.submit # 0 /\ m.doc = 1 /\ m.rev = 0
  /\ m.kind = "reply" => m.doc = 1 /\ Len(docs) = 1

WireInv == \A m \in wire : MessageOK(m)

(* The insert is in one place only. *)
Posting(w) == At(w, "insert_post")
OnceInv ==
  /\ \A w, u \in Workers : Posting(w) /\ Posting(u) => w = u
  /\ \A m, k \in wire : m.kind = "insert" /\ k.kind = "insert" => m = k
  /\ \A w \in Workers, m \in wire : ~(Posting(w) /\ m.kind = "insert")

IInv == TypeOK /\ RowInv /\ DocInv /\ CallInv /\ WireInv /\ OnceInv

-----------------------------------------------------------------------------
(* Steps that touch neither a marker nor the ERP's document. *)

\* What a quiet step leaves of the row.
Kept ==
  /\ row'.version = row.version /\ row'.binding = row.binding
  /\ row'.insert = row.insert /\ row'.draft = row.draft /\ row'.draftRev = row.draftRev
  /\ row'.ackFor = row.ackFor /\ row'.submit = row.submit /\ row'.submitted = row.submitted
  /\ row'.finalRev = row.finalRev /\ row'.conflict = row.conflict /\ row'.used = row.used
  /\ row.token # 0 => row'.token # 0
  /\ row.version = 0 => row'.token = row.token

\* A step that keeps the markers and the documents, takes at most messages off
\* the wire, and leaves each request as it was or with what CallOK asks for.
LEMMA QuietStep ==
  ASSUME IInv, row' \in Row, Kept, calls' \in [Workers -> Call],
         \A u \in Workers :
            calls'[u] = calls[u] \/ (CallOK(calls'[u]) /\ calls'[u].pc # "insert_post"),
         docs' = docs, wire' \subseteq wire, issued' \in Nat,
         tokens' \in [Versions -> Nat], source' \in 1..MaxSource, restarts' \in 0..MaxRestarts
  PROVE  IInv'
<1>1. TypeOK'
  BY DEF IInv, TypeOK
<1>2. RowInv'
  BY DEF IInv, RowInv, Kept
<1>3. DocInv'
  BY DEF IInv, DocInv, Kept
<1>4. CallInv'
  BY DEF IInv, CallInv, CallOK, Kept
<1>5. WireInv'
  BY DEF IInv, WireInv, MessageOK, Kept
<1>6. OnceInv'
  BY DEF IInv, OnceInv, Posting, At
<1>7. QED
  BY <1>1, <1>2, <1>3, <1>4, <1>5, <1>6 DEF IInv

\* The same for a request that changes nothing but itself, to record c.
LEMMA OwnStep ==
  ASSUME IInv, NEW w \in Workers, NEW c \in Call, calls' = [calls EXCEPT ![w] = c],
         CallOK(c), c.pc # "insert_post", row' \in Row, Kept, docs' = docs, wire' \subseteq wire,
         issued' \in Nat, tokens' \in [Versions -> Nat], source' = source, restarts' = restarts
  PROVE  IInv'
<1>1. calls' \in [Workers -> Call]
  BY DEF IInv, TypeOK
<1>2. \A u \in Workers :
         calls'[u] = calls[u] \/ (CallOK(calls'[u]) /\ calls'[u].pc # "insert_post")
  BY DEF IInv, TypeOK
<1>3. source' \in 1..MaxSource /\ restarts' \in 0..MaxRestarts
  BY DEF IInv, TypeOK
<1>4. QED
  BY <1>1, <1>2, <1>3, QuietStep

\* An idle request is well formed and knows nothing.
LEMMA IdleOK == Idle \in Call /\ CallOK(Idle) /\ Idle.pc # "insert_post"
BY JournalBoundAssumption DEF Idle, Call, Steps, Readbacks, CallOK

-----------------------------------------------------------------------------
(* Requests: prepare, approve, execute, reconcile. *)

\* A request that only returns, perhaps after a quiet write.
LEMMA ReturnStep ==
  ASSUME IInv, NEW w \in Workers, Return(w), row' \in Row, Kept, docs' = docs, wire' \subseteq wire,
         issued' \in Nat, tokens' \in [Versions -> Nat], source' = source, restarts' = restarts
  PROVE  IInv'
BY IdleOK, OwnStep DEF Return

\* What an unchanged journal and an unchanged ERP give for the lemmas above.
LEMMA UnchangedFacts ==
  ASSUME IInv
  PROVE  /\ row \in Row /\ issued \in Nat /\ tokens \in [Versions -> Nat]
         /\ row' = row => row' \in Row /\ Kept
         /\ issued' = issued => issued' \in Nat
         /\ tokens' = tokens => tokens' \in [Versions -> Nat]
BY DEF IInv, TypeOK, Kept

LEMMA BeginStep ==
  ASSUME IInv, NEW w \in Workers, Begin(w)
  PROVE  IInv'
<1>1. CASE PrepareStart(w)
  <2> DEFINE c == [calls[w] EXCEPT !.pc = "prepare", !.obs = source]
  <2>1. c \in Call /\ CallOK(c) /\ c.pc # "insert_post"
    <3>1. calls[w] \in Call /\ source \in 0..MaxSource /\ row.version \in 0..MaxVersion
      BY JournalBoundAssumption DEF IInv, TypeOK, Row
    <3>2. c \in Call
      BY <3>1 DEF Call, Steps
    <3>3. CallOK(c) /\ c.pc # "insert_post"
      BY <3>1 DEF Call, CallOK
    <3>4. QED
      BY <3>2, <3>3
  <2>2. calls' = [calls EXCEPT ![w] = c]
    BY <1>1 DEF PrepareStart, IInv, TypeOK
  <2>3. QED
    BY <1>1, <2>1, <2>2, UnchangedFacts, OwnStep DEF PrepareStart, journal, erp
<1>2. CASE ReconcileCall(w)
  <2> DEFINE c == [Idle EXCEPT !.pc = "reconcile_start", !.mgr = NoManager]
  <2>1. c \in Call /\ CallOK(c) /\ c.pc # "insert_post"
    BY IdleOK DEF Idle, Call, Steps, CallOK
  <2>2. calls' = [calls EXCEPT ![w] = c]
    BY <1>2 DEF ReconcileCall, Enter
  <2>3. QED
    BY <1>2, <2>1, <2>2, UnchangedFacts, OwnStep DEF ReconcileCall, journal, erp
<1>3. ASSUME NEW m \in Managers, ApproveStart(w, m)
      PROVE  IInv'
  <2> DEFINE c == [calls[w] EXCEPT !.pc = "approve", !.mgr = m, !.version = row.version]
  <2>1. c \in Call /\ CallOK(c) /\ c.pc # "insert_post"
    <3>1. calls[w] \in Call /\ source \in 0..MaxSource /\ row.version \in 0..MaxVersion
      BY JournalBoundAssumption DEF IInv, TypeOK, Row
    <3>2. c \in Call
      BY <3>1 DEF Call, Steps
    <3>3. CallOK(c) /\ c.pc # "insert_post"
      BY <3>1 DEF Call, CallOK
    <3>4. QED
      BY <3>2, <3>3
  <2>2. calls' = [calls EXCEPT ![w] = c]
    BY <1>3 DEF ApproveStart, IInv, TypeOK
  <2>3. QED
    BY <1>3, <2>1, <2>2, UnchangedFacts, OwnStep DEF ApproveStart, journal, erp
<1>4. ASSUME NEW m \in Managers, ExecuteStart(w, m)
      PROVE  IInv'
  <2> DEFINE Entered(pc) == [Idle EXCEPT !.pc = pc, !.mgr = m]
             i == [calls[w] EXCEPT !.pc = "insert_start", !.mgr = m, !.token = tokens[row.version]]
  <2>1. ASSUME NEW pc \in {"reconcile_start", "submit_start"}
        PROVE  Entered(pc) \in Call /\ CallOK(Entered(pc)) /\ Entered(pc).pc # "insert_post"
    BY IdleOK DEF Idle, Call, Steps, CallOK
  <2>2. CASE calls' = [calls EXCEPT ![w] = i] /\ row.version # 0
    <3>1. row.version \in Versions
      BY <2>2 DEF IInv, TypeOK, Row, Versions
    <3>2. i \in Call /\ CallOK(i) /\ i.pc # "insert_post"
      BY <3>1 DEF IInv, TypeOK, Call, Steps, CallOK
    <3>3. QED
      BY <1>4, <2>2, <3>2, UnchangedFacts, OwnStep DEF ExecuteStart, journal, erp
  <2>3. CASE \E pc \in {"reconcile_start", "submit_start"} : calls' = [calls EXCEPT ![w] = Entered(pc)]
    BY <1>4, <2>1, <2>3, UnchangedFacts, OwnStep DEF ExecuteStart, journal, erp
  <2>4. QED
    BY <1>4, <2>2, <2>3 DEF ExecuteStart, Enter, Prepared, IInv, TypeOK
<1>5. QED
  BY <1>1, <1>2, <1>3, <1>4 DEF Begin

\* The types a request works with.
LEMMA RequestFacts ==
  ASSUME IInv, NEW w \in Workers
  PROVE  /\ calls[w] \in Call /\ row \in Row /\ Idle \in Call
         /\ source \in 0..MaxSource /\ row.version \in 0..MaxVersion
         /\ row.draft \in Nat /\ row.draftRev \in Nat
         /\ calls[w].mgr \in Managers \cup {NoManager}
         /\ calls[w].obs \in 0..MaxSource
         /\ calls[w].kind \in Readbacks
         /\ calls[w].token \in Nat
         /\ calls[w].back \in {"idle", "inserted"}
<1>1. calls[w] \in Call /\ row \in Row /\ source \in 1..MaxSource
  BY DEF IInv, TypeOK
<1>2. /\ row.version \in 0..MaxVersion /\ row.draft \in Nat /\ row.draftRev \in Nat
  BY <1>1 DEF Row
<1>3. /\ calls[w].mgr \in Managers \cup {NoManager} /\ calls[w].obs \in 0..MaxSource
      /\ calls[w].kind \in Readbacks /\ calls[w].token \in Nat
      /\ calls[w].back \in {"idle", "inserted"}
  BY <1>1 DEF Call
<1>4. QED
  BY <1>1, <1>2, <1>3, JournalBoundAssumption, IdleOK

\* The steps at which CallOK says something.
Knowing == {"insert_post", "insert_admit", "submit_read", "submit_refresh", "submit_claim",
            "submit_post", "reconcile_read", "reconcile_admit"}

\* A request that goes on without knowing anything.
LEMMA ForgetStep ==
  ASSUME IInv, NEW w \in Workers, NEW c \in Call, calls' = [calls EXCEPT ![w] = c],
         c.pc \notin Knowing, row' \in Row, Kept, docs' = docs, wire' \subseteq wire,
         issued' \in Nat, tokens' \in [Versions -> Nat], source' = source, restarts' = restarts
  PROVE  IInv'
<1>1. CallOK(c) /\ c.pc # "insert_post"
  BY DEF CallOK, Knowing
<1>2. QED
  BY <1>1, OwnStep

LEMMA GotoStep ==
  ASSUME IInv, NEW w \in Workers, NEW pc \in Steps \ Knowing, Goto(w, pc), row' \in Row, Kept, docs' = docs, wire' \subseteq wire,
         issued' \in Nat, tokens' \in [Versions -> Nat], source' = source, restarts' = restarts
  PROVE  IInv'
<1> DEFINE c == [calls[w] EXCEPT !.pc = pc]
<1>1. c \in Call /\ c.pc \notin Knowing
  BY RequestFacts DEF Call
<1>2. calls' = [calls EXCEPT ![w] = c]
  BY DEF Goto, IInv, TypeOK
<1>3. QED
  BY <1>1, <1>2, ForgetStep

LEMMA HoldStep ==
  ASSUME IInv, NEW w \in Workers, NEW kind \in Readbacks, NEW back \in {"idle", "inserted"},
         Hold(w, kind, back), row' \in Row, Kept, docs' = docs, wire' \subseteq wire,
         issued' \in Nat, tokens' \in [Versions -> Nat], source' = source, restarts' = restarts
  PROVE  IInv'
<1> DEFINE c == [calls[w] EXCEPT !.pc = "hold", !.kind = kind, !.back = back]
<1>1. c \in Call /\ c.pc \notin Knowing
  BY RequestFacts DEF Call, Steps, Knowing
<1>2. calls' = [calls EXCEPT ![w] = c]
  BY DEF Hold, IInv, TypeOK
<1>3. QED
  BY <1>1, <1>2, ForgetStep

LEMMA EnterStep ==
  ASSUME IInv, NEW w \in Workers, NEW pc \in Steps \ Knowing, NEW m \in Managers \cup {NoManager},
         Enter(w, pc, m), row' \in Row, Kept, docs' = docs, wire' \subseteq wire,
         issued' \in Nat, tokens' \in [Versions -> Nat], source' = source, restarts' = restarts
  PROVE  IInv'
<1> DEFINE c == [Idle EXCEPT !.pc = pc, !.mgr = m]
<1>1. c \in Call /\ c.pc \notin Knowing
  BY IdleOK DEF Call, Idle
<1>2. calls' = [calls EXCEPT ![w] = c]
  BY DEF Enter
<1>3. QED
  BY <1>1, <1>2, ForgetStep

\* refresh_source changes one flag of the row.
LEMMA RefreshedKept ==
  ASSUME IInv, NEW r \in 0..MaxSource, row' = Refreshed(r)
  PROVE  row' \in Row /\ Kept
BY DEF IInv, TypeOK, Row, Refreshed, Kept

LEMMA ApproveStep ==
  ASSUME IInv, NEW w \in Workers, ApproveGranted(w) \/ ApproveDenied(w) \/ KeepToken(w)
  PROVE  IInv'
<1>1. CASE ApproveGranted(w)
  <2> DEFINE c == [calls[w] EXCEPT !.pc = "keep_token", !.token = issued']
  <2>1. issued' = issued + 1 /\ issued' \in Nat /\ issued' # 0
    BY <1>1 DEF ApproveGranted, ApproveRow, IInv, TypeOK
  <2>2. row.version # 0
    BY <1>1 DEF ApproveGranted, MayApprove, MayRenew, Prepared
  <2>3. row' = [row EXCEPT !.manager = calls[w].mgr, !.token = issued + 1, !.expired = FALSE]
    BY <1>1 DEF ApproveGranted, ApproveRow
  <2>4. row' \in Row /\ Kept
    BY <2>1, <2>2, <2>3, RequestFacts DEF Row, Kept
  <2>5. c \in Call /\ c.pc \notin Knowing
    BY <2>1, RequestFacts DEF Call, Steps, Knowing
  <2>6. calls' = [calls EXCEPT ![w] = c]
    BY <1>1 DEF ApproveGranted, IInv, TypeOK
  <2>7. QED
    BY <1>1, <2>1, <2>4, <2>5, <2>6, UnchangedFacts, ForgetStep DEF ApproveGranted, erp
<1>2. CASE ApproveDenied(w)
  BY <1>2, UnchangedFacts, ReturnStep DEF ApproveDenied, journal, erp
<1>3. CASE KeepToken(w)
  <2>1. tokens' \in [Versions -> Nat]
    BY <1>3, RequestFacts, UnchangedFacts DEF KeepToken
  <2>2. QED
    BY <1>3, <2>1, UnchangedFacts, ReturnStep DEF KeepToken, journal, erp
<1>4. QED
  BY <1>1, <1>2, <1>3

\* _hold changes what was last read.
LEMMA RecordHoldStep ==
  ASSUME IInv, NEW w \in Workers, RecordHold(w)
  PROVE  IInv'
<1>1. row' \in Row /\ Kept
  BY RequestFacts DEF RecordHold, ReadbackRecorded, Row, Kept
<1>2. CASE Return(w)
  BY <1>1, <1>2, UnchangedFacts, ReturnStep DEF RecordHold, erp
<1>3. CASE calls[w].back # "idle" /\ Goto(w, calls[w].back)
  <2>1. calls[w].back \in Steps \ Knowing
    BY <1>3, RequestFacts DEF Steps, Knowing
  <2>2. QED
    BY <1>1, <1>3, <2>1, UnchangedFacts, GotoStep DEF RecordHold, erp
<1>4. QED
  BY <1>2, <1>3 DEF RecordHold

-----------------------------------------------------------------------------
(* Before the insert marker nothing of the invoice exists. *)

\* The documents are none or one.
LEMMA DocFacts ==
  ASSUME IInv
  PROVE  /\ Len(docs) \in {0, 1}
         /\ DOMAIN docs = 1..Len(docs)
         /\ docs \in Seq(Doc)
         /\ Len(docs) = 1 => docs[1] \in Doc
         /\ \A n \in DOMAIN docs : n = 1 /\ Len(docs) = 1
<1>1. docs \in Seq(Doc) /\ Len(docs) <= 1
  BY DEF IInv, TypeOK, DocInv
<1>2. Len(docs) \in {0, 1} /\ DOMAIN docs = 1..Len(docs)
  BY <1>1
<1>3. Len(docs) = 1 => docs[1] \in Doc
  BY <1>1, <1>2
<1>4. QED
  BY <1>1, <1>2, <1>3

\* A message is of one of three kinds.
LEMMA KindFacts ==
  ASSUME IInv, NEW m \in wire
  PROVE  /\ m.kind \in {"insert", "submit", "reply"}
         /\ m.kind = "insert" => m \in InsertPosts
         /\ m.kind = "submit" => m \in SubmitPosts
         /\ m.kind = "reply" => m \in InsertReplies
BY DEF IInv, TypeOK, InsertPosts, SubmitPosts, InsertReplies

\* Nothing was asked for: no draft, no document, no message, no request that
\* knows of one.
LEMMA FreshFacts ==
  ASSUME IInv, row.insert = 0
  PROVE  /\ row.draft = 0 /\ row.submit = 0 /\ row.submitted = 0
         /\ row.conflict = FALSE
         /\ Len(docs) = 0
         /\ wire = {}
         /\ \A u \in Workers : calls[u].pc \notin Knowing
<1>1. row.draft = 0
  BY DEF IInv, RowInv
<1>2. row.submit = 0 /\ row.submitted = 0
  BY <1>1 DEF IInv, RowInv
<1>3. Len(docs) = 0
  BY DocFacts DEF IInv, DocInv
<1>4. row.conflict = FALSE
  <2>1. ~row.conflict
    BY <1>3 DEF IInv, DocInv
  <2>2. row.conflict \in BOOLEAN
    BY DEF IInv, TypeOK, Row
  <2>3. QED
    BY <2>1, <2>2
<1>5. wire = {}
  <2>1. SUFFICES ASSUME NEW m \in wire PROVE FALSE
    OBVIOUS
  <2>2. MessageOK(m)
    BY DEF IInv, WireInv
  <2>3. QED
    BY <1>2, <1>3, <2>2, KindFacts DEF MessageOK
<1>6. ASSUME NEW u \in Workers PROVE calls[u].pc \notin Knowing
  <2>1. CallOK(calls[u])
    BY DEF IInv, CallInv
  <2>2. QED
    BY <1>1, <1>2, <1>3, <2>1 DEF CallOK, Knowing
<1>7. QED
  BY <1>1, <1>2, <1>3, <1>4, <1>5, <1>6

\* A new row without evidence may replace one that was never marked.
LEMMA FreshStep ==
  ASSUME IInv, row.insert = 0, row' \in Row, RowInv',
         row'.draft = 0, row'.submit = 0, row'.submitted = 0, row'.conflict = FALSE,
         calls' \in [Workers -> Call],
         \A u \in Workers : calls'[u].pc \notin Knowing,
         issued' = issued, tokens' = tokens, docs' = docs, wire' = wire, source' = source,
         restarts' = restarts
  PROVE  IInv'
<1>1. TypeOK'
  BY DEF IInv, TypeOK
<1>2. DocInv'
  BY FreshFacts DEF DocInv
<1>3. CallInv'
  BY DEF CallInv, CallOK, Knowing
<1>4. WireInv' /\ OnceInv'
  BY FreshFacts DEF WireInv, OnceInv, Posting, At, Knowing
<1>5. QED
  BY <1>1, <1>2, <1>3, <1>4 DEF IInv

\* A new version is a row that holds nothing yet.
LEMMA VersionFacts ==
  ASSUME NEW v \in 0..MaxVersion, NEW r \in 0..MaxSource
  PROVE  LET n == NewVersion(v, r)
         IN  /\ n \in Row
             /\ n.version = v /\ n.binding = v
             /\ n.token = 0 /\ n.insert = 0 /\ n.draft = 0 /\ n.draftRev = 0
             /\ n.submit = 0 /\ n.submitted = 0 /\ n.finalRev = 0 /\ n.conflict = FALSE
<1>1. Unprepared \in Row
  BY JournalBoundAssumption DEF Unprepared, Row, Readbacks
<1>2. NewVersion(v, r) \in Row
  BY <1>1 DEF NewVersion, Row
<1>3. QED
  BY <1>2 DEF NewVersion, Unprepared

LEMMA PrepareIntentStep ==
  ASSUME IInv, NEW w \in Workers, PrepareIntent(w)
  PROVE  IInv'
<1>1. CASE Prepared
  <2>1. row' = row
    BY <1>1 DEF PrepareIntent, PrepareRow, ExistingKept
  <2>2. QED
    BY <2>1, UnchangedFacts, ReturnStep DEF PrepareIntent, erp
<1>2. CASE ~Prepared
  <2>1. row' = NewVersion(1, calls[w].obs)
    BY <1>2 DEF PrepareIntent, PrepareRow
  <2>2. row.insert = 0
    BY <1>2 DEF Prepared, IInv, RowInv
  <2>3. 1 \in 0..MaxVersion /\ calls[w].obs \in 0..MaxSource
    BY RequestFacts, JournalBoundAssumption
  <2>4. /\ row' \in Row /\ RowInv'
        /\ row'.draft = 0 /\ row'.submit = 0 /\ row'.submitted = 0 /\ row'.conflict = FALSE
    BY <2>1, <2>3, VersionFacts DEF RowInv
  <2>5. calls' \in [Workers -> Call] /\ \A u \in Workers : calls'[u].pc \notin Knowing
    BY <2>2, FreshFacts, IdleOK DEF PrepareIntent, Return, IInv, TypeOK, Idle, Knowing
  <2>6. QED
    BY <2>2, <2>4, <2>5, FreshStep DEF PrepareIntent, erp
<1>3. QED
  BY <1>1, <1>2

LEMMA ReprepareStep ==
  ASSUME IInv, NEW r \in 1..source, Reprepare(r), UNCHANGED <<calls, tokens, erp, restarts>>
  PROVE  IInv'
<1>1. row.insert = 0
  BY DEF Reprepare, MayReprepare, InsertAttempted
<1>2. row.submit = 0 /\ row.submitted = 0
  BY <1>1, FreshFacts
<1>3. row.version + 1 \in 0..MaxVersion /\ r \in 0..MaxSource /\ row.finalRev \in Nat
  <2>1. row.version \in 0..MaxVersion /\ source \in 1..MaxSource /\ row.finalRev \in Nat
    BY DEF IInv, TypeOK, Row
  <2>2. row.version < MaxVersion
    BY DEF Reprepare
  <2>3. QED
    BY <2>1, <2>2, JournalBoundAssumption
<1>4. PICK v \in 0..MaxVersion : v = row.version + 1
  BY <1>3
<1> DEFINE n == NewVersion(v, r)
<1>5. row' = [n EXCEPT !.insert = 0, !.submit = 0, !.submitted = 0, !.finalRev = row.finalRev]
  BY <1>1, <1>2, <1>4 DEF Reprepare
<1>6. /\ n \in Row /\ n.version = v /\ n.binding = v /\ n.token = 0
      /\ n.draft = 0 /\ n.draftRev = 0 /\ n.conflict = FALSE
  BY <1>3, VersionFacts
<1> HIDE DEF n
<1>7. /\ row' \in Row
      /\ row'.version = v /\ row'.binding = v /\ row'.token = 0
      /\ row'.insert = 0 /\ row'.draft = 0 /\ row'.draftRev = 0
      /\ row'.submit = 0 /\ row'.submitted = 0 /\ row'.conflict = FALSE
  <2> DEFINE a == [n EXCEPT !.insert = 0]
             b == [a EXCEPT !.submit = 0]
             c == [b EXCEPT !.submitted = 0]
             d == [c EXCEPT !.finalRev = row.finalRev]
  <2>1. a \in Row /\ a.insert = 0
    BY <1>6, JournalBoundAssumption DEF Row
  <2>2. b \in Row /\ b.submit = 0
    BY <2>1 DEF Row
  <2>3. c \in Row /\ c.submitted = 0
    BY <2>2 DEF Row
  <2>4. d \in Row
    BY <1>3, <2>3 DEF Row
  <2>5. QED
    BY <1>5, <1>6, <2>4 DEF Row
<1>8. RowInv'
  BY <1>7 DEF RowInv
<1>9. calls' \in [Workers -> Call] /\ \A u \in Workers : calls'[u].pc \notin Knowing
  BY <1>1, FreshFacts DEF IInv, TypeOK
<1>10. QED
  BY <1>1, <1>7, <1>8, <1>9, FreshStep DEF Reprepare, erp

-----------------------------------------------------------------------------
(* coordinator.insert. *)

\* refresh_source of either stage, going on at claim.
LEMMA RefreshStep ==
  ASSUME IInv, NEW w \in Workers, NEW stage, NEW claim \in Steps \ {"insert_post"},
         NEW stopped \in {"idle", "inserted"}, RefreshFor(w, stage, claim, stopped),
         CallOK([calls[w] EXCEPT !.pc = claim])
  PROVE  IInv'
<1>1. row' \in Row /\ Kept
  <2>1. calls[w].obs \in 0..MaxSource /\ row' = Refreshed(calls[w].obs)
    BY RequestFacts DEF RefreshFor
  <2>2. QED
    BY <2>1, RefreshedKept
<1>2. CASE ~row'.changed
  <2> DEFINE c == [calls[w] EXCEPT !.pc = claim]
  <2>1. calls' = [calls EXCEPT ![w] = c]
    BY <1>2 DEF RefreshFor, IInv, TypeOK
  <2>2. c \in Call /\ c.pc # "insert_post"
    BY RequestFacts DEF Call
  <2>3. QED
    BY <1>1, <2>1, <2>2, UnchangedFacts, OwnStep DEF RefreshFor, erp
<1>3. CASE row'.changed /\ stopped = "idle"
  <2>1. Return(w)
    BY <1>3 DEF RefreshFor, Return
  <2>2. QED
    BY <1>1, <2>1, UnchangedFacts, ReturnStep DEF RefreshFor, erp
<1>4. CASE row'.changed /\ stopped = "inserted"
  <2> DEFINE c == [calls[w] EXCEPT !.pc = "inserted"]
  <2>1. calls' = [calls EXCEPT ![w] = c]
    BY <1>4 DEF RefreshFor, IInv, TypeOK
  <2>2. c \in Call /\ c.pc \notin Knowing
    BY RequestFacts DEF Call, Steps, Knowing
  <2>3. QED
    BY <1>1, <2>1, <2>2, UnchangedFacts, ForgetStep DEF RefreshFor, erp
<1>5. QED
  BY <1>2, <1>3, <1>4

\* The steps of insert() before the marker.
LEMMA InsertReadStep ==
  ASSUME IInv, NEW w \in Workers,
         InsertStart(w) \/ InsertObserved(w) \/ InsertNotReady(w) \/ InsertRefresh(w)
           \/ ClaimInsertDenied(w) \/ InsertUnanswered(w)
  PROVE  IInv'
<1>1. "inserted" \in Steps \ Knowing /\ "UNKNOWN" \in Readbacks
  BY DEF Steps, Knowing, Readbacks
<1>2. CASE InsertStart(w) /\ Goto(w, "inserted")
  BY <1>1, <1>2, UnchangedFacts, GotoStep DEF InsertStart, journal, erp
<1>3. CASE InsertStart(w) /\ ~Goto(w, "inserted")
  <2> DEFINE c == [calls[w] EXCEPT !.pc = "insert_read", !.request = row.version]
  <2>1. c \in Call /\ c.pc \notin Knowing
    BY RequestFacts DEF Call, Steps, Knowing
  <2>2. calls' = [calls EXCEPT ![w] = c]
    BY <1>3 DEF InsertStart, IInv, TypeOK
  <2>3. QED
    BY <1>3, <2>1, <2>2, UnchangedFacts, ForgetStep DEF InsertStart, journal, erp
<1>4. CASE InsertObserved(w)
  <2> DEFINE c == [calls[w] EXCEPT !.pc = "insert_refresh", !.obs = source]
  <2>1. c \in Call /\ c.pc \notin Knowing
    BY RequestFacts DEF Call, Steps, Knowing
  <2>2. calls' = [calls EXCEPT ![w] = c]
    BY <1>4 DEF InsertObserved, IInv, TypeOK
  <2>3. QED
    BY <1>4, <2>1, <2>2, UnchangedFacts, ForgetStep DEF InsertObserved, journal, erp
<1>5. CASE InsertNotReady(w)
  BY <1>1, <1>5, UnchangedFacts, HoldStep DEF InsertNotReady, journal, erp
<1>6. CASE InsertRefresh(w)
  <2>1. CallOK([calls[w] EXCEPT !.pc = "insert_claim"])
    BY RequestFacts DEF CallOK, Call
  <2>2. "insert_claim" \in Steps \ {"insert_post"}
    BY DEF Steps
  <2>3. QED
    BY <1>6, <2>1, <2>2, RefreshStep DEF InsertRefresh
<1>7. CASE ClaimInsertDenied(w)
  BY <1>1, <1>7, UnchangedFacts, GotoStep DEF ClaimInsertDenied, journal, erp
<1>8. CASE InsertUnanswered(w)
  BY <1>1, <1>8, UnchangedFacts, HoldStep DEF InsertUnanswered, journal, erp
<1>9. QED
  BY <1>2, <1>3, <1>4, <1>5, <1>6, <1>7, <1>8

\* claim_insert: the marker is the first trace of the invoice; the request
\* that wrote it is the only one that may post.
LEMMA ClaimInsertStep ==
  ASSUME IInv, NEW w \in Workers, ClaimInsert(w)
  PROVE  IInv'
<1>1. /\ row.insert = 0 /\ row.version # 0 /\ row.binding = row.version /\ row.token # 0
      /\ row' = [row EXCEPT !.insert = row.binding, !.used = TRUE]
  BY DEF ClaimInsert, MayInsert, InsertAttempted, Bound, Prepared, ApprovalGranted,
         InsertClaimed, Payload
<1>2. row \in Row /\ row' \in Row
  BY <1>1, RequestFacts DEF Row
<1>3. /\ row'.insert = row.version /\ row'.version = row.version /\ row'.binding = row.version
      /\ row'.token = row.token /\ row'.used = TRUE /\ row'.draft = row.draft
      /\ row'.draftRev = row.draftRev /\ row'.submit = row.submit
      /\ row'.submitted = row.submitted /\ row'.conflict = row.conflict
  BY <1>1, <1>2 DEF Row
<1>4. /\ row.draft = 0 /\ row.submit = 0 /\ row.submitted = 0 /\ row.conflict = FALSE
      /\ Len(docs) = 0 /\ wire = {} /\ \A u \in Workers : calls[u].pc \notin Knowing
  BY <1>1, FreshFacts
<1>5. docs' = docs /\ wire' = wire /\ issued' = issued /\ tokens' = tokens /\ source' = source
      /\ restarts' = restarts
  BY DEF ClaimInsert, erp
<1>6. /\ calls' \in [Workers -> Call]
      /\ \A u \in Workers : u # w => calls'[u] = calls[u]
      /\ calls'[w].pc = "insert_post" => calls'[w].request = row'.insert
      /\ calls'[w].pc \in {"insert_post", "hold"}
  <2>1. calls[w] \in Call /\ calls \in [Workers -> Call]
    BY RequestFacts DEF IInv, TypeOK
  <2>2. CASE MarkedRequest(w)
    <3> DEFINE c == [calls[w] EXCEPT !.pc = "insert_post"]
    <3>1. calls' = [calls EXCEPT ![w] = c]
      BY <2>1, <2>2 DEF ClaimInsert, Goto
    <3>2. c \in Call /\ c.pc = "insert_post" /\ c.request = calls[w].request
      BY <2>1 DEF Call, Steps
    <3>3. calls'[w] = c
      BY <2>1, <3>1
    <3>4. QED
      BY <2>1, <2>2, <3>1, <3>2, <3>3 DEF MarkedRequest
  <2>3. CASE ~MarkedRequest(w)
    <3> DEFINE c == [calls[w] EXCEPT !.pc = "hold", !.kind = "UNKNOWN", !.back = "inserted"]
    <3>1. calls' = [calls EXCEPT ![w] = c]
      BY <2>1, <2>3 DEF ClaimInsert, Hold
    <3>2. c \in Call /\ c.pc = "hold"
      BY <2>1 DEF Call, Steps, Readbacks
    <3>3. QED
      BY <2>1, <3>1, <3>2
  <2>4. QED
    BY <2>2, <2>3
<1>7. TypeOK'
  BY <1>2, <1>5, <1>6 DEF IInv, TypeOK
<1>8. RowInv'
  BY <1>1, <1>3, <1>4 DEF IInv, RowInv
<1>9. DocInv'
  BY <1>3, <1>4, <1>5 DEF DocInv
<1>10. CallInv'
  <2>1. ASSUME NEW u \in Workers PROVE CallOK(calls[u])'
    BY <1>1, <1>3, <1>4, <1>5, <1>6 DEF CallOK, Knowing
  <2>2. QED
    BY <2>1 DEF CallInv
<1>11. WireInv' /\ OnceInv'
  BY <1>4, <1>5, <1>6 DEF WireInv, OnceInv, Posting, At, Knowing
<1>12. QED
  BY <1>7, <1>8, <1>9, <1>10, <1>11 DEF IInv

\* A step of a request that puts a message on the wire and goes on to wait.
LEMMA PostStep ==
  ASSUME IInv, NEW w \in Workers, NEW msg \in InsertPosts \cup SubmitPosts,
         NEW pc \in Steps \ Knowing, Goto(w, pc), wire' = wire \cup {msg}, MessageOK(msg),
         msg.kind = "insert" => Posting(w), UNCHANGED <<row, issued, tokens, source, docs, restarts>>
  PROVE  IInv'
<1> DEFINE c == [calls[w] EXCEPT !.pc = pc]
<1>1. calls' = [calls EXCEPT ![w] = c] /\ c \in Call /\ c.pc = pc /\ calls \in [Workers -> Call]
  BY RequestFacts DEF Goto, Call, IInv, TypeOK
<1> HIDE DEF c
<1>2. calls' \in [Workers -> Call] /\ calls'[w].pc = pc /\ \A u \in Workers : u # w => calls'[u] = calls[u]
  BY <1>1
<1>3. TypeOK'
  BY <1>2 DEF IInv, TypeOK
<1>4. RowInv' /\ DocInv'
  BY DEF IInv, RowInv, DocInv
<1>5. CallInv'
  <2>1. ASSUME NEW u \in Workers PROVE CallOK(calls[u])'
    <3>1. CASE u = w
      BY <1>2, <3>1 DEF CallOK, Knowing
    <3>2. CASE u # w
      BY <1>2, <3>2 DEF IInv, CallInv, CallOK
    <3>3. QED
      BY <3>1, <3>2
  <2>2. QED
    BY <2>1 DEF CallInv
<1>6. WireInv'
  BY DEF IInv, WireInv, MessageOK
<1>7. OnceInv'
  <2>1. \A u \in Workers : Posting(u)' => u # w /\ Posting(u)
    BY <1>2 DEF Posting, At, Knowing
  <2>2. msg.kind = "insert" => \A m \in wire : m.kind # "insert"
    BY DEF IInv, OnceInv
  <2>3. msg.kind = "insert" => \A u \in Workers : ~Posting(u)'
    BY <2>1 DEF IInv, OnceInv
  <2>4. QED
    BY <2>1, <2>2, <2>3 DEF IInv, OnceInv
<1>8. QED
  BY <1>3, <1>4, <1>5, <1>6, <1>7 DEF IInv

LEMMA InsertPostStep ==
  ASSUME IInv, NEW w \in Workers, InsertPost(w)
  PROVE  IInv'
<1> DEFINE msg == [kind |-> "insert", by |-> w, version |-> calls[w].request]
<1>1. row.insert # 0 /\ calls[w].request = row.insert /\ Len(docs) = 0
  BY DEF InsertPost, At, IInv, CallInv, CallOK
<1>2. row.insert \in Versions
  BY <1>1, RequestFacts DEF Row, Versions
<1>3. msg \in InsertPosts /\ msg.kind = "insert" /\ MessageOK(msg)
  BY <1>1, <1>2 DEF InsertPosts, MessageOK
<1>4. "insert_wait" \in Steps \ Knowing
  BY DEF Steps, Knowing
<1>5. QED
  BY <1>3, <1>4, PostStep DEF InsertPost, Posting, journal

LEMMA InsertAnsweredStep ==
  ASSUME IInv, NEW w \in Workers, InsertAnswered(w)
  PROVE  IInv'
<1>1. PICK msg \in wire :
         /\ msg.kind = "reply"
         /\ wire' = wire \ {msg}
         /\ calls' = [calls EXCEPT ![w].pc = "insert_admit", ![w].doc = msg.doc, ![w].rev = 0]
  BY DEF InsertAnswered
<1>2. msg.doc = 1 /\ Len(docs) = 1
  BY <1>1 DEF IInv, WireInv, MessageOK
<1> DEFINE c == [calls[w] EXCEPT !.pc = "insert_admit", !.doc = 1, !.rev = 0]
<1>3. calls' = [calls EXCEPT ![w] = c]
  BY <1>1, <1>2 DEF IInv, TypeOK
<1>4. c \in Call /\ c.pc = "insert_admit" /\ c.doc = 1 /\ c.rev = 0
  BY RequestFacts DEF Call, Steps
<1>5. CallOK(c)
  BY <1>2, <1>4 DEF CallOK
<1>6. QED
  BY <1>1, <1>3, <1>4, <1>5, UnchangedFacts, OwnStep DEF InsertAnswered, journal

\* The first acknowledgement names the one document; a second finds it admitted.
LEMMA AcknowledgeStep ==
  ASSUME IInv, NEW w \in Workers, AdmitInsertAcknowledgement(w)
  PROVE  /\ IInv'
         /\ row' = row \/ (row.draft = 0 /\ row.insert # 0 /\ row' = Enveloped(1, 0) /\ Len(docs) = 1)
<1>1. calls[w].doc = 1 /\ calls[w].rev = 0 /\ Len(docs) = 1
  BY DEF AdmitInsertAcknowledgement, At, IInv, CallInv, CallOK
<1>2. row.insert # 0 /\ row.insert = row.version /\ row.binding = row.version /\ row.draftRev = 0
  BY <1>1 DEF IInv, RowInv, DocInv
<1>3. row' = IF row.draft = 0 THEN Enveloped(1, 0) ELSE row
  <2>1. row' = DraftAdmitted(1, 0)
    BY <1>1 DEF AdmitInsertAcknowledgement
  <2>2. InsertAttempted /\ Bound /\ InsertMarkerMatches
    BY <1>2 DEF InsertAttempted, Bound, Prepared, InsertMarkerMatches
  <2>3. row.draft # 0 => row.draft = 1
    BY DEF IInv, RowInv
  <2>4. QED
    BY <1>2, <2>1, <2>2, <2>3 DEF DraftAdmitted
<1>4. "inserted" \in Steps \ Knowing /\ Goto(w, "inserted") /\ UNCHANGED <<issued, tokens, erp, restarts>>
  BY DEF Steps, Knowing, AdmitInsertAcknowledgement
<1>5. CASE row.draft # 0
  BY <1>3, <1>4, <1>5, UnchangedFacts, GotoStep DEF erp
<1>6. CASE row.draft = 0
  <2>1. row' = [row EXCEPT !.draft = 1, !.draftRev = 0, !.ackFor = row.version, !.readback = "DRAFT"]
    BY <1>3, <1>6 DEF Enveloped
  <2>2. row' \in Row
    BY <2>1, RequestFacts DEF Row, Readbacks
  <2>3. /\ row'.insert = row.insert /\ row'.version = row.version /\ row'.binding = row.binding
        /\ row'.token = row.token /\ row'.used = row.used /\ row'.draft = 1 /\ row'.draftRev = 0
        /\ row'.ackFor = row.version /\ row'.submit = row.submit
        /\ row'.submitted = row.submitted /\ row'.conflict = row.conflict
        /\ row'.finalRev = row.finalRev
    BY <2>1, RequestFacts DEF Row
  <2>4. row.submit = 0 /\ row.submitted = 0
    BY <1>6 DEF IInv, RowInv
  <2> DEFINE c == [calls[w] EXCEPT !.pc = "inserted"]
  <2>5. calls' = [calls EXCEPT ![w] = c] /\ c \in Call /\ c.pc = "inserted" /\ calls \in [Workers -> Call]
    BY <1>4, RequestFacts DEF Goto, Call, IInv, TypeOK
  <2> HIDE DEF c
  <2>6. calls' \in [Workers -> Call] /\ calls'[w].pc = "inserted" /\ \A u \in Workers : u # w => calls'[u] = calls[u]
    BY <2>5
  <2>7. docs' = docs /\ wire' = wire /\ source' = source /\ issued' = issued /\ tokens' = tokens /\ restarts' = restarts
    BY <1>4 DEF erp
  <2>8. TypeOK'
    BY <2>2, <2>6, <2>7 DEF IInv, TypeOK
  <2>9. RowInv'
    BY <1>2, <2>3, <2>4 DEF IInv, RowInv
  <2>10. DocInv'
    BY <1>1, <2>3, <2>4, <2>7 DEF IInv, DocInv
  <2>11. CallInv'
    <3>1. ASSUME NEW u \in Workers PROVE CallOK(calls[u])'
      <4>1. CASE u = w
        BY <2>6, <4>1 DEF CallOK
      <4>2. CASE u # w
        BY <2>3, <2>6, <2>7, <4>2 DEF IInv, CallInv, CallOK
      <4>3. QED
        BY <4>1, <4>2
    <3>2. QED
      BY <3>1 DEF CallInv
  <2>12. WireInv'
    BY <2>3, <2>7 DEF IInv, WireInv, MessageOK
  <2>13. OnceInv'
    BY <2>6, <2>7 DEF IInv, OnceInv, Posting, At
  <2>14. QED
    BY <1>1, <1>2, <1>3, <1>6, <2>8, <2>9, <2>10, <2>11, <2>12, <2>13 DEF IInv
<1>7. QED
  BY <1>3, <1>5, <1>6

LEMMA InsertReturnedStep ==
  ASSUME IInv, NEW w \in Workers, InsertReturned(w)
  PROVE  IInv'
<1>1. tokens' \in [Versions -> Nat]
  BY UnchangedFacts DEF InsertReturned
<1>2. CASE Return(w)
  BY <1>1, <1>2, UnchangedFacts, ReturnStep DEF InsertReturned, journal, erp
<1>3. CASE Enter(w, "submit_start", calls[w].mgr)
  <2>1. "submit_start" \in Steps \ Knowing /\ calls[w].mgr \in Managers \cup {NoManager}
    BY RequestFacts DEF Steps, Knowing
  <2>2. QED
    BY <1>1, <1>3, <2>1, UnchangedFacts, EnterStep DEF InsertReturned, journal, erp
<1>4. QED
  BY <1>2, <1>3 DEF InsertReturned

LEMMA InsertStepKeeps ==
  ASSUME IInv, NEW w \in Workers, InsertStep(w)
  PROVE  IInv'
BY InsertReadStep, ClaimInsertStep, InsertPostStep, InsertAnsweredStep, AcknowledgeStep,
   InsertReturnedStep DEF InsertStep

-----------------------------------------------------------------------------
(* coordinator.submit and coordinator._reconcile. *)

LEMMA SubmitReadStep ==
  ASSUME IInv, NEW w \in Workers,
         SubmitStart(w) \/ SubmitObserved(w) \/ SubmitNotReady(w) \/ SubmitRefresh(w)
           \/ ClaimSubmitDenied(w) \/ SubmitReturned(w)
  PROVE  IInv'
<1>1. /\ "reconcile_start" \in Steps \ Knowing
      /\ "UNKNOWN" \in Readbacks /\ "NO_HIT" \in Readbacks
      /\ NoManager \in Managers \cup {NoManager}
  BY DEF Steps, Knowing, Readbacks
<1>2. CASE SubmitStart(w) /\ Enter(w, "reconcile_start", NoManager)
  BY <1>1, <1>2, UnchangedFacts, EnterStep DEF SubmitStart, journal, erp
<1>3. CASE SubmitStart(w) /\ Return(w)
  BY <1>3, UnchangedFacts, ReturnStep DEF SubmitStart, journal, erp
<1>4. CASE /\ SubmitStart(w) /\ row.draft # 0
           /\ calls' = [calls EXCEPT ![w].pc = "submit_read", ![w].doc = row.draft,
                                     ![w].rev = row.draftRev]
  <2> DEFINE c == [calls[w] EXCEPT !.pc = "submit_read", !.doc = 1, !.rev = 0]
  <2>1. row.draft = 1 /\ row.draftRev = 0
    BY <1>4 DEF IInv, RowInv
  <2>2. c \in Call /\ c.pc = "submit_read" /\ c.doc = 1 /\ c.rev = 0
    <3>1. calls[w] \in Call
      BY RequestFacts
    <3>2. QED
      BY <2>1, <3>1 DEF Call, Steps
  <2>3. CallOK(c)
    BY <2>1, <2>2 DEF CallOK
  <2>4. calls' = [calls EXCEPT ![w] = c]
    BY <1>4, <2>1 DEF IInv, TypeOK
  <2>5. QED
    BY <1>4, <2>2, <2>3, <2>4, UnchangedFacts, OwnStep DEF SubmitStart, journal, erp
<1>5. CASE SubmitObserved(w)
  <2> DEFINE c == [calls[w] EXCEPT !.pc = "submit_refresh", !.obs = source]
  <2>1. calls[w].doc = 1 /\ calls[w].rev = 0 /\ row.draft = 1
    BY <1>5 DEF SubmitObserved, At, IInv, CallInv, CallOK
  <2>2. c \in Call /\ c.pc = "submit_refresh" /\ c.doc = 1 /\ c.rev = 0
    <3>1. calls[w] \in Call /\ source \in 0..MaxSource
      BY RequestFacts
    <3>2. QED
      BY <2>1, <3>1 DEF Call, Steps
  <2>3. CallOK(c)
    BY <2>1, <2>2 DEF CallOK
  <2>4. calls' = [calls EXCEPT ![w] = c]
    BY <1>5 DEF SubmitObserved, IInv, TypeOK
  <2>5. QED
    BY <1>5, <2>2, <2>3, <2>4, UnchangedFacts, OwnStep DEF SubmitObserved, journal, erp
<1>6. CASE SubmitNotReady(w)
  BY <1>1, <1>6, UnchangedFacts, HoldStep DEF SubmitNotReady, journal, erp
<1>7. CASE SubmitRefresh(w)
  <2> DEFINE c == [calls[w] EXCEPT !.pc = "submit_claim"]
  <2>1. calls[w].doc = 1 /\ calls[w].rev = 0 /\ row.draft = 1
    BY <1>7 DEF SubmitRefresh, RefreshFor, At, IInv, CallInv, CallOK
  <2>2. c.pc = "submit_claim" /\ c.doc = 1 /\ c.rev = 0
    BY <2>1, RequestFacts DEF Call
  <2>3. CallOK(c)
    BY <2>1, <2>2 DEF CallOK
  <2>4. "submit_claim" \in Steps \ {"insert_post"}
    BY DEF Steps
  <2>5. QED
    BY <1>7, <2>3, <2>4, RefreshStep DEF SubmitRefresh
<1>8. CASE ClaimSubmitDenied(w)
  BY <1>8, UnchangedFacts, ReturnStep DEF ClaimSubmitDenied, journal, erp
<1>9. CASE SubmitReturned(w)
  BY <1>1, <1>9, UnchangedFacts, EnterStep DEF SubmitReturned, journal, erp
<1>10. QED
  BY <1>2, <1>3, <1>4, <1>5, <1>6, <1>7, <1>8, <1>9 DEF SubmitStart

\* claim_submit: the marker names the acknowledged draft.
LEMMA ClaimSubmitStep ==
  ASSUME IInv, NEW w \in Workers, ClaimSubmit(w)
  PROVE  /\ IInv'
         /\ row.insert # 0 /\ row.draft = 1 /\ row.submit = 0 /\ ~Held
         /\ row' = [row EXCEPT !.submit = 1]
<1>1. /\ calls[w].doc = 1 /\ calls[w].rev = 0 /\ row.draft = 1
      /\ row.insert # 0 /\ row.submit = 0 /\ ~Held
  BY DEF ClaimSubmit, MaySubmit, InsertAttempted, SubmitAttempted, At, IInv, CallInv, CallOK
<1>2. row' = [row EXCEPT !.submit = 1]
  BY <1>1 DEF ClaimSubmit, SubmitClaimed, Payload
<1>3. row.submitted = 0 /\ Len(docs) = 1
  BY <1>1 DEF IInv, RowInv, DocInv
<1>4. row' \in Row
  BY <1>2, RequestFacts DEF Row
<1>5. /\ row'.insert = row.insert /\ row'.version = row.version /\ row'.binding = row.binding
      /\ row'.token = row.token /\ row'.used = row.used /\ row'.draft = row.draft
      /\ row'.draftRev = row.draftRev /\ row'.ackFor = row.ackFor /\ row'.submit = 1
      /\ row'.submitted = row.submitted /\ row'.conflict = row.conflict
      /\ row'.finalRev = row.finalRev
  BY <1>2, RequestFacts DEF Row
<1> DEFINE c == [calls[w] EXCEPT !.pc = "submit_post"]
<1>6. /\ calls' = [calls EXCEPT ![w] = c] /\ c \in Call /\ c.pc = "submit_post"
      /\ c.doc = 1 /\ c.rev = 0 /\ calls \in [Workers -> Call]
  BY <1>1, RequestFacts DEF ClaimSubmit, Goto, Call, Steps, IInv, TypeOK
<1> HIDE DEF c
<1>7. /\ calls' \in [Workers -> Call] /\ calls'[w] = c
      /\ \A u \in Workers : u # w => calls'[u] = calls[u]
  BY <1>6
<1>8. /\ docs' = docs /\ wire' = wire /\ source' = source /\ issued' = issued /\ tokens' = tokens
      /\ restarts' = restarts
  BY DEF ClaimSubmit, erp
<1>9. TypeOK'
  BY <1>4, <1>7, <1>8 DEF IInv, TypeOK
<1>10. RowInv'
  BY <1>1, <1>3, <1>5 DEF IInv, RowInv
<1>11. DocInv'
  BY <1>5, <1>8 DEF IInv, DocInv
<1>12. CallInv'
  <2>1. ASSUME NEW u \in Workers PROVE CallOK(calls[u])'
    <3>1. CASE u = w
      BY <1>1, <1>5, <1>6, <1>7, <3>1 DEF CallOK
    <3>2. CASE u # w
      BY <1>5, <1>7, <1>8, <3>2 DEF IInv, CallInv, CallOK
    <3>3. QED
      BY <3>1, <3>2
  <2>2. QED
    BY <2>1 DEF CallInv
<1>13. WireInv'
  BY <1>5, <1>8 DEF IInv, WireInv, MessageOK
<1>14. OnceInv'
  BY <1>6, <1>7, <1>8 DEF IInv, OnceInv, Posting, At
<1>15. QED
  BY <1>1, <1>2, <1>9, <1>10, <1>11, <1>12, <1>13, <1>14 DEF IInv

LEMMA SubmitPostStep ==
  ASSUME IInv, NEW w \in Workers, SubmitPost(w)
  PROVE  IInv'
<1> DEFINE msg == [kind |-> "submit", doc |-> calls[w].doc, rev |-> calls[w].rev]
<1>1. row.submit # 0 /\ calls[w].doc = 1 /\ calls[w].rev = 0
  BY DEF SubmitPost, At, IInv, CallInv, CallOK
<1>2. msg \in SubmitPosts /\ msg.kind = "submit" /\ MessageOK(msg)
  BY <1>1 DEF SubmitPosts, MessageOK
<1>3. "submit_wait" \in Steps \ Knowing
  BY DEF Steps, Knowing
<1>4. QED
  BY <1>2, <1>3, PostStep DEF SubmitPost, journal

LEMMA SubmitStepKeeps ==
  ASSUME IInv, NEW w \in Workers, SubmitStep(w)
  PROVE  IInv'
BY SubmitReadStep, ClaimSubmitStep, SubmitPostStep DEF SubmitStep

LEMMA ReconcileReadStep ==
  ASSUME IInv, NEW w \in Workers,
         ReconcileStart(w) \/ ReconcileObserved(w) \/ ReconcileNotRead(w)
  PROVE  IInv'
<1>1. "UNKNOWN" \in Readbacks /\ "NO_HIT" \in Readbacks
  BY DEF Readbacks
<1>2. CASE ReconcileStart(w) /\ Return(w)
  BY <1>2, UnchangedFacts, ReturnStep DEF ReconcileStart, journal, erp
<1>3. CASE /\ ReconcileStart(w) /\ row.submit # 0 /\ row.draft # 0
           /\ calls' = [calls EXCEPT ![w].pc = "reconcile_read", ![w].doc = row.draft]
  <2> DEFINE c == [calls[w] EXCEPT !.pc = "reconcile_read", !.doc = row.draft]
  <2>1. row.draft = 1
    BY <1>3 DEF IInv, RowInv
  <2>2. c \in Call /\ c.pc = "reconcile_read" /\ c.doc = 1
    BY <2>1, RequestFacts DEF Call, Steps
  <2>3. CallOK(c)
    BY <1>3, <2>1, <2>2 DEF CallOK
  <2>4. calls' = [calls EXCEPT ![w] = c]
    BY <1>3 DEF IInv, TypeOK
  <2>5. QED
    BY <1>3, <2>2, <2>3, <2>4, UnchangedFacts, OwnStep DEF ReconcileStart, journal, erp
<1>4. CASE ReconcileObserved(w)
  <2> DEFINE c == [calls[w] EXCEPT !.pc = "reconcile_admit", !.rev = docs[calls[w].doc].rev]
  <2>1. calls[w].doc = 1 /\ row.submit # 0
    BY <1>4 DEF ReconcileObserved, At, IInv, CallInv, CallOK
  <2>2. Len(docs) = 1 /\ docs[1].status = "submitted" /\ docs[1].rev \in Nat
    <3>1. 1 \in DOMAIN docs /\ docs[1].status = "submitted"
      BY <1>4, <2>1 DEF ReconcileObserved, Linked
    <3>2. QED
      BY <3>1, DocFacts DEF Doc
  <2>3. c \in Call /\ c.pc = "reconcile_admit" /\ c.doc = 1 /\ c.rev = docs[1].rev
    BY <2>1, <2>2, RequestFacts DEF Call, Steps
  <2>4. CallOK(c)
    BY <2>1, <2>2, <2>3 DEF CallOK
  <2>5. calls' = [calls EXCEPT ![w] = c]
    BY <1>4 DEF ReconcileObserved, IInv, TypeOK
  <2>6. QED
    BY <1>4, <2>3, <2>4, <2>5, UnchangedFacts, OwnStep DEF ReconcileObserved, journal, erp
<1>5. CASE ReconcileNotRead(w)
  BY <1>1, <1>5, UnchangedFacts, HoldStep DEF ReconcileNotRead, journal, erp
<1>6. QED
  BY <1>2, <1>3, <1>4, <1>5 DEF ReconcileStart

\* The first submitted readback is of the one document; a later one that
\* differs from it is of a document another user changed.
LEMMA ReadbackStep ==
  ASSUME IInv, NEW w \in Workers, AdmitSubmittedReadback(w)
  PROVE  /\ IInv'
         /\ row'.insert = row.insert /\ row'.draft = row.draft /\ row'.submit = row.submit
         /\ row.submitted # 0 => row'.submitted = row.submitted
         /\ row'.submitted # 0 =>
              row.draft # 0 /\ row.submit # 0 /\ Len(docs) = 1 /\ docs[1].status = "submitted"
         /\ Held => Held'
<1> DEFINE f == calls[w].rev
<1>1. /\ calls[w].doc = 1 /\ row.submit # 0 /\ Len(docs) = 1
      /\ docs[1].status = "submitted" /\ f <= docs[1].rev
  BY DEF AdmitSubmittedReadback, At, IInv, CallInv, CallOK
<1>2. /\ row.draft = 1 /\ row.submit = 1 /\ row.insert # 0 /\ row.insert = row.version
      /\ row.binding = row.version /\ row.draftRev = 0 /\ row.ackFor = row.version
      /\ row.submitted \in {0, 1}
  <2>1. row.draft # 0
    BY <1>1 DEF IInv, RowInv
  <2>2. QED
    BY <1>1, <2>1 DEF IInv, RowInv
<1>3. f \in Nat /\ docs[1].rev \in Nat /\ row.finalRev \in Nat
  BY <1>1, RequestFacts, DocFacts DEF Call, Doc, Row
<1>4. row' = IF row.submitted = 0
             THEN [row EXCEPT !.submitted = 1, !.finalRev = f, !.readback = "SUBMITTED"]
             ELSE IF f # row.finalRev THEN IdentityConflict
             ELSE [row EXCEPT !.readback = "SUBMITTED"]
  <2>1. row' = SubmittedAdmitted(1, 0, f)
    BY <1>1, <1>2 DEF AdmitSubmittedReadback
  <2>2. SubmitAttempted /\ Acknowledged /\ SubmitMarkerMatches
    BY <1>2 DEF SubmitAttempted, Acknowledged, SubmitMarkerMatches, Bound, Prepared,
                InsertMarkerMatches, InsertAttempted
  <2>3. QED
    BY <1>2, <2>1, <2>2 DEF SubmittedAdmitted
<1> HIDE DEF f
<1>5. row \in Row /\ "SUBMITTED" \in Readbacks
  BY RequestFacts DEF Readbacks
<1>6. row' \in Row
  BY <1>3, <1>4, <1>5 DEF Row, IdentityConflict
<1>7. /\ row'.insert = row.insert /\ row'.version = row.version /\ row'.binding = row.binding
      /\ row'.token = row.token /\ row'.used = row.used /\ row'.draft = row.draft
      /\ row'.draftRev = row.draftRev /\ row'.ackFor = row.ackFor /\ row'.submit = row.submit
      /\ row'.changed = row.changed /\ row'.refused = row.refused
  BY <1>4, <1>5 DEF Row, IdentityConflict
<1>8. /\ row'.submitted = 1
      /\ row.submitted = 0 => row'.finalRev = f /\ row'.conflict = row.conflict
      /\ row.submitted # 0 => row'.finalRev = row.finalRev
      /\ row.submitted # 0 /\ row'.conflict => row.conflict \/ f # row.finalRev
      /\ row.conflict => row'.conflict
  BY <1>2, <1>4, <1>5 DEF Row, IdentityConflict
<1>9. /\ docs' = docs /\ wire' = wire /\ source' = source /\ issued' = issued /\ tokens' = tokens
      /\ restarts' = restarts
  BY DEF AdmitSubmittedReadback, erp
<1>10. /\ calls' \in [Workers -> Call] /\ calls'[w].pc = "idle"
       /\ \A u \in Workers : u # w => calls'[u] = calls[u]
  BY IdleOK DEF AdmitSubmittedReadback, Return, IInv, TypeOK, Idle
<1>11. TypeOK'
  BY <1>6, <1>9, <1>10 DEF IInv, TypeOK
<1>12. RowInv'
  BY <1>2, <1>7, <1>8 DEF IInv, RowInv
<1>13. DocInv'
  <2>1. row.submitted # 0 => row.finalRev <= docs[1].rev
    BY DEF IInv, DocInv
  <2>2. row'.finalRev <= docs[1].rev
    BY <1>1, <1>8, <2>1
  <2>3. row'.conflict => docs[1].rev > 0
    <3>1. CASE row.conflict
      BY <3>1 DEF IInv, DocInv
    <3>2. CASE ~row.conflict /\ row'.conflict
      <4>1. row.submitted # 0
        BY <1>8, <3>2
      <4>2. f # row.finalRev
        BY <1>8, <3>2, <4>1
      <4>3. QED
        BY <1>1, <1>3, <2>1, <4>1, <4>2
    <3>3. QED
      BY <3>1, <3>2
  <2>4. QED
    BY <1>1, <1>2, <1>7, <1>9, <2>2, <2>3 DEF IInv, DocInv
<1>14. CallInv'
  <2>1. ASSUME NEW u \in Workers PROVE CallOK(calls[u])'
    <3>1. CASE u = w
      BY <1>10, <3>1 DEF CallOK
    <3>2. CASE u # w
      BY <1>7, <1>9, <1>10, <3>2 DEF IInv, CallInv, CallOK
    <3>3. QED
      BY <3>1, <3>2
  <2>2. QED
    BY <2>1 DEF CallInv
<1>15. WireInv'
  BY <1>7, <1>9 DEF IInv, WireInv, MessageOK
<1>16. OnceInv'
  BY <1>9, <1>10 DEF IInv, OnceInv, Posting, At
<1>17. IInv'
  BY <1>11, <1>12, <1>13, <1>14, <1>15, <1>16 DEF IInv
<1>18. Held => Held'
  BY <1>7, <1>8 DEF Held
<1>19. QED
  BY <1>1, <1>2, <1>7, <1>8, <1>17, <1>18

LEMMA ReconcileStepKeeps ==
  ASSUME IInv, NEW w \in Workers, ReconcileStep(w)
  PROVE  IInv'
BY ReconcileReadStep, ReadbackStep DEF ReconcileStep

-----------------------------------------------------------------------------
(* The ERP, its users, the journal's other callers and the server. *)

\* The ERP executes the one insert: the first document.
LEMMA ErpInsertStep ==
  ASSUME IInv, ErpInsert
  PROVE  /\ IInv'
         /\ docs = <<>> /\ Len(docs') = 1 /\ docs'[1].status = "draft" /\ row.insert # 0
<1>1. PICK msg \in wire :
         /\ msg.kind = "insert"
         /\ docs' = Append(docs, [version |-> msg.version, status |-> "draft", rev |-> 0])
         /\ wire' = (wire \ {msg}) \cup {[kind |-> "reply", by |-> msg.by, doc |-> Len(docs) + 1]}
  BY DEF ErpInsert
<1>2. row.insert # 0 /\ msg.version = row.insert /\ Len(docs) = 0
  BY <1>1 DEF IInv, WireInv, MessageOK
<1>3. msg.by \in Workers /\ msg.version \in Versions
  BY <1>1, KindFacts DEF InsertPosts
<1> DEFINE d == [version |-> msg.version, status |-> "draft", rev |-> 0]
           rep == [kind |-> "reply", by |-> msg.by, doc |-> 1]
<1>4. d \in Doc /\ d.version = row.insert /\ d.status = "draft"
  BY <1>2, <1>3 DEF Doc
<1>5. docs = <<>>
  BY <1>2, DocFacts
<1>6. docs' = Append(docs, d) /\ wire' = (wire \ {msg}) \cup {rep}
  BY <1>1, <1>2
<1>7. rep \in InsertReplies /\ rep.kind = "reply" /\ rep.doc = 1
  BY <1>3 DEF InsertReplies
<1> HIDE DEF d, rep
<1>8. docs' \in Seq(Doc) /\ Len(docs') = 1 /\ docs'[1] = d
  BY <1>2, <1>4, <1>6, DocFacts
<1>9. /\ row' = row /\ issued' = issued /\ calls' = calls /\ tokens' = tokens /\ source' = source
      /\ restarts' = restarts
  BY DEF ErpInsert, journal
<1>10. /\ row.draft = 0 /\ row.submitted = 0 /\ row.conflict = FALSE
  <2>1. row.draft = 0 /\ ~row.conflict
    BY <1>2 DEF IInv, DocInv
  <2>2. row.submit = 0
    BY <2>1 DEF IInv, RowInv
  <2>3. row.conflict \in BOOLEAN
    BY DEF IInv, TypeOK, Row
  <2>4. QED
    BY <2>1, <2>2, <2>3 DEF IInv, RowInv
<1>11. \A u \in Workers : calls[u].pc # "insert_post"
  BY <1>1 DEF IInv, OnceInv, Posting, At
<1>12. TypeOK'
  BY <1>6, <1>7, <1>8, <1>9 DEF IInv, TypeOK
<1>13. RowInv'
  BY <1>9 DEF IInv, RowInv
<1>14. DocInv'
  BY <1>2, <1>4, <1>8, <1>9, <1>10 DEF DocInv
<1>15. CallInv'
  BY <1>2, <1>8, <1>9, <1>11 DEF IInv, CallInv, CallOK
<1>16. WireInv'
  <2>1. \A m \in wire \ {msg} : m.kind # "insert" /\ MessageOK(m)
    BY <1>1 DEF IInv, OnceInv, WireInv
  <2>2. ASSUME NEW m \in wire \ {msg} PROVE MessageOK(m)'
    BY <1>2, <1>9, <2>1 DEF MessageOK
  <2>3. MessageOK(rep)'
    BY <1>7, <1>8 DEF MessageOK
  <2>4. QED
    BY <1>6, <2>2, <2>3 DEF WireInv
<1>17. OnceInv'
  <2>1. \A m \in wire' : m.kind # "insert"
    BY <1>1, <1>6, <1>7 DEF IInv, OnceInv
  <2>2. QED
    BY <1>9, <1>11, <2>1 DEF OnceInv, Posting, At
<1>18. QED
  BY <1>2, <1>4, <1>5, <1>8, <1>12, <1>13, <1>14, <1>15, <1>16, <1>17 DEF IInv

\* A submit message finds the draft not yet submitted: no readback was admitted.
LEMMA ErpSubmitStep ==
  ASSUME IInv, ErpSubmit
  PROVE  /\ IInv'
         /\ Len(docs) = 1 /\ Len(docs') = 1 /\ docs[1].status = "draft"
         /\ docs'[1].status = "submitted" /\ row.submit # 0
<1>1. PICK msg \in wire :
         /\ msg.kind = "submit"
         /\ msg.doc \in Linked /\ docs[msg.doc].status = "draft"
         /\ docs' = [docs EXCEPT ![msg.doc].status = "submitted", ![msg.doc].rev = msg.rev]
         /\ wire' = wire \ {msg}
  BY DEF ErpSubmit
<1>2. row.submit # 0 /\ msg.doc = 1 /\ msg.rev = 0
  BY <1>1 DEF IInv, WireInv, MessageOK
<1>3. Len(docs) = 1 /\ docs[1] \in Doc /\ docs \in Seq(Doc) /\ docs[1].status = "draft"
  BY <1>1, <1>2, DocFacts DEF Linked
<1> DEFINE d == [docs[1] EXCEPT !.status = "submitted", !.rev = 0]
<1>4. d \in Doc /\ d.version = docs[1].version /\ d.status = "submitted"
  BY <1>3 DEF Doc
<1>5. docs' = [docs EXCEPT ![1] = d]
  BY <1>1, <1>2, <1>3
<1> HIDE DEF d
<1>6. docs' \in Seq(Doc) /\ Len(docs') = 1 /\ docs'[1] = d
  BY <1>3, <1>4, <1>5
<1>7. /\ row' = row /\ issued' = issued /\ calls' = calls /\ tokens' = tokens /\ source' = source
      /\ restarts' = restarts
  BY DEF ErpSubmit, journal
<1>8. row.submitted = 0 /\ ~row.conflict /\ \A u \in Workers : calls[u].pc # "reconcile_admit"
  BY <1>3 DEF IInv, DocInv, CallInv, CallOK
<1>9. TypeOK'
  BY <1>1, <1>6, <1>7 DEF IInv, TypeOK
<1>10. RowInv'
  BY <1>7 DEF IInv, RowInv
<1>11. DocInv'
  BY <1>3, <1>4, <1>6, <1>7, <1>8 DEF IInv, DocInv
<1>12. CallInv'
  BY <1>3, <1>6, <1>7, <1>8 DEF IInv, CallInv, CallOK
<1>13. WireInv'
  BY <1>1, <1>3, <1>6, <1>7 DEF IInv, WireInv, MessageOK
<1>14. OnceInv'
  BY <1>1, <1>7 DEF IInv, OnceInv, Posting, At
<1>15. QED
  BY <1>2, <1>3, <1>4, <1>6, <1>9, <1>10, <1>11, <1>12, <1>13, <1>14 DEF IInv

\* Another user edits the document, or deletes it while it is a draft.
LEMMA InvoiceEditedStep ==
  ASSUME IInv, InvoiceEdited
  PROVE  /\ IInv'
         /\ Len(docs) = 1 /\ Len(docs') = 1
         /\ \/ docs'[1].status = docs[1].status
            \/ docs[1].status = "draft" /\ docs'[1].status = "deleted"
<1>1. PICK n \in Linked :
         \/ docs' = [docs EXCEPT ![n].rev = @ + 1]
         \/ docs[n].status = "draft" /\ docs' = [docs EXCEPT ![n].status = "deleted"]
  BY DEF InvoiceEdited
<1>2. n = 1 /\ Len(docs) = 1 /\ docs[1] \in Doc /\ docs \in Seq(Doc)
  BY DocFacts DEF Linked
<1>3. PICK d \in Doc :
         /\ docs' = [docs EXCEPT ![1] = d]
         /\ d.version = docs[1].version /\ d.rev >= docs[1].rev
         /\ \/ d.status = docs[1].status
            \/ docs[1].status = "draft" /\ d.status = "deleted"
  <2>1. CASE docs' = [docs EXCEPT ![n].rev = @ + 1]
    <3> DEFINE d == [docs[1] EXCEPT !.rev = docs[1].rev + 1]
    <3>1. d \in Doc /\ d.version = docs[1].version /\ d.rev >= docs[1].rev /\ d.status = docs[1].status
      BY <1>2 DEF Doc
    <3>2. docs' = [docs EXCEPT ![1] = d]
      BY <1>2, <2>1
    <3>3. QED
      BY <3>1, <3>2
  <2>2. CASE docs[n].status = "draft" /\ docs' = [docs EXCEPT ![n].status = "deleted"]
    <3> DEFINE d == [docs[1] EXCEPT !.status = "deleted"]
    <3>1. d \in Doc /\ d.version = docs[1].version /\ d.rev >= docs[1].rev /\ d.status = "deleted"
      BY <1>2 DEF Doc
    <3>2. docs' = [docs EXCEPT ![1] = d]
      BY <1>2, <2>2
    <3>3. QED
      BY <1>2, <2>2, <3>1, <3>2
  <2>3. QED
    BY <1>1, <2>1, <2>2
<1>4. docs' \in Seq(Doc) /\ Len(docs') = 1 /\ docs'[1] = d
  BY <1>2, <1>3
<1>5. /\ row' = row /\ issued' = issued /\ calls' = calls /\ tokens' = tokens /\ source' = source
      /\ restarts' = restarts /\ wire' = wire
  BY DEF InvoiceEdited, journal
<1>6. TypeOK'
  BY <1>4, <1>5 DEF IInv, TypeOK
<1>7. RowInv'
  BY <1>5 DEF IInv, RowInv
<1>8. docs[1].rev \in Nat /\ d.rev \in Nat /\ row.finalRev \in Nat
  BY <1>2, <1>3 DEF Doc, IInv, TypeOK, Row
<1>9. DocInv'
  <2>1. row.submitted # 0 => d.status = "submitted" /\ row.finalRev <= d.rev
    BY <1>3, <1>8 DEF IInv, DocInv
  <2>2. row.conflict => d.status = "submitted" /\ d.rev > 0
    BY <1>3, <1>8 DEF IInv, DocInv
  <2>3. QED
    BY <1>2, <1>3, <1>4, <1>5, <2>1, <2>2 DEF IInv, DocInv
<1>10. CallInv'
  <2>1. ASSUME NEW u \in Workers PROVE CallOK(calls[u])'
    <3>1. calls[u].rev \in Nat
      BY RequestFacts DEF Call
    <3>2. calls[u].pc = "reconcile_admit" => d.status = "submitted" /\ calls[u].rev <= d.rev
      BY <1>3, <1>8, <3>1 DEF IInv, CallInv, CallOK
    <3>3. QED
      BY <1>2, <1>4, <1>5, <3>2 DEF IInv, CallInv, CallOK
  <2>2. QED
    BY <2>1 DEF CallInv
<1>11. WireInv'
  BY <1>2, <1>4, <1>5 DEF IInv, WireInv, MessageOK
<1>12. OnceInv'
  BY <1>5 DEF IInv, OnceInv, Posting, At
<1>13. QED
  BY <1>2, <1>3, <1>4, <1>6, <1>7, <1>9, <1>10, <1>11, <1>12 DEF IInv

\* A refusal and the passing of the deadline set one flag.
LEMMA JournalOnlyStep ==
  ASSUME IInv, JournalOnly
  PROVE  IInv'
<1>1. CASE \E r \in 1..source : Reprepare(r)
  BY <1>1, ReprepareStep DEF JournalOnly
<1>2. CASE (\E m \in Managers : Refuse(m)) \/ Expire
  <2>1. row' = [row EXCEPT !.refused = TRUE] \/ row' = [row EXCEPT !.expired = TRUE]
    BY <1>2 DEF Refuse, Expire
  <2>2. row' \in Row /\ Kept
    BY <2>1, UnchangedFacts DEF Row, Kept
  <2>3. issued' = issued /\ UNCHANGED <<calls, tokens, erp, restarts>>
    BY <1>2 DEF Refuse, Expire, JournalOnly
  <2>4. /\ calls' \in [Workers -> Call] /\ source' \in 1..MaxSource /\ restarts' \in 0..MaxRestarts
        /\ docs' = docs /\ wire' \subseteq wire /\ \A u \in Workers : calls'[u] = calls[u]
    BY <2>3 DEF erp, IInv, TypeOK
  <2>5. QED
    BY <2>2, <2>3, <2>4, UnchangedFacts, QuietStep
<1>3. QED
  BY <1>1, <1>2 DEF JournalOnly

LEMMA EnvironmentStep ==
  ASSUME IInv, Environment
  PROVE  IInv'
<1>1. CASE ErpLoss
  <2>1. /\ calls' \in [Workers -> Call] /\ source' \in 1..MaxSource /\ restarts' \in 0..MaxRestarts
        /\ docs' = docs /\ wire' \subseteq wire /\ \A u \in Workers : calls'[u] = calls[u]
        /\ row' = row /\ issued' = issued /\ tokens' = tokens
    BY <1>1 DEF ErpLoss, journal, IInv, TypeOK
  <2>2. QED
    BY <2>1, UnchangedFacts, QuietStep
<1>2. CASE SourceEdited
  <2>1. source' \in 1..MaxSource
    BY <1>2, JournalBoundAssumption DEF SourceEdited, IInv, TypeOK
  <2>2. /\ calls' \in [Workers -> Call] /\ restarts' \in 0..MaxRestarts
        /\ docs' = docs /\ wire' \subseteq wire /\ \A u \in Workers : calls'[u] = calls[u]
        /\ row' = row /\ issued' = issued /\ tokens' = tokens
    BY <1>2 DEF SourceEdited, journal, IInv, TypeOK
  <2>3. QED
    BY <2>1, <2>2, UnchangedFacts, QuietStep
<1>3. CASE Restart
  <2>1. restarts' \in 0..MaxRestarts /\ source' \in 1..MaxSource
    BY <1>3, BillingBoundAssumption DEF Restart, erp, IInv, TypeOK
  <2>2. /\ docs' = docs /\ wire' \subseteq wire /\ row' = row /\ issued' = issued
        /\ tokens' \in [Versions -> Nat] /\ calls' = [w \in Workers |-> Idle]
    BY <1>3 DEF Restart, journal, erp
  <2>3. /\ calls' \in [Workers -> Call]
        /\ \A u \in Workers : CallOK(calls'[u]) /\ calls'[u].pc # "insert_post"
    BY <2>2, IdleOK
  <2>4. QED
    BY <2>1, <2>2, <2>3, UnchangedFacts, QuietStep
<1>4. QED
  BY <1>1, <1>2, <1>3, ErpInsertStep, ErpSubmitStep, InvoiceEditedStep, JournalOnlyStep
  DEF Environment

-----------------------------------------------------------------------------
(* The invariant, and what it implies. *)

LEMMA InitInv == Init => IInv
<1> SUFFICES ASSUME Init PROVE IInv
  OBVIOUS
<1>1. TypeOK
  <2>1. Unprepared \in Row
    BY JournalBoundAssumption DEF Unprepared, Row, Readbacks
  <2>2. QED
    BY <2>1, IdleOK, JournalBoundAssumption, BillingBoundAssumption DEF Init, JournalInit, TypeOK
<1>2. RowInv /\ DocInv
  BY DEF Init, JournalInit, Unprepared, RowInv, DocInv
<1>3. CallInv /\ WireInv /\ OnceInv
  BY IdleOK DEF Init, CallInv, WireInv, OnceInv, Posting, At
<1>4. QED
  BY <1>1, <1>2, <1>3 DEF IInv

LEMMA NextInv == IInv /\ [Next]_vars => IInv'
<1> SUFFICES ASSUME IInv, [Next]_vars PROVE IInv'
  OBVIOUS
<1>1. CASE UNCHANGED vars
  BY <1>1 DEF vars, IInv, TypeOK, RowInv, DocInv, CallInv, CallOK, WireInv, MessageOK, OnceInv,
              Posting, At
<1>2. CASE Environment
  BY <1>2, EnvironmentStep
<1>3. ASSUME NEW w \in Workers, Begin(w) \/ Step(w)
      PROVE  IInv'
  BY <1>3, BeginStep, PrepareIntentStep, ApproveStep, InsertStepKeeps, SubmitStepKeeps,
     ReconcileStepKeeps, RecordHoldStep DEF Step
<1>4. QED
  BY <1>1, <1>2, <1>3 DEF Next

\* The inductive invariant holds of every reachable state, for any number of
\* workers, managers, versions, edits and restarts.
THEOREM Invariance == Spec => []IInv
<1>1. Init => IInv
  BY InitInv
<1>2. IInv /\ [Next]_vars => IInv'
  BY NextInv
<1>3. QED
  BY <1>1, <1>2, PTL DEF Spec

\* The state keeps its shape under every operation of coordinator and console.
THEOREM TypeCorrect == Spec => []TypeOK
<1>1. IInv => TypeOK
  BY DEF IInv
<1>2. QED
  BY <1>1, Invariance, PTL

\* Every Purchase Invoice the ERP holds is of the version a manager approved,
\* whose token is spent: no thread, retry or restart inserts another one.
THEOREM InvoiceApproved == Spec => []InvoiceIsApproved
<1>1. IInv => InvoiceIsApproved
  <2> SUFFICES ASSUME IInv, NEW n \in DOMAIN docs
               PROVE  /\ docs[n].version = row.insert /\ row.insert = row.version
                      /\ row.token # 0 /\ row.used
    BY DEF InvoiceIsApproved
  <2>1. n = 1 /\ Len(docs) = 1
    BY DocFacts
  <2>2. QED
    BY <2>1 DEF IInv, RowInv, DocInv
<1>2. QED
  BY <1>1, Invariance, PTL

\* An identity conflict is raised only when another user changed the invoice.
THEOREM ConflictIsEdited == Spec => []ConflictMeansEdited
<1>1. IInv => ConflictMeansEdited
  BY DocFacts DEF ConflictMeansEdited, IInv, DocInv, RowInv
<1>2. QED
  BY <1>1, Invariance, PTL

-----------------------------------------------------------------------------
(* What each step may do to the markers. *)

\* A step that neither writes nor loses a marker, a document or a hold.
MarkersKept ==
  /\ row'.insert = row.insert /\ row'.draft = row.draft
  /\ row'.submit = row.submit /\ row'.submitted = row.submitted
  /\ docs' = docs
  /\ row.insert # 0 /\ Held => Held'

\* The steps of a request that do not write the journal.
ReadsJournal(w) ==
  \/ Begin(w) \/ ApproveDenied(w) \/ KeepToken(w)
  \/ InsertStart(w) \/ InsertObserved(w) \/ InsertNotReady(w) \/ ClaimInsertDenied(w)
  \/ InsertPost(w) \/ InsertAnswered(w) \/ InsertUnanswered(w) \/ InsertReturned(w)
  \/ SubmitStart(w) \/ SubmitObserved(w) \/ SubmitNotReady(w) \/ ClaimSubmitDenied(w)
  \/ SubmitPost(w) \/ SubmitReturned(w)
  \/ ReconcileStart(w) \/ ReconcileObserved(w) \/ ReconcileNotRead(w)

\* The steps that write columns which are not markers.
WritesNoMarker(w) ==
  PrepareIntent(w) \/ ApproveGranted(w) \/ InsertRefresh(w) \/ SubmitRefresh(w) \/ RecordHold(w)

\* The steps that write one.
WritesMarker(w) ==
  \/ ClaimInsert(w) \/ AdmitInsertAcknowledgement(w)
  \/ ClaimSubmit(w) \/ AdmitSubmittedReadback(w)

LEMMA StepKinds ==
  ASSUME NEW w \in Workers, Begin(w) \/ Step(w)
  PROVE  ReadsJournal(w) \/ WritesNoMarker(w) \/ WritesMarker(w)
BY DEF Step, InsertStep, SubmitStep, ReconcileStep, ReadsJournal, WritesNoMarker, WritesMarker

LEMMA ReadsKeep ==
  ASSUME NEW w \in Workers, ReadsJournal(w)
  PROVE  row' = row /\ docs' = docs
<1>1. CASE Begin(w) \/ ApproveDenied(w) \/ KeepToken(w)
  BY <1>1 DEF Begin, PrepareStart, ReconcileCall, ApproveStart, ExecuteStart, ApproveDenied,
              KeepToken, journal, erp
<1>2. CASE \/ InsertStart(w) \/ InsertObserved(w) \/ InsertNotReady(w) \/ ClaimInsertDenied(w)
           \/ InsertPost(w) \/ InsertAnswered(w) \/ InsertUnanswered(w) \/ InsertReturned(w)
  BY <1>2 DEF InsertStart, InsertObserved, InsertNotReady, ClaimInsertDenied, InsertPost,
              InsertAnswered, InsertUnanswered, InsertReturned, journal, erp
<1>3. CASE \/ SubmitStart(w) \/ SubmitObserved(w) \/ SubmitNotReady(w) \/ ClaimSubmitDenied(w)
           \/ SubmitPost(w) \/ SubmitReturned(w)
           \/ ReconcileStart(w) \/ ReconcileObserved(w) \/ ReconcileNotRead(w)
  BY <1>3 DEF SubmitStart, SubmitObserved, SubmitNotReady, ClaimSubmitDenied, SubmitPost,
              SubmitReturned, ReconcileStart, ReconcileObserved, ReconcileNotRead, journal, erp
<1>4. QED
  BY <1>1, <1>2, <1>3 DEF ReadsJournal

\* A row with other flags, token or readback has the same markers.
LEMMA WritesKeep ==
  ASSUME IInv, NEW w \in Workers, WritesNoMarker(w)
  PROVE  MarkersKept
<1>1. CASE PrepareIntent(w)
  <2>1. CASE Prepared
    BY <1>1, <2>1 DEF PrepareIntent, PrepareRow, ExistingKept, MarkersKept, Held, erp
  <2>2. CASE ~Prepared
    <3>1. row.insert = 0
      BY <2>2 DEF Prepared, IInv, RowInv
    <3>2. row' = NewVersion(1, calls[w].obs)
      BY <1>1, <2>2 DEF PrepareIntent, PrepareRow
    <3>3. row'.insert = 0 /\ row'.draft = 0 /\ row'.submit = 0 /\ row'.submitted = 0
      BY <3>2 DEF NewVersion, Unprepared
    <3>4. QED
      BY <1>1, <3>1, <3>3, FreshFacts DEF MarkersKept, PrepareIntent, erp
  <2>3. QED
    BY <2>1, <2>2
<1>2. CASE ApproveGranted(w)
  <2>1. row' = [row EXCEPT !.manager = calls[w].mgr, !.token = issued + 1, !.expired = FALSE]
    BY <1>2 DEF ApproveGranted, ApproveRow
  <2>2. QED
    BY <1>2, <2>1, UnchangedFacts DEF Row, MarkersKept, Held, ApproveGranted, erp
<1>3. CASE InsertRefresh(w) \/ SubmitRefresh(w)
  <2>1. row' = [row EXCEPT !.changed = @ \/ calls[w].obs # row.source] /\ docs' = docs
    BY <1>3 DEF InsertRefresh, SubmitRefresh, RefreshFor, Refreshed, erp
  <2>2. QED
    BY <2>1, UnchangedFacts DEF Row, MarkersKept, Held
<1>4. CASE RecordHold(w)
  <2>1. row' = [row EXCEPT !.readback = calls[w].kind] /\ docs' = docs
    BY <1>4 DEF RecordHold, ReadbackRecorded, erp
  <2>2. QED
    BY <2>1, UnchangedFacts DEF Row, MarkersKept, Held
<1>5. QED
  BY <1>1, <1>2, <1>3, <1>4 DEF WritesNoMarker

\* The environment's steps that are not the ERP's work on the document.
LEMMA EnvironmentKeeps ==
  ASSUME IInv, ErpLoss \/ SourceEdited \/ JournalOnly \/ Restart
  PROVE  MarkersKept
<1>1. CASE ErpLoss \/ SourceEdited \/ Restart
  <2>1. row' = row /\ docs' = docs
    BY <1>1 DEF ErpLoss, SourceEdited, Restart, journal, erp
  <2>2. QED
    BY <2>1 DEF MarkersKept, Held
<1>2. CASE JournalOnly /\ \E r \in 1..source : Reprepare(r)
  <2>1. PICK r \in 1..source : Reprepare(r)
    BY <1>2
  <2>2. row.insert = 0 /\ row.submit = 0 /\ row.submitted = 0 /\ row.draft = 0
    BY <2>1, FreshFacts DEF Reprepare, MayReprepare, InsertAttempted
  <2>3. row'.insert = 0 /\ row'.submit = 0 /\ row'.submitted = 0 /\ row'.draft = 0
    BY <2>1, <2>2 DEF Reprepare, NewVersion, Unprepared
  <2>4. QED
    BY <1>2, <2>2, <2>3 DEF MarkersKept, JournalOnly, erp
<1>3. CASE JournalOnly /\ ((\E m \in Managers : Refuse(m)) \/ Expire)
  <2>1. row' = [row EXCEPT !.refused = TRUE] \/ row' = [row EXCEPT !.expired = TRUE]
    BY <1>3 DEF Refuse, Expire
  <2>2. QED
    BY <1>3, <2>1, UnchangedFacts DEF Row, MarkersKept, Held, JournalOnly, erp
<1>4. QED
  BY <1>1, <1>2, <1>3 DEF JournalOnly

\* What claim_insert writes.
LEMMA ClaimInsertFacts ==
  ASSUME IInv, NEW w \in Workers, ClaimInsert(w)
  PROVE  /\ row.insert = 0 /\ row'.insert # 0 /\ row'.draft = row.draft
         /\ row'.submit = row.submit /\ row'.submitted = row.submitted /\ docs' = docs
         /\ calls[w].token = row.token
<1>1. /\ row.insert = 0 /\ row.version # 0 /\ row.binding = row.version
      /\ row' = [row EXCEPT !.insert = row.binding, !.used = TRUE] /\ calls[w].token = row.token
  BY DEF ClaimInsert, MayInsert, InsertAttempted, Bound, Prepared, InsertClaimed, Payload
<1>2. QED
  BY <1>1, UnchangedFacts DEF Row, ClaimInsert, erp

-----------------------------------------------------------------------------
(* Refinement: every behaviour is one of OneInvoicePerBill. *)

LEMMA PromiseInit == Init => Promise!Init
BY DEF Init, JournalInit, Unprepared, Promise!Init

\* Markers and document kept: the promise's state is kept.
LEMMA KeptStutters ==
  ASSUME MarkersKept
  PROVE  UNCHANGED Promise!billVars
BY DEF MarkersKept, Promise!billVars

\* The order of the markers, as the mapping reads it.
LEMMA MarkerFacts ==
  ASSUME IInv
  PROVE  /\ row.insert = 0 => row.submit = 0 /\ row.draft = 0
         /\ row.draft = 0 => row.submit = 0 /\ row.submitted = 0
         /\ row.submit = 0 => row.submitted = 0
         /\ docs = <<>> <=> Len(docs) = 0
         /\ Len(docs) = 1 => docs # <<>> /\ docs[1].status \in {"draft", "submitted", "deleted"}
         /\ Len(docs) \in {0, 1}
<1>1. docs \in Seq(Doc) /\ Len(docs) \in {0, 1}
  BY DocFacts
<1>2. Len(docs) = 1 => docs[1].status \in {"draft", "submitted", "deleted"}
  BY DocFacts DEF Doc
<1>3. docs = <<>> <=> Len(docs) = 0
  BY <1>1
<1>4. row.insert = 0 => row.submit = 0 /\ row.draft = 0
  BY FreshFacts
<1>5. /\ row.draft = 0 => row.submit = 0 /\ row.submitted = 0
      /\ row.submit = 0 => row.submitted = 0
  BY DEF IInv, RowInv
<1>6. QED
  BY <1>1, <1>2, <1>3, <1>4, <1>5

LEMMA PromiseMarker ==
  ASSUME IInv, NEW w \in Workers, WritesMarker(w)
  PROVE  [Promise!Next]_(Promise!billVars)
<1>1. CASE ClaimInsert(w)
  <2>1. Promise!AskInsert
    BY <1>1, ClaimInsertFacts, MarkerFacts DEF Promise!AskInsert
  <2>2. QED
    BY <2>1 DEF Promise!Next
<1>2. CASE AdmitInsertAcknowledgement(w)
  <2>1. docs' = docs
    BY <1>2 DEF AdmitInsertAcknowledgement, erp
  <2>2. CASE row' = row
    BY <2>1, <2>2 DEF Promise!billVars
  <2>3. CASE row.draft = 0 /\ row.insert # 0 /\ row' = Enveloped(1, 0) /\ Len(docs) = 1
    <3>1. /\ row'.insert = row.insert /\ row'.submit = row.submit
          /\ row'.submitted = row.submitted /\ row'.draft = 1
      BY <2>3, UnchangedFacts DEF Enveloped, Row
    <3>2. Promise!LearnDraft
      BY <2>1, <2>3, <3>1, MarkerFacts DEF Promise!LearnDraft
    <3>3. QED
      BY <3>2 DEF Promise!Next
  <2>4. QED
    BY <1>2, <2>2, <2>3, AcknowledgeStep
<1>3. CASE ClaimSubmit(w)
  <2>1. /\ row.insert # 0 /\ row.draft = 1 /\ row.submit = 0 /\ row' = [row EXCEPT !.submit = 1]
        /\ docs' = docs
    BY <1>3, ClaimSubmitStep DEF ClaimSubmit, erp
  <2>2. /\ row'.insert = row.insert /\ row'.draft = row.draft /\ row'.submit = 1
        /\ row'.submitted = row.submitted
    BY <2>1, UnchangedFacts DEF Row
  <2>3. Promise!AskSubmit
    BY <2>1, <2>2, MarkerFacts DEF Promise!AskSubmit
  <2>4. QED
    BY <2>3 DEF Promise!Next
<1>4. CASE AdmitSubmittedReadback(w)
  <2>1. docs' = docs
    BY <1>4 DEF AdmitSubmittedReadback, erp
  <2>2. CASE row'.submitted = row.submitted
    BY <1>4, <2>1, <2>2, ReadbackStep DEF Promise!billVars
  <2>3. CASE row'.submitted # row.submitted
    <3>1. row.submitted = 0 /\ row'.submitted # 0
      BY <1>4, <2>3, ReadbackStep
    <3>2. Promise!LearnSubmitted
      BY <1>4, <2>1, <3>1, ReadbackStep, MarkerFacts DEF Promise!LearnSubmitted
    <3>3. QED
      BY <3>2 DEF Promise!Next
  <2>4. QED
    BY <2>2, <2>3
<1>5. QED
  BY <1>1, <1>2, <1>3, <1>4 DEF WritesMarker

\* The ERP's own work: it creates once, submits once, or a user deletes.
LEMMA PromiseErp ==
  ASSUME IInv, IInv', ErpInsert \/ ErpSubmit \/ InvoiceEdited
  PROVE  [Promise!Next]_(Promise!billVars)
<1>1. row' = row
  BY DEF ErpInsert, ErpSubmit, InvoiceEdited, journal
<1>2. Len(docs') = 1 => docs' # <<>>
  OBVIOUS
<1>3. CASE ErpInsert
  <2>1. docs = <<>> /\ Len(docs') = 1 /\ docs'[1].status = "draft" /\ row.insert # 0
    BY <1>3, ErpInsertStep
  <2>2. row.submit = 0
    BY <2>1, DocFacts DEF IInv, DocInv, RowInv
  <2>3. Promise!Create
    BY <1>1, <1>2, <2>1, <2>2 DEF Promise!Create
  <2>4. QED
    BY <2>3 DEF Promise!Next
<1>4. CASE ErpSubmit
  <2>1. /\ Len(docs) = 1 /\ Len(docs') = 1 /\ docs[1].status = "draft"
        /\ docs'[1].status = "submitted" /\ row.submit # 0
    BY <1>4, ErpSubmitStep
  <2>2. Promise!Submit
    BY <1>1, <1>2, <2>1, MarkerFacts DEF Promise!Submit
  <2>3. QED
    BY <2>2 DEF Promise!Next
<1>5. CASE InvoiceEdited
  <2>1. /\ Len(docs) = 1 /\ Len(docs') = 1
        /\ \/ docs'[1].status = docs[1].status
           \/ docs[1].status = "draft" /\ docs'[1].status = "deleted"
    BY <1>5, InvoiceEditedStep
  <2>2. CASE docs'[1].status = docs[1].status
    BY <1>1, <1>2, <2>1, <2>2, MarkerFacts DEF Promise!billVars
  <2>3. CASE docs[1].status = "draft" /\ docs'[1].status = "deleted"
    <3>1. Promise!Delete
      BY <1>1, <1>2, <2>1, <2>3, MarkerFacts DEF Promise!Delete
    <3>2. QED
      BY <3>1 DEF Promise!Next
  <2>4. QED
    BY <2>1, <2>2, <2>3
<1>6. QED
  BY <1>3, <1>4, <1>5

LEMMA PromiseStep ==
  ASSUME IInv, IInv', [Next]_vars
  PROVE  [Promise!Next]_(Promise!billVars)
<1>1. CASE UNCHANGED vars
  BY <1>1 DEF vars, Promise!billVars
<1>2. ASSUME NEW w \in Workers, Begin(w) \/ Step(w)
      PROVE  [Promise!Next]_(Promise!billVars)
  <2>1. CASE ReadsJournal(w)
    <3>1. row' = row /\ docs' = docs
      BY <2>1, ReadsKeep
    <3>2. QED
      BY <3>1 DEF Promise!billVars
  <2>2. CASE WritesNoMarker(w)
    BY <2>2, WritesKeep, KeptStutters
  <2>3. CASE WritesMarker(w)
    BY <2>3, PromiseMarker
  <2>4. QED
    BY <1>2, <2>1, <2>2, <2>3, StepKinds
<1>3. CASE Environment
  <2>1. CASE ErpInsert \/ ErpSubmit \/ InvoiceEdited
    BY <2>1, PromiseErp
  <2>2. CASE ErpLoss \/ SourceEdited \/ JournalOnly \/ Restart
    BY <2>2, EnvironmentKeeps, KeptStutters
  <2>3. QED
    BY <1>3, <2>1, <2>2 DEF Environment
<1>4. QED
  BY <1>1, <1>2, <1>3 DEF Next

\* The coordinator implements OneInvoicePerBill: one insert, then one submit of
\* the acknowledged invoice, whatever requests, ERP and restarts do.
THEOREM Refinement == Spec => ImplementsPromise
<1>1. Init => Promise!Init
  BY PromiseInit
<1>2. IInv /\ IInv' /\ [Next]_vars => [Promise!Next]_(Promise!billVars)
  BY PromiseStep
<1>3. QED
  BY <1>1, <1>2, Invariance, PTL DEF Spec, ImplementsPromise, Promise!Spec

-----------------------------------------------------------------------------
(* A stop stays. *)

\* No marker and no reprepare gets past a hold of a marked bill.
LEMMA HoldStays ==
  ASSUME IInv, [Next]_vars, row.insert # 0, row.submit = 0, Held
  PROVE  Held' /\ row'.submit = 0
<1>1. CASE MarkersKept
  BY <1>1 DEF MarkersKept
<1>2. CASE row' = row
  BY <1>2 DEF Held
<1>3. ASSUME NEW w \in Workers, Begin(w) \/ Step(w)
      PROVE  Held' /\ row'.submit = 0
  <2>1. CASE ClaimInsert(w)
    BY <2>1, ClaimInsertFacts
  <2>2. CASE AdmitInsertAcknowledgement(w)
    <3>1. row' = row \/ row' = Enveloped(1, 0)
      BY <2>2, AcknowledgeStep
    <3>2. CASE row' = Enveloped(1, 0)
      <4>1. /\ row'.submit = row.submit /\ row'.conflict = row.conflict
            /\ row'.refused = row.refused /\ row'.changed = row.changed
        BY <3>2, UnchangedFacts DEF Enveloped, Row
      <4>2. QED
        BY <4>1 DEF Held
    <3>3. QED
      BY <1>2, <3>1, <3>2
  <2>3. CASE ClaimSubmit(w)
    BY <2>3, ClaimSubmitStep
  <2>4. CASE AdmitSubmittedReadback(w)
    BY <2>4, ReadbackStep
  <2>5. QED
    BY <1>1, <1>2, <1>3, <2>1, <2>2, <2>3, <2>4, StepKinds, ReadsKeep, WritesKeep DEF WritesMarker
<1>4. CASE Environment
  <2>1. CASE ErpInsert \/ ErpSubmit \/ InvoiceEdited
    <3>1. row' = row
      BY <2>1 DEF ErpInsert, ErpSubmit, InvoiceEdited, journal
    <3>2. QED
      BY <1>2, <3>1
  <2>2. CASE ErpLoss \/ SourceEdited \/ JournalOnly \/ Restart
    BY <1>1, <2>2, EnvironmentKeeps
  <2>3. QED
    BY <1>4, <2>1, <2>2 DEF Environment
<1>5. QED
  BY <1>2, <1>3, <1>4 DEF Next, vars

\* A step that hands no request and no slot a token it did not come from.
LEMMA LostStays ==
  ASSUME LostApproval, row'.token = row.token, row'.insert = row.insert,
         \A u \in Workers : \/ calls'[u].token \in {0, calls[u].token}
                            \/ \E v \in Versions : calls'[u].token = tokens[v],
         \A v \in Versions : \/ tokens'[v] \in {0, tokens[v]}
                             \/ \E u \in Workers : tokens'[v] = calls[u].token
  PROVE  LostApproval'
BY DEF LostApproval, TokenKnown, ApprovalGranted, InsertAttempted

\* A request that goes on, holds, returns or enters an operation learns no token.
LEMMA OwnToken ==
  ASSUME IInv, NEW w \in Workers,
         \/ Return(w) \/ (\E pc : Goto(w, pc)) \/ (\E kind, back : Hold(w, kind, back))
         \/ (\E pc, m : Enter(w, pc, m))
  PROVE  \A u \in Workers : calls'[u].token \in {0, calls[u].token}
<1>1. calls \in [Workers -> Call] /\ calls[w] \in Call
  BY DEF IInv, TypeOK
<1>2. CASE Return(w)
  BY <1>1, <1>2 DEF Return, Idle
<1>3. ASSUME NEW pc, Goto(w, pc)
      PROVE  \A u \in Workers : calls'[u].token \in {0, calls[u].token}
  BY <1>1, <1>3 DEF Goto, Call
<1>4. ASSUME NEW kind, NEW back, Hold(w, kind, back)
      PROVE  \A u \in Workers : calls'[u].token \in {0, calls[u].token}
  BY <1>1, <1>4 DEF Hold, Call
<1>5. ASSUME NEW pc, NEW m, Enter(w, pc, m)
      PROVE  \A u \in Workers : calls'[u].token \in {0, calls[u].token}
  BY <1>1, <1>5 DEF Enter, Idle
<1>6. QED
  BY <1>2, <1>3, <1>4, <1>5

\* An observation leaves the token of the request alone.
LEMMA ReadsToken ==
  ASSUME IInv, NEW w \in Workers, Step(w), ~ApproveGranted(w), ~WritesMarker(w)
  PROVE  \A u \in Workers : calls'[u].token \in {0, calls[u].token}
<1>1. calls \in [Workers -> Call] /\ calls[w] \in Call
  BY DEF IInv, TypeOK
<1>2. CASE PrepareIntent(w) \/ ApproveDenied(w) \/ KeepToken(w) \/ RecordHold(w)
  BY <1>2, OwnToken DEF PrepareIntent, ApproveDenied, KeepToken, RecordHold
<1>3. CASE InsertNotReady(w) \/ ClaimInsertDenied(w) \/ InsertPost(w) \/ InsertUnanswered(w) \/ InsertReturned(w)
  BY <1>3, OwnToken DEF InsertNotReady, ClaimInsertDenied, InsertPost, InsertUnanswered, InsertReturned
<1>4. CASE InsertStart(w)
  BY <1>1, <1>4, OwnToken DEF InsertStart, Call
<1>5. CASE InsertObserved(w) \/ SubmitObserved(w)
  BY <1>1, <1>5 DEF InsertObserved, SubmitObserved, Call
<1>6. CASE InsertRefresh(w) \/ SubmitRefresh(w)
  BY <1>1, <1>6 DEF InsertRefresh, SubmitRefresh, RefreshFor, Call, Idle
<1>7. CASE InsertAnswered(w)
  BY <1>1, <1>7 DEF InsertAnswered, Call
<1>8. CASE SubmitNotReady(w) \/ ClaimSubmitDenied(w) \/ SubmitPost(w) \/ SubmitReturned(w) \/ ReconcileNotRead(w)
  BY <1>8, OwnToken DEF SubmitNotReady, ClaimSubmitDenied, SubmitPost, SubmitReturned, ReconcileNotRead
<1>9. CASE SubmitStart(w)
  BY <1>1, <1>9, OwnToken DEF SubmitStart, Call
<1>10. CASE ReconcileStart(w)
  BY <1>1, <1>10, OwnToken DEF ReconcileStart, Call
<1>11. CASE ReconcileObserved(w)
  BY <1>1, <1>11 DEF ReconcileObserved, Call
<1>12. QED
  BY <1>2, <1>3, <1>4, <1>5, <1>6, <1>7, <1>8, <1>9, <1>10, <1>11
  DEF Step, InsertStep, SubmitStep, ReconcileStep, WritesMarker

\* The token column before the insert: only a reprepare takes it away.
LEMMA TokenStays ==
  ASSUME IInv, NEW w \in Workers, ReadsJournal(w) \/ WritesNoMarker(w), ~ApproveGranted(w),
         row.token # 0
  PROVE  row'.token = row.token /\ row'.insert = row.insert
<1>1. CASE PrepareIntent(w)
  <2>1. Prepared
    BY DEF Prepared, IInv, RowInv
  <2>2. QED
    BY <1>1, <2>1 DEF PrepareIntent, PrepareRow, ExistingKept
<1>2. CASE InsertRefresh(w) \/ SubmitRefresh(w) \/ RecordHold(w)
  <2>1. \/ row' = [row EXCEPT !.changed = @ \/ calls[w].obs # row.source]
        \/ row' = [row EXCEPT !.readback = calls[w].kind]
    BY <1>2 DEF InsertRefresh, SubmitRefresh, RefreshFor, Refreshed, RecordHold, ReadbackRecorded
  <2>2. QED
    BY <2>1, UnchangedFacts DEF Row
<1>3. QED
  BY <1>1, <1>2, ReadsKeep DEF WritesNoMarker

LEMMA LostRequest ==
  ASSUME IInv, LostApproval, NEW w \in Workers, Begin(w) \/ Step(w)
  PROVE  LostApproval'
<1>1. row.token # 0 /\ row.insert = 0 /\ ~TokenKnown
  BY DEF LostApproval, ApprovalGranted, InsertAttempted
<1>2. ~ApproveGranted(w)
  BY <1>1 DEF ApproveGranted, MayApprove, MayRenew, ApprovalGranted, InsertAttempted
<1>3. ~WritesMarker(w)
  <2>1. ~ClaimInsert(w)
    BY <1>1, ClaimInsertFacts DEF TokenKnown
  <2>2. calls[w].pc \notin Knowing
    BY <1>1, FreshFacts
  <2>3. QED
    BY <2>1, <2>2 DEF WritesMarker, AdmitInsertAcknowledgement, ClaimSubmit,
                      AdmitSubmittedReadback, At, Knowing
<1>4. row'.token = row.token /\ row'.insert = row.insert
  BY <1>1, <1>2, <1>3, StepKinds, TokenStays
<1>5. calls \in [Workers -> Call] /\ calls[w] \in Call /\ tokens \in [Versions -> Nat]
  BY DEF IInv, TypeOK
<1>6. CASE Begin(w)
  <2>1. tokens' = tokens
    BY <1>6 DEF Begin, PrepareStart, ReconcileCall, ApproveStart, ExecuteStart
  <2>2. \A u \in Workers : \/ calls'[u].token \in {0, calls[u].token}
                           \/ \E v \in Versions : calls'[u].token = tokens[v]
    <3>1. CASE PrepareStart(w) \/ \E m \in Managers : ApproveStart(w, m)
      <4>1. PICK c : calls' = [calls EXCEPT ![w] = c] /\ c.token = calls[w].token
        <5>1. CASE PrepareStart(w)
          <6> DEFINE c == [calls[w] EXCEPT !.pc = "prepare", !.obs = source]
          <6>1. calls' = [calls EXCEPT ![w] = c] /\ c.token = calls[w].token
            BY <1>5, <5>1 DEF PrepareStart, Call
          <6>2. QED
            BY <6>1
        <5>2. ASSUME NEW m \in Managers, ApproveStart(w, m)
              PROVE  \E c : calls' = [calls EXCEPT ![w] = c] /\ c.token = calls[w].token
          <6> DEFINE c == [calls[w] EXCEPT !.pc = "approve", !.mgr = m, !.version = row.version]
          <6>1. calls' = [calls EXCEPT ![w] = c] /\ c.token = calls[w].token
            BY <1>5, <5>2 DEF ApproveStart, Call
          <6>2. QED
            BY <6>1
        <5>3. QED
          BY <3>1, <5>1, <5>2
      <4>2. QED
        BY <1>5, <4>1
    <3>2. CASE ReconcileCall(w)
      BY <3>2, OwnToken DEF ReconcileCall
    <3>3. ASSUME NEW m \in Managers, ExecuteStart(w, m)
          PROVE  \A u \in Workers : \/ calls'[u].token \in {0, calls[u].token}
                                    \/ \E v \in Versions : calls'[u].token = tokens[v]
      <4>1. row.version \in Versions
        BY <3>3, UnchangedFacts DEF ExecuteStart, Prepared, Row, Versions
      <4>2. CASE \E pc : Enter(w, pc, m)
        BY <4>2, OwnToken
      <4>3. CASE calls' = [calls EXCEPT ![w].pc = "insert_start", ![w].mgr = m,
                                        ![w].token = tokens[row.version]]
        BY <1>5, <4>1, <4>3 DEF Call
      <4>4. QED
        BY <3>3, <4>2, <4>3 DEF ExecuteStart
    <3>4. QED
      BY <1>6, <3>1, <3>2, <3>3 DEF Begin
  <2>3. QED
    BY <1>4, <2>1, <2>2, LostStays
<1>7. CASE Step(w)
  <2>1. \A u \in Workers : calls'[u].token \in {0, calls[u].token}
    BY <1>2, <1>3, <1>7, ReadsToken
  <2>2. \A v \in Versions : \/ tokens'[v] \in {0, tokens[v]}
                            \/ \E u \in Workers : tokens'[v] = calls[u].token
    <3>1. CASE KeepToken(w)
      BY <1>5, <3>1 DEF KeepToken
    <3>2. CASE InsertReturned(w)
      BY <1>5, <3>2 DEF InsertReturned
    <3>3. CASE ~KeepToken(w) /\ ~InsertReturned(w)
      <4>1. tokens' = tokens
        BY <1>2, <1>3, <1>7, <3>3
        DEF Step, InsertStep, SubmitStep, ReconcileStep, WritesMarker, PrepareIntent, ApproveDenied,
            InsertStart, InsertObserved, InsertNotReady, InsertRefresh, SubmitRefresh, RefreshFor,
            ClaimInsertDenied, InsertPost, InsertAnswered, InsertUnanswered, SubmitStart,
            SubmitObserved, SubmitNotReady, ClaimSubmitDenied, SubmitPost, SubmitReturned,
            ReconcileStart, ReconcileObserved, ReconcileNotRead, RecordHold
      <4>2. QED
        BY <4>1
    <3>4. QED
      BY <3>1, <3>2, <3>3
  <2>3. QED
    BY <1>4, <2>1, <2>2, LostStays
<1>8. QED
  BY <1>6, <1>7

LEMMA LostEnvironment ==
  ASSUME IInv, LostApproval, Environment
  PROVE  LostApproval' \/ row'.version > row.version
<1>1. CASE Restart
  BY <1>1, LostStays DEF Restart, journal, Idle
<1>2. CASE ErpInsert \/ ErpSubmit \/ ErpLoss \/ SourceEdited \/ InvoiceEdited
  BY <1>2, LostStays DEF ErpInsert, ErpSubmit, ErpLoss, SourceEdited, InvoiceEdited, journal
<1>3. CASE JournalOnly /\ \E r \in 1..source : Reprepare(r)
  <2>1. row.version \in Nat
    BY UnchangedFacts DEF Row
  <2>2. row'.version = row.version + 1
    BY <1>3 DEF Reprepare, NewVersion, Unprepared
  <2>3. QED
    BY <2>1, <2>2
<1>4. CASE JournalOnly /\ ((\E m \in Managers : Refuse(m)) \/ Expire)
  <2>1. row' = [row EXCEPT !.refused = TRUE] \/ row' = [row EXCEPT !.expired = TRUE]
    BY <1>4 DEF Refuse, Expire
  <2>2. row'.token = row.token /\ row'.insert = row.insert
    BY <2>1, UnchangedFacts DEF Row
  <2>3. calls' = calls /\ tokens' = tokens
    BY <1>4 DEF JournalOnly
  <2>4. QED
    BY <2>2, <2>3, LostStays
<1>5. QED
  BY <1>1, <1>2, <1>3, <1>4 DEF Environment, JournalOnly

\* A refusal, a source change or a conflict recorded before the submit marker
\* is final, and an approval whose raw token is lost never inserts: its version
\* can only be replaced.
THEOREM StopIsFinal == Spec => StoppedStaysStopped
<1>1. IInv /\ [Next]_vars =>
        [/\ row.insert # 0 /\ row.submit = 0 /\ Held => Held' /\ row'.submit = 0
         /\ LostApproval => LostApproval' \/ row'.version > row.version]_vars
  <2> SUFFICES ASSUME IInv, Next
               PROVE  /\ row.insert # 0 /\ row.submit = 0 /\ Held => Held' /\ row'.submit = 0
                      /\ LostApproval => LostApproval' \/ row'.version > row.version
    OBVIOUS
  <2>1. row.insert # 0 /\ row.submit = 0 /\ Held => Held' /\ row'.submit = 0
    BY HoldStays
  <2>2. LostApproval => LostApproval' \/ row'.version > row.version
    BY LostRequest, LostEnvironment DEF Next
  <2>3. QED
    BY <2>1, <2>2
<1>2. QED
  BY <1>1, Invariance, PTL DEF Spec, StoppedStaysStopped

----------------------------------------------------------------------------
(* BillingSource.  Pages are cut by rank in the order of names. *)

LEMMA RankType ==
  ASSUME NEW S \in SUBSET Nat, IsFiniteSet(S), NEW n \in S
  PROVE  /\ Cardinality(S) \in Nat
         /\ Rank(S, n) \in 1..Cardinality(S)
<1> DEFINE T == {m \in S : m <= n}
<1>1. T \in SUBSET S /\ n \in T
  OBVIOUS
<1>2. IsFiniteSet(T) /\ Cardinality(T) <= Cardinality(S)
  BY <1>1, FS_Subset
<1>3. Cardinality(T) \in Nat /\ Cardinality(S) \in Nat
  BY <1>2, FS_CardinalityType
<1>4. Cardinality(T) # 0
  BY <1>1, <1>2, FS_EmptySet
<1>5. QED
  BY <1>2, <1>3, <1>4 DEF Rank

LEMMA RankStrict ==
  ASSUME NEW S \in SUBSET Nat, IsFiniteSet(S), NEW n \in S, NEW k \in S, n < k
  PROVE  Rank(S, n) < Rank(S, k)
<1> DEFINE T == {m \in S : m <= n}
           U == {m \in S : m <= k}
<1>0. n \in Nat /\ k \in Nat /\ \A m \in S : m \in Nat
  OBVIOUS
<1>1. T \in SUBSET U /\ U \in SUBSET S /\ k \in U /\ k \notin T
  <2>1. \A m \in S : m <= n => m <= k
    BY <1>0
  <2>2. k <= k /\ ~ (k <= n)
    BY <1>0
  <2>3. QED
    BY <2>1, <2>2
<1>2. IsFiniteSet(U)
  BY <1>1, FS_Subset
<1>3. Cardinality(T) <= Cardinality(U) /\ Cardinality(T) # Cardinality(U) /\ IsFiniteSet(T)
  BY <1>1, <1>2, FS_Subset
<1>4. Cardinality(T) \in Nat /\ Cardinality(U) \in Nat
  BY <1>2, <1>3, FS_CardinalityType
<1>5. QED
  BY <1>3, <1>4 DEF Rank

LEMMA RankOnto ==
  ASSUME NEW S \in SUBSET Nat, IsFiniteSet(S), NEW r \in 1..Cardinality(S)
  PROVE  \E n \in S : Rank(S, n) = r
<1> DEFINE N == Cardinality(S)
           f == [n \in S |-> Rank(S, n)]
<1>1. N \in Nat
  BY FS_CardinalityType
<1>2. f \in [S -> 1..N]
  BY RankType
<1>3. \A n, k \in S : f[n] = f[k] => n = k
  <2> SUFFICES ASSUME NEW n \in S, NEW k \in S, Rank(S, n) = Rank(S, k) PROVE n = k
    OBVIOUS
  <2>1. Rank(S, n) \in Nat /\ Rank(S, k) \in Nat
    BY <1>1, RankType
  <2>2. ~ (n < k) /\ ~ (k < n)
    BY <2>1, RankStrict
  <2>3. QED
    BY <2>2
<1>4. f \in Injection(S, 1..N)
  BY <1>2, <1>3 DEF Injection, IsInjective
<1>5. IsFiniteSet(1..N) /\ Cardinality(1..N) = N
  BY <1>1, FS_Interval
<1>6. f \in Surjection(S, 1..N)
  BY <1>4, <1>5, FS_Injection
<1>7. QED
  BY <1>6 DEF Surjection

LEMMA PageBounds ==
  ASSUME NEW p \in Nat
  PROVE  \E a \in Nat :
            /\ PageSize \in Nat \ {0} /\ p * PageSize = a
            /\ (p + 1) * PageSize = a + PageSize
BY ReadBoundsAssumption

\* A page is full when there are names enough for it.
LEMMA FullPage ==
  ASSUME NEW S \in SUBSET Nat, IsFiniteSet(S), NEW p \in Nat,
         (p + 1) * PageSize <= Cardinality(S)
  PROVE  Cardinality(Page(S, p)) >= PageSize
<1>0. PICK a \in Nat : /\ PageSize \in Nat \ {0} /\ p * PageSize = a
                   /\ (p + 1) * PageSize = a + PageSize
  BY PageBounds
<1> DEFINE P == Page(S, p)
           T == a + 1 .. a + PageSize
           f == [n \in P |-> Rank(S, n)]
<1>1. P \in SUBSET S /\ \A n \in P : Rank(S, n) \in T
  BY <1>0 DEF Page
<1>2. f \in [P -> T]
  BY <1>1
<1>3. \A r \in T : \E n \in P : f[n] = r
  <2> SUFFICES ASSUME NEW r \in T PROVE \E n \in P : f[n] = r
    OBVIOUS
  <2>1. r \in 1..Cardinality(S)
    BY <1>0, FS_CardinalityType
  <2>2. PICK n \in S : Rank(S, n) = r
    BY <2>1, RankOnto
  <2>3. n \in P
    BY <1>0, <2>2 DEF Page
  <2>4. QED
    BY <2>2, <2>3
<1>4. f \in Surjection(P, T)
  BY <1>2, <1>3 DEF Surjection
<1>5. IsFiniteSet(P)
  BY <1>1, FS_Subset
<1>6. Cardinality(T) <= Cardinality(P)
  BY <1>4, <1>5, FS_Surjection
<1>7. Cardinality(T) = PageSize
  BY <1>0, FS_Interval
<1>8. QED
  BY <1>0, <1>6, <1>7

\* A page that is not full holds every name that is beyond the earlier ones.
LEMMA LastPageReaches ==
  ASSUME NEW S \in SUBSET Nat, IsFiniteSet(S), NEW p \in Nat, NEW n \in S,
         LastPage(Page(S, p)), Rank(S, n) > p * PageSize
  PROVE  n \in Page(S, p)
<1>0. PICK a \in Nat : /\ PageSize \in Nat \ {0} /\ p * PageSize = a
                   /\ (p + 1) * PageSize = a + PageSize
  BY PageBounds
<1>1. Cardinality(S) \in Nat /\ Rank(S, n) \in 1..Cardinality(S)
  BY RankType
<1>2. IsFiniteSet(Page(S, p))
  BY FS_Subset DEF Page
<1>3. Cardinality(Page(S, p)) \in Nat
  BY <1>2, FS_CardinalityType
<1>4. ~ ((p + 1) * PageSize <= Cardinality(S))
  BY <1>0, <1>3, FullPage DEF LastPage
<1>5. Rank(S, n) \in p * PageSize + 1 .. (p + 1) * PageSize
  BY <1>0, <1>1, <1>4
<1>6. QED
  BY <1>5 DEF Page

\* What is beyond a page comes after every name of it.
LEMMA BeyondPage ==
  ASSUME NEW S \in SUBSET Nat, IsFiniteSet(S), NEW p \in Nat, NEW n \in S,
         Rank(S, n) > p * PageSize, n \notin Page(S, p), NEW k \in Page(S, p)
  PROVE  k < n
<1>0. PICK a \in Nat : /\ PageSize \in Nat \ {0} /\ p * PageSize = a
                   /\ (p + 1) * PageSize = a + PageSize
  BY PageBounds
<1>1. k \in S /\ Rank(S, k) \in p * PageSize + 1 .. (p + 1) * PageSize
  BY DEF Page
<1>2. Rank(S, n) \in Nat
  BY RankType
<1>3. Rank(S, n) > (p + 1) * PageSize
  BY <1>0, <1>2 DEF Page
<1>4. Rank(S, k) < Rank(S, n)
  BY <1>0, <1>1, <1>2, <1>3
<1>5. ~ (n < k) /\ n # k
  BY <1>1, <1>2, <1>4, RankStrict, RankType
<1>6. QED
  BY <1>1, <1>5

\* A name is ranked after all the earlier ones that exist.
LEMMA RankAbove ==
  ASSUME NEW S \in SUBSET Nat, IsFiniteSet(S), NEW n \in S,
         NEW names \in SUBSET S, \A k \in names : k < n
  PROVE  Cardinality(names) \in Nat /\ Rank(S, n) > Cardinality(names)
<1> DEFINE T == {m \in S : m <= n}
<1>1. names \in SUBSET T /\ T \in SUBSET S /\ n \in T /\ n \notin names
  OBVIOUS
<1>2. IsFiniteSet(T)
  BY <1>1, FS_Subset
<1>3. Cardinality(names) <= Cardinality(T) /\ Cardinality(names) # Cardinality(T)
      /\ IsFiniteSet(names)
  BY <1>1, <1>2, FS_Subset
<1>4. Cardinality(names) \in Nat /\ Cardinality(T) \in Nat
  BY <1>2, <1>3, FS_CardinalityType
<1>5. QED
  BY <1>3, <1>4 DEF Rank

(* What a read has collected, and its types. *)
Collection(S) == UNION {[names -> S] : names \in SUBSET Names}
ByDoctype == [invoice : SUBSET Names, receipt : SUBSET Names]
Readers ==
    [pc : {"idle", "order", "receipt", "mapper", "invoice", "receipts", "documents",
           "collected", "direct", "context", "journal", "done"},
     order : Sources, receipt : Sources, mapper : Proposals \cup {None}, page : Nat,
     names : ByDoctype, invoices : Collection(Invoices), receipts : Collection(Receipts),
     complete : BOOLEAN, preview : Effects \cup {None}, direct : Invoices \cup {None},
     result : Results \cup {None}]

ReadTypeOK ==
  /\ enterprise \in Enterprises
  /\ stored \in Stores
  /\ reader \in Readers
  /\ reader.pc = "direct" => stored.draft # None
  /\ before \in ByDoctype
  /\ reused \in BOOLEAN
  /\ edits \in Nat

(* Steps of a read: nothing read yet, lists under way, the read over. *)
Sourcing == reader.pc \in {"idle", "order", "receipt", "mapper"}
Listing == reader.pc \in {"invoice", "receipts"}
Judging == reader.pc \in {"direct", "context", "journal", "done"}

PhaseInv ==
  /\ Sourcing => reader.names.invoice = {} /\ reader.page = 0
  /\ Sourcing \/ reader.pc = "invoice" => reader.names.receipt = {}
  /\ Sourcing \/ Listing => DOMAIN reader.invoices = {} /\ DOMAIN reader.receipts = {}
  /\ DOMAIN reader.invoices \subseteq reader.names.invoice
  /\ DOMAIN reader.receipts \subseteq reader.names.receipt
  /\ reader.complete => AllRead /\ reader.pc \in {"collected", "direct", "context", "journal", "done"}
  /\ reader.preview # None => Judging
  /\ reader.result # None => reader.pc \in {"journal", "done"}
  /\ reader.pc = "idle" => before.invoice = {} /\ before.receipt = {}

(* What concerned the bill when the read began still exists and concerns   *)
(* it, and so do the documents read of it.                                 *)
PastInv ==
  /\ \A n \in before.invoice :
        /\ n # stored.draft
        /\ enterprise.invoice[n] # None /\ Concerns(enterprise.invoice[n])
  /\ \A n \in before.receipt :
        enterprise.receipt[n] # None /\ IsReceiptReturn(enterprise.receipt[n])
  /\ \A n \in before.invoice \cap DOMAIN reader.invoices : Concerns(reader.invoices[n])
  /\ \A n \in before.receipt \cap DOMAIN reader.receipts : IsReceiptReturn(reader.receipts[n])

(* A listed invoice is lost when its document is gone, or is another one   *)
(* that was given its name: younger than everything that was frozen.       *)
Regiven(d) == reused /\ Older(stored, d)
Lost(n) ==
  IF n \in DOMAIN reader.invoices THEN Regiven(reader.invoices[n])
  ELSE enterprise.invoice[n] = None \/ Regiven(enterprise.invoice[n])
SomeLost == \E n \in reader.names.invoice : Lost(n)

(* The pages: what is not on one of them is after all of them, or slid     *)
(* into the place of a name that is lost.                                  *)
After(n, names) == \A k \in names : k < n

InvoicePagesInv ==
  /\ reader.pc = "invoice" =>
        /\ Cardinality(reader.names.invoice) >= reader.page * PageSize
        /\ SomeLost \/ \A n \in before.invoice \ reader.names.invoice :
                          After(n, reader.names.invoice)
  /\ reader.pc \in {"receipts", "documents"} \/ (reader.complete /\ reader.pc # "done") =>
        SomeLost \/ before.invoice \subseteq reader.names.invoice

ReceiptPagesInv ==
  /\ reader.pc = "receipts" =>
        /\ Cardinality(reader.names.receipt) >= reader.page * PageSize
        /\ reader.names.receipt \subseteq Existing("receipt")
        /\ \A n \in before.receipt \ reader.names.receipt : After(n, reader.names.receipt)
  /\ reader.pc = "documents" \/ reader.complete => before.receipt \subseteq reader.names.receipt

(* A ready context holds no document that concerns the bill.               *)
NothingRead ==
  /\ \A n \in DOMAIN reader.invoices \ {stored.draft} : ~ Concerns(reader.invoices[n])
  /\ \A n \in DOMAIN reader.receipts : ~ IsReceiptReturn(reader.receipts[n])

JournalInv ==
  /\ reader.pc = "journal" =>
        /\ reader.result = "ready" /\ reader.complete /\ NothingRead
        /\ stored.draft # None =>
              /\ stored.draft \in DOMAIN reader.invoices
              /\ reader.invoices[stored.draft].rev = stored.rev
  /\ stored.request # None => ClearSource(stored.source)
  /\ reader.pc # "done" => \A d \in NewInvoices : Older(stored, d)

ReadIInv ==
  /\ ReadTypeOK /\ PhaseInv /\ PastInv /\ InvoicePagesInv /\ ReceiptPagesInv
  /\ JournalInv /\ ReadyMeansClear /\ PreviewIsExact

LEMMA NothingFacts == ASSUME NEW S PROVE Nothing \in Collection(S) /\ DOMAIN Nothing = {}
<1>1. Nothing \in [{} -> S] /\ DOMAIN Nothing = {}
  BY DEF Nothing
<1>2. {} \in SUBSET Names
  OBVIOUS
<1>3. QED
  BY <1>1, <1>2 DEF Collection

LEMMA CollectionFacts ==
  ASSUME NEW S, NEW f \in Collection(S)
  PROVE  DOMAIN f \subseteq Names /\ \A n \in DOMAIN f : f[n] \in S
<1>1. PICK names \in SUBSET Names : f \in [names -> S]
  BY DEF Collection
<1>2. QED
  BY <1>1

LEMMA WithType ==
  ASSUME NEW S, NEW f \in Collection(S), NEW n \in Names, NEW d \in S
  PROVE  With(f, n, d) \in Collection(S)
<1>1. DOMAIN f \cup {n} \in SUBSET Names
  BY CollectionFacts
<1>2. With(f, n, d) \in [DOMAIN f \cup {n} -> S]
  BY CollectionFacts DEF With
<1>3. QED
  BY <1>1, <1>2 DEF Collection

----------------------------------------------------------------------------
(* What the preview and the context say of the documents. *)

LEMMA OfOne ==
  ASSUME NEW S, IsFiniteSet(S), ~ (Cardinality(S) > 1), NEW x \in S, NEW y \in S
  PROVE  x = y
<1> SUFFICES ASSUME x # y PROVE FALSE
  OBVIOUS
<1>1. PICK T : T = {x} /\ IsFiniteSet(T) /\ Cardinality(T) = 1
  BY FS_Singleton
<1>2. Cardinality(T \cup {y}) = 2
  BY <1>1, FS_AddElement
<1>3. T \cup {y} \in SUBSET S
  BY <1>1
<1>4. Cardinality(T \cup {y}) <= Cardinality(S)
  BY <1>3, FS_Subset
<1>5. Cardinality(S) \in Nat
  BY FS_CardinalityType
<1>6. QED
  BY <1>2, <1>4, <1>5

\* Nothing that was read concerns the bill when the effects are READY.
LEMMA ReadyEffects ==
  ASSUME NEW invoices \in Collection(Invoices), NEW receipts,
         RelatedEffects(invoices, receipts) = "READY"
  PROVE  /\ \A i \in DOMAIN invoices : ~ Concerns(invoices[i])
         /\ \A i \in DOMAIN receipts : ~ IsReceiptReturn(receipts[i])
<1> DEFINE exact == {i \in DOMAIN invoices : invoices[i].ref = "bill"}
           billed == {i \in DOMAIN invoices :
                        invoices[i].link = "row" /\ invoices[i].lines = 1
                        /\ invoices[i].status = 1}
<1>1. /\ ~ \E i \in DOMAIN receipts : IsReceiptReturn(receipts[i])
      /\ ~ \E i \in DOMAIN invoices : InvoiceHolds(invoices[i])
      /\ exact = {} /\ billed = {}
  BY DEF RelatedEffects
<1>2. ASSUME NEW i \in DOMAIN invoices PROVE ~ Concerns(invoices[i])
  <2>1. invoices[i] \in Invoices
    BY CollectionFacts
  <2>2. invoices[i].status \in 0..2
    BY <2>1 DEF Invoices
  <2>3. invoices[i].ref # "bill" /\ ~ InvoiceHolds(invoices[i]) /\ i \notin billed
    BY <1>1
  <2>4. QED
    BY <2>2, <2>3 DEF InvoiceHolds, Concerns
<1>3. QED
  BY <1>1, <1>2

\* The other statuses name the one document there is.
LEMMA OneEffect ==
  ASSUME NEW invoices \in Collection(Invoices), NEW receipts, IsFiniteSet(Names)
  PROVE  LET line == {i \in DOMAIN invoices : Concerns(invoices[i])}
             only(status, ref) ==
               \E i \in line :
                 /\ line = {i}
                 /\ invoices[i].link = "row" /\ invoices[i].fits
                 /\ invoices[i].status = status /\ invoices[i].ref = ref
         IN  /\ RelatedEffects(invoices, receipts) = "READY" => line = {}
             /\ RelatedEffects(invoices, receipts) = "DRAFT_EXISTS" => only(0, "bill")
             /\ RelatedEffects(invoices, receipts) = "ALREADY_SUBMITTED" => only(1, "bill")
             /\ RelatedEffects(invoices, receipts) = "ALREADY_BILLED" => only(1, "other")
<1> DEFINE E == RelatedEffects(invoices, receipts)
           exact == {i \in DOMAIN invoices : invoices[i].ref = "bill"}
           billed == {i \in DOMAIN invoices :
                        invoices[i].link = "row" /\ invoices[i].lines = 1
                        /\ invoices[i].status = 1}
           line == {i \in DOMAIN invoices : Concerns(invoices[i])}
<1>1. /\ E # "HOLD" =>
            /\ ~ \E i \in DOMAIN invoices : InvoiceHolds(invoices[i])
            /\ ~ (Cardinality(exact) > 1) /\ ~ (Cardinality(billed) > 1)
            /\ billed # {} => \A i \in exact : invoices[i].status = 1
      /\ E = "ALREADY_SUBMITTED" => \E i \in exact : invoices[i].status = 1
      /\ E = "DRAFT_EXISTS" => exact # {} /\ \A i \in exact : invoices[i].status # 1
      /\ E = "ALREADY_BILLED" => exact = {} /\ billed # {}
  BY DEF RelatedEffects
<1>2. IsFiniteSet(exact) /\ IsFiniteSet(billed)
  <2>1. exact \in SUBSET Names /\ billed \in SUBSET Names
    BY CollectionFacts
  <2>2. QED
    BY <2>1, FS_Subset
<1>3. E # "HOLD" =>
        /\ \A i, j \in exact : i = j
        /\ \A i, j \in billed : i = j
  BY <1>1, <1>2, OfOne
<1>4. \A i \in DOMAIN invoices :
        /\ invoices[i].status \in 0..2 /\ invoices[i].ref \in {"bill", "other"}
        /\ E # "HOLD" /\ i \in line =>
             /\ invoices[i].link = "row" /\ invoices[i].fits /\ invoices[i].status \in 0..1
             /\ i \in exact \cup billed
             /\ invoices[i].status = 1 => i \in billed
  <2> TAKE i \in DOMAIN invoices
  <2>1. invoices[i] \in Invoices
    BY CollectionFacts
  <2>2. invoices[i].status \in 0..2 /\ invoices[i].ref \in {"bill", "other"}
    BY <2>1 DEF Invoices
  <2>3. E # "HOLD" => ~ InvoiceHolds(invoices[i])
    BY <1>1
  <2>4. QED
    BY <2>2, <2>3 DEF InvoiceHolds, Concerns
<1>5. exact \subseteq line /\ billed \subseteq line
  BY DEF Concerns
<1> HIDE DEF E, exact, billed, line
<1>6. E = "READY" => line = {}
  BY ReadyEffects DEF E, line
<1>7. ASSUME E = "DRAFT_EXISTS"
      PROVE  \E i \in line : /\ line = {i} /\ invoices[i].link = "row" /\ invoices[i].fits
                             /\ invoices[i].status = 0 /\ invoices[i].ref = "bill"
  <2>1. PICK i \in exact : invoices[i].status # 1
    BY <1>1, <1>7
  <2>2. i \in line /\ i \in DOMAIN invoices /\ invoices[i].ref = "bill" /\ billed = {}
    BY <1>1, <1>5, <1>7, <2>1 DEF exact
  <2>3. \A j \in line : j = i
    BY <1>3, <1>4, <1>7, <2>2, <2>1 DEF line
  <2>4. QED
    BY <1>4, <1>7, <2>1, <2>2, <2>3
<1>8. ASSUME E = "ALREADY_SUBMITTED"
      PROVE  \E i \in line : /\ line = {i} /\ invoices[i].link = "row" /\ invoices[i].fits
                             /\ invoices[i].status = 1 /\ invoices[i].ref = "bill"
  <2>1. PICK i \in exact : invoices[i].status = 1
    BY <1>1, <1>8
  <2>2. i \in line /\ i \in DOMAIN invoices /\ invoices[i].ref = "bill"
    BY <1>5, <2>1 DEF exact
  <2>3. i \in billed
    BY <1>4, <1>8, <2>1, <2>2
  <2>4. \A j \in line : j = i
    BY <1>3, <1>4, <1>8, <2>1, <2>3 DEF line
  <2>5. QED
    BY <1>4, <1>8, <2>1, <2>2, <2>4
<1>9. ASSUME E = "ALREADY_BILLED"
      PROVE  \E i \in line : /\ line = {i} /\ invoices[i].link = "row" /\ invoices[i].fits
                             /\ invoices[i].status = 1 /\ invoices[i].ref = "other"
  <2>1. exact = {} /\ billed # {}
    BY <1>1, <1>9
  <2>2. PICK i \in billed : TRUE
    BY <2>1
  <2>3. i \in line /\ i \in DOMAIN invoices /\ invoices[i].status = 1 /\ invoices[i].ref = "other"
    BY <1>4, <1>5, <2>1, <2>2 DEF billed, exact
  <2>4. \A j \in line : j = i
    BY <1>3, <1>4, <1>9, <2>1, <2>2 DEF line
  <2>5. QED
    BY <1>4, <1>9, <2>3, <2>4
<1>10. QED
  BY <1>6, <1>7, <1>8, <1>9 DEF E, line

----------------------------------------------------------------------------
(* Types. *)

LEMMA EmptyRead == NoRead \in Readers
<1>1. Nothing \in Collection(Invoices) /\ Nothing \in Collection(Receipts)
  BY NothingFacts
<1>2. Unread \in Sources
  BY DEF Unread, Sources
<1>3. QED
  BY <1>1, <1>2 DEF NoRead, Readers, ByDoctype

LEMMA ReadInitType == ReadInit => ReadTypeOK
<1> SUFFICES ASSUME ReadInit PROVE ReadTypeOK
  OBVIOUS
<1>1. PICK m \in Modes : enterprise = m.enterprise /\ stored = m.stored /\ edits = m.edits
  BY DEF ReadInit
<1>2. enterprise \in Enterprises /\ stored \in Stores /\ edits \in Nat
  BY <1>1, ModesAssumption
<1>3. QED
  BY <1>2, EmptyRead DEF ReadInit, ReadTypeOK, ByDoctype, NoRead

LEMMA FailsType == ASSUME reader \in Readers, Fails PROVE reader' \in Readers /\ reader'.pc = "collected"
BY DEF Fails, Answered, Readers

LEMMA EffectsType ==
  /\ \A r, invoices : Preview(r, invoices) \in Effects
  /\ \A r : Context(r) \in Results
BY DEF Preview, RelatedEffects, Effects, Context, Results

LEMMA CommercialSourceType ==
  ASSUME ReadTypeOK
  PROVE  CommercialSource(reader) \in FrozenSources
<1>1. /\ reader.invoices \in Collection(Invoices) /\ reader.receipts \in Collection(Receipts)
      /\ reader.order \in Sources /\ reader.receipt \in Sources
  BY DEF ReadTypeOK, Readers
<1>2. /\ \A n \in DOMAIN reader.invoices : n \in Names /\ reader.invoices[n] \in Invoices
      /\ \A n \in DOMAIN reader.receipts : n \in Names /\ reader.receipts[n] \in Receipts
  BY <1>1, CollectionFacts
<1>3. reader.order.rev \in Nat /\ reader.receipt.rev \in Nat
  BY <1>1 DEF Sources
<1>4. {<<n, reader.invoices[n]>> : n \in DOMAIN reader.invoices \ {stored.draft}}
        \in SUBSET (Names \X Invoices)
  BY <1>2
<1>5. {<<n, reader.receipts[n]>> : n \in DOMAIN reader.receipts}
        \in SUBSET (Names \X Receipts)
  BY <1>2
<1>6. QED
  BY <1>3, <1>4, <1>5 DEF CommercialSource, FrozenSources

\* A document is written: the other ones stay.
LEMMA InvoiceWritten ==
  ASSUME enterprise \in Enterprises, NEW n \in Names, NEW d \in Invoices \cup {None},
         enterprise' = [enterprise EXCEPT !.invoice[n] = d]
  PROVE  /\ enterprise' \in Enterprises
         /\ enterprise'.invoice[n] = d
         /\ \A k \in Names : k # n => enterprise'.invoice[k] = enterprise.invoice[k]
         /\ enterprise'.receipt = enterprise.receipt
BY DEF Enterprises

LEMMA ReceiptWritten ==
  ASSUME enterprise \in Enterprises, NEW n \in Names, NEW d \in Receipts \cup {None},
         enterprise' = [enterprise EXCEPT !.receipt[n] = d]
  PROVE  /\ enterprise' \in Enterprises
         /\ enterprise'.receipt[n] = d
         /\ \A k \in Names : k # n => enterprise'.receipt[k] = enterprise.receipt[k]
         /\ enterprise'.invoice = enterprise.invoice
BY DEF Enterprises

\* A change keeps the row and the reference of an invoice, and never its
\* revision back.
LEMMA ChangedInvoice ==
  ASSUME enterprise \in Enterprises, ChangeInvoice
  PROVE  \E n \in Existing("invoice"), d \in Invoices :
            /\ enterprise.invoice[n] \in Invoices
            /\ enterprise' = [enterprise EXCEPT !.invoice[n] = d]
            /\ d.link = enterprise.invoice[n].link /\ d.ref = enterprise.invoice[n].ref
            /\ d.rev \in {enterprise.invoice[n].rev, enterprise.invoice[n].rev + 1}
<1>1. PICK n \in Existing("invoice") :
        \/ /\ enterprise.invoice[n].status < 2
           /\ enterprise' = [enterprise EXCEPT !.invoice[n].status = @ + 1]
        \/ enterprise' = [enterprise EXCEPT !.invoice[n].rev = @ + 1]
  BY DEF ChangeInvoice
<1>2. enterprise.invoice[n] \in Invoices
  BY DEF Enterprises, Existing
<1>3. CASE /\ enterprise.invoice[n].status < 2
           /\ enterprise' = [enterprise EXCEPT !.invoice[n].status = @ + 1]
  <2> DEFINE d == [enterprise.invoice[n] EXCEPT !.status = @ + 1]
  <2>1. d \in Invoices /\ d.link = enterprise.invoice[n].link
        /\ d.ref = enterprise.invoice[n].ref /\ d.rev = enterprise.invoice[n].rev
    BY <1>2, <1>3 DEF Invoices
  <2>2. enterprise' = [enterprise EXCEPT !.invoice[n] = d]
    BY <1>3 DEF Enterprises
  <2>3. QED
    BY <1>2, <2>1, <2>2
<1>4. CASE enterprise' = [enterprise EXCEPT !.invoice[n].rev = @ + 1]
  <2> DEFINE d == [enterprise.invoice[n] EXCEPT !.rev = @ + 1]
  <2>1. d \in Invoices /\ d.link = enterprise.invoice[n].link
        /\ d.ref = enterprise.invoice[n].ref /\ d.rev = enterprise.invoice[n].rev + 1
    BY <1>2 DEF Invoices
  <2>2. enterprise' = [enterprise EXCEPT !.invoice[n] = d]
    BY <1>4 DEF Enterprises
  <2>3. QED
    BY <1>2, <2>1, <2>2
<1>5. QED
  BY <1>1, <1>3, <1>4

LEMMA ReadTypeStep == ReadTypeOK /\ [ReadNext]_readVars => ReadTypeOK'
<1> SUFFICES ASSUME ReadTypeOK, [ReadNext]_readVars PROVE ReadTypeOK'
  OBVIOUS
<1> USE DEF ReadTypeOK
<1>1. CASE StartRead
  <2>1. reader' \in Readers /\ reader'.pc = "order"
    BY <1>1, EmptyRead DEF StartRead, Readers
  <2>2. before' \in ByDoctype
    BY <1>1 DEF StartRead, Concerning, Existing, ByDoctype
  <2>3. QED
    BY <1>1, <2>1, <2>2 DEF StartRead
<1>2. CASE ReadSources
  <2>1. /\ enterprise.order \in Sources /\ enterprise.target \in Sources
        /\ enterprise.mapper \in Proposals
    BY DEF Enterprises
  <2>2. reader' \in Readers /\ reader'.pc # "direct"
    BY <1>2, <2>1 DEF ReadSources, Answered, Readers
  <2>3. QED
    BY <1>2, <2>2 DEF ReadSources
<1>3. ASSUME NEW doctype \in {"invoice", "receipt"}, NEW pc \in {"invoice", "receipts"},
             NEW next \in {"receipts", "documents"}, DiscoverPage(doctype, pc, next)
      PROVE  ReadTypeOK'
  <2> DEFINE rows == Page(Existing(doctype), reader.page)
  <2>1. rows \in SUBSET Names
    BY DEF Page, Existing
  <2>2. CASE Fails
    BY <1>3, <2>2, FailsType DEF DiscoverPage
  <2>3. CASE ~ Fails
    <3> DEFINE to == IF LastPage(rows) THEN next ELSE pc
               page == IF LastPage(rows) THEN 0 ELSE reader.page + 1
    <3>1. reader' = [reader EXCEPT !.pc = to, !.names[doctype] = reader.names[doctype] \cup rows,
                        !.page = page]
      BY <1>3, <2>3 DEF DiscoverPage, Answered
    <3>2. to \in {"invoice", "receipts", "documents"} /\ page \in Nat
      BY DEF Readers
    <3> HIDE DEF to, page
    <3>3. reader' \in Readers /\ reader'.pc # "direct"
      BY <2>1, <3>1, <3>2 DEF Readers, ByDoctype
    <3>4. QED
      BY <1>3, <3>3 DEF DiscoverPage
  <2>4. QED
    BY <2>2, <2>3
<1>4. CASE ReadInvoice
  <2>1. PICK n \in Names :
          IF enterprise.invoice[n] = None \/ ~ InvoiceReadable(enterprise.invoice[n]) THEN Fails
          ELSE reader' = [reader EXCEPT !.invoices = With(@, n, enterprise.invoice[n])]
    BY <1>4 DEF ReadInvoice
  <2>2. CASE Fails
    BY <1>4, <2>2, FailsType DEF ReadInvoice
  <2>3. CASE ~ Fails
    <3>1. enterprise.invoice[n] \in Invoices
      BY <2>1, <2>3 DEF Enterprises
    <3>2. With(reader.invoices, n, enterprise.invoice[n]) \in Collection(Invoices)
      BY <3>1, WithType DEF Readers
    <3>3. reader' \in Readers /\ reader'.pc = reader.pc
      BY <2>1, <2>3, <3>2 DEF Readers
    <3>4. QED
      BY <1>4, <3>3 DEF ReadInvoice
  <2>4. QED
    BY <2>2, <2>3
<1>5. CASE ReadReceipt
  <2>1. PICK n \in Names :
          IF enterprise.receipt[n] = None \/ ~ ReceiptReadable(enterprise.receipt[n]) THEN Fails
          ELSE reader' = [reader EXCEPT !.receipts = With(@, n, enterprise.receipt[n])]
    BY <1>5 DEF ReadReceipt
  <2>2. CASE Fails
    BY <1>5, <2>2, FailsType DEF ReadReceipt
  <2>3. CASE ~ Fails
    <3>1. enterprise.receipt[n] \in Receipts
      BY <2>1, <2>3 DEF Enterprises
    <3>2. With(reader.receipts, n, enterprise.receipt[n]) \in Collection(Receipts)
      BY <3>1, WithType DEF Readers
    <3>3. reader' \in Readers /\ reader'.pc = reader.pc
      BY <2>1, <2>3, <3>2 DEF Readers
    <3>4. QED
      BY <1>5, <3>3 DEF ReadReceipt
  <2>4. QED
    BY <2>2, <2>3
<1>6. CASE Collected
  BY <1>6 DEF Collected, Readers
<1>7. CASE RequestFails
  BY <1>7, FailsType DEF RequestFails
<1>8. CASE ShowPreview
  <2>1. Preview(reader, reader.invoices) \in Effects
    BY EffectsType
  <2>2. QED
    BY <1>8, <2>1 DEF ShowPreview, Readers
<1>9. CASE DirectGet
  <2>1. stored.draft \in Names
    BY <1>9 DEF DirectGet, Stores
  <2>2. enterprise.invoice[stored.draft] \in Invoices \cup {None}
    BY <2>1 DEF Enterprises
  <2>3. QED
    BY <1>9, <2>2 DEF DirectGet, Answered, Readers, Results
<1>10. CASE BuildContext
  <2>1. Context(reader) \in Results
    BY EffectsType
  <2>2. QED
    BY <1>10, <2>1 DEF BuildContext, Readers
<1>11. CASE Prepare
  <2>1. reader' \in Readers
    BY <1>11 DEF Prepare, Readers, Results
  <2>2. CommercialSource(reader) \in FrozenSources /\ reader.mapper \in Proposals \cup {None}
    BY CommercialSourceType DEF Readers
  <2>3. stored' \in Stores
    BY <1>11, <2>2 DEF Prepare, Stores
  <2>4. QED
    BY <1>11, <2>1, <2>3 DEF Prepare
<1>12. CASE RefreshSource
  BY <1>12 DEF RefreshSource, Readers, Results
<1>13. CASE AddDocument
  <2>1. enterprise' \in Enterprises
    <3>1. ASSUME NEW n \in Names, NEW d \in NewInvoices,
                 enterprise' = [enterprise EXCEPT !.invoice[n] = d]
          PROVE  enterprise' \in Enterprises
      BY <3>1, DocumentsAssumption, InvoiceWritten
    <3>2. ASSUME NEW n \in Names, NEW d \in NewReceipts,
                 enterprise' = [enterprise EXCEPT !.receipt[n] = d]
          PROVE  enterprise' \in Enterprises
      BY <3>2, DocumentsAssumption, ReceiptWritten
    <3>3. QED
      BY <1>13, <3>1, <3>2 DEF AddDocument
  <2>2. reused' \in BOOLEAN
    BY <1>13 DEF AddDocument
  <2>3. edits' \in Nat /\ before' = before /\ reader' = reader /\ stored' = stored
    BY <1>13 DEF AddDocument, Edit
  <2>4. QED
    BY <2>1, <2>2, <2>3
<1>14. CASE ChangeInvoice
  <2>1. enterprise' \in Enterprises
    BY <1>14, ChangedInvoice, InvoiceWritten DEF Existing
  <2>2. QED
    BY <1>14, <2>1 DEF ChangeInvoice, Edit
<1>15. CASE DeleteInvoice
  <2>1. PICK n \in Names : /\ enterprise' = [enterprise EXCEPT !.invoice[n] = None]
                           /\ before' = [before EXCEPT !.invoice = @ \ {n}]
    BY <1>15 DEF DeleteInvoice, Existing
  <2>2. enterprise' \in Enterprises
    BY <2>1, InvoiceWritten
  <2>3. before' \in ByDoctype
    BY <2>1 DEF ByDoctype
  <2>4. QED
    BY <1>15, <2>2, <2>3 DEF DeleteInvoice, Edit
<1>16. CASE ChangeSources
  <2>1. enterprise' \in Enterprises
    BY <1>16 DEF ChangeSources, Enterprises, Sources, Proposals
  <2>2. QED
    BY <1>16, <2>1 DEF ChangeSources, Edit
<1>17. CASE UNCHANGED readVars
  BY <1>17 DEF readVars
<1>18. QED
  BY <1>1, <1>2, <1>3, <1>4, <1>5, <1>6, <1>7, <1>8, <1>9, <1>10, <1>11, <1>12, <1>13,
     <1>14, <1>15, <1>16, <1>17 DEF ReadNext, Done

----------------------------------------------------------------------------
(* Steps of the reader. *)

ReadInv ==
  /\ PhaseInv /\ PastInv /\ InvoicePagesInv /\ ReceiptPagesInv
  /\ JournalInv /\ ReadyMeansClear /\ PreviewIsExact

LEMMA FailsStep ==
  ASSUME ReadTypeOK, ReadInv, Fails, UNCHANGED <<enterprise, stored, before, reused>>,
         reader.pc \in {"order", "receipt", "mapper", "invoice", "receipts", "documents"}
  PROVE  ReadInv'
<1>1. /\ reader'.pc = "collected" /\ reader'.complete = FALSE
      /\ reader'.names = reader.names
      /\ reader'.invoices = reader.invoices /\ reader'.receipts = reader.receipts
      /\ reader'.preview = reader.preview /\ reader'.result = reader.result
  BY DEF Fails, Answered, ReadTypeOK, Readers
<1>2. reader.preview = None /\ reader.result = None
  BY DEF ReadInv, PhaseInv, Judging
<1>3. PhaseInv'
  BY <1>1, <1>2 DEF ReadInv, PhaseInv, Sourcing, Listing
<1>4. PastInv'
  BY <1>1 DEF ReadInv, PastInv
<1>5. InvoicePagesInv' /\ ReceiptPagesInv'
  BY <1>1 DEF InvoicePagesInv, ReceiptPagesInv
<1>6. JournalInv'
  BY <1>1 DEF ReadInv, JournalInv, Older
<1>7. ReadyMeansClear' /\ PreviewIsExact'
  BY <1>1, <1>2, NoneAssumption DEF ReadyMeansClear, PreviewIsExact, Effects, Results
<1>8. QED
  BY <1>3, <1>4, <1>5, <1>6, <1>7 DEF ReadInv

LEMMA StartStep == ReadTypeOK /\ ReadInv /\ StartRead => ReadInv'
<1> SUFFICES ASSUME ReadTypeOK, ReadInv, StartRead PROVE ReadInv'
  OBVIOUS
<1>1. /\ reader.pc = "idle" /\ enterprise' = enterprise /\ stored' = stored
      /\ before' = Concerning /\ reused' = FALSE
  BY DEF StartRead
<1>2. /\ reader'.pc = "order" /\ reader'.page = 0 /\ reader'.complete = FALSE
      /\ reader'.names.invoice = {} /\ reader'.names.receipt = {}
      /\ DOMAIN reader'.invoices = {} /\ DOMAIN reader'.receipts = {}
      /\ reader'.preview = None /\ reader'.result = None
  BY NothingFacts DEF StartRead, NoRead
<1>3. PhaseInv'
  BY <1>2 DEF PhaseInv, Sourcing, Listing
<1>4. PastInv'
  BY <1>1, <1>2 DEF PastInv, Concerning, Existing
<1>5. InvoicePagesInv' /\ ReceiptPagesInv'
  BY <1>2 DEF InvoicePagesInv, ReceiptPagesInv
<1>6. JournalInv'
  BY <1>1, <1>2 DEF ReadInv, JournalInv, Older
<1>7. ReadyMeansClear' /\ PreviewIsExact'
  BY <1>2, NoneAssumption DEF ReadyMeansClear, PreviewIsExact, Effects, Results
<1>8. QED
  BY <1>3, <1>4, <1>5, <1>6, <1>7 DEF ReadInv

LEMMA SourcesStep == ReadTypeOK /\ ReadInv /\ ReadSources => ReadInv'
<1> SUFFICES ASSUME ReadTypeOK, ReadInv, ReadSources PROVE ReadInv'
  OBVIOUS
<1>1. UNCHANGED <<enterprise, stored, before, reused>>
  BY DEF ReadSources
<1>2. /\ Sourcing /\ reader'.pc \in {"receipt", "mapper", "invoice"}
      /\ reader'.names = reader.names /\ reader'.page = reader.page
      /\ reader'.invoices = reader.invoices /\ reader'.receipts = reader.receipts
      /\ reader'.preview = reader.preview /\ reader'.result = reader.result
      /\ reader'.complete = reader.complete
  BY DEF ReadSources, Answered, ReadTypeOK, Readers, Sourcing
<1>3. /\ reader.names.invoice = {} /\ reader.names.receipt = {} /\ reader.page = 0
      /\ DOMAIN reader.invoices = {} /\ DOMAIN reader.receipts = {}
      /\ reader.preview = None /\ reader.result = None /\ ~ reader.complete
  BY <1>2 DEF ReadInv, PhaseInv, Sourcing, Judging
<1>4. PhaseInv'
  BY <1>1, <1>2, <1>3 DEF PhaseInv, Sourcing, Listing
<1>5. PastInv'
  BY <1>1, <1>2 DEF ReadInv, PastInv
<1>6. InvoicePagesInv' /\ ReceiptPagesInv'
  <2>1. Cardinality({}) = 0 /\ 0 * PageSize = 0
    BY FS_EmptySet, ReadBoundsAssumption
  <2>2. QED
    BY <1>2, <1>3, <2>1 DEF InvoicePagesInv, ReceiptPagesInv, After
<1>7. JournalInv'
  BY <1>1, <1>2 DEF ReadInv, JournalInv, Older, Sourcing
<1>8. ReadyMeansClear' /\ PreviewIsExact'
  BY <1>2, <1>3, NoneAssumption DEF ReadyMeansClear, PreviewIsExact, Effects, Results
<1>9. QED
  BY <1>4, <1>5, <1>6, <1>7, <1>8 DEF ReadInv

\* One page of names that does not end the read: the names it adds come after
\* the ones before, and what the whole list still misses comes after them.
LEMMA NextPage ==
  ASSUME NEW S \in SUBSET Names, NEW names \in SUBSET Names, NEW p \in Nat,
         Cardinality(names) >= p * PageSize,
         ~ \E n \in Page(S, p), m \in names : n <= m
  PROVE  /\ ~ LastPage(Page(S, p)) =>
              Cardinality(names \cup Page(S, p)) >= (p + 1) * PageSize
         /\ names \subseteq S =>
              \A n \in S \ names : After(n, names) =>
                 \/ n \in Page(S, p)
                 \/ ~ LastPage(Page(S, p)) /\ After(n, names \cup Page(S, p))
<1> DEFINE rows == Page(S, p)
<1>0. PICK a \in Nat : /\ PageSize \in Nat \ {0} /\ p * PageSize = a
                       /\ (p + 1) * PageSize = a + PageSize
  BY PageBounds
<1>1. /\ rows \in SUBSET S /\ S \in SUBSET Nat /\ names \in SUBSET Nat
      /\ IsFiniteSet(S) /\ IsFiniteSet(names)
  BY FS_Subset, ReadBoundsAssumption DEF Page
<1>2. IsFiniteSet(rows)
  BY <1>1, FS_Subset
<1>3. Cardinality(rows) \in Nat /\ Cardinality(names) \in Nat
  BY <1>1, <1>2, FS_CardinalityType
<1>4. names \cap rows = {}
  <2> SUFFICES ASSUME NEW n \in names, n \in rows PROVE FALSE
    OBVIOUS
  <2>1. n <= n
    BY <1>1
  <2>2. QED
    BY <2>1
<1>5. Cardinality(names \cup rows) = Cardinality(names) + Cardinality(rows)
  <2>1. Cardinality(names \cap rows) = 0
    BY <1>4, FS_EmptySet
  <2>2. Cardinality(names \cup rows) =
          Cardinality(names) + Cardinality(rows) - Cardinality(names \cap rows)
    BY <1>1, <1>2, FS_Union
  <2> HIDE DEF rows
  <2>3. QED
    BY <1>3, <2>1, <2>2
<1>6. ~ LastPage(rows) => Cardinality(names \cup rows) >= (p + 1) * PageSize
  BY <1>0, <1>3, <1>5 DEF LastPage
<1>7. ASSUME names \subseteq S, NEW n \in S \ names, After(n, names)
      PROVE  \/ n \in rows
             \/ ~ LastPage(rows) /\ After(n, names \cup rows)
  <2>1. Rank(S, n) > Cardinality(names)
    BY <1>1, <1>7, RankAbove DEF After
  <2>2. Rank(S, n) \in Nat
    BY <1>1, RankType
  <2>3. Rank(S, n) > p * PageSize
    BY <1>0, <1>3, <2>1, <2>2
  <2>4. LastPage(rows) => n \in rows
    BY <1>1, <2>3, LastPageReaches
  <2>5. n \notin rows => \A k \in rows : k < n
    BY <1>1, <2>3, BeyondPage
  <2>6. QED
    BY <1>7, <2>4, <2>5 DEF After
<1>8. QED
  BY <1>6, <1>7

LEMMA DiscoverInvoiceStep ==
  ReadTypeOK /\ ReadInv /\ DiscoverPage("invoice", "invoice", "receipts") => ReadInv'
<1> SUFFICES ASSUME ReadTypeOK, ReadInv, DiscoverPage("invoice", "invoice", "receipts")
             PROVE  ReadInv'
  OBVIOUS
<1> DEFINE S == Existing("invoice")
           rows == Page(S, reader.page)
           names == reader.names.invoice
<1>1. UNCHANGED <<enterprise, stored, before, reused>> /\ reader.pc = "invoice"
  BY DEF DiscoverPage
<1>2. CASE Fails
  BY <1>1, <1>2, FailsStep
<1>3. CASE ~ Fails
  <2>1. /\ ~ \E n \in rows, m \in names : n <= m
        /\ reader' = [Answered(IF LastPage(rows) THEN "receipts" ELSE "invoice") EXCEPT
                        !.names["invoice"] = names \cup rows,
                        !.page = IF LastPage(rows) THEN 0 ELSE @ + 1]
    BY <1>3 DEF DiscoverPage
  <2>2. /\ reader'.pc = IF LastPage(rows) THEN "receipts" ELSE "invoice"
        /\ reader'.page = IF LastPage(rows) THEN 0 ELSE reader.page + 1
        /\ reader'.names.invoice = names \cup rows
        /\ reader'.names.receipt = reader.names.receipt
        /\ reader'.invoices = reader.invoices /\ reader'.receipts = reader.receipts
        /\ reader'.preview = reader.preview /\ reader'.result = reader.result
        /\ reader'.complete = reader.complete
    BY <2>1 DEF Answered, ReadTypeOK, Readers, ByDoctype
  <2>3. /\ reader.names.receipt = {} /\ ~ reader.complete
        /\ DOMAIN reader.invoices = {} /\ DOMAIN reader.receipts = {}
        /\ reader.preview = None /\ reader.result = None
    BY <1>1 DEF ReadInv, PhaseInv, Sourcing, Listing, Judging
  <2>4. /\ Cardinality(names) >= reader.page * PageSize
        /\ SomeLost \/ \A n \in before.invoice \ names : After(n, names)
    BY <1>1 DEF ReadInv, InvoicePagesInv
  <2>5. S \in SUBSET Names /\ names \in SUBSET Names /\ reader.page \in Nat
    BY DEF Existing, ReadTypeOK, Readers, ByDoctype
  <2>6. PhaseInv'
    BY <1>1, <2>2, <2>3 DEF PhaseInv, Sourcing, Listing
  <2>7. PastInv'
    BY <1>1, <2>2 DEF ReadInv, PastInv
  <2>8. InvoicePagesInv'
    <3>1. SomeLost => SomeLost'
      BY <1>1, <2>2 DEF SomeLost, Lost, Regiven, Older
    <3>2. ~ SomeLost => names \subseteq S
      BY <2>3, <2>5 DEF SomeLost, Lost, Existing
    <3>3. before.invoice \subseteq S
      BY DEF ReadInv, PastInv, Existing, ReadTypeOK, ByDoctype
    <3>4. ~ LastPage(rows) => Cardinality(names \cup rows) >= (reader.page + 1) * PageSize
      BY <2>1, <2>4, <2>5, NextPage
    <3>5. ~ SomeLost =>
            \A n \in before.invoice \ names :
               n \in rows \/ (~ LastPage(rows) /\ After(n, names \cup rows))
      BY <2>1, <2>4, <2>5, <3>2, <3>3, NextPage
    <3> HIDE DEF names, rows, S
    <3>6. QED
      BY <1>1, <2>2, <2>3, <3>1, <3>4, <3>5 DEF InvoicePagesInv
  <2>9. ReceiptPagesInv'
    <3>1. Cardinality({}) = 0 /\ 0 * PageSize = 0
      BY FS_EmptySet, ReadBoundsAssumption
    <3>2. QED
      BY <2>2, <2>3, <3>1 DEF ReceiptPagesInv, After
  <2>10. JournalInv'
    BY <1>1, <2>2 DEF ReadInv, JournalInv, Older
  <2>11. ReadyMeansClear' /\ PreviewIsExact'
    BY <2>2, <2>3, NoneAssumption DEF ReadyMeansClear, PreviewIsExact, Effects, Results
  <2>12. QED
    BY <2>6, <2>7, <2>8, <2>9, <2>10, <2>11 DEF ReadInv
<1>4. QED
  BY <1>2, <1>3

LEMMA DiscoverReceiptStep ==
  ReadTypeOK /\ ReadInv /\ DiscoverPage("receipt", "receipts", "documents") => ReadInv'
<1> SUFFICES ASSUME ReadTypeOK, ReadInv, DiscoverPage("receipt", "receipts", "documents")
             PROVE  ReadInv'
  OBVIOUS
<1> DEFINE S == Existing("receipt")
           rows == Page(S, reader.page)
           names == reader.names.receipt
<1>1. UNCHANGED <<enterprise, stored, before, reused>> /\ reader.pc = "receipts"
  BY DEF DiscoverPage
<1>2. CASE Fails
  BY <1>1, <1>2, FailsStep
<1>3. CASE ~ Fails
  <2>1. /\ ~ \E n \in rows, m \in names : n <= m
        /\ reader' = [Answered(IF LastPage(rows) THEN "documents" ELSE "receipts") EXCEPT
                        !.names["receipt"] = names \cup rows,
                        !.page = IF LastPage(rows) THEN 0 ELSE @ + 1]
    BY <1>3 DEF DiscoverPage
  <2>2. /\ reader'.pc = IF LastPage(rows) THEN "documents" ELSE "receipts"
        /\ reader'.page = IF LastPage(rows) THEN 0 ELSE reader.page + 1
        /\ reader'.names.receipt = names \cup rows
        /\ reader'.names.invoice = reader.names.invoice
        /\ reader'.invoices = reader.invoices /\ reader'.receipts = reader.receipts
        /\ reader'.preview = reader.preview /\ reader'.result = reader.result
        /\ reader'.complete = reader.complete
    BY <2>1 DEF Answered, ReadTypeOK, Readers, ByDoctype
  <2>3. /\ ~ reader.complete
        /\ DOMAIN reader.invoices = {} /\ DOMAIN reader.receipts = {}
        /\ reader.preview = None /\ reader.result = None
    BY <1>1 DEF ReadInv, PhaseInv, Sourcing, Listing, Judging
  <2>4. /\ Cardinality(names) >= reader.page * PageSize
        /\ names \subseteq S
        /\ \A n \in before.receipt \ names : After(n, names)
    BY <1>1 DEF ReadInv, ReceiptPagesInv
  <2>5. S \in SUBSET Names /\ names \in SUBSET Names /\ reader.page \in Nat
    BY DEF Existing, ReadTypeOK, Readers, ByDoctype
  <2>6. PhaseInv'
    BY <1>1, <2>2, <2>3 DEF PhaseInv, Sourcing, Listing
  <2>7. PastInv'
    BY <1>1, <2>2 DEF ReadInv, PastInv
  <2>8. InvoicePagesInv'
    <3>1. SomeLost => SomeLost'
      BY <1>1, <2>2 DEF SomeLost, Lost, Regiven, Older
    <3>2. SomeLost \/ before.invoice \subseteq reader.names.invoice
      BY <1>1 DEF ReadInv, InvoicePagesInv
    <3>3. QED
      BY <1>1, <2>2, <2>3, <3>1, <3>2 DEF InvoicePagesInv
  <2>9. ReceiptPagesInv'
    <3>1. before.receipt \subseteq S
      BY DEF ReadInv, PastInv, Existing, ReadTypeOK, ByDoctype
    <3>2. ~ LastPage(rows) => Cardinality(names \cup rows) >= (reader.page + 1) * PageSize
      BY <2>1, <2>4, <2>5, NextPage
    <3>3. \A n \in before.receipt \ names :
             n \in rows \/ (~ LastPage(rows) /\ After(n, names \cup rows))
      BY <2>1, <2>4, <2>5, <3>1, NextPage
    <3>4. rows \subseteq S /\ S' = S
      BY <1>1 DEF Page, Existing
    <3> HIDE DEF names, rows
    <3>5. QED
      BY <1>1, <2>2, <2>3, <2>4, <3>2, <3>3, <3>4 DEF ReceiptPagesInv
  <2>10. JournalInv'
    BY <1>1, <2>2 DEF ReadInv, JournalInv, Older
  <2>11. ReadyMeansClear' /\ PreviewIsExact'
    BY <2>2, <2>3, NoneAssumption DEF ReadyMeansClear, PreviewIsExact, Effects, Results
  <2>12. QED
    BY <2>6, <2>7, <2>8, <2>9, <2>10, <2>11 DEF ReadInv
<1>4. QED
  BY <1>2, <1>3

LEMMA ReadInvoiceStep == ReadTypeOK /\ ReadInv /\ ReadInvoice => ReadInv'
<1> SUFFICES ASSUME ReadTypeOK, ReadInv, ReadInvoice PROVE ReadInv'
  OBVIOUS
<1>1. UNCHANGED <<enterprise, stored, before, reused>> /\ reader.pc = "documents"
  BY DEF ReadInvoice
<1>2. PICK n \in Names :
        /\ n \in reader.names.invoice \ DOMAIN reader.invoices
        /\ IF enterprise.invoice[n] = None \/ ~ InvoiceReadable(enterprise.invoice[n]) THEN Fails
           ELSE reader' = [reader EXCEPT !.invoices = With(@, n, enterprise.invoice[n])]
  BY DEF ReadInvoice, NextOf
<1>3. CASE Fails
  BY <1>1, <1>3, FailsStep
<1>4. CASE ~ Fails
  <2> DEFINE d == enterprise.invoice[n]
             invoices == With(reader.invoices, n, d)
  <2>1. d # None /\ reader' = [reader EXCEPT !.invoices = invoices]
    BY <1>2, <1>4
  <2>3. /\ DOMAIN invoices = DOMAIN reader.invoices \cup {n}
        /\ invoices[n] = d
        /\ \A m \in DOMAIN reader.invoices : m # n => invoices[m] = reader.invoices[m]
    BY DEF With
  <2>4. /\ reader'.pc = reader.pc /\ reader'.page = reader.page /\ reader'.names = reader.names
        /\ reader'.invoices = invoices /\ reader'.receipts = reader.receipts
        /\ reader'.preview = reader.preview /\ reader'.result = reader.result
        /\ reader'.complete = reader.complete
    BY <2>1 DEF ReadTypeOK, Readers
  <2> HIDE DEF invoices
  <2>5. reader.preview = None /\ reader.result = None /\ ~ reader.complete
    BY <1>1 DEF ReadInv, PhaseInv, Judging
  <2>6. PhaseInv'
    BY <1>1, <1>2, <2>3, <2>4, <2>5 DEF ReadInv, PhaseInv, Sourcing, Listing
  <2>7. PastInv'
    BY <1>1, <1>2, <2>3, <2>4 DEF ReadInv, PastInv
  <2>8. InvoicePagesInv'
    <3>1. \A m \in reader.names.invoice : Lost(m) => Lost(m)'
      BY <1>1, <1>2, <2>1, <2>3, <2>4 DEF Lost, Regiven, Older
    <3>2. SomeLost => SomeLost'
      BY <2>4, <3>1 DEF SomeLost
    <3>3. SomeLost \/ before.invoice \subseteq reader.names.invoice
      BY <1>1 DEF ReadInv, InvoicePagesInv
    <3>4. QED
      BY <1>1, <2>4, <2>5, <3>2, <3>3 DEF InvoicePagesInv
  <2>9. ReceiptPagesInv'
    BY <1>1, <2>4 DEF ReadInv, ReceiptPagesInv
  <2>10. JournalInv'
    BY <1>1, <2>4 DEF ReadInv, JournalInv, Older
  <2>11. ReadyMeansClear' /\ PreviewIsExact'
    BY <2>4, <2>5, NoneAssumption DEF ReadyMeansClear, PreviewIsExact, Effects, Results
  <2>12. QED
    BY <2>6, <2>7, <2>8, <2>9, <2>10, <2>11 DEF ReadInv
<1>5. QED
  BY <1>3, <1>4

LEMMA ReadReceiptStep == ReadTypeOK /\ ReadInv /\ ReadReceipt => ReadInv'
<1> SUFFICES ASSUME ReadTypeOK, ReadInv, ReadReceipt PROVE ReadInv'
  OBVIOUS
<1>1. UNCHANGED <<enterprise, stored, before, reused>> /\ reader.pc = "documents"
  BY DEF ReadReceipt
<1>2. PICK n \in Names :
        /\ n \in reader.names.receipt \ DOMAIN reader.receipts
        /\ IF enterprise.receipt[n] = None \/ ~ ReceiptReadable(enterprise.receipt[n]) THEN Fails
           ELSE reader' = [reader EXCEPT !.receipts = With(@, n, enterprise.receipt[n])]
  BY DEF ReadReceipt, NextOf
<1>3. CASE Fails
  BY <1>1, <1>3, FailsStep
<1>4. CASE ~ Fails
  <2> DEFINE d == enterprise.receipt[n]
             receipts == With(reader.receipts, n, d)
  <2>1. d # None /\ reader' = [reader EXCEPT !.receipts = receipts]
    BY <1>2, <1>4
  <2>3. /\ DOMAIN receipts = DOMAIN reader.receipts \cup {n}
        /\ receipts[n] = d
        /\ \A m \in DOMAIN reader.receipts : m # n => receipts[m] = reader.receipts[m]
    BY DEF With
  <2>4. /\ reader'.pc = reader.pc /\ reader'.page = reader.page /\ reader'.names = reader.names
        /\ reader'.invoices = reader.invoices /\ reader'.receipts = receipts
        /\ reader'.preview = reader.preview /\ reader'.result = reader.result
        /\ reader'.complete = reader.complete
    BY <2>1 DEF ReadTypeOK, Readers
  <2> HIDE DEF receipts
  <2>5. reader.preview = None /\ reader.result = None /\ ~ reader.complete
    BY <1>1 DEF ReadInv, PhaseInv, Judging
  <2>6. PhaseInv'
    BY <1>1, <1>2, <2>3, <2>4, <2>5 DEF ReadInv, PhaseInv, Sourcing, Listing
  <2>7. PastInv'
    BY <1>1, <1>2, <2>3, <2>4 DEF ReadInv, PastInv
  <2>8. InvoicePagesInv'
    <3>1. SomeLost => SomeLost'
      BY <1>1, <2>4 DEF SomeLost, Lost, Regiven, Older
    <3>2. QED
      BY <1>1, <2>4, <2>5, <3>1 DEF ReadInv, InvoicePagesInv
  <2>9. ReceiptPagesInv'
    BY <1>1, <2>4 DEF ReadInv, ReceiptPagesInv
  <2>10. JournalInv'
    BY <1>1, <2>4 DEF ReadInv, JournalInv, Older
  <2>11. ReadyMeansClear' /\ PreviewIsExact'
    BY <2>4, <2>5, NoneAssumption DEF ReadyMeansClear, PreviewIsExact, Effects, Results
  <2>12. QED
    BY <2>6, <2>7, <2>8, <2>9, <2>10, <2>11 DEF ReadInv
<1>5. QED
  BY <1>3, <1>4

LEMMA CollectedStep == ReadTypeOK /\ ReadInv /\ Collected => ReadInv'
<1> SUFFICES ASSUME ReadTypeOK, ReadInv, Collected PROVE ReadInv'
  OBVIOUS
<1>1. /\ UNCHANGED <<enterprise, stored, before, reused>>
      /\ reader.pc = "documents" /\ AllRead
  BY DEF Collected
<1>2. /\ reader'.pc = "collected" /\ reader'.complete = TRUE /\ reader'.names = reader.names
      /\ reader'.invoices = reader.invoices /\ reader'.receipts = reader.receipts
      /\ reader'.preview = reader.preview /\ reader'.result = reader.result
  BY DEF Collected, ReadTypeOK, Readers
<1>3. reader.preview = None /\ reader.result = None
  BY <1>1 DEF ReadInv, PhaseInv, Judging
<1>4. PhaseInv'
  BY <1>1, <1>2, <1>3 DEF ReadInv, PhaseInv, Sourcing, Listing, AllRead
<1>5. PastInv'
  BY <1>1, <1>2 DEF ReadInv, PastInv
<1>6. InvoicePagesInv' /\ ReceiptPagesInv'
  <2>1. SomeLost => SomeLost'
    BY <1>1, <1>2 DEF SomeLost, Lost, Regiven, Older
  <2>2. QED
    BY <1>1, <1>2, <2>1 DEF ReadInv, InvoicePagesInv, ReceiptPagesInv
<1>7. JournalInv'
  BY <1>1, <1>2 DEF ReadInv, JournalInv, Older
<1>8. ReadyMeansClear' /\ PreviewIsExact'
  BY <1>2, <1>3, NoneAssumption DEF ReadyMeansClear, PreviewIsExact, Effects, Results
<1>9. QED
  BY <1>4, <1>5, <1>6, <1>7, <1>8 DEF ReadInv

\* A step that judges what was read leaves the collection alone.
Judges ==
  /\ UNCHANGED <<enterprise, before, reused>> /\ stored'.draft = stored.draft
  /\ reader.pc \in {"collected", "direct", "context", "journal"}
  /\ reader'.pc \in {"direct", "context", "journal", "done"}
  /\ reader'.names = reader.names /\ reader'.complete = reader.complete
  /\ reader'.invoices = reader.invoices /\ reader'.receipts = reader.receipts

LEMMA JudgesStep ==
  ASSUME ReadTypeOK, ReadInv, Judges, stored' = stored \/ reader'.pc = "done",
         reader'.result # None => reader'.pc \in {"journal", "done"}
  PROVE  PhaseInv' /\ PastInv' /\ InvoicePagesInv' /\ ReceiptPagesInv'
<1>1. PhaseInv'
  BY DEF ReadInv, PhaseInv, Judges, Judging, Sourcing, Listing, AllRead
<1>2. PastInv'
  BY DEF ReadInv, PastInv, Judges
<1>3. InvoicePagesInv'
  <2>1. stored' = stored => (SomeLost => SomeLost')
    BY DEF SomeLost, Lost, Regiven, Older, Judges
  <2>2. QED
    BY <2>1 DEF ReadInv, InvoicePagesInv, Judges
<1>4. ReceiptPagesInv'
  BY DEF ReadInv, ReceiptPagesInv, Judges
<1>5. QED
  BY <1>1, <1>2, <1>3, <1>4

LEMMA ShowPreviewStep == ReadTypeOK /\ ReadInv /\ ShowPreview => ReadInv'
<1> SUFFICES ASSUME ReadTypeOK, ReadInv, ShowPreview PROVE ReadInv'
  OBVIOUS
<1>1. /\ UNCHANGED <<enterprise, stored, before, reused>>
      /\ reader.pc = "collected" /\ reader'.pc \in {"direct", "context"}
      /\ reader'.names = reader.names /\ reader'.complete = reader.complete
      /\ reader'.invoices = reader.invoices /\ reader'.receipts = reader.receipts
      /\ reader'.preview = Preview(reader, reader.invoices)
      /\ reader'.result = reader.result
  BY DEF ShowPreview, ReadTypeOK, Readers
<1>2. reader.result = None
  BY <1>1 DEF ReadInv, PhaseInv
<1>3. PhaseInv' /\ PastInv' /\ InvoicePagesInv' /\ ReceiptPagesInv'
  BY <1>1, <1>2, JudgesStep DEF Judges
<1>4. JournalInv' /\ ReadyMeansClear'
  BY <1>1, <1>2, NoneAssumption DEF ReadInv, JournalInv, Older, ReadyMeansClear, Results
<1>5. PreviewIsExact'
  <2>1. reader.invoices \in Collection(Invoices) /\ IsFiniteSet(Names)
    BY ReadBoundsAssumption DEF ReadTypeOK, Readers
  <2>2. \/ reader'.preview = "HOLD"
        \/ reader'.preview = RelatedEffects(reader.invoices, reader.receipts)
    BY <1>1 DEF Preview
  <2>3. QED
    BY <1>1, <2>1, <2>2, OneEffect DEF PreviewIsExact
<1>6. QED
  BY <1>3, <1>4, <1>5 DEF ReadInv

LEMMA DirectGetStep == ReadTypeOK /\ ReadInv /\ DirectGet => ReadInv'
<1> SUFFICES ASSUME ReadTypeOK, ReadInv, DirectGet PROVE ReadInv'
  OBVIOUS
<1>1. /\ UNCHANGED <<enterprise, stored, before, reused>>
      /\ reader.pc = "direct" /\ reader'.pc \in {"context", "done"}
      /\ reader'.names = reader.names /\ reader'.complete = reader.complete
      /\ reader'.invoices = reader.invoices /\ reader'.receipts = reader.receipts
      /\ reader'.preview = reader.preview
      /\ reader'.result = IF reader'.pc = "done" THEN "NO_HIT" ELSE reader.result
  BY DEF DirectGet, Answered, ReadTypeOK, Readers
<1>2. reader.result = None
  BY <1>1 DEF ReadInv, PhaseInv
<1>3. PhaseInv' /\ PastInv' /\ InvoicePagesInv' /\ ReceiptPagesInv'
  BY <1>1, <1>2, JudgesStep DEF Judges
<1>4. JournalInv' /\ ReadyMeansClear'
  BY <1>1, <1>2, NoneAssumption DEF ReadInv, JournalInv, Older, ReadyMeansClear, Results
<1>5. PreviewIsExact'
  BY <1>1 DEF ReadInv, PreviewIsExact
<1>6. QED
  BY <1>3, <1>4, <1>5 DEF ReadInv

\* A ready context is one in which nothing that was read concerns the bill.
LEMMA ReadyContext ==
  ASSUME ReadTypeOK, ReadInv, Context(reader) = "ready"
  PROVE  /\ reader.complete /\ NothingRead
         /\ stored.draft # None =>
              /\ stored.draft \in DOMAIN reader.invoices
              /\ reader.invoices[stored.draft].rev = stored.rev
<1> DEFINE others == [n \in DOMAIN reader.invoices \ {stored.draft} |-> reader.invoices[n]]
<1>1. reader.invoices \in Collection(Invoices)
  BY DEF ReadTypeOK, Readers
<1>2. others \in Collection(Invoices)
  <2>1. DOMAIN reader.invoices \ {stored.draft} \in SUBSET Names
    BY <1>1, CollectionFacts
  <2>2. others \in [DOMAIN reader.invoices \ {stored.draft} -> Invoices]
    BY <1>1, CollectionFacts
  <2>3. QED
    BY <2>1, <2>2 DEF Collection
<1>3. DOMAIN others = DOMAIN reader.invoices \ {stored.draft}
      /\ \A n \in DOMAIN others : others[n] = reader.invoices[n]
  OBVIOUS
<1>4. CASE stored.draft = None
  <2>1. Preview(reader, reader.invoices) = "READY"
    BY <1>4 DEF Context
  <2>2. reader.complete /\ RelatedEffects(reader.invoices, reader.receipts) = "READY"
    BY <2>1 DEF Preview, RelatedIsComplete
  <2>3. NothingRead
    BY <1>1, <2>2, ReadyEffects DEF NothingRead
  <2>4. QED
    BY <1>4, <2>2, <2>3
<1>5. CASE stored.draft # None
  <2>1. /\ reader.complete /\ stored.draft \in DOMAIN reader.invoices
        /\ AcknowledgedDraft(reader, reader.invoices[stored.draft])
        /\ Preview(reader, others) = "READY"
    BY <1>5 DEF Context, RelatedIsComplete
  <2>2. RelatedEffects(others, reader.receipts) = "READY"
    BY <2>1 DEF Preview
  <2> HIDE DEF others
  <2>3. NothingRead
    BY <1>2, <1>3, <2>2, ReadyEffects DEF NothingRead
  <2>4. QED
    BY <2>1, <2>3 DEF AcknowledgedDraft
<1>6. QED
  BY <1>4, <1>5

\* A complete read that holds nothing about the bill means that nothing
\* concerned it, or that something is lost.
LEMMA NothingReadMeans ==
  ASSUME ReadTypeOK, ReadInv, reader.complete, reader.pc # "done", NothingRead
  PROVE  /\ before.receipt = {}
         /\ before.invoice = {} \/ \E n \in DOMAIN reader.invoices : Regiven(reader.invoices[n])
<1>1. DOMAIN reader.invoices = reader.names.invoice
      /\ DOMAIN reader.receipts = reader.names.receipt
  BY DEF ReadInv, PhaseInv, AllRead
<1>2. before.receipt = {}
  BY <1>1 DEF ReadInv, ReceiptPagesInv, PastInv, NothingRead
<1>3. CASE SomeLost
  BY <1>1, <1>2, <1>3 DEF SomeLost, Lost
<1>4. CASE before.invoice \subseteq reader.names.invoice
  BY <1>1, <1>2, <1>4 DEF ReadInv, PastInv, NothingRead
<1>5. QED
  BY <1>3, <1>4 DEF ReadInv, InvoicePagesInv

LEMMA BuildContextStep == ReadTypeOK /\ ReadInv /\ BuildContext => ReadInv'
<1> SUFFICES ASSUME ReadTypeOK, ReadInv, BuildContext PROVE ReadInv'
  OBVIOUS
<1>1. /\ UNCHANGED <<enterprise, stored, before, reused>>
      /\ reader.pc = "context"
      /\ reader'.pc = IF Context(reader) = "ready" THEN "journal" ELSE "done"
      /\ reader'.names = reader.names /\ reader'.complete = reader.complete
      /\ reader'.invoices = reader.invoices /\ reader'.receipts = reader.receipts
      /\ reader'.preview = reader.preview
      /\ reader'.result = Context(reader)
  BY DEF BuildContext, ReadTypeOK, Readers
<1>2. Context(reader) # "prepared" /\ Context(reader) # "unchanged"
  BY DEF Context
<1>3. PhaseInv' /\ PastInv' /\ InvoicePagesInv' /\ ReceiptPagesInv'
  BY <1>1, JudgesStep DEF Judges
<1>4. JournalInv'
  BY <1>1, ReadyContext DEF ReadInv, JournalInv, Older, NothingRead
<1>5. ReadyMeansClear'
  <2>1. Context(reader) = "ready" /\ ~ reused => Clear
    BY <1>1, ReadyContext, NothingReadMeans DEF Clear, Regiven
  <2>2. QED
    BY <1>1, <1>2, <2>1 DEF ReadyMeansClear, Clear
<1>6. PreviewIsExact'
  BY <1>1 DEF ReadInv, PreviewIsExact
<1>7. QED
  BY <1>3, <1>4, <1>5, <1>6 DEF ReadInv

LEMMA PrepareStep == ReadTypeOK /\ ReadInv /\ Prepare => ReadInv'
<1> SUFFICES ASSUME ReadTypeOK, ReadInv, Prepare PROVE ReadInv'
  OBVIOUS
<1>1. /\ UNCHANGED <<enterprise, before, reused>>
      /\ reader.pc = "journal" /\ reader'.pc = "done"
      /\ reader'.names = reader.names /\ reader'.complete = reader.complete
      /\ reader'.invoices = reader.invoices /\ reader'.receipts = reader.receipts
      /\ reader'.preview = reader.preview
      /\ reader'.result \in {"prepared", "NOT_ADMITTED"}
  BY DEF Prepare, ReadTypeOK, Readers
<1>2. /\ stored'.draft = stored.draft
      /\ \/ stored' = stored
         \/ stored'.source = CommercialSource(reader)
  BY DEF Prepare, ReadTypeOK, Stores
<1>3. PhaseInv' /\ PastInv' /\ InvoicePagesInv' /\ ReceiptPagesInv'
  BY <1>1, <1>2, JudgesStep DEF Judges
<1>4. JournalInv'
  <2>1. NothingRead
    BY <1>1 DEF ReadInv, JournalInv
  <2>2. ClearSource(CommercialSource(reader))
    BY <2>1, CommercialSourceType DEF ClearSource, CommercialSource, NothingRead
  <2>3. stored'.request # None => ClearSource(stored'.source)
    BY <1>2, <2>2 DEF ReadInv, JournalInv
  <2>4. QED
    BY <1>1, <2>3 DEF JournalInv
<1>5. ReadyMeansClear'
  BY <1>1 DEF ReadInv, JournalInv, ReadyMeansClear, Clear
<1>6. PreviewIsExact'
  BY <1>1 DEF ReadInv, PreviewIsExact
<1>7. QED
  BY <1>3, <1>4, <1>5, <1>6 DEF ReadInv

\* What the journal froze finds the hole: a name that was given again is there
\* with an older revision.
LEMMA RefreshSourceStep == ReadTypeOK /\ ReadInv /\ RefreshSource => ReadInv'
<1> SUFFICES ASSUME ReadTypeOK, ReadInv, RefreshSource PROVE ReadInv'
  OBVIOUS
<1>1. /\ UNCHANGED <<enterprise, stored, before, reused>>
      /\ reader.pc = "journal" /\ reader'.pc = "done" /\ stored.request # None
      /\ reader'.names = reader.names /\ reader'.complete = reader.complete
      /\ reader'.invoices = reader.invoices /\ reader'.receipts = reader.receipts
      /\ reader'.preview = reader.preview
      /\ reader'.result = IF CommercialSource(reader) = stored.source THEN "unchanged"
                          ELSE "COMMERCIAL_SOURCE_CHANGED"
  BY DEF RefreshSource, ReadTypeOK, Readers
<1>2. PhaseInv' /\ PastInv' /\ InvoicePagesInv' /\ ReceiptPagesInv'
  BY <1>1, JudgesStep DEF Judges
<1>3. JournalInv'
  BY <1>1 DEF ReadInv, JournalInv
<1>4. ReadyMeansClear'
  <2>1. /\ reader.complete /\ NothingRead
        /\ stored.draft # None =>
              /\ stored.draft \in DOMAIN reader.invoices
              /\ reader.invoices[stored.draft].rev = stored.rev
    BY <1>1 DEF ReadInv, JournalInv
  <2>2. ASSUME CommercialSource(reader) = stored.source, NEW n \in DOMAIN reader.invoices
        PROVE  ~ Older(stored, reader.invoices[n])
    <3>1. n \in Names /\ reader.invoices[n] \in Invoices
      BY <2>2, CollectionFacts DEF ReadTypeOK, Readers
    <3>2. reader.invoices[n].rev \in Nat
      BY <3>1 DEF Invoices
    <3>3. CASE n = stored.draft
      BY <2>1, <3>1, <3>2, <3>3, NoneAssumption DEF Older
    <3>4. CASE n # stored.draft
      <4>1. <<n, reader.invoices[n]>> \in stored.source.invoices
        BY <2>2, <3>4 DEF CommercialSource
      <4>2. QED
        BY <1>1, <3>2, <4>1 DEF Older
    <3>5. QED
      BY <3>3, <3>4
  <2>3. CommercialSource(reader) = stored.source => Clear
    BY <1>1, <2>1, <2>2, NothingReadMeans DEF Clear, Regiven
  <2>4. QED
    BY <1>1, <2>3 DEF ReadyMeansClear, Clear
<1>5. PreviewIsExact'
  BY <1>1 DEF ReadInv, PreviewIsExact
<1>6. QED
  BY <1>2, <1>3, <1>4, <1>5 DEF ReadInv

----------------------------------------------------------------------------
(* Steps of the other users. *)

LEMMA EditStep ==
  ASSUME ReadTypeOK, ReadInv, Edit,
         before'.invoice \subseteq before.invoice, before'.receipt = before.receipt,
         \A n \in before'.invoice :
            enterprise'.invoice[n] # None /\ Concerns(enterprise'.invoice[n]),
         \A n \in Existing("receipt") : enterprise'.receipt[n] = enterprise.receipt[n],
         reused => reused',
         \A n \in reader.names.invoice : Lost(n) => Lost(n)'
  PROVE  ReadInv'
<1>1. reader' = reader /\ stored' = stored /\ reader.pc \notin {"idle", "done"}
  BY DEF Edit
<1>2. before.receipt \subseteq Existing("receipt")
  BY DEF ReadInv, PastInv, Existing, ReadTypeOK, ByDoctype
<1>3. SomeLost => SomeLost'
  BY <1>1 DEF SomeLost
<1>4. PhaseInv'
  BY <1>1 DEF ReadInv, PhaseInv, Sourcing, Listing, Judging, AllRead
<1>5. PastInv'
  <2>1. \A n \in before.receipt : enterprise'.receipt[n] = enterprise.receipt[n]
    BY <1>2
  <2>2. QED
    BY <1>1, <2>1 DEF ReadInv, PastInv
<1>6. InvoicePagesInv'
  BY <1>1, <1>3 DEF ReadInv, InvoicePagesInv
<1>7. ReceiptPagesInv'
  <2>1. Existing("receipt") \subseteq Existing("receipt")'
    BY DEF Existing
  <2>2. QED
    BY <1>1, <2>1 DEF ReadInv, ReceiptPagesInv
<1>8. JournalInv'
  BY <1>1 DEF ReadInv, JournalInv, Older, NothingRead
<1>9. ReadyMeansClear' /\ PreviewIsExact'
  BY <1>1 DEF ReadInv, ReadyMeansClear, PreviewIsExact, Clear
<1>10. QED
  BY <1>4, <1>5, <1>6, <1>7, <1>8, <1>9 DEF ReadInv

LEMMA AddStep == ReadTypeOK /\ ReadInv /\ AddDocument => ReadInv'
<1> SUFFICES ASSUME ReadTypeOK, ReadInv, AddDocument PROVE ReadInv'
  OBVIOUS
<1>1. Edit /\ before' = before /\ reader' = reader /\ stored' = stored /\ reader.pc # "done"
  BY DEF AddDocument, Edit
<1>2. enterprise \in Enterprises /\ before.invoice \subseteq Names
  BY DEF ReadTypeOK, ByDoctype
<1>3. ASSUME NEW n \in Names \ Existing("invoice"), NEW d \in NewInvoices,
             enterprise' = [enterprise EXCEPT !.invoice[n] = d],
             reused' = (reused \/ n \in reader.names.invoice)
      PROVE  ReadInv'
  <2>1. d \in Invoices
    BY DocumentsAssumption
  <2>2. /\ enterprise'.invoice[n] = d
        /\ \A k \in Names : k # n => enterprise'.invoice[k] = enterprise.invoice[k]
        /\ enterprise'.receipt = enterprise.receipt
    BY <1>2, <1>3, <2>1, InvoiceWritten
  <2>3. Older(stored, d)
    BY <1>1 DEF ReadInv, JournalInv
  <2>4. n \notin before.invoice
    BY <1>3 DEF ReadInv, PastInv, Existing
  <2>5. \A k \in before.invoice :
           enterprise'.invoice[k] # None /\ Concerns(enterprise'.invoice[k])
    BY <1>2, <2>2, <2>4 DEF ReadInv, PastInv
  <2>6. ASSUME NEW k \in reader.names.invoice, Lost(k) PROVE Lost(k)'
    <3>1. k \in Names
      BY DEF ReadTypeOK, Readers, ByDoctype
    <3>2. CASE k \in DOMAIN reader.invoices
      BY <1>1, <1>3, <2>6, <3>2 DEF Lost, Regiven, Older
    <3>3. CASE k \notin DOMAIN reader.invoices /\ k = n
      BY <1>1, <1>3, <2>2, <2>3, <3>3 DEF Lost, Regiven, Older
    <3>4. CASE k \notin DOMAIN reader.invoices /\ k # n
      BY <1>1, <1>3, <2>2, <2>6, <3>1, <3>4 DEF Lost, Regiven, Older
    <3>5. QED
      BY <3>2, <3>3, <3>4
  <2>7. QED
    BY <1>1, <1>3, <2>2, <2>5, <2>6, EditStep
<1>4. ASSUME NEW n \in Names \ Existing("receipt"), NEW d \in NewReceipts,
             enterprise' = [enterprise EXCEPT !.receipt[n] = d],
             reused' = reused
      PROVE  ReadInv'
  <2>1. d \in Receipts
    BY DocumentsAssumption
  <2>2. /\ \A k \in Names : k # n => enterprise'.receipt[k] = enterprise.receipt[k]
        /\ enterprise'.invoice = enterprise.invoice
    BY <1>2, <1>4, <2>1, ReceiptWritten
  <2>3. \A k \in Existing("receipt") : enterprise'.receipt[k] = enterprise.receipt[k]
    BY <2>2 DEF Existing
  <2>4. \A k \in before.invoice :
           enterprise'.invoice[k] # None /\ Concerns(enterprise'.invoice[k])
    BY <2>2 DEF ReadInv, PastInv
  <2>5. \A k \in reader.names.invoice : Lost(k) => Lost(k)'
    BY <1>1, <1>4, <2>2 DEF Lost, Regiven, Older
  <2>6. QED
    BY <1>1, <1>4, <2>3, <2>4, <2>5, EditStep
<1>5. QED
  BY <1>3, <1>4 DEF AddDocument

LEMMA ChangeStep == ReadTypeOK /\ ReadInv /\ ChangeInvoice => ReadInv'
<1> SUFFICES ASSUME ReadTypeOK, ReadInv, ChangeInvoice PROVE ReadInv'
  OBVIOUS
<1>1. Edit /\ before' = before /\ reused' = reused /\ reader' = reader /\ stored' = stored
  BY DEF ChangeInvoice, Edit
<1>2. PICK n \in Existing("invoice"), d \in Invoices :
        /\ enterprise.invoice[n] \in Invoices
        /\ enterprise' = [enterprise EXCEPT !.invoice[n] = d]
        /\ d.link = enterprise.invoice[n].link /\ d.ref = enterprise.invoice[n].ref
        /\ d.rev \in {enterprise.invoice[n].rev, enterprise.invoice[n].rev + 1}
  BY ChangedInvoice DEF ReadTypeOK
<1>3. n \in Names /\ enterprise \in Enterprises
  BY DEF ReadTypeOK, Existing
<1>4. /\ enterprise'.invoice[n] = d /\ d # None
      /\ \A k \in Names : k # n => enterprise'.invoice[k] = enterprise.invoice[k]
      /\ enterprise'.receipt = enterprise.receipt
  BY <1>2, <1>3, InvoiceWritten, NoneAssumption
<1>5. \A k \in before.invoice :
         enterprise'.invoice[k] # None /\ Concerns(enterprise'.invoice[k])
  BY <1>2, <1>4 DEF ReadInv, PastInv, ReadTypeOK, ByDoctype, Concerns
<1>6. Older(stored, enterprise.invoice[n]) => Older(stored, enterprise'.invoice[n])
  <2>1. enterprise.invoice[n].rev \in Nat
    BY <1>2 DEF Invoices
  <2>2. stored.rev \in Nat
    BY DEF ReadTypeOK, Stores
  <2>3. stored.request # None => \A e \in stored.source.invoices : e[2].rev \in Nat
    BY DEF ReadInv, JournalInv, ClearSource, FrozenSources, Invoices
  <2>4. QED
    BY <1>2, <1>4, <2>1, <2>2, <2>3 DEF Older
<1>7. ASSUME NEW k \in reader.names.invoice, Lost(k) PROVE Lost(k)'
  <2>1. k \in Names
    BY DEF ReadTypeOK, Readers, ByDoctype
  <2>2. CASE k \in DOMAIN reader.invoices
    BY <1>1, <1>7, <2>2 DEF Lost, Regiven, Older
  <2>3. CASE k \notin DOMAIN reader.invoices /\ k = n
    <3>1. Regiven(enterprise.invoice[n])
      BY <1>2, <1>7, <2>3 DEF Lost, Existing
    <3>2. Regiven(enterprise.invoice[n])'
      BY <1>1, <1>6, <3>1 DEF Regiven, Older
    <3>3. QED
      BY <1>1, <2>3, <3>2 DEF Lost
  <2>4. CASE k \notin DOMAIN reader.invoices /\ k # n
    BY <1>1, <1>4, <1>7, <2>1, <2>4 DEF Lost, Regiven, Older
  <2>5. QED
    BY <2>2, <2>3, <2>4
<1>8. QED
  BY <1>1, <1>4, <1>5, <1>7, EditStep

LEMMA DeleteStep == ReadTypeOK /\ ReadInv /\ DeleteInvoice => ReadInv'
<1> SUFFICES ASSUME ReadTypeOK, ReadInv, DeleteInvoice PROVE ReadInv'
  OBVIOUS
<1>1. Edit /\ reused' = reused /\ reader' = reader /\ stored' = stored
  BY DEF DeleteInvoice, Edit
<1>2. PICK n \in Names : /\ enterprise' = [enterprise EXCEPT !.invoice[n] = None]
                         /\ before' = [before EXCEPT !.invoice = @ \ {n}]
  BY DEF DeleteInvoice, Existing
<1>3. /\ enterprise'.invoice[n] = None
      /\ \A k \in Names : k # n => enterprise'.invoice[k] = enterprise.invoice[k]
      /\ enterprise'.receipt = enterprise.receipt
  BY <1>2, InvoiceWritten DEF ReadTypeOK
<1>4. before'.invoice = before.invoice \ {n} /\ before'.receipt = before.receipt
      /\ before.invoice \subseteq Names
  BY <1>2 DEF ReadTypeOK, ByDoctype
<1>5. \A k \in before'.invoice :
         enterprise'.invoice[k] # None /\ Concerns(enterprise'.invoice[k])
  BY <1>3, <1>4 DEF ReadInv, PastInv
<1>6. ASSUME NEW k \in reader.names.invoice, Lost(k) PROVE Lost(k)'
  <2>1. k \in Names
    BY DEF ReadTypeOK, Readers, ByDoctype
  <2>2. QED
    BY <1>1, <1>3, <1>6, <2>1 DEF Lost, Regiven, Older
<1>7. QED
  BY <1>1, <1>3, <1>4, <1>5, <1>6, EditStep

LEMMA ChangeSourcesStep == ReadTypeOK /\ ReadInv /\ ChangeSources => ReadInv'
<1> SUFFICES ASSUME ReadTypeOK, ReadInv, ChangeSources PROVE ReadInv'
  OBVIOUS
<1>1. Edit /\ before' = before /\ reused' = reused /\ reader' = reader /\ stored' = stored
  BY DEF ChangeSources, Edit
<1>2. enterprise'.invoice = enterprise.invoice /\ enterprise'.receipt = enterprise.receipt
  BY DEF ChangeSources, ReadTypeOK, Enterprises
<1>3. \A n \in reader.names.invoice : Lost(n) => Lost(n)'
  BY <1>1, <1>2 DEF Lost, Regiven, Older
<1>4. \A n \in before.invoice :
         enterprise'.invoice[n] # None /\ Concerns(enterprise'.invoice[n])
  BY <1>2 DEF ReadInv, PastInv
<1>5. QED
  BY <1>1, <1>2, <1>3, <1>4, EditStep

----------------------------------------------------------------------------
(* The theorems about the read. *)

LEMMA ReadInitInv == ReadInit => ReadInv
<1> SUFFICES ASSUME ReadInit PROVE ReadInv
  OBVIOUS
<1>1. PICK m \in Modes : stored = m.stored
  BY DEF ReadInit
<1>2. /\ stored.request # None => ClearSource(stored.source)
      /\ \A d \in NewInvoices : Older(stored, d)
  BY <1>1, ModesAssumption
<1>3. /\ reader.pc = "idle" /\ reader.page = 0 /\ reader.complete = FALSE
      /\ reader.names.invoice = {} /\ reader.names.receipt = {}
      /\ DOMAIN reader.invoices = {} /\ DOMAIN reader.receipts = {}
      /\ reader.preview = None /\ reader.result = None
      /\ before.invoice = {} /\ before.receipt = {}
  BY NothingFacts DEF ReadInit, NoRead
<1>4. PhaseInv /\ PastInv /\ InvoicePagesInv /\ ReceiptPagesInv
  BY <1>3 DEF PhaseInv, PastInv, InvoicePagesInv, ReceiptPagesInv, Sourcing, Listing
<1>5. JournalInv
  BY <1>2, <1>3 DEF JournalInv
<1>6. ReadyMeansClear /\ PreviewIsExact
  BY <1>3, NoneAssumption DEF ReadyMeansClear, PreviewIsExact, Effects, Results
<1>7. QED
  BY <1>4, <1>5, <1>6 DEF ReadInv

LEMMA ReadInvStep == ReadTypeOK /\ ReadInv /\ [ReadNext]_readVars => ReadInv'
<1> SUFFICES ASSUME ReadTypeOK, ReadInv, [ReadNext]_readVars PROVE ReadInv'
  OBVIOUS
<1>1. CASE RequestFails
  BY <1>1, FailsStep DEF RequestFails, Reading
<1>2. CASE UNCHANGED readVars
  BY <1>2 DEF readVars, ReadInv, PhaseInv, PastInv, InvoicePagesInv, ReceiptPagesInv, JournalInv,
       ReadyMeansClear, PreviewIsExact, Sourcing, Listing, Judging, AllRead, SomeLost, Lost,
       Regiven, Older, NothingRead, Existing, Clear
<1>3. QED
  BY <1>1, <1>2, StartStep, SourcesStep, DiscoverInvoiceStep, DiscoverReceiptStep,
     ReadInvoiceStep, ReadReceiptStep, CollectedStep, ShowPreviewStep, DirectGetStep,
     BuildContextStep, PrepareStep, RefreshSourceStep, AddStep, ChangeStep, DeleteStep,
     ChangeSourcesStep DEF ReadNext, Done

\* The invariant of the read, with its types.
THEOREM ReadInvariance == ReadSpec => [](ReadTypeOK /\ ReadInv)
<1>1. ReadInit => ReadTypeOK /\ ReadInv
  BY ReadInitType, ReadInitInv
<1>2. ReadTypeOK /\ ReadInv /\ [ReadNext]_readVars => ReadTypeOK' /\ ReadInv'
  BY ReadTypeStep, ReadInvStep
<1>3. QED
  BY <1>1, <1>2, PTL DEF ReadSpec

\* A read lets a preparation, an insert or a submit go on only on a bill that
\* nothing concerned when it began, whatever slid between the pages: page size,
\* limits, documents and edits are arbitrary.
THEOREM ReadyIsClear == ReadSpec => []ReadyMeansClear
<1>1. ReadInv => ReadyMeansClear
  BY DEF ReadInv
<1>2. QED
  BY <1>1, ReadInvariance, PTL

\* The status the preview shows names the one effect there is.
THEOREM PreviewTellsAll == ReadSpec => []PreviewIsExact
<1>1. ReadInv => PreviewIsExact
  BY DEF ReadInv
<1>2. QED
  BY <1>1, ReadInvariance, PTL

===============================================================================
