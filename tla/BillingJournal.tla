----------------------------- MODULE BillingJournal -----------------------------
(***************************************************************************)
(* BillingIntentJournal (adapters/normal_receipt_billing_journal.py): the  *)
(* durable row of one supplier-bill intent.  Every method is one BEGIN     *)
(* IMMEDIATE transaction, so each is one action (or one predicate and the  *)
(* row it writes) here.  Basis, preview and request bodies are stood for   *)
(* by the intent version that froze them; the commercial source by its     *)
(* revision; a native document by its ERP name and the revision its digest *)
(* covers.  The approval deadline is a flag that time sets (Expire).       *)
(***************************************************************************)
EXTENDS Naturals

CONSTANTS
  Managers,
  NoManager,
  MaxVersion,     \* bound on reprepared versions
  MaxTokens,      \* bound on approvals issued
  MaxSource       \* bound on commercial revisions of the ERP source

ASSUME ManagerAssumption == NoManager \notin Managers
ASSUME JournalBoundAssumption ==
  /\ MaxVersion \in Nat \ {0}
  /\ MaxTokens \in Nat
  /\ MaxSource \in Nat \ {0}

VARIABLES
  row,       \* the intent's row; version 0 when it is not yet prepared
  issued     \* how many approval tokens were generated

Readbacks == {"none", "DRAFT", "SUBMITTED", "NO_HIT", "UNKNOWN"}

\* The columns of normal_receipt_billing_intents that decide anything.  A
\* document column holds the document's name, 0 for NULL; the stored insert
\* request, the insert marker and the acknowledgement are stood for by the
\* version each of them names.
Row == [ version   : 0..MaxVersion,
         source    : 0..MaxSource,
         binding   : 0..MaxVersion,
         changed   : BOOLEAN,
         refused   : BOOLEAN,
         conflict  : BOOLEAN,
         manager   : Managers \cup {NoManager},
         token     : Nat,
         used      : BOOLEAN,
         expired   : BOOLEAN,
         insert    : 0..MaxVersion,
         draft     : Nat,
         draftRev  : Nat,
         ackFor    : 0..MaxVersion,
         submit    : Nat,
         submitted : Nat,
         finalRev  : Nat,
         readback  : Readbacks ]

Unprepared ==
  [ version |-> 0, source |-> 0, binding |-> 0, changed |-> FALSE, refused |-> FALSE,
    conflict |-> FALSE, manager |-> NoManager, token |-> 0, used |-> FALSE,
    expired |-> FALSE, insert |-> 0, draft |-> 0, draftRev |-> 0, ackFor |-> 0, submit |-> 0,
    submitted |-> 0, finalRev |-> 0, readback |-> "none" ]

JournalInit == row = Unprepared /\ issued = 0

Prepared == row.version # 0

\* What a snapshot of the row says was granted or attempted.
ApprovalGranted == row.token # 0
InsertAttempted == row.insert # 0
SubmitAttempted == row.submit # 0

\* _stored_insert_binding: the stored request is of this version of the intent.
Bound == Prepared /\ row.binding = row.version

\* _insert_marker_matches: the marker holds the request that is bound now.
InsertMarkerMatches == InsertAttempted /\ row.insert = row.binding

\* _stored_draft_acknowledgement: the acknowledgement is of the marked request
\* and of this version.
Acknowledged ==
  row.draft # 0 /\ Bound /\ InsertMarkerMatches /\ row.ackFor = row.version

\* _submit_marker_matches: the marker holds the acknowledged draft.
SubmitMarkerMatches == SubmitAttempted /\ row.submit = row.draft

\* _phase: what the row has already committed to.
Phase ==
  IF row.submitted # 0 THEN "SUBMITTED_READBACK_ADMITTED"
  ELSE IF row.submit # 0 THEN "SUBMIT_ATTEMPTED"
  ELSE IF row.draft # 0 THEN "DRAFT_READBACK_ADMITTED"
  ELSE IF row.insert # 0 THEN "INSERT_ATTEMPTED"
  ELSE IF row.token # 0 THEN "APPROVED" ELSE "PREPARED"

\* Any of the three sticky holds: no approval and no claim gets past them.
Held == row.conflict \/ row.refused \/ row.changed

\* _authority_status = "EXPIRED".
AuthorityExpired == ~Held /\ row.token # 0 /\ row.expired

--------------------------------------------------------------------------------
\* A version of the intent frozen on source revision r, with the request bound
\* to that version (_make_insert_binding) and no authority.
NewVersion(v, r) ==
  [Unprepared EXCEPT !.version = v, !.source = r, !.binding = v]

\* _prepare_conflict: whatever the answer (the same proposal again,
\* REPREPARE_REQUIRED, an unreadable binding), the row there is stays.
ExistingKept == row

\* prepare() of an observed source revision; the business key is unique.
PrepareRow(r) ==
  row' = IF Prepared THEN ExistingKept ELSE NewVersion(1, r)

\* Mutant of MayReprepare: forgets that the insert may have been attempted.
MayReprepareAttempted ==
  Prepared /\ (row.changed \/ (row.refused /\ ~row.conflict))

\* reprepare(): a new version without the old authority; only for a refused or
\* stale intent whose insert was never attempted.
MayReprepare ==
  /\ Prepared
  /\ ~InsertAttempted
  /\ row.changed \/ (row.refused /\ ~row.conflict)

Reprepare(r) ==
  /\ MayReprepare
  /\ row.version < MaxVersion
  /\ row' = [NewVersion(row.version + 1, r) EXCEPT
               !.insert = row.insert, !.submit = row.submit,
               !.submitted = row.submitted, !.finalRev = row.finalRev]
  /\ UNCHANGED issued

\* approve() of a version that has no approval yet.
MayApprove ==
  Prepared /\ ~Held /\ ~InsertAttempted /\ ~ApprovalGranted

\* approve() -> _renew_submit_approval(): only the expired approval of an
\* acknowledged draft whose submit was not attempted, by the same manager.
MayRenew(m) ==
  /\ Prepared /\ InsertAttempted /\ AuthorityExpired
  /\ Phase = "DRAFT_READBACK_ADMITTED"
  /\ m = row.manager

\* The token is the next fresh one; a renewal keeps the manager and used_at.
ApproveRow(m) ==
  /\ row' = [row EXCEPT !.manager = m, !.token = issued + 1, !.expired = FALSE]
  /\ issued' = issued + 1

\* refuse(): sticky, by the approving manager once there is one.
Refuse(m) ==
  /\ Prepared
  /\ row.manager \in {NoManager, m}
  /\ row' = [row EXCEPT !.refused = TRUE]
  /\ UNCHANGED issued

\* Mutant of Refreshed: the last observation wins.
RefreshedUnsticky(r) == [row EXCEPT !.changed = r # row.source]

\* refresh_source(): a commercial change is sticky.
Refreshed(r) == [row EXCEPT !.changed = @ \/ r # row.source]

\* _insert_denial returns None.
MayInsert(m, t) ==
  /\ ~Held
  /\ ~InsertAttempted
  /\ Bound
  /\ ApprovalGranted
  /\ row.manager = m
  /\ ~row.expired
  /\ ~row.used
  /\ t = row.token

\* _attempt_payload: what a marker freezes, the bound request or the draft.
Payload(kind) == IF kind = "INSERT" THEN row.binding ELSE row.draft

\* claim_insert(): the marker is committed before any I/O.
InsertClaimed == [row EXCEPT !.insert = Payload("INSERT"), !.used = TRUE]

\* _identity_conflict: the first admitted evidence stays, the row is held.
IdentityConflict == [row EXCEPT !.conflict = TRUE]

\* _draft_acknowledgement_envelope of document n at revision v.
Enveloped(n, v) ==
  [row EXCEPT !.draft = n, !.draftRev = v, !.ackFor = row.version, !.readback = "DRAFT"]

\* admit_insert_acknowledgement() of document n at revision v: the first
\* acknowledged name stays, a different one is an identity conflict.
DraftAdmitted(n, v) ==
  IF ~InsertAttempted \/ ~Bound \/ ~InsertMarkerMatches THEN row
  ELSE IF row.draft = 0 THEN Enveloped(n, v)
  ELSE IF Acknowledged /\ (n # row.draft \/ v # row.draftRev) THEN IdentityConflict
  ELSE row

\* _submit_denial returns None.
MaySubmit(m) ==
  /\ ~Held
  /\ ~SubmitAttempted
  /\ InsertAttempted
  /\ Acknowledged
  /\ ApprovalGranted
  /\ row.manager = m
  /\ ~row.expired

\* Mutant of SubmitClaimed: leaves the marker to the readback.
SubmitClaimedLate == row

\* claim_submit(): the marker freezes the acknowledged draft.
SubmitClaimed == [row EXCEPT !.submit = Payload("SUBMIT")]

\* Mutant of SubmittedAdmitted: a second readback is always a conflict.
SubmittedAdmittedOnce(n, v, f) ==
  IF ~SubmitAttempted THEN row
  ELSE IF row.submitted = 0
       THEN [row EXCEPT !.submitted = n, !.finalRev = f, !.readback = "SUBMITTED"]
  ELSE IdentityConflict

\* admit_submitted_readback() of a proof for draft n, frozen at revision v,
\* whose document is at revision f.
SubmittedAdmitted(n, v, f) ==
  IF ~SubmitAttempted \/ ~Acknowledged \/ ~SubmitMarkerMatches THEN row
  ELSE IF n # row.draft \/ v # row.draftRev THEN IdentityConflict
  ELSE IF row.submitted = 0
       THEN [row EXCEPT !.submitted = n, !.finalRev = f, !.readback = "SUBMITTED"]
  ELSE IF n # row.submitted \/ f # row.finalRev THEN IdentityConflict
  ELSE [row EXCEPT !.readback = "SUBMITTED"]

\* record_no_hit(), record_unknown(): only what was last read.
ReadbackRecorded(kind) == [row EXCEPT !.readback = kind]

\* Time reaches approval_expires_at.
Expire ==
  /\ row.token # 0 /\ ~row.expired
  /\ row' = [row EXCEPT !.expired = TRUE]
  /\ UNCHANGED issued

=============================================================================
