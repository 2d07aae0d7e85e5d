------------------------- MODULE DistributorPhotos -------------------------
(***************************************************************************)
(* Photo evidence of a distributor case (attach_photo, analyze_photo and   *)
(* the attachment columns of adapters/distributor_operations.py): retained *)
(* images, what a vision model read in them, which photo replaces which,   *)
(* and the proposal and event a photo is bound to.                         *)
(*                                                                         *)
(* The reader runs while the method holds the lock, so an analysis is one  *)
(* step.  Binding a photo is a statement of its own after the INSERT of    *)
(* its proposal, and another before the UPDATE that closes the approval:   *)
(* a crash may fall between any two.                                       *)
(***************************************************************************)
EXTENDS DistributorOperations

CONSTANTS
    Photos,     \* attachment ids
    Image,      \* Image[p]: the digest of the image attached as p
    Purposes,   \* bound: the views that are asked for
    Sightings,  \* bound: what the reader may see on the label, [item, lot]
    MaxReads    \* MaxReads[p]: bound on the analyses in a case of policy p

\* An id is not NULL, and an attached image has a digest.
ASSUME PhotoAssumption ==
    /\ None \notin Photos \cup Events \cup Retries
    /\ \A p \in Photos : Image[p] # None

VARIABLES
    photos,     \* distributor_operation_attachments, by id
    reads       \* analyses so far

photoVars == <<photos, reads>>

NoAnalysis == [status |-> None, purpose |-> None, lot |-> None, source |-> None,
               safe |-> FALSE, supersedes |-> None]
NoPhoto == [image |-> None, proposal |-> None, event |-> None, analysis |-> NoAnalysis]

PhotoInit ==
    /\ CaseInit
    /\ photos = [p \in Photos |-> NoPhoto]
    /\ reads = 0

Attached == {p \in Photos : photos[p] # NoPhoto}
Analysis(p) == photos[p].analysis

(* attach_photo: a known id with the same image changes nothing. *)
AttachPhoto(p) ==
    /\ policy.reader # None
    /\ op = Idle
    /\ p \notin Attached
    /\ photos' = [photos EXCEPT ![p].image = Image[p]]
    /\ UNCHANGED <<operationVars, reads>>

---------------------------------------------------------------------------
(* What the reader saw, against the lot the operator selected. *)

(* _photo_check; an alias of the expected value counts as the same. *)
PhotoCheck(observed, applicable) ==
    CASE ~applicable                      -> "NOT_APPLICABLE"
      [] applicable /\ observed = None    -> "UNKNOWN"
      [] applicable /\ observed = "same"  -> "MATCH"
      [] OTHER                            -> "MISMATCH"

(* _photo_identity_checks: a detail view is not checked at all. *)
PhotoIdentityChecks(purpose, lot, seen) ==
    {PhotoCheck(seen.item, purpose # "detail"),
     PhotoCheck(seen.lot, purpose # "detail" /\ lot # None)}

(* _photo_recommendation: whatever else it advises, an observation is      *)
(* identity-safe unless a check contradicts it.                            *)
IdentitySafe(purpose, lot, seen) == "MISMATCH" \notin PhotoIdentityChecks(purpose, lot, seen)

(* _complete_photo_analysis and _unavailable_photo_analysis. *)
Completed(purpose, lot, seen, parent) ==
    [status |-> "COMPLETE", purpose |-> purpose, lot |-> lot, source |-> tenant,
     safe |-> IdentitySafe(purpose, lot, seen), supersedes |-> parent]
Unavailable(purpose, lot, source, parent) ==
    [NoAnalysis EXCEPT !.status = "UNAVAILABLE", !.purpose = purpose, !.lot = lot,
                       !.source = source, !.supersedes = parent]

(* _cached_photo_analysis: a completed reading of the same image for the   *)
(* same lot, view and source; a reader without a model id shares nothing.  *)
CachedAnalyses(p, purpose, lot) ==
    {a \in {Analysis(q) : q \in {x \in Attached : photos[x].image = photos[p].image}} :
        /\ policy.reader = "named"
        /\ a.status = "COMPLETE"
        /\ a.source = tenant
        /\ a.lot = lot
        /\ a.purpose = purpose}

---------------------------------------------------------------------------
(* Replacement of one photo by another. *)

Parent(p) == Analysis(p).supersedes

(* _photo_supersession_index: only a completed, identity-safe photo        *)
(* replaces another.                                                       *)
Successors(p) ==
    {q \in Attached : Analysis(q).status = "COMPLETE" /\ Analysis(q).safe /\ Parent(q) = p}

(* The photos the walk of _validate_photo_supersession meets from q on. *)
Lineage(q) ==
    {x \in Attached :
        \A S \in SUBSET Attached :
            (q \in S /\ \A y \in S : Parent(y) \in Attached => Parent(y) \in S) => x \in S}

\* Mutant of MaySupersede: does not walk up the stored chain.
MaySupersedeUnwalked(p, parent, lot) ==
    \/ parent = None
    \/ /\ parent \in Attached \ {p}
       /\ Analysis(parent).status = "COMPLETE"
       /\ Analysis(parent).lot # None
       /\ Analysis(parent).lot = lot
       /\ Successors(parent) \subseteq {p}

(* _validate_photo_supersession. *)
MaySupersede(p, parent, lot) ==
    \/ parent = None
    \/ /\ parent \in Attached \ {p}
       /\ Analysis(parent).status = "COMPLETE"
       /\ Analysis(parent).lot # None
       /\ Analysis(parent).lot = lot
       /\ Successors(parent) \subseteq {p}
       /\ p \notin Lineage(parent)

(* _analysis_lot: a lot is linked on current ERP evidence only. *)
AnalysisLot(current, lot) == IF current THEN lot ELSE None

(* analyze_photo; a new analysis of a photo replaces the one it had. *)
AnalyzePhoto(p, purpose, requested, parent, readable) ==
    LET current == readable /\ Current(Latest)
        lot     == AnalysisLot(current, requested)
        cached  == CachedAnalyses(p, purpose, lot)
        store(a) == photos' = [photos EXCEPT ![p].analysis = a]
    IN  /\ policy.reader # None
        /\ op = Idle
        /\ reads < MaxReads[policy]
        /\ p \in Attached
        /\ MaySupersede(p, parent, lot)
        /\ CASE ~current -> store(Unavailable(purpose, lot, None, parent))
             [] current /\ cached # {} ->
                    \E a \in cached : store([a EXCEPT !.supersedes = parent])
             [] OTHER ->
                    \/ \E seen \in Sightings : store(Completed(purpose, lot, seen, parent))
                    \/ store(Unavailable(purpose, lot, tenant, parent))
        /\ reads' = reads + 1
        /\ faults' = IF readable THEN faults ELSE faults + 1
        /\ UNCHANGED <<policy, tenant, rows, retries, proposals, turn, late, op>>

(* _current_photo_observations: what the economic comparison may cite. *)
CurrentObservations ==
    {p \in Attached : /\ Current(Latest)
                      /\ Analysis(p).status = "COMPLETE"
                      /\ Analysis(p).source = tenant
                      /\ Analysis(p).safe
                      /\ Successors(p) = {}}

---------------------------------------------------------------------------
(* Binding a photo to a proposal and to its event. *)

(* _require_unbound_attachment. *)
Unbound(p) == p \in Attached /\ photos[p].proposal = None /\ photos[p].event = None

(* prepare_event_proposal with an attachment: the INSERT ... *)
PrepareWithPhoto(e, p) ==
    /\ e \in Drafted[policy]
    /\ MayPropose(e)
    /\ Unbound(p)
    /\ NewProposal(e, "OPERATOR_DECLARED", p)
    /\ op' = [pc |-> "bind", id |-> e]
    /\ UNCHANGED <<policy, tenant, rows, retries, turn, late, faults, photoVars>>

(* ... and the UPDATE of the attachment. *)
BindPhoto ==
    /\ op.pc = "bind"
    /\ photos' = [photos EXCEPT ![proposals[op.id].photo].proposal = op.id]
    /\ op' = Idle
    /\ UNCHANGED <<policy, tenant, rows, retries, proposals, turn, late, faults, reads>>

(* approve_event_proposal: the recorded event is written to the photo that *)
(* the proposal still holds, before the proposal is closed.                *)
ToBindEvent ==
    /\ op.pc = "confirm"
    /\ proposals[op.id].photo # None
    /\ photos[proposals[op.id].photo].proposal = op.id
    /\ photos[proposals[op.id].photo].event = None

BindEvent ==
    /\ ToBindEvent
    /\ photos' = [photos EXCEPT ![proposals[op.id].photo].event = op.id]
    /\ UNCHANGED <<operationVars, reads>>

PhotoNext ==
    \/ ~ToBindEvent /\ CaseNext /\ UNCHANGED photoVars
    \/ ToBindEvent /\ Crash /\ UNCHANGED photoVars
    \/ \E p \in Photos :
           \/ AttachPhoto(p)
           \/ \E e \in Events : PrepareWithPhoto(e, p)
           \/ \E purpose \in Purposes, lot \in Lots \cup {None},
                 parent \in Photos \cup {None}, readable \in BOOLEAN :
                  /\ readable \/ faults < MaxFaults
                  /\ AnalyzePhoto(p, purpose, lot, parent, readable)
    \/ BindPhoto
    \/ BindEvent

PhotoSpec == PhotoInit /\ [][PhotoNext]_<<operationVars, photoVars>>

---------------------------------------------------------------------------
(* Properties. *)

(* However often photos are read again, with other lots, other parents,    *)
(* failing readers or cached results, no photo comes to replace itself     *)
(* through others, at most one trusted photo replaces another, and of a    *)
(* chain at most its last trusted photo is cited.                          *)
NoCircle == \A S \in SUBSET Attached : S # {} => \E p \in S : Parent(p) \notin S
OneSuccessor == \A p \in Attached : Cardinality(Successors(p)) <= 1
LastIsCited == \A p \in CurrentObservations : \A q \in CurrentObservations : Parent(p) # q

(* Whatever crash came between the statements, a photo is held by the      *)
(* proposal that names it, and by an event only once it was recorded ...   *)
HeldIsNamed ==
    \A p \in Attached :
        LET e == photos[p].proposal
        IN  /\ e # None => proposals[e].photo = p
            /\ photos[p].event # None => photos[p].event = e /\ rows[e] # NoRow

(* ... and two proposals name one photo only where a crash lost the        *)
(* binding to the first.                                                   *)
NamedOnce ==
    \A e \in Events : \A f \in Events \ {e} :
        proposals[e].photo # None /\ proposals[e].photo = proposals[f].photo => faults > 0

(* "Keep one same-lot evidence chain".                                     *)
EvidenceChain == NoCircle /\ OneSuccessor /\ LastIsCited /\ HeldIsNamed /\ NamedOnce
=============================================================================
