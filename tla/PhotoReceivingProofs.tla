------------------------- MODULE PhotoReceivingProofs -------------------------
(***************************************************************************)
(* Photo receiving, for any number of instances, captures, photos, scans,  *)
(* edits, crashes and failing or late requests: one draft and one posting  *)
(* per capture, no photo behind two receipts, and an operator confirmed    *)
(* what was in the store.                                                  *)
(*                                                                         *)
(* Instances write from their own copy of a capture.  A copy whose version *)
(* is still the stored one agrees with the store on all that matters       *)
(* (Agree), and a version that has moved never comes back: so every write  *)
(* continues the stored capture (Kept).  The right to create the draft is  *)
(* in one place: with the one instance that won the claim, in a late       *)
(* request, or used up (Token).  The photo of a claimed capture was stored *)
(* for that capture before any other (Owned).                              *)
(***************************************************************************)
EXTENDS PhotoReceiving, FiniteSetTheorems, WellFoundedInduction, TLAPS

Photographed(s) == s.status \notin {"NONE", "AWAITING_PHOTO"}

(* A row of img holds this photo; the first one that does is of c. *)
Held(img, digest) == \E n \in 1..Len(img) : img[n].digest = digest
Owned(img, c, digest) ==
  \E n \in 1..Len(img) :
    /\ img[n].cap = c /\ img[n].digest = digest
    /\ \A k \in 1..Len(img) : img[k].digest = digest => n <= k

(* What is true of a capture, and of every copy of it that is saved. *)
CaptureOK(img, c, s) ==
  /\ Photographed(s) => Held(img, s.digest)
  /\ s.attempted => Photographed(s) /\ Owned(img, c, s.digest)
  /\ s.draft # None => s.attempted
  /\ s.confirmed # None => s.attempted /\ s.status \in {"SUBMIT_UNKNOWN", "RECEIPT_SUBMITTED"}
  /\ s.analysis # None => s.analysis.image = s.image
  /\ s.identity # None => s.identity.image = s.image

Agree(s, t) ==
  /\ s.digest = t.digest /\ s.image = t.image
  /\ s.attempted = t.attempted /\ s.confirmed = t.confirmed

(* t continues s: a version stands for one state, a claim is for good. *)
Kept(s, t) ==
  /\ s.version <= t.version
  /\ s.version = t.version => Agree(s, t)
  /\ Photographed(s) => Photographed(t)
  /\ s.attempted => t.attempted /\ t.digest = s.digest /\ t.image = s.image
  /\ s.confirmed # None => t.confirmed = s.confirmed

(* The steps of an operation that write its copy back. *)
Writing == {"reading", "claim", "lookup", "post", "readback", "confirm"}

(* An operation under way, when its capture is stored as t, the images are *)
(* img and an operator has seen v of the capture.                          *)
OpOK(op, t, img, v) ==
  op.pc # "idle" =>
    /\ op.cap \in Captures
    /\ op.state.version <= t.version
    /\ Photographed(t)
    /\ op.pc \in Writing =>
         /\ CaptureOK(img, op.cap, op.state) /\ Photographed(op.state) /\ op.state.confirmed = None
         /\ op.state.version = t.version => Agree(op.state, t)
    /\ op.pc = "claim" => ~op.state.attempted /\ Owned(img, op.cap, op.state.digest)
    /\ op.pc \in {"lookup", "post", "readback", "confirm"} => op.state.attempted
    /\ op.pc = "post" => op.fresh
    /\ op.pc = "confirm" =>
         v # None /\ (op.state.version = t.version => v.version = op.state.version)
    /\ op.pc = "submit" => t.confirmed # None

(* The right to create the draft of a capture. *)
Holds(i, c) ==
  inst[i].op.pc \in {"lookup", "post"} /\ inst[i].op.fresh /\ inst[i].op.cap = c
Late(c) == \E m \in wire : m.kind = "draft" /\ m.cap = c

Token(c) ==
  /\ docs[c].drafts <= 1
  /\ ~caps[c].attempted => docs[c].drafts = 0 /\ ~Late(c) /\ \A i \in Instances : ~Holds(i, c)
  /\ Late(c) => docs[c].drafts = 0
  /\ \A i \in Instances : Holds(i, c) =>
       docs[c].drafts = 0 /\ ~Late(c) /\ \A j \in Instances : Holds(j, c) => j = i

(* A posting follows the confirmation and is the end of the document. *)
DocOK(c) ==
  /\ docs[c].posted = docs[c].docstatus
  /\ docs[c].posted > 0 => caps[c].confirmed # None

WireOK(m) ==
  /\ m.kind = "draft" => m.rev = 0
  /\ m.kind = "submit" => caps[m.cap].confirmed # None

(* What an operator saw is current as long as the version is. *)
SeenOK(c) ==
  seen[c] # None =>
    /\ Photographed(caps[c])
    /\ seen[c].version <= caps[c].version
    /\ seen[c].version = caps[c].version =>
         seen[c].image = caps[c].image /\ seen[c].inputs = Inputs(scans, c)

ConfirmedOK(c) ==
  caps[c].confirmed # None =>
    /\ seen[c] # None
    /\ seen[c].inputs = caps[c].confirmed.inputs
    /\ seen[c].image = caps[c].image

PhotosOf(img, c) == {n \in 1..Len(img) : img[n].cap = c}

CapsInv == \A c \in Captures : CaptureOK(images, c, caps[c])
OpsInv ==
  \A i \in Instances :
    OpOK(inst[i].op, caps[inst[i].op.cap], images, seen[inst[i].op.cap])
TokenInv == \A c \in Captures : Token(c)
DocInv == (\A c \in Captures : DocOK(c)) /\ (\A m \in wire : WireOK(m))
SeenInv == \A c \in Captures : SeenOK(c) /\ ConfirmedOK(c)
ScanInv == \A x \in scans.conflicts : scans.stored[x.event] # None
ImageInv == \A c \in Captures : caps[c].image = Cardinality(PhotosOf(images, c))

IInv == TypeOK /\ CapsInv /\ OpsInv /\ TokenInv /\ DocInv /\ SeenInv /\ ScanInv /\ ImageInv

-----------------------------------------------------------------------------
(* The values an operation computes. *)

LEMMA CaptureFacts ==
  ASSUME NEW s \in CaptureRow
  PROVE  /\ s.status \in Statuses /\ s.version \in Nat /\ s.image \in Nat
         /\ s.digest \in Photos \cup {None} /\ s.candidate \in Nat \cup {None}
         /\ s.attempted \in BOOLEAN /\ s.claim \in BOOLEAN /\ s.noted \in BOOLEAN
         /\ s.draft \in Nat \cup {None} /\ s.receipt \in BOOLEAN
  BY DEF CaptureRow

(* An event moves the version and the status, and nothing a receipt is     *)
(* about.                                                                  *)
LEMMA AdvancedFacts ==
  ASSUME NEW s \in CaptureRow, NEW status \in Statuses
  PROVE  LET t == Advanced(s, status) IN
         /\ t \in CaptureRow /\ t.status = status /\ t.version = s.version + 1 /\ t.version \in Nat
         /\ t.digest = s.digest /\ t.image = s.image /\ t.attempted = s.attempted
         /\ t.confirmed = s.confirmed /\ t.draft = s.draft /\ t.analysis = s.analysis
         /\ t.identity = s.identity
<1> DEFINE begins == status = "ANALYZING"
           t == [s EXCEPT !.status = status, !.version = @ + 1, !.noted = FALSE, !.claim = begins]
<1>1. begins \in BOOLEAN
  OBVIOUS
<1>2. Advanced(s, status) = t
  BY DEF Advanced
<1> HIDE DEF begins
<1>3. s.version + 1 \in Nat
  BY CaptureFacts
<1>4. t \in CaptureRow
  BY <1>1, <1>3 DEF CaptureRow
<1>5. /\ t.status = status /\ t.version = s.version + 1
      /\ t.digest = s.digest /\ t.image = s.image /\ t.attempted = s.attempted
      /\ t.confirmed = s.confirmed /\ t.draft = s.draft /\ t.analysis = s.analysis
      /\ t.identity = s.identity
  BY DEF CaptureRow
<1> QED
  BY <1>2, <1>3, <1>4, <1>5

LEMMA AdvancedKeeps ==
  ASSUME NEW s \in CaptureRow, NEW status \in Statuses \ {"NONE", "AWAITING_PHOTO"}
  PROVE  Kept(s, Advanced(s, status)) /\ Agree(s, Advanced(s, status))
         /\ Photographed(Advanced(s, status))
  BY AdvancedFacts, CaptureFacts DEF Kept, Agree, Photographed

(* Only a capture that was confirmed is restricted in its status. *)
LEMMA AdvancedSound ==
  ASSUME NEW img, NEW c, NEW s \in CaptureRow, CaptureOK(img, c, s), Photographed(s),
         NEW status \in Statuses \ {"NONE", "AWAITING_PHOTO"},
         s.confirmed = None \/ status \in {"SUBMIT_UNKNOWN", "RECEIPT_SUBMITTED"}
  PROVE  CaptureOK(img, c, Advanced(s, status))
<1> DEFINE t == Advanced(s, status)
<1>1. /\ t.status = status /\ t.digest = s.digest /\ t.image = s.image
      /\ t.attempted = s.attempted /\ t.confirmed = s.confirmed /\ t.draft = s.draft
      /\ t.analysis = s.analysis /\ t.identity = s.identity
  BY AdvancedFacts
<1> HIDE DEF t
<1>2. CaptureOK(img, c, t)
  BY <1>1 DEF CaptureOK, Photographed
<1> QED
  BY <1>2 DEF t

LEMMA RecoveredFacts ==
  ASSUME NEW s \in CaptureRow
  PROVE  /\ Recovered(s) \in CaptureRow
         /\ Kept(s, Recovered(s)) /\ Agree(s, Recovered(s))
         /\ Recovered(s).draft = s.draft
<1>1. CASE s.status = "ANALYZING" /\ ~s.claim
  <2>1. Recovered(s) = Advanced(s, "UNAVAILABLE")
    BY <1>1 DEF Recovered
  <2>2. "UNAVAILABLE" \in Statuses \ {"NONE", "AWAITING_PHOTO"}
    BY DEF Statuses
  <2> QED
    BY <2>1, <2>2, AdvancedFacts, AdvancedKeeps
<1>2. CASE ~(s.status = "ANALYZING" /\ ~s.claim)
  <2>1. Recovered(s) = s
    BY <1>2 DEF Recovered
  <2> QED
    BY <2>1, CaptureFacts DEF Kept, Agree
<1> QED
  BY <1>1, <1>2

LEMMA NotedFacts ==
  ASSUME NEW s \in CaptureRow, NEW status \in Statuses
  PROVE  /\ Noted(s, status) \in CaptureRow
         /\ Noted(s, status) = s \/
              LET t == Noted(s, status) IN
              /\ t.status = status /\ t.version = s.version + 1
              /\ t.digest = s.digest /\ t.image = s.image /\ t.attempted = s.attempted
              /\ t.confirmed = s.confirmed /\ t.draft = s.draft /\ t.analysis = s.analysis
              /\ t.identity = s.identity
<1> DEFINE u == Advanced(s, status)
<1>1. /\ u \in CaptureRow /\ u.status = status /\ u.version = s.version + 1
      /\ u.digest = s.digest /\ u.image = s.image /\ u.attempted = s.attempted
      /\ u.confirmed = s.confirmed /\ u.draft = s.draft /\ u.analysis = s.analysis
      /\ u.identity = s.identity
  BY AdvancedFacts
<1>2. Noted(s, status) = IF s.noted THEN s ELSE [u EXCEPT !.noted = TRUE]
  BY DEF Noted
<1> HIDE DEF u
<1>3. [u EXCEPT !.noted = TRUE] \in CaptureRow
  BY <1>1 DEF CaptureRow
<1>4. u \in CaptureRow => LET t == [u EXCEPT !.noted = TRUE] IN
      /\ t.status = u.status /\ t.version = u.version /\ t.digest = u.digest /\ t.image = u.image
      /\ t.attempted = u.attempted /\ t.confirmed = u.confirmed /\ t.draft = u.draft
      /\ t.analysis = u.analysis /\ t.identity = u.identity
  BY DEF CaptureRow
<1> QED
  BY <1>1, <1>2, <1>3, <1>4

(* A field a receipt is about is changed in memory. *)
LEMMA ChangedFacts ==
  ASSUME NEW s \in CaptureRow
  PROVE  /\ \A a \in Analyses \cup {None} : [s EXCEPT !.analysis = a] \in CaptureRow
         /\ \A n \in Nat \cup {None} : [s EXCEPT !.candidate = n] \in CaptureRow
         /\ \A x \in Identities \cup {None} : [s EXCEPT !.identity = x] \in CaptureRow
         /\ \A d \in Captures \cup {None} : [s EXCEPT !.dup = d] \in CaptureRow
         /\ \A n \in Nat \cup {None} : [s EXCEPT !.draft = n] \in CaptureRow
         /\ \A x \in Confirmations \cup {None} : [s EXCEPT !.confirmed = x] \in CaptureRow
         /\ [s EXCEPT !.attempted = TRUE] \in CaptureRow
         /\ [s EXCEPT !.receipt = TRUE] \in CaptureRow
         /\ [s EXCEPT !.claim = FALSE] \in CaptureRow
<1>1. \A a \in Analyses \cup {None} : [s EXCEPT !.analysis = a] \in CaptureRow
  BY DEF CaptureRow
<1>2. \A n \in Nat \cup {None} : [s EXCEPT !.candidate = n] \in CaptureRow
  BY DEF CaptureRow
<1>3. \A x \in Identities \cup {None} : [s EXCEPT !.identity = x] \in CaptureRow
  BY DEF CaptureRow
<1>4. \A d \in Captures \cup {None} : [s EXCEPT !.dup = d] \in CaptureRow
  BY DEF CaptureRow
<1>5. \A n \in Nat \cup {None} : [s EXCEPT !.draft = n] \in CaptureRow
  BY DEF CaptureRow
<1>6. \A x \in Confirmations \cup {None} : [s EXCEPT !.confirmed = x] \in CaptureRow
  BY DEF CaptureRow
<1>7. /\ [s EXCEPT !.attempted = TRUE] \in CaptureRow
      /\ [s EXCEPT !.receipt = TRUE] \in CaptureRow
      /\ [s EXCEPT !.claim = FALSE] \in CaptureRow
  BY DEF CaptureRow
<1> QED
  BY <1>1, <1>2, <1>3, <1>4, <1>5, <1>6, <1>7

(* A record equal to a capture but for one field is sound if the field is. *)
LEMMA ChangedSound ==
  ASSUME NEW img, NEW c, NEW s \in CaptureRow, CaptureOK(img, c, s)
  PROVE  /\ \A a : (a # None => a.image = s.image) =>
                     CaptureOK(img, c, [s EXCEPT !.analysis = a])
         /\ \A n : CaptureOK(img, c, [s EXCEPT !.candidate = n])
         /\ \A x : (x # None => x.image = s.image) =>
                     CaptureOK(img, c, [s EXCEPT !.identity = x])
         /\ \A d : CaptureOK(img, c, [s EXCEPT !.dup = d])
         /\ \A n : s.attempted => CaptureOK(img, c, [s EXCEPT !.draft = n])
         /\ CaptureOK(img, c, [s EXCEPT !.receipt = TRUE])
         /\ CaptureOK(img, c, [s EXCEPT !.claim = FALSE])
<1>1. ASSUME NEW a, a # None => a.image = s.image
      PROVE  CaptureOK(img, c, [s EXCEPT !.analysis = a])
  BY <1>1 DEF CaptureOK, CaptureRow, Photographed
<1>2. ASSUME NEW n PROVE CaptureOK(img, c, [s EXCEPT !.candidate = n])
  BY DEF CaptureOK, CaptureRow, Photographed
<1>3. ASSUME NEW x, x # None => x.image = s.image
      PROVE  CaptureOK(img, c, [s EXCEPT !.identity = x])
  BY <1>3 DEF CaptureOK, CaptureRow, Photographed
<1>4. ASSUME NEW d PROVE CaptureOK(img, c, [s EXCEPT !.dup = d])
  BY DEF CaptureOK, CaptureRow, Photographed
<1>5. ASSUME NEW n, s.attempted PROVE CaptureOK(img, c, [s EXCEPT !.draft = n])
  BY <1>5 DEF CaptureOK, CaptureRow, Photographed
<1>6. CaptureOK(img, c, [s EXCEPT !.receipt = TRUE])
  BY DEF CaptureOK, CaptureRow, Photographed
<1>7. CaptureOK(img, c, [s EXCEPT !.claim = FALSE])
  BY DEF CaptureOK, CaptureRow, Photographed
<1> QED
  BY <1>1, <1>2, <1>3, <1>4, <1>5, <1>6, <1>7

(* The change itself touches neither the version nor what copies agree on. *)
Alike(s, t) ==
  t.version = s.version /\ Agree(s, t) /\ t.status = s.status

LEMMA ChangedAlike ==
  ASSUME NEW s \in CaptureRow
  PROVE  /\ \A a : Alike(s, [s EXCEPT !.analysis = a])
         /\ \A n : Alike(s, [s EXCEPT !.candidate = n])
         /\ \A x : Alike(s, [s EXCEPT !.identity = x])
         /\ \A d : Alike(s, [s EXCEPT !.dup = d])
         /\ \A n : Alike(s, [s EXCEPT !.draft = n])
         /\ Alike(s, [s EXCEPT !.receipt = TRUE])
         /\ Alike(s, [s EXCEPT !.claim = FALSE])
<1>1. \A a : Alike(s, [s EXCEPT !.analysis = a])
  BY DEF Alike, Agree, CaptureRow
<1>2. \A n : Alike(s, [s EXCEPT !.candidate = n])
  BY DEF Alike, Agree, CaptureRow
<1>3. \A x : Alike(s, [s EXCEPT !.identity = x])
  BY DEF Alike, Agree, CaptureRow
<1>4. \A d : Alike(s, [s EXCEPT !.dup = d])
  BY DEF Alike, Agree, CaptureRow
<1>5. \A n : Alike(s, [s EXCEPT !.draft = n])
  BY DEF Alike, Agree, CaptureRow
<1>6. Alike(s, [s EXCEPT !.receipt = TRUE]) /\ Alike(s, [s EXCEPT !.claim = FALSE])
  BY DEF Alike, Agree, CaptureRow
<1> QED
  BY <1>1, <1>2, <1>3, <1>4, <1>5, <1>6

LEMMA KeptAlike ==
  ASSUME NEW s \in CaptureRow, NEW t \in CaptureRow, NEW u \in CaptureRow,
         Alike(s, t), Kept(t, u), Agree(t, u)
  PROVE  Kept(s, u) /\ Agree(s, u)
  BY CaptureFacts DEF Alike, Agree, Kept, Photographed

LEMMA AgreeTrans ==
  ASSUME NEW s, NEW t, NEW u, Agree(s, t), Agree(t, u)
  PROVE  Agree(s, u) /\ Agree(t, s)
  BY DEF Agree

LEMMA KeptSame == ASSUME NEW s \in CaptureRow PROVE Kept(s, s) /\ Agree(s, s)
  BY CaptureFacts DEF Kept, Agree

(* What an operation writes, from a copy t of the stored s of its version. *)
LEMMA WrittenKept ==
  ASSUME NEW s \in CaptureRow, NEW t \in CaptureRow, NEW u \in CaptureRow,
         t.version = s.version, Agree(t, s), Kept(t, u), Agree(t, u), Photographed(u)
  PROVE  Kept(s, u) /\ Agree(s, u)
<1>1. Agree(s, u)
  BY DEF Agree
<1>2. s.version <= u.version
  BY DEF Kept
<1> QED
  BY <1>1, <1>2 DEF Kept, Agree

(* Photos are only ever added, so what the rows said of a photo stays.     *)
LEMMA Appended ==
  ASSUME NEW P, NEW img \in Seq(P), NEW r \in P
  PROVE  /\ \A d : Held(img, d) => Held(Append(img, r), d)
         /\ \A c, d : Owned(img, c, d) => Owned(Append(img, r), c, d)
         /\ Held(Append(img, r), r.digest)
<1> DEFINE more == Append(img, r)
<1>1. /\ Len(img) \in Nat /\ Len(more) = Len(img) + 1 /\ more[Len(img) + 1] = r
      /\ \A n \in 1..Len(img) : more[n] = img[n]
  OBVIOUS
<1> HIDE DEF more
<1>2. 1..Len(img) \subseteq 1..Len(more) /\ Len(more) \in 1..Len(more)
  BY <1>1
<1>3. \A d : Held(img, d) => Held(more, d)
  BY <1>1, <1>2 DEF Held
<1>4. ASSUME NEW c, NEW d, Owned(img, c, d)
      PROVE  Owned(more, c, d)
  <2>1. PICK n \in 1..Len(img) :
          /\ img[n].cap = c /\ img[n].digest = d
          /\ \A k \in 1..Len(img) : img[k].digest = d => n <= k
    BY <1>4 DEF Owned
  <2>2. ASSUME NEW k \in 1..Len(more), more[k].digest = d PROVE n <= k
    <3>1. CASE k \in 1..Len(img)
      BY <2>1, <2>2, <3>1, <1>1
    <3>2. CASE k \notin 1..Len(img)
      BY <2>1, <3>2, <1>1
    <3> QED
      BY <3>1, <3>2
  <2>3. n \in 1..Len(more) /\ more[n].cap = c /\ more[n].digest = d
    BY <2>1, <1>1, <1>2
  <2> QED
    BY <2>2, <2>3 DEF Owned
<1>5. Held(more, r.digest)
  BY <1>1, <1>2 DEF Held
<1> QED
  BY <1>3, <1>4, <1>5 DEF more

LEMMA AppendedSound ==
  ASSUME NEW P, NEW img \in Seq(P), NEW r \in P, NEW c, NEW s, CaptureOK(img, c, s)
  PROVE  CaptureOK(Append(img, r), c, s)
  BY Appended DEF CaptureOK

(* No photo was first stored for two captures. *)
LEMMA OneOwner ==
  ASSUME NEW img, Len(img) \in Nat, NEW c, NEW d, NEW digest,
         Owned(img, c, digest), Owned(img, d, digest)
  PROVE  c = d
<1>1. PICK n \in 1..Len(img) :
        /\ img[n].cap = c /\ img[n].digest = digest
        /\ \A k \in 1..Len(img) : img[k].digest = digest => n <= k
  BY DEF Owned
<1>2. PICK m \in 1..Len(img) :
        /\ img[m].cap = d /\ img[m].digest = digest
        /\ \A k \in 1..Len(img) : img[k].digest = digest => m <= k
  BY DEF Owned
<1>3. n <= m /\ m <= n
  BY <1>1, <1>2
<1>4. n = m
  BY <1>3
<1> QED
  BY <1>1, <1>2, <1>4

-----------------------------------------------------------------------------
(* Choices the operations make. *)

LEMMA LeastNumber ==
  ASSUME NEW T, T \subseteq Nat, T # {}
  PROVE  /\ \E n \in T : \A k \in T : n <= k
         /\ Min(T) \in T
<1>1. PICK n \in T : \A k \in T : ~ (<<k, n>> \in OpToRel(<, Nat))
  BY NatLessThanWellFounded, WFMin
<1>2. \A k \in T : ~ (k < n)
  <2>1. ASSUME NEW k \in T, k < n PROVE FALSE
    <3>1. <<k, n>> \in Nat \X Nat
      OBVIOUS
    <3>2. <<k, n>>[1] < <<k, n>>[2]
      BY <2>1
    <3>3. <<k, n>> \in OpToRel(<, Nat)
      BY <3>1, <3>2 DEF OpToRel
    <3> QED
      BY <3>3, <1>1
  <2> QED
    BY <2>1
<1>3. n \in Nat /\ \A k \in T : k \in Nat
  OBVIOUS
<1>4. \A k \in T : n <= k
  BY <1>2, <1>3
<1>5. Min(T) \in T
  BY <1>4 DEF Min
<1> QED
  BY <1>4, <1>5

LEMMA NextRowChosen ==
  ASSUME NEW rows, rows \subseteq Captures, rows # {}, NEW cursor
  PROVE  NextRow(rows, cursor) \in rows
<1> DEFINE later == {c \in rows : c > cursor}
<1>1. rows \subseteq Nat /\ later \subseteq Nat /\ later \subseteq rows
  BY CapturesAssumption
<1>2. Min(rows) \in rows
  BY <1>1, LeastNumber
<1>3. later # {} => Min(later) \in later
  BY <1>1, LeastNumber
<1>4. NextRow(rows, cursor) = IF later # {} THEN Min(later) ELSE Min(rows)
  BY DEF NextRow
<1> HIDE DEF later
<1> QED
  BY <1>1, <1>2, <1>3, <1>4

(* A photo that is stored and has no other capture first is the capture's. *)
LEMMA NowhereElse ==
  ASSUME Len(images) \in Nat, NEW c, NEW digest, Held(images, digest),
         Elsewhere(c, digest) = {}
  PROVE  Owned(images, c, digest)
<1>1. Rows(digest) \subseteq Nat /\ Rows(digest) # {}
  BY DEF Rows, Held
<1>2. PICK n \in Rows(digest) : \A k \in Rows(digest) : n <= k
  BY <1>1, LeastNumber
<1>3. images[n].cap \in {images[k].cap : k \in {k \in Rows(digest) : \A l \in Rows(digest) : k <= l}}
  BY <1>2
<1>4. images[n].cap = c
  BY <1>3 DEF Elsewhere
<1>5. /\ n \in 1..Len(images) /\ images[n].digest = digest
      /\ \A k \in 1..Len(images) : images[k].digest = digest => n <= k
  BY <1>2 DEF Rows
<1> QED
  BY <1>4, <1>5 DEF Owned

LEMMA ElsewhereType ==
  ASSUME images \in Seq([cap : Captures, digest : Photos]), NEW c, NEW digest
  PROVE  Elsewhere(c, digest) \subseteq Captures
<1> DEFINE Row == [cap : Captures, digest : Photos]
<1>1. \A n \in 1..Len(images) : images[n] \in Row
  <2> HIDE DEF Row
  <2>1. images \in Seq(Row)
    BY DEF Row
  <2> QED
    BY <2>1
<1>2. \A n \in 1..Len(images) : images[n].cap \in Captures
  BY <1>1
<1> QED
  BY <1>2 DEF Elsewhere, Rows

-----------------------------------------------------------------------------
(* What a write does to the store. *)

LEMMA SavedRow ==
  ASSUME caps \in [Captures -> CaptureRow], NEW c \in Captures, NEW v, NEW next \in CaptureRow
  PROVE  /\ Saves(c, v, next) \in [Captures -> CaptureRow]
         /\ \A d \in Captures :
              Saves(c, v, next)[d] = IF d = c /\ caps[c].version = v THEN next ELSE caps[d]
<1>1. CASE caps[c].version = v
  BY <1>1 DEF Saves
<1>2. CASE caps[c].version # v
  BY <1>2 DEF Saves
<1> QED
  BY <1>1, <1>2

LEMMA WonExact ==
  ASSUME caps \in [Captures -> CaptureRow], NEW c \in Captures, NEW v \in Nat
  PROVE  Won(c, v) <=> caps[c].version = v
<1> DEFINE next == [caps[c] EXCEPT !.version = v + 1]
<1>1. caps[c] \in CaptureRow
  OBVIOUS
<1>2. next.version = v + 1
  BY <1>1 DEF CaptureRow
<1>3. Won(c, v) <=> Saves(c, v, next) # caps
  BY DEF Won
<1> HIDE DEF next
<1>4. CASE caps[c].version = v
  <2>1. Saves(c, v, next)[c] = next
    BY <1>4 DEF Saves
  <2>2. next # caps[c]
    BY <1>2, <1>4
  <2> QED
    BY <2>1, <2>2, <1>3, <1>4
<1>5. CASE caps[c].version # v
  BY <1>5, <1>3 DEF Saves
<1> QED
  BY <1>4, <1>5

Instance == [op : Ops, submits : Nat, drafts : Nat, turn : {"submit", "draft"}]

LEMMA OpFacts ==
  ASSUME NEW c \in Captures, NEW pc \in OpSteps, NEW s \in CaptureRow
  PROVE  /\ Op(c, pc, s) \in Ops
         /\ Op(c, pc, s).pc = pc /\ Op(c, pc, s).cap = c /\ Op(c, pc, s).state = s
         /\ ~Op(c, pc, s).fresh
  BY DEF Op, NoOp, Ops

LEMMA NoOpFacts ==
  NoCapture \in CaptureRow /\ NoOp \in Ops /\ NoOp.pc = "idle" /\ NoInstance \in Instance
  /\ NoInstance.op = NoOp
<1>1. NoCapture \in CaptureRow
  BY DEF NoCapture, CaptureRow, Statuses
<1>2. NoOp \in Ops /\ NoOp.pc = "idle"
  BY <1>1 DEF NoOp, Ops, OpSteps
<1> QED
  BY <1>1, <1>2 DEF NoInstance, Instance

LEMMA DoesFacts ==
  ASSUME inst \in [Instances -> Instance], NEW i \in Instances, NEW op \in Ops, Does(i, op)
  PROVE  /\ inst' \in [Instances -> Instance]
         /\ inst'[i].op = op
         /\ \A j \in Instances : j # i => inst'[j] = inst[j]
<1>1. inst' = [inst EXCEPT ![i].op = op]
  BY DEF Does
<1>2. inst[i] \in Instance
  OBVIOUS
<1>3. [inst[i] EXCEPT !.op = op] \in Instance /\ [inst[i] EXCEPT !.op = op].op = op
  BY <1>2 DEF Instance
<1>4. inst'[i] = [inst[i] EXCEPT !.op = op]
  BY <1>1
<1> QED
  BY <1>1, <1>3, <1>4

LEMMA CurrentOp ==
  ASSUME TypeOK, NEW i \in Instances
  PROVE  /\ inst \in [Instances -> Instance]
         /\ inst[i].op \in Ops /\ inst[i].op.state \in CaptureRow
         /\ inst[i].op.rev \in Nat /\ inst[i].op.fresh \in BOOLEAN
         /\ inst[i].op.pc \in OpSteps /\ inst[i].submits \in Nat /\ inst[i].drafts \in Nat
<1>1. inst \in [Instances -> Instance]
  BY DEF TypeOK, Instance
<1>2. inst[i] \in Instance
  BY <1>1
<1>3. inst[i].op \in Ops /\ inst[i].submits \in Nat /\ inst[i].drafts \in Nat
  BY <1>2 DEF Instance
<1> QED
  BY <1>1, <1>3 DEF Ops

-----------------------------------------------------------------------------
(* What follows when every capture is continued. *)

Continued ==
  \A c \in Captures : Kept(caps[c], caps'[c]) /\ CaptureOK(images', c, caps'[c])

(* ... and keeps what its copies agree on, with the same photos. *)
Steady ==
  \A c \in Captures :
    /\ Kept(caps[c], caps'[c]) /\ Agree(caps[c], caps'[c])
    /\ CaptureOK(images, c, caps'[c])

PhotosKept ==
  \A c, s, d :
    /\ CaptureOK(images, c, s) => CaptureOK(images', c, s)
    /\ Owned(images, c, d) => Owned(images', c, d)

LEMMA OpKept ==
  ASSUME NEW op \in Ops, NEW s \in CaptureRow, NEW t \in CaptureRow, NEW img, NEW img2,
         NEW v, NEW w, OpOK(op, s, img, v), Kept(s, t),
         \A c, x, d : /\ CaptureOK(img, c, x) => CaptureOK(img2, c, x)
                      /\ Owned(img, c, d) => Owned(img2, c, d),
         w = v \/ (w # None /\ w.version = t.version)
  PROVE  OpOK(op, t, img2, w)
<1> SUFFICES ASSUME op.pc # "idle"
             PROVE  OpOK(op, t, img2, w)
  BY DEF OpOK
<1> DEFINE x == op.state
<1>1. x \in CaptureRow
  BY DEF Ops
<1>2. x.version \in Nat /\ s.version \in Nat /\ t.version \in Nat
  BY <1>1, CaptureFacts
<1>3. /\ op.cap \in Captures /\ x.version <= s.version /\ Photographed(s)
      /\ op.pc = "claim" => ~x.attempted /\ Owned(img, op.cap, x.digest)
      /\ op.pc \in {"lookup", "post", "readback", "confirm"} => x.attempted
      /\ op.pc = "post" => op.fresh
      /\ op.pc = "confirm" => v # None /\ (x.version = s.version => v.version = x.version)
      /\ op.pc = "submit" => s.confirmed # None
  BY DEF OpOK
<1>4. op.pc \in Writing =>
        /\ CaptureOK(img, op.cap, x) /\ Photographed(x) /\ x.confirmed = None
        /\ x.version = s.version => Agree(x, s)
  BY DEF OpOK
<1> HIDE DEF x
<1>5. x.version <= t.version /\ Photographed(t) /\ (x.version = t.version => x.version = s.version)
  BY <1>2, <1>3 DEF Kept
<1>6. x.version = t.version => s.version = t.version /\ Agree(s, t)
  BY <1>5 DEF Kept
<1>7. op.pc \in Writing =>
        /\ CaptureOK(img2, op.cap, x) /\ Photographed(x) /\ x.confirmed = None
        /\ x.version = t.version => Agree(x, t)
  BY <1>4, <1>5, <1>6 DEF Agree
<1>8. op.pc = "confirm" => w # None /\ (x.version = t.version => w.version = x.version)
  BY <1>3, <1>5
<1>9. op.pc = "submit" => t.confirmed # None
  BY <1>3 DEF Kept
<1> QED
  BY <1>3, <1>5, <1>7, <1>8, <1>9 DEF OpOK, x

(* An operation that a step leaves alone. *)
LEMMA OtherOp ==
  ASSUME TypeOK, TypeOK', OpsInv, Continued, PhotosKept, NEW j \in Instances,
         inst'[j].op = inst[j].op,
         \A c \in Captures :
           seen'[c] = seen[c] \/ (seen'[c] # None /\ seen'[c].version = caps'[c].version)
  PROVE  OpOK(inst'[j].op, caps'[inst'[j].op.cap], images', seen'[inst'[j].op.cap])
<1>1. PICK op : op = inst[j].op
  OBVIOUS
<1>2. op \in Ops
  BY <1>1, CurrentOp
<1>3. inst'[j].op = op
  BY <1>1
<1>4. OpOK(op, caps[op.cap], images, seen[op.cap])
  BY <1>1 DEF OpsInv
<1>5. CASE op.pc = "idle"
  BY <1>3, <1>5 DEF OpOK
<1>6. CASE op.pc # "idle"
  <2>1. PICK c \in Captures : c = op.cap
    BY <1>4, <1>6 DEF OpOK
  <2>2. caps[c] \in CaptureRow /\ caps'[c] \in CaptureRow
    BY <2>1 DEF TypeOK
  <2>3. /\ Kept(caps[c], caps'[c])
        /\ seen'[c] = seen[c] \/ (seen'[c] # None /\ seen'[c].version = caps'[c].version)
    BY <2>1 DEF Continued
  <2>4. OpOK(op, caps[c], images, seen[c])
    BY <1>4, <2>1
  <2>5. PICK s, t, img, img2, v, w :
          /\ s \in CaptureRow /\ t \in CaptureRow
          /\ s = caps[c] /\ t = caps'[c] /\ img = images /\ img2 = images'
          /\ v = seen[c] /\ w = seen'[c]
    BY <2>2
  <2>6. OpOK(op, t, img2, w)
    BY <1>2, <2>3, <2>4, <2>5, OpKept DEF PhotosKept
  <2> QED
    BY <1>3, <2>1, <2>5, <2>6
<1> QED
  BY <1>5, <1>6

(* Operations: left alone, ended, or in order as they are. *)
OpsMove ==
  \A j \in Instances :
    \/ inst'[j].op = inst[j].op
    \/ inst'[j].op.pc = "idle"
    \/ OpOK(inst'[j].op, caps'[inst'[j].op.cap], images', seen'[inst'[j].op.cap])

(* No draft is created, and nobody gains the right to create one. *)
RightsMove ==
  \A c \in Captures :
    /\ docs'[c].drafts = docs[c].drafts
    /\ Late(c)' => Late(c)
    /\ \A i \in Instances : Holds(i, c)' => Holds(i, c)

(* A receipt is posted only once it is confirmed. *)
PostingsMove ==
  /\ \A c \in Captures :
       \/ docs'[c].posted = docs[c].posted /\ docs'[c].docstatus = docs[c].docstatus
       \/ docs'[c].posted = docs'[c].docstatus /\ caps'[c].confirmed # None
  /\ \A m \in wire' : m \in wire \/ WireOK(m)'

LEMMA OpsStay ==
  ASSUME TypeOK, TypeOK', OpsInv, Continued, PhotosKept, OpsMove,
         \A c \in Captures :
           seen'[c] = seen[c] \/ (seen'[c] # None /\ seen'[c].version = caps'[c].version)
  PROVE  OpsInv'
<1> SUFFICES ASSUME NEW j \in Instances
             PROVE  OpOK(inst'[j].op, caps'[inst'[j].op.cap], images', seen'[inst'[j].op.cap])
  BY DEF OpsInv
<1>1. CASE inst'[j].op = inst[j].op
  BY <1>1, OtherOp
<1>2. CASE inst'[j].op.pc = "idle"
  BY <1>2 DEF OpOK
<1> QED
  BY <1>1, <1>2 DEF OpsMove

LEMMA TokenAt ==
  ASSUME NEW c \in Captures, Token(c), Continued,
         docs'[c].drafts = docs[c].drafts, Late(c)' => Late(c),
         \A i \in Instances : Holds(i, c)' => Holds(i, c)
  PROVE  Token(c)'
<1>1. ~caps'[c].attempted => ~caps[c].attempted
  BY DEF Continued, Kept
<1> QED
  BY <1>1 DEF Token

LEMMA TokenStays ==
  ASSUME TokenInv, Continued, RightsMove
  PROVE  TokenInv'
<1> SUFFICES ASSUME NEW c \in Captures PROVE Token(c)'
  BY DEF TokenInv
<1> QED
  BY TokenAt DEF TokenInv, RightsMove

LEMMA DocStays ==
  ASSUME TypeOK, TypeOK', DocInv, Continued, PostingsMove
  PROVE  DocInv'
<1>1. \A c \in Captures : caps[c].confirmed # None => caps'[c].confirmed # None
  BY DEF Continued, Kept
<1>2. \A c \in Captures : DocOK(c)'
  BY <1>1 DEF DocInv, DocOK, PostingsMove
<1>3. \A m \in wire' : WireOK(m)'
  <2> SUFFICES ASSUME NEW m \in wire PROVE WireOK(m)'
    BY DEF PostingsMove
  <2>1. m.cap \in Captures
    BY DEF TypeOK, Requests
  <2> QED
    BY <1>1, <2>1 DEF DocInv, WireOK
<1> QED
  BY <1>2, <1>3 DEF DocInv

LEMMA SeenAt ==
  ASSUME TypeOK, TypeOK', NEW c \in Captures, SeenOK(c), ConfirmedOK(c),
         CaptureOK(images, c, caps[c]), Kept(caps[c], caps'[c]),
         Inputs(scans', c) = Inputs(scans, c), seen'[c] = seen[c],
         caps'[c].confirmed = caps[c].confirmed
  PROVE  SeenOK(c)' /\ ConfirmedOK(c)'
<1>1. caps[c].version \in Nat /\ caps'[c].version \in Nat
      /\ (seen[c] # None => seen[c].version \in Nat)
  <2>1. caps[c] \in CaptureRow /\ caps'[c] \in CaptureRow /\ seen[c] \in Sightings \cup {None}
    BY DEF TypeOK
  <2> QED
    BY <2>1, CaptureFacts DEF Sightings
<1>2. SeenOK(c)'
  <2> SUFFICES ASSUME seen[c] # None
               PROVE  /\ Photographed(caps'[c])
                      /\ seen[c].version <= caps'[c].version
                      /\ seen[c].version = caps'[c].version =>
                           seen[c].image = caps'[c].image /\ seen[c].inputs = Inputs(scans', c)
    BY DEF SeenOK
  <2>1. /\ Photographed(caps[c]) /\ seen[c].version <= caps[c].version
        /\ seen[c].version = caps[c].version =>
             seen[c].image = caps[c].image /\ seen[c].inputs = Inputs(scans, c)
    BY DEF SeenOK
  <2>2. caps[c].version <= caps'[c].version
        /\ (caps[c].version = caps'[c].version => caps[c].image = caps'[c].image)
    BY DEF Kept, Agree
  <2>3. Photographed(caps'[c])
    BY <2>1 DEF Kept
  <2>4. seen[c].version = caps'[c].version => caps[c].version = caps'[c].version
    BY <1>1, <2>1, <2>2
  <2> QED
    BY <1>1, <2>1, <2>2, <2>3, <2>4
<1>3. ConfirmedOK(c)'
  BY DEF ConfirmedOK, CaptureOK, Kept
<1> QED
  BY <1>2, <1>3

LEMMA SeenStays ==
  ASSUME TypeOK, TypeOK', SeenInv, CapsInv, Continued, scans' = scans, seen' = seen,
         \A c \in Captures : caps'[c].confirmed = caps[c].confirmed
  PROVE  SeenInv'
<1> SUFFICES ASSUME NEW c \in Captures PROVE SeenOK(c)' /\ ConfirmedOK(c)'
  BY DEF SeenInv
<1>1. SeenOK(c) /\ ConfirmedOK(c) /\ CaptureOK(images, c, caps[c]) /\ Kept(caps[c], caps'[c])
  BY DEF SeenInv, CapsInv, Continued
<1> QED
  BY <1>1, SeenAt

LEMMA ImageStays ==
  ASSUME ImageInv, images' = images, \A c \in Captures : caps'[c].image = caps[c].image
  PROVE  ImageInv'
  BY DEF ImageInv, PhotosOf

(* Everything but the right to create a draft, over a step that keeps what *)
(* operators saw and confirmed.                                            *)
LEMMA RestStays ==
  ASSUME IInv, TypeOK', Continued, UNCHANGED <<images, scans, seen>>, OpsMove, PostingsMove,
         \A c \in Captures :
           caps'[c].image = caps[c].image /\ caps'[c].confirmed = caps[c].confirmed
  PROVE  CapsInv' /\ OpsInv' /\ DocInv' /\ SeenInv' /\ ScanInv' /\ ImageInv'
<1>1. PhotosKept
  BY DEF PhotosKept
<1>2. CapsInv'
  BY DEF CapsInv, Continued
<1>3. OpsInv' /\ DocInv'
  BY <1>1, OpsStay, DocStays DEF IInv
<1>4. SeenInv' /\ ImageInv'
  BY SeenStays, ImageStays DEF IInv
<1>5. ScanInv'
  BY DEF ScanInv, IInv
<1> QED
  BY <1>2, <1>3, <1>4, <1>5

LEMMA SteadyStep ==
  ASSUME IInv, TypeOK', Steady, UNCHANGED <<images, scans, seen>>, OpsMove, RightsMove, PostingsMove
  PROVE  IInv'
<1>1. Continued
  BY DEF Continued, Steady
<1>2. \A c \in Captures : caps'[c].image = caps[c].image /\ caps'[c].confirmed = caps[c].confirmed
  BY DEF Steady, Agree
<1>3. TokenInv'
  BY <1>1, TokenStays DEF IInv
<1> QED
  BY <1>1, <1>2, <1>3, RestStays DEF IInv

(* A step of one instance, or of none, that does not reach the receipts. *)
LEMMA QuietStep ==
  ASSUME IInv, TypeOK', Steady, UNCHANGED <<images, scans, docs, wire, seen>>,
         NEW i \in Instances, \A j \in Instances : j # i => inst'[j] = inst[j],
         inst'[i].op.pc = "idle" \/
           OpOK(inst'[i].op, caps'[inst'[i].op.cap], images, seen[inst'[i].op.cap]),
         \A c \in Captures : Holds(i, c)' => Holds(i, c)
  PROVE  IInv'
<1>1. \A j \in Instances, c \in Captures : Holds(j, c)' => Holds(j, c)
  BY DEF Holds
<1>2. RightsMove /\ PostingsMove
  BY <1>1 DEF RightsMove, PostingsMove, Late
<1>3. OpsMove
  BY DEF OpsMove
<1> QED
  BY <1>2, <1>3, SteadyStep

LEMMA QuietStore ==
  ASSUME IInv, TypeOK', Steady, UNCHANGED <<images, scans, docs, wire, seen, inst>>
  PROVE  IInv'
<1>1. RightsMove /\ PostingsMove /\ OpsMove
  BY DEF RightsMove, PostingsMove, OpsMove, Late, Holds
<1> QED
  BY <1>1, SteadyStep

LEMMA CapsSame ==
  ASSUME TypeOK, CapsInv, caps' = caps
  PROVE  Steady
<1> SUFFICES ASSUME NEW c \in Captures
             PROVE  Kept(caps[c], caps[c]) /\ Agree(caps[c], caps[c]) /\ CaptureOK(images, c, caps[c])
  BY DEF Steady
<1>1. caps[c] \in CaptureRow
  BY DEF TypeOK
<1> QED
  BY <1>1, KeptSame DEF CapsInv

LEMMA StoreSteady ==
  ASSUME TypeOK, CapsInv, NEW c \in Captures, NEW next \in CaptureRow,
         caps' = [caps EXCEPT ![c] = next],
         Kept(caps[c], next), Agree(caps[c], next), CaptureOK(images, c, next)
  PROVE  Steady /\ caps' \in [Captures -> CaptureRow]
<1>1. caps \in [Captures -> CaptureRow]
  BY DEF TypeOK
<1>2. \A d \in Captures : caps'[d] = IF d = c THEN next ELSE caps[d]
  BY <1>1
<1>3. \A d \in Captures : Kept(caps[d], caps[d]) /\ Agree(caps[d], caps[d])
  BY <1>1, KeptSame
<1> QED
  BY <1>1, <1>2, <1>3 DEF Steady, CapsInv

(* An operation saves next from its copy t. *)
LEMMA SavedSteady ==
  ASSUME TypeOK, CapsInv, NEW c \in Captures, NEW t \in CaptureRow, NEW next \in CaptureRow,
         caps' = Saves(c, t.version, next),
         t.version = caps[c].version => Agree(t, caps[c]),
         Kept(t, next), Agree(t, next), Photographed(next), CaptureOK(images, c, next)
  PROVE  Steady /\ caps' \in [Captures -> CaptureRow]
<1>1. caps \in [Captures -> CaptureRow] /\ caps[c] \in CaptureRow
  BY DEF TypeOK
<1>2. /\ caps' \in [Captures -> CaptureRow]
      /\ \A d \in Captures :
           caps'[d] = IF d = c /\ caps[c].version = t.version THEN next ELSE caps[d]
  BY <1>1, SavedRow
<1>3. \A d \in Captures : Kept(caps[d], caps[d]) /\ Agree(caps[d], caps[d])
  BY <1>1, KeptSame
<1>4. t.version = caps[c].version => Kept(caps[c], next) /\ Agree(caps[c], next)
  BY <1>1, WrittenKept
<1> QED
  BY <1>2, <1>3, <1>4 DEF Steady, CapsInv

-----------------------------------------------------------------------------
(* Photos. *)

LEMMA CreateKeeps == ASSUME IInv, NEW c \in Captures, Create(c) PROVE IInv'
<1>1. caps \in [Captures -> CaptureRow] /\ caps[c] \in CaptureRow /\ CaptureOK(images, c, caps[c])
  BY DEF IInv, TypeOK, CapsInv
<1> DEFINE next == [caps[c] EXCEPT !.status = "AWAITING_PHOTO"]
<1>2. /\ next \in CaptureRow /\ next.status = "AWAITING_PHOTO" /\ next.version = caps[c].version
      /\ next.digest = caps[c].digest /\ next.image = caps[c].image
      /\ next.attempted = caps[c].attempted /\ next.confirmed = caps[c].confirmed
      /\ next.draft = caps[c].draft /\ next.analysis = caps[c].analysis
      /\ next.identity = caps[c].identity
  BY <1>1 DEF CaptureRow, Statuses
<1>3. caps[c].status = "NONE" /\ caps' = [caps EXCEPT ![c] = next]
  BY DEF Create
<1> HIDE DEF next
<1>4. Kept(caps[c], next) /\ Agree(caps[c], next)
  BY <1>1, <1>2, <1>3, CaptureFacts DEF Kept, Agree, Photographed
<1>5. CaptureOK(images, c, next)
  BY <1>1, <1>2, <1>3 DEF CaptureOK, Photographed
<1>6. Steady /\ caps' \in [Captures -> CaptureRow]
  BY <1>2, <1>3, <1>4, <1>5, StoreSteady DEF IInv
<1>7. TypeOK'
  BY <1>6 DEF IInv, TypeOK, Create
<1> QED
  BY <1>6, <1>7, QuietStore DEF Create

LEMMA LeaseEndsKeeps == ASSUME IInv, NEW c \in Captures, LeaseEnds(c) PROVE IInv'
<1>1. caps \in [Captures -> CaptureRow] /\ caps[c] \in CaptureRow /\ CaptureOK(images, c, caps[c])
  BY DEF IInv, TypeOK, CapsInv
<1> DEFINE next == [caps[c] EXCEPT !.claim = FALSE]
<1>2. next \in CaptureRow /\ Alike(caps[c], next) /\ CaptureOK(images, c, next)
  BY <1>1, ChangedFacts, ChangedAlike, ChangedSound
<1>3. caps' = [caps EXCEPT ![c] = next]
  BY DEF LeaseEnds
<1> HIDE DEF next
<1>4. Kept(caps[c], next) /\ Agree(caps[c], next)
  BY <1>1, <1>2, KeptAlike, KeptSame
<1>5. Steady /\ caps' \in [Captures -> CaptureRow]
  BY <1>2, <1>3, <1>4, StoreSteady DEF IInv
<1>6. TypeOK'
  BY <1>5 DEF IInv, TypeOK, LeaseEnds
<1> QED
  BY <1>5, <1>6, QuietStore DEF LeaseEnds

LEMMA RecoveredSound ==
  ASSUME NEW img, NEW c, NEW s \in CaptureRow, CaptureOK(img, c, s)
  PROVE  CaptureOK(img, c, Recovered(s))
<1>1. CASE s.status = "ANALYZING" /\ ~s.claim
  <2>1. Recovered(s) = Advanced(s, "UNAVAILABLE")
    BY <1>1 DEF Recovered
  <2>2. s.confirmed = None /\ Photographed(s)
    BY <1>1 DEF CaptureOK, Photographed
  <2>3. "UNAVAILABLE" \in Statuses \ {"NONE", "AWAITING_PHOTO"}
    BY DEF Statuses
  <2> QED
    BY <2>1, <2>2, <2>3, AdvancedSound
<1>2. CASE ~(s.status = "ANALYZING" /\ ~s.claim)
  BY <1>2 DEF Recovered
<1> QED
  BY <1>1, <1>2

LEMMA RecoverKeeps == ASSUME IInv, NEW c \in Captures, Recover(c) PROVE IInv'
<1>1. caps \in [Captures -> CaptureRow] /\ caps[c] \in CaptureRow /\ CaptureOK(images, c, caps[c])
  BY DEF IInv, TypeOK, CapsInv
<1> DEFINE next == Recovered(caps[c])
<1>2. caps' = [caps EXCEPT ![c] = next]
  BY DEF Recover
<1>3. /\ next \in CaptureRow /\ Kept(caps[c], next) /\ Agree(caps[c], next)
      /\ CaptureOK(images, c, next)
  BY <1>1, RecoveredFacts, RecoveredSound
<1> HIDE DEF next
<1>4. Steady /\ caps' \in [Captures -> CaptureRow]
  BY <1>2, <1>3, StoreSteady DEF IInv
<1>5. TypeOK'
  BY <1>4 DEF IInv, TypeOK, Recover
<1> QED
  BY <1>4, <1>5, QuietStore DEF Recover

LEMMA BarcodeKeeps == ASSUME IInv, NEW c \in Captures, Barcode(c) PROVE IInv'
<1>1. Steady
  BY CapsSame DEF IInv, Barcode
<1>2. barcodes' \in [Captures -> SUBSET Nat]
  BY DEF IInv, TypeOK, Barcode
<1>3. TypeOK'
  BY <1>2 DEF IInv, TypeOK, Barcode
<1> QED
  BY <1>1, <1>3, QuietStore DEF Barcode

Counters == [uploads : Nat, edits : Nat, faults : Nat, crashes : Nat]

LEMMA CountFacts ==
  ASSUME TypeOK
  PROVE  /\ used \in Counters
         /\ [used EXCEPT !.uploads = @ + 1] \in Counters /\ [used EXCEPT !.edits = @ + 1] \in Counters
         /\ [used EXCEPT !.faults = @ + 1] \in Counters /\ [used EXCEPT !.crashes = @ + 1] \in Counters
<1>1. used \in Counters
  BY DEF TypeOK, Counters
<1>2. \A u \in Counters : [u EXCEPT !.uploads = @ + 1] \in Counters
  BY DEF Counters
<1>3. \A u \in Counters : [u EXCEPT !.edits = @ + 1] \in Counters
  BY DEF Counters
<1>4. \A u \in Counters : [u EXCEPT !.faults = @ + 1] \in Counters
  BY DEF Counters
<1>5. \A u \in Counters : [u EXCEPT !.crashes = @ + 1] \in Counters
  BY DEF Counters
<1> QED
  BY <1>1, <1>2, <1>3, <1>4, <1>5

LEMMA EditOrderKeeps == ASSUME IInv, EditOrder PROVE IInv'
<1>1. Steady
  BY CapsSame DEF IInv, EditOrder
<1>2. po' \in Nat
  BY DEF IInv, TypeOK, EditOrder
<1>4. used' \in Counters
  BY CountFacts DEF IInv, EditOrder
<1>3. TypeOK'
  BY <1>2, <1>4 DEF IInv, TypeOK, EditOrder, Counters
<1> QED
  BY <1>1, <1>3, QuietStore DEF EditOrder

LEMMA WritingOp ==
  ASSUME IInv, NEW i \in Instances, inst[i].op.pc \in Writing
  PROVE  LET op == inst[i].op IN
         /\ op.cap \in Captures /\ op.state \in CaptureRow /\ op \in Ops
         /\ CaptureOK(images, op.cap, op.state) /\ Photographed(op.state)
         /\ op.state.confirmed = None
         /\ op.state.version = caps[op.cap].version => Agree(op.state, caps[op.cap])
         /\ caps[op.cap] \in CaptureRow /\ op.state.version <= caps[op.cap].version
         /\ Photographed(caps[op.cap])
<1>1. inst[i].op \in Ops /\ inst[i].op.state \in CaptureRow
  BY CurrentOp DEF IInv
<1>2. inst[i].op.pc # "idle"
  BY DEF Writing
<1>3. OpOK(inst[i].op, caps[inst[i].op.cap], images, seen[inst[i].op.cap])
  BY DEF IInv, OpsInv
<1>4. inst[i].op.cap \in Captures
  BY <1>2, <1>3 DEF OpOK
<1>5. caps[inst[i].op.cap] \in CaptureRow
  BY <1>4 DEF IInv, TypeOK
<1> QED
  BY <1>1, <1>2, <1>3, <1>4, <1>5 DEF OpOK

(* An operation that ends leaves nothing behind in its instance. *)
LEMMA EndedStep ==
  ASSUME IInv, TypeOK', Steady, UNCHANGED <<images, scans, docs, wire, seen>>,
         NEW i \in Instances, Does(i, NoOp)
  PROVE  IInv'
<1>1. /\ inst'[i].op = NoOp /\ \A j \in Instances : j # i => inst'[j] = inst[j]
  BY DoesFacts, NoOpFacts, CurrentOp DEF IInv
<1>2. inst'[i].op.pc = "idle"
  BY <1>1, NoOpFacts
<1>3. \A c \in Captures : Holds(i, c)' => Holds(i, c)
  BY <1>2 DEF Holds
<1> QED
  BY <1>1, <1>2, <1>3, QuietStep

LEMMA EndedType ==
  ASSUME IInv, NEW i \in Instances, Does(i, NoOp)
  PROVE  inst' \in [Instances -> [op : Ops, submits : Nat, drafts : Nat, turn : {"submit", "draft"}]]
  BY DoesFacts, NoOpFacts, CurrentOp DEF IInv, Instance

(* The reader's answer is about the photo it was given. *)
LEMMA AssessedFacts ==
  ASSUME TypeOK, NEW c \in Captures, NEW s \in CaptureRow, CaptureOK(images, c, s),
         Photographed(s), s.confirmed = None, NEW kind \in Kinds \cup {"failed"}
  PROVE  LET u == Assessed(c, s, kind) IN
         /\ u \in CaptureRow /\ Kept(s, u) /\ Agree(s, u) /\ Photographed(u)
         /\ CaptureOK(images, c, u)
<1> DEFINE Good(u) == /\ u \in CaptureRow /\ Kept(s, u) /\ Agree(s, u) /\ Photographed(u)
                      /\ CaptureOK(images, c, u)
           a == [kind |-> kind, image |-> s.image]
           read == [s EXCEPT !.analysis = a]
           ready == [read EXCEPT !.candidate = po]
           After == Statuses \ {"NONE", "AWAITING_PHOTO"}
<1>1. {"UNAVAILABLE", "NEEDS_PHOTO", "NEEDS_REVIEW", "COUNT_CANDIDATE", "RECEIPT_PREPARED"} \subseteq After
  BY DEF Statuses
<1>2. ASSUME NEW t \in CaptureRow, Alike(s, t), CaptureOK(images, c, t), NEW status \in After
      PROVE  Good(Advanced(t, status))
  <2>1. Photographed(t) /\ t.confirmed = None
    BY <1>2 DEF Alike, Agree, Photographed
  <2>2. /\ Kept(t, Advanced(t, status)) /\ Agree(t, Advanced(t, status))
        /\ Photographed(Advanced(t, status)) /\ Advanced(t, status) \in CaptureRow
    BY <1>2, AdvancedKeeps, AdvancedFacts
  <2>3. CaptureOK(images, c, Advanced(t, status))
    BY <1>2, <2>1, AdvancedSound
  <2>4. Kept(s, Advanced(t, status)) /\ Agree(s, Advanced(t, status))
    BY <1>2, <2>2, KeptAlike
  <2> QED
    BY <2>2, <2>3, <2>4
<1>3. Alike(s, s)
  BY DEF Alike, Agree
<1>4. kind = "failed" => Good(Assessed(c, s, kind))
  <2> SUFFICES ASSUME kind = "failed" PROVE Good(Assessed(c, s, kind))
    OBVIOUS
  <2>1. Assessed(c, s, kind) = Advanced(s, "UNAVAILABLE")
    BY DEF Assessed
  <2> HIDE DEF Good
  <2> QED
    BY <2>1, <1>1, <1>2, <1>3
<1>5. kind # "failed" => Good(Assessed(c, s, kind))
  <2> SUFFICES ASSUME kind # "failed" PROVE Good(Assessed(c, s, kind))
    OBVIOUS
  <2>1. a \in Analyses /\ a.image = s.image
    BY CaptureFacts DEF Analyses
  <2>2. read \in CaptureRow /\ Alike(s, read) /\ CaptureOK(images, c, read)
    BY <2>1, ChangedFacts, ChangedAlike, ChangedSound
  <2> HIDE DEF read, a
  <2>3. ready \in CaptureRow /\ Alike(read, ready) /\ CaptureOK(images, c, ready)
    BY <2>2, ChangedFacts, ChangedAlike, ChangedSound DEF TypeOK
  <2> HIDE DEF ready
  <2>4. Alike(s, ready)
    BY <2>2, <2>3 DEF Alike, Agree
  <2>5. Assessed(c, s, kind) \in
          {Advanced(read, "NEEDS_PHOTO"), Advanced(read, "NEEDS_REVIEW"),
           Advanced(read, "COUNT_CANDIDATE"), Advanced(ready, "RECEIPT_PREPARED")}
    <3>1. CASE kind = "unclear"
      BY <3>1 DEF Assessed, read, a
    <3>2. CASE kind = "damaged"
      BY <3>2 DEF Assessed, read, a
    <3>3. CASE kind = "unlabelled"
      BY <3>3 DEF Assessed, read, a
    <3>4. CASE kind = "matching" /\ Matches(c)
      BY <3>4 DEF Assessed, ready, read, a
    <3>5. CASE kind = "matching" /\ ~Matches(c)
      BY <3>5 DEF Assessed, read, a
    <3> QED
      BY <3>1, <3>2, <3>3, <3>4, <3>5 DEF Kinds
  <2> HIDE DEF Good
  <2> QED
    BY <2>2, <2>3, <2>4, <2>5, <1>1, <1>2
<1> QED
  BY <1>4, <1>5

LEMMA ReadPhotoKeeps == ASSUME IInv, NEW i \in Instances, ReadPhoto(i) PROVE IInv'
<1> DEFINE op == inst[i].op
<1>1. PICK kind \in mode.kinds \cup {"failed"} :
        caps' = Saves(op.cap, op.state.version, Assessed(op.cap, op.state, kind))
  BY DEF ReadPhoto
<1>2. kind \in Kinds \cup {"failed"}
  BY ModesAssumption DEF IInv, TypeOK
<1>3. /\ op.cap \in Captures /\ op.state \in CaptureRow
      /\ CaptureOK(images, op.cap, op.state) /\ Photographed(op.state)
      /\ op.state.confirmed = None
      /\ op.state.version = caps[op.cap].version => Agree(op.state, caps[op.cap])
  BY WritingOp DEF ReadPhoto, Writing
<1> DEFINE next == Assessed(op.cap, op.state, kind)
<1>4. /\ next \in CaptureRow /\ Kept(op.state, next) /\ Agree(op.state, next) /\ Photographed(next)
      /\ CaptureOK(images, op.cap, next)
  BY <1>2, <1>3, AssessedFacts DEF IInv
<1> HIDE DEF op, next
<1>5. caps' = Saves(op.cap, op.state.version, next)
  BY <1>1 DEF next, op
<1>6. Steady /\ caps' \in [Captures -> CaptureRow]
  BY <1>3, <1>4, <1>5, SavedSteady DEF IInv
<1>7. TypeOK'
  BY <1>6, EndedType DEF IInv, TypeOK, ReadPhoto
<1> QED
  BY <1>6, <1>7, EndedStep DEF ReadPhoto

LEMMA ConfirmIdentityKeeps ==
  ASSUME IInv, NEW i \in Instances, NEW c \in Captures, NEW evidence \in barcodes[c] \cup {None},
         ConfirmIdentity(i, c, evidence)
  PROVE  IInv'
<1> DEFINE s == caps[c]
           seen1 == [s EXCEPT !.candidate = po]
           x == [image |-> s.image, barcode |-> evidence]
           seen2 == [seen1 EXCEPT !.identity = x]
           next == Advanced(seen2, "RECEIPT_PREPARED")
<1>1. s \in CaptureRow /\ CaptureOK(images, c, s)
  BY DEF IInv, TypeOK, CapsInv
<1>2. s.status \in {"COUNT_CANDIDATE", "NEEDS_REVIEW"}
  BY DEF ConfirmIdentity
<1>3. Photographed(s) /\ s.confirmed = None
  BY <1>1, <1>2 DEF Photographed, CaptureOK
<1>4. caps' = Saves(c, s.version, next)
  BY DEF ConfirmIdentity
<1>5. po \in Nat /\ evidence \in Nat \cup {None} /\ s.image \in Nat
  BY <1>1, CaptureFacts DEF IInv, TypeOK
<1> HIDE DEF s
<1>6. seen1 \in CaptureRow /\ Alike(s, seen1) /\ CaptureOK(images, c, seen1)
  BY <1>1, <1>5, ChangedFacts, ChangedAlike, ChangedSound
<1>7. x \in Identities /\ x.image = seen1.image
  BY <1>5, <1>6 DEF Identities, Alike, Agree
<1> HIDE DEF seen1, x
<1>8. seen2 \in CaptureRow /\ Alike(seen1, seen2) /\ CaptureOK(images, c, seen2)
  BY <1>6, <1>7, ChangedFacts, ChangedAlike, ChangedSound
<1> HIDE DEF seen2
<1>9. Alike(s, seen2) /\ Photographed(seen2) /\ seen2.confirmed = None
  BY <1>3, <1>6, <1>8 DEF Alike, Agree, Photographed
<1>10. "RECEIPT_PREPARED" \in Statuses \ {"NONE", "AWAITING_PHOTO"}
  BY DEF Statuses
<1>11. /\ next \in CaptureRow /\ Kept(seen2, next) /\ Agree(seen2, next) /\ Photographed(next)
       /\ CaptureOK(images, c, next)
  BY <1>8, <1>9, <1>10, AdvancedKeeps, AdvancedFacts, AdvancedSound
<1> HIDE DEF next
<1>12. Kept(s, next) /\ Agree(s, next)
  BY <1>1, <1>8, <1>9, <1>11, KeptAlike
<1>13. Agree(s, s) /\ s = caps[c]
  BY DEF Agree, s
<1>14. Steady /\ caps' \in [Captures -> CaptureRow]
  BY <1>1, <1>4, <1>11, <1>12, <1>13, SavedSteady DEF IInv
<1>15. TypeOK'
  BY <1>14 DEF IInv, TypeOK, ConfirmIdentity
<1> QED
  BY <1>14, <1>15, QuietStore DEF ConfirmIdentity

-----------------------------------------------------------------------------
(* The draft. *)

(* A decision about the stored capture is written to it. *)
LEMMA DecidedSteady ==
  ASSUME IInv, NEW c \in Captures, NEW t \in CaptureRow, Alike(caps[c], t),
         CaptureOK(images, c, t), Photographed(t), t.confirmed = None,
         NEW status \in Statuses \ {"NONE", "AWAITING_PHOTO"},
         caps' = Saves(c, caps[c].version, Advanced(t, status))
  PROVE  Steady /\ caps' \in [Captures -> CaptureRow]
<1> DEFINE next == Advanced(t, status)
<1>1. caps[c] \in CaptureRow
  BY DEF IInv, TypeOK
<1>2. /\ next \in CaptureRow /\ Kept(t, next) /\ Agree(t, next) /\ Photographed(next)
      /\ CaptureOK(images, c, next)
  BY AdvancedFacts, AdvancedKeeps, AdvancedSound
<1> HIDE DEF next
<1>3. Kept(caps[c], next) /\ Agree(caps[c], next)
  BY <1>1, <1>2, KeptAlike
<1>4. caps' = Saves(c, caps[c].version, next)
  BY DEF next
<1>5. Agree(caps[c], caps[c])
  BY DEF Agree
<1> QED
  BY <1>1, <1>2, <1>3, <1>4, <1>5, SavedSteady DEF IInv

LEMMA DraftableFacts ==
  ASSUME IInv, NEW c \in Captures, Draftable(c)
  PROVE  /\ caps[c] \in CaptureRow /\ CaptureOK(images, c, caps[c]) /\ Photographed(caps[c])
         /\ caps[c].confirmed = None /\ Alike(caps[c], caps[c])
<1>1. caps[c] \in CaptureRow /\ CaptureOK(images, c, caps[c])
  BY DEF IInv, TypeOK, CapsInv
<1>2. caps[c].status \in {"RECEIPT_PREPARED", "DRAFT_UNKNOWN"}
  BY DEF Draftable
<1> QED
  BY <1>1, <1>2 DEF CaptureOK, Photographed, Alike, Agree

LEMMA BegunCases ==
  ASSUME NEW c
  PROVE  LET s == caps[c]
             b == BeginDraft(c) IN
         \/ s.attempted /\ b = [caps |-> caps, op |-> Op(c, "lookup", s)]
         \/ \E d \in Elsewhere(c, s.digest) :
              b = [caps |-> Saves(c, s.version, Advanced([s EXCEPT !.dup = d], "DUPLICATE_EVIDENCE")),
                   op |-> NoOp]
         \/ /\ ~s.attempted /\ Elsewhere(c, s.digest) = {}
            /\ b = [caps |-> caps, op |-> Op(c, "claim", s)]
         \/ b = [caps |-> Saves(c, s.version, Advanced(s, "NEEDS_REVIEW")), op |-> NoOp]
         \/ b = [caps |-> caps, op |-> NoOp]
<1> DEFINE s == caps[c]
           ready == Matches(c) /\ Identified(s)
<1>1. CASE s.attempted
  BY <1>1 DEF BeginDraft
<1>2. CASE ~s.attempted /\ Elsewhere(c, s.digest) # {}
  <2> DEFINE d == CHOOSE d \in Elsewhere(c, s.digest) : TRUE
  <2>1. d \in Elsewhere(c, s.digest)
    BY <1>2
  <2>2. BeginDraft(c) =
          [caps |-> Saves(c, s.version, Advanced([s EXCEPT !.dup = d], "DUPLICATE_EVIDENCE")),
           op |-> NoOp]
    BY <1>2 DEF BeginDraft
  <2> QED
    BY <2>1, <2>2
<1>3. CASE ~s.attempted /\ Elsewhere(c, s.digest) = {} /\ ready /\ po = s.candidate
  BY <1>3 DEF BeginDraft
<1>4. CASE ~s.attempted /\ Elsewhere(c, s.digest) = {} /\ ready /\ po # s.candidate
  BY <1>4 DEF BeginDraft
<1>5. CASE ~s.attempted /\ Elsewhere(c, s.digest) = {} /\ ~ready
  BY <1>5 DEF BeginDraft
<1> QED
  BY <1>1, <1>2, <1>3, <1>4, <1>5

(* How a draft begins: by a lookup of what was claimed before, by a claim  *)
(* for a photo no other capture had first, or with a decision.             *)
LEMMA BegunFacts ==
  ASSUME IInv, NEW c \in Captures, Draftable(c), caps' = BeginDraft(c).caps
  PROVE  LET op == BeginDraft(c).op IN
         /\ Steady /\ caps' \in [Captures -> CaptureRow]
         /\ op \in Ops /\ ~op.fresh
         /\ op.pc = "idle" \/ (op.cap = c /\ OpOK(op, caps'[c], images, seen[c]))
<1> DEFINE s == caps[c]
           op == BeginDraft(c).op
           After == Statuses \ {"NONE", "AWAITING_PHOTO"}
<1>1. /\ s \in CaptureRow /\ CaptureOK(images, c, s) /\ Photographed(s)
      /\ s.confirmed = None /\ Alike(s, s)
  BY DraftableFacts
<1>2. NoOp \in Ops /\ NoOp.pc = "idle" /\ ~NoOp.fresh
  BY NoOpFacts DEF NoOp
<1>3. "NEEDS_REVIEW" \in After /\ "DUPLICATE_EVIDENCE" \in After
      /\ "lookup" \in OpSteps /\ "claim" \in OpSteps
  BY DEF Statuses, OpSteps
<1>4. s.version \in Nat /\ s.version <= s.version
  BY <1>1, CaptureFacts
<1>5. CASE s.attempted /\ BeginDraft(c) = [caps |-> caps, op |-> Op(c, "lookup", s)]
  <2>1. caps' = caps /\ op = Op(c, "lookup", s)
    BY <1>5
  <2>2. Steady /\ caps' \in [Captures -> CaptureRow]
    BY <2>1, CapsSame DEF IInv, TypeOK
  <2>3. op \in Ops /\ op.pc = "lookup" /\ op.cap = c /\ op.state = s /\ ~op.fresh
    <3> HIDE DEF op, s
    <3>1. /\ Op(c, "lookup", s) \in Ops /\ Op(c, "lookup", s).pc = "lookup" /\ Op(c, "lookup", s).cap = c
          /\ Op(c, "lookup", s).state = s /\ ~Op(c, "lookup", s).fresh
      BY <1>1, <1>3, OpFacts
    <3> QED
      BY <3>1, <2>1
  <2>4. OpOK(op, s, images, seen[c])
    BY <1>1, <1>4, <1>5, <2>3 DEF OpOK, Writing, Agree
  <2> QED
    BY <2>1, <2>2, <2>3, <2>4
<1>6. CASE \E d \in Elsewhere(c, s.digest) :
             BeginDraft(c) =
               [caps |-> Saves(c, s.version, Advanced([s EXCEPT !.dup = d], "DUPLICATE_EVIDENCE")),
                op |-> NoOp]
  <2>1. PICK d \in Elsewhere(c, s.digest) :
             BeginDraft(c) =
               [caps |-> Saves(c, s.version, Advanced([s EXCEPT !.dup = d], "DUPLICATE_EVIDENCE")),
                op |-> NoOp]
    BY <1>6
  <2>2. d \in Captures
    BY ElsewhereType DEF IInv, TypeOK
  <2> DEFINE t == [s EXCEPT !.dup = d]
  <2>3. t \in CaptureRow /\ Alike(s, t) /\ CaptureOK(images, c, t)
    BY <1>1, <2>2, ChangedFacts, ChangedAlike, ChangedSound
  <2>4. caps' = Saves(c, s.version, Advanced(t, "DUPLICATE_EVIDENCE")) /\ op = NoOp
    BY <2>1
  <2> HIDE DEF t
  <2>5. Photographed(t) /\ t.confirmed = None
    BY <1>1, <2>3 DEF Alike, Agree, Photographed
  <2>6. Steady /\ caps' \in [Captures -> CaptureRow]
    BY <1>3, <2>3, <2>4, <2>5, DecidedSteady
  <2> QED
    BY <1>2, <2>4, <2>6
<1>7. CASE /\ ~s.attempted /\ Elsewhere(c, s.digest) = {}
           /\ BeginDraft(c) = [caps |-> caps, op |-> Op(c, "claim", s)]
  <2>1. caps' = caps /\ op = Op(c, "claim", s)
    BY <1>7
  <2>2. Steady /\ caps' \in [Captures -> CaptureRow]
    BY <2>1, CapsSame DEF IInv, TypeOK
  <2>3. op \in Ops /\ op.pc = "claim" /\ op.cap = c /\ op.state = s /\ ~op.fresh
    <3> HIDE DEF op, s
    <3>1. /\ Op(c, "claim", s) \in Ops /\ Op(c, "claim", s).pc = "claim" /\ Op(c, "claim", s).cap = c
          /\ Op(c, "claim", s).state = s /\ ~Op(c, "claim", s).fresh
      BY <1>1, <1>3, OpFacts
    <3> QED
      BY <3>1, <2>1
  <2>4. Held(images, s.digest) /\ Len(images) \in Nat
    BY <1>1 DEF CaptureOK, IInv, TypeOK
  <2>5. Owned(images, c, s.digest)
    BY <1>7, <2>4, NowhereElse
  <2>6. OpOK(op, s, images, seen[c])
    BY <1>1, <1>4, <1>7, <2>3, <2>5 DEF OpOK, Writing, Agree
  <2> QED
    BY <2>1, <2>2, <2>3, <2>6
<1>8. CASE BeginDraft(c) = [caps |-> Saves(c, s.version, Advanced(s, "NEEDS_REVIEW")), op |-> NoOp]
  <2>1. caps' = Saves(c, s.version, Advanced(s, "NEEDS_REVIEW")) /\ op = NoOp
    BY <1>8
  <2>2. Steady /\ caps' \in [Captures -> CaptureRow]
    BY <1>1, <1>3, <2>1, DecidedSteady
  <2> QED
    BY <1>2, <2>1, <2>2
<1>9. CASE BeginDraft(c) = [caps |-> caps, op |-> NoOp]
  <2>1. caps' = caps /\ op = NoOp
    BY <1>9
  <2> QED
    BY <1>2, <2>1, CapsSame DEF IInv, TypeOK
<1> QED
  BY <1>5, <1>6, <1>7, <1>8, <1>9, BegunCases

LEMMA DraftKeeps == ASSUME IInv, NEW i \in Instances, NEW c \in Captures, Draft(i, c) PROVE IInv'
<1>1. Draftable(c) /\ caps' = BeginDraft(c).caps /\ Does(i, BeginDraft(c).op)
  BY DEF Draft
<1>2. PICK op : op = BeginDraft(c).op
  OBVIOUS
<1>3. /\ Steady /\ caps' \in [Captures -> CaptureRow] /\ op \in Ops /\ ~op.fresh
      /\ op.pc = "idle" \/ (op.cap = c /\ OpOK(op, caps'[c], images, seen[c]))
  BY <1>1, <1>2, BegunFacts
<1>4. /\ inst' \in [Instances -> Instance] /\ inst'[i].op = op
      /\ \A j \in Instances : j # i => inst'[j] = inst[j]
  BY <1>1, <1>2, <1>3, DoesFacts, CurrentOp DEF IInv
<1>5. TypeOK'
  BY <1>3, <1>4 DEF IInv, TypeOK, Draft, Instance
<1>6. \A d \in Captures : Holds(i, d)' => Holds(i, d)
  BY <1>3, <1>4 DEF Holds
<1>7. inst'[i].op.pc = "idle" \/
        OpOK(inst'[i].op, caps'[inst'[i].op.cap], images, seen[inst'[i].op.cap])
  BY <1>3, <1>4
<1>8. UNCHANGED <<images, scans, docs, wire, seen>>
  BY DEF Draft
<1> QED
  BY <1>3, <1>4, <1>5, <1>6, <1>7, <1>8, QuietStep

LEMMA NotedKeeps ==
  ASSUME NEW img, NEW c, NEW s \in CaptureRow, CaptureOK(img, c, s), Photographed(s),
         NEW status \in Statuses \ {"NONE", "AWAITING_PHOTO"},
         s.confirmed = None \/ status \in {"SUBMIT_UNKNOWN", "RECEIPT_SUBMITTED"}
  PROVE  LET u == Noted(s, status) IN
         u \in CaptureRow /\ Kept(s, u) /\ Agree(s, u) /\ Photographed(u) /\ CaptureOK(img, c, u)
<1> DEFINE u == Noted(s, status)
<1>1. u \in CaptureRow
  BY NotedFacts
<1>2. CASE u = s
  BY <1>1, <1>2, KeptSame
<1>3. CASE u # s
  <2>1. /\ u.status = status /\ u.version = s.version + 1
        /\ u.digest = s.digest /\ u.image = s.image /\ u.attempted = s.attempted
        /\ u.confirmed = s.confirmed /\ u.draft = s.draft /\ u.analysis = s.analysis
        /\ u.identity = s.identity
    BY <1>3, NotedFacts
  <2> HIDE DEF u
  <2>2. Agree(s, u) /\ Photographed(u)
    BY <2>1 DEF Agree, Photographed
  <2>3. Kept(s, u)
    BY <2>1, <2>2, CaptureFacts DEF Kept, Agree
  <2>4. CaptureOK(img, c, u)
    BY <2>1, <2>2 DEF CaptureOK
  <2> QED
    BY <1>1, <2>2, <2>3, <2>4 DEF u
<1> QED
  BY <1>2, <1>3

LEMMA NoteDraftSteady ==
  ASSUME IInv, NEW i \in Instances, inst[i].op.pc \in Writing, NoteDraft(i)
  PROVE  Steady /\ caps' \in [Captures -> CaptureRow] /\ Does(i, NoOp)
<1> DEFINE op == inst[i].op
           next == Noted(op.state, "DRAFT_UNKNOWN")
<1>1. /\ op.cap \in Captures /\ op.state \in CaptureRow
      /\ CaptureOK(images, op.cap, op.state) /\ Photographed(op.state)
      /\ op.state.confirmed = None
      /\ op.state.version = caps[op.cap].version => Agree(op.state, caps[op.cap])
  BY WritingOp
<1>2. caps' = Saves(op.cap, op.state.version, next) /\ Does(i, NoOp)
  BY DEF NoteDraft
<1>3. "DRAFT_UNKNOWN" \in Statuses \ {"NONE", "AWAITING_PHOTO"}
  BY DEF Statuses
<1> HIDE DEF op
<1>4. /\ next \in CaptureRow /\ Kept(op.state, next) /\ Agree(op.state, next)
      /\ Photographed(next) /\ CaptureOK(images, op.cap, next)
  BY <1>1, <1>3, NotedKeeps
<1> HIDE DEF next
<1> QED
  BY <1>1, <1>2, <1>4, SavedSteady DEF IInv

(* A looked-up operation goes on with the same copy. *)
LEMMA MovedOp ==
  ASSUME NEW op \in Ops, NEW pc \in {"readback", "post"}, op.pc \in {"lookup", "post"},
         pc = "post" => op.fresh
  PROVE  LET next == [op EXCEPT !.pc = pc] IN
         /\ next \in Ops /\ next.pc = pc /\ next.cap = op.cap /\ next.state = op.state
         /\ (next.fresh <=> op.fresh)
         /\ \A t, img, v : OpOK(op, t, img, v) => OpOK(next, t, img, v)
<1> DEFINE next == [op EXCEPT !.pc = pc]
<1>1. next \in Ops
  BY DEF Ops, OpSteps
<1>2. next.pc = pc /\ next.cap = op.cap /\ next.state = op.state /\ (next.fresh <=> op.fresh)
  BY DEF Ops
<1> HIDE DEF next
<1>3. ASSUME NEW t, NEW img, NEW v, OpOK(op, t, img, v)
      PROVE  OpOK(next, t, img, v)
  BY <1>2, <1>3 DEF OpOK, Writing
<1> QED
  BY <1>1, <1>2, <1>3 DEF next

LEMMA LookupDraftKeeps ==
  ASSUME IInv, NEW i \in Instances, LookupDraft(i)
  PROVE  IInv'
<1>1. /\ inst[i].op.pc = "lookup" /\ UNCHANGED <<images, scans, docs, wire, seen>>
      /\ UNCHANGED <<mode, barcodes, po, used>>
  BY DEF LookupDraft
<1>2. PICK op \in Ops : op = inst[i].op
  BY CurrentOp DEF IInv
<1>3. OpOK(op, caps[op.cap], images, seen[op.cap]) /\ op.pc = "lookup"
  BY <1>1, <1>2 DEF IInv, OpsInv
<1>4. ASSUME NEW pc \in {"readback", "post"}, pc = "post" => op.fresh,
             Does(i, [op EXCEPT !.pc = pc]), caps' = caps
      PROVE  IInv'
  <2> DEFINE next == [op EXCEPT !.pc = pc]
  <2>1. /\ next \in Ops /\ next.pc = pc /\ next.cap = op.cap /\ (next.fresh <=> op.fresh)
        /\ OpOK(next, caps[op.cap], images, seen[op.cap])
    BY <1>3, <1>4, MovedOp
  <2> HIDE DEF next
  <2>2. Does(i, next)
    BY <1>4 DEF next
  <2>3. /\ inst' \in [Instances -> Instance] /\ inst'[i].op = next
        /\ \A j \in Instances : j # i => inst'[j] = inst[j]
    BY <2>1, <2>2, DoesFacts, CurrentOp DEF IInv
  <2>4. Steady
    BY <1>4, CapsSame DEF IInv
  <2>5. TypeOK'
    BY <1>1, <1>4, <2>3 DEF IInv, TypeOK, Instance
  <2>6. \A d \in Captures : Holds(i, d)' => Holds(i, d)
    BY <1>2, <1>3, <2>1, <2>3 DEF Holds
  <2>7. OpOK(inst'[i].op, caps'[inst'[i].op.cap], images, seen[inst'[i].op.cap])
    BY <1>4, <2>1, <2>3
  <2> QED
    BY <1>1, <2>3, <2>4, <2>5, <2>6, <2>7, QuietStep
<1>5. ASSUME NoteDraft(i) PROVE IInv'
  <2>1. Steady /\ caps' \in [Captures -> CaptureRow] /\ Does(i, NoOp)
    BY <1>1, <1>5, NoteDraftSteady DEF Writing
  <2>2. TypeOK'
    BY <1>1, <2>1, EndedType DEF IInv, TypeOK
  <2> QED
    BY <1>1, <2>1, <2>2, EndedStep
<1>6. \/ Does(i, [op EXCEPT !.pc = "readback"]) /\ caps' = caps
      \/ op.fresh /\ Does(i, [op EXCEPT !.pc = "post"]) /\ caps' = caps
      \/ NoteDraft(i)
  BY <1>2 DEF LookupDraft
<1> QED
  BY <1>4, <1>5, <1>6

LEMMA ReadDraftKeeps ==
  ASSUME IInv, NEW i \in Instances, ReadDraft(i)
  PROVE  IInv'
<1>1. /\ inst[i].op.pc = "readback" /\ UNCHANGED <<images, scans, docs, wire, seen>>
      /\ UNCHANGED <<mode, barcodes, po>> /\ used' \in Counters
  BY CountFacts DEF ReadDraft, Fault, IInv
<1> DEFINE op == inst[i].op
           t == [op.state EXCEPT !.draft = docs[op.cap].rev]
           next == Advanced(t, "DRAFT_VERIFIED")
<1>2. /\ op.cap \in Captures /\ op.state \in CaptureRow /\ op \in Ops
      /\ CaptureOK(images, op.cap, op.state) /\ Photographed(op.state)
      /\ op.state.confirmed = None
      /\ op.state.version = caps[op.cap].version => Agree(op.state, caps[op.cap])
  BY <1>1, WritingOp DEF Writing
<1>3. ASSUME caps' = Saves(op.cap, op.state.version, next)
      PROVE  Steady /\ caps' \in [Captures -> CaptureRow]
  <2>1. op.state.attempted
    BY <1>1, <1>2 DEF IInv, OpsInv, OpOK
  <2>2. docs[op.cap].rev \in Nat
    BY <1>2 DEF IInv, TypeOK, Receipts
  <2> HIDE DEF op
  <2>3. t \in CaptureRow /\ Alike(op.state, t) /\ CaptureOK(images, op.cap, t)
    BY <1>2, <2>1, <2>2, ChangedFacts, ChangedAlike, ChangedSound
  <2>4. caps' = Saves(op.cap, op.state.version, next)
    BY <1>3
  <2> HIDE DEF t
  <2>5. Photographed(t) /\ t.confirmed = None
    BY <1>2, <2>3 DEF Alike, Agree, Photographed
  <2>6. "DRAFT_VERIFIED" \in Statuses \ {"NONE", "AWAITING_PHOTO"}
    BY DEF Statuses
  <2>7. /\ next \in CaptureRow /\ Kept(t, next) /\ Agree(t, next) /\ Photographed(next)
        /\ CaptureOK(images, op.cap, next)
    BY <2>3, <2>5, <2>6, AdvancedFacts, AdvancedKeeps, AdvancedSound
  <2> HIDE DEF next
  <2>8. Kept(op.state, next) /\ Agree(op.state, next)
    BY <1>2, <2>3, <2>7, KeptAlike
  <2> QED
    BY <1>2, <2>4, <2>7, <2>8, SavedSteady DEF IInv
<1>4. NoteDraft(i) => Steady /\ caps' \in [Captures -> CaptureRow] /\ Does(i, NoOp)
  BY <1>1, NoteDraftSteady DEF Writing
<1>5. Steady /\ caps' \in [Captures -> CaptureRow] /\ Does(i, NoOp)
  <2>1. \/ caps' = Saves(op.cap, op.state.version, next) /\ Does(i, NoOp)
        \/ NoteDraft(i)
    BY DEF ReadDraft
  <2> QED
    BY <1>3, <1>4, <2>1
<1>6. TypeOK'
  BY <1>1, <1>5, EndedType DEF IInv, TypeOK, Counters
<1> QED
  BY <1>1, <1>5, <1>6, EndedStep

(* A round of the worker moves its cursor and its turn as well. *)
LEMMA RoundFacts ==
  ASSUME inst \in [Instances -> Instance], NEW i \in Instances, NEW op \in Ops, NEW c \in Nat,
         NEW turn \in {"submit", "draft"},
         \/ inst' = [inst EXCEPT ![i] = [@ EXCEPT !.turn = turn, !.drafts = c, !.op = op]]
         \/ inst' = [inst EXCEPT ![i] = [@ EXCEPT !.turn = turn, !.submits = c, !.op = op]]
  PROVE  /\ inst' \in [Instances -> Instance]
         /\ inst'[i].op = op
         /\ \A j \in Instances : j # i => inst'[j] = inst[j]
<1> DEFINE a == [inst[i] EXCEPT !.turn = turn, !.drafts = c, !.op = op]
           b == [inst[i] EXCEPT !.turn = turn, !.submits = c, !.op = op]
<1>1. inst[i] \in Instance
  OBVIOUS
<1>2. a \in Instance /\ a.op = op
  BY <1>1 DEF Instance
<1>3. b \in Instance /\ b.op = op
  BY <1>1 DEF Instance
<1>4. inst' = [inst EXCEPT ![i] = a] \/ inst' = [inst EXCEPT ![i] = b]
  OBVIOUS
<1> HIDE DEF a, b
<1> QED
  BY <1>2, <1>3, <1>4

LEMMA PrepareNextKeeps ==
  ASSUME IInv, NEW i \in Instances, PrepareNext(i)
  PROVE  IInv'
<1> DEFINE chosen == NextRow(Preparable, inst[i].drafts)
<1>1. Preparable # {} /\ Preparable \subseteq Captures
  BY DEF PrepareNext, Preparable
<1>2. chosen \in Preparable
  BY <1>1, NextRowChosen
<1>3. PICK c \in Captures : c = chosen
  BY <1>1, <1>2
<1>4. Draftable(c) /\ c \in Nat
  BY <1>2, <1>3, CapturesAssumption DEF Preparable
<1>5. /\ UNCHANGED <<mode, images, scans, barcodes, docs, po, wire, seen>>
      /\ used' \in Counters
  BY CountFacts DEF PrepareNext, Fault, IInv
<1>6. \/ /\ caps' = BeginDraft(c).caps
         /\ inst' = [inst EXCEPT ![i] = [@ EXCEPT !.turn = "submit", !.drafts = c,
                                                  !.op = BeginDraft(c).op]]
      \/ /\ caps' = Saves(c, caps[c].version, Advanced(caps[c], "NEEDS_REVIEW"))
         /\ inst' = [inst EXCEPT ![i] = [@ EXCEPT !.turn = "submit", !.drafts = c, !.op = NoOp]]
  BY <1>3 DEF PrepareNext
<1>7. \E op \in Ops :
        /\ Steady /\ caps' \in [Captures -> CaptureRow] /\ ~op.fresh
        /\ op.pc = "idle" \/ (op.cap = c /\ OpOK(op, caps'[c], images, seen[c]))
        /\ inst' = [inst EXCEPT ![i] = [@ EXCEPT !.turn = "submit", !.drafts = c, !.op = op]]
  <2>1. CASE /\ caps' = BeginDraft(c).caps
             /\ inst' = [inst EXCEPT ![i] = [@ EXCEPT !.turn = "submit", !.drafts = c,
                                                      !.op = BeginDraft(c).op]]
    BY <1>4, <2>1, BegunFacts
  <2>2. CASE /\ caps' = Saves(c, caps[c].version, Advanced(caps[c], "NEEDS_REVIEW"))
             /\ inst' = [inst EXCEPT ![i] = [@ EXCEPT !.turn = "submit", !.drafts = c, !.op = NoOp]]
    <3>1. "NEEDS_REVIEW" \in Statuses \ {"NONE", "AWAITING_PHOTO"}
      BY DEF Statuses
    <3>2. Steady /\ caps' \in [Captures -> CaptureRow]
      BY <1>4, <2>2, <3>1, DraftableFacts, DecidedSteady
    <3>3. NoOp \in Ops /\ NoOp.pc = "idle" /\ ~NoOp.fresh
      BY NoOpFacts DEF NoOp
    <3> QED
      BY <2>2, <3>2, <3>3
  <2> QED
    BY <1>6, <2>1, <2>2
<1>8. PICK op \in Ops :
        /\ Steady /\ caps' \in [Captures -> CaptureRow] /\ ~op.fresh
        /\ op.pc = "idle" \/ (op.cap = c /\ OpOK(op, caps'[c], images, seen[c]))
        /\ inst' = [inst EXCEPT ![i] = [@ EXCEPT !.turn = "submit", !.drafts = c, !.op = op]]
  BY <1>7
<1>9. /\ inst' \in [Instances -> Instance] /\ inst'[i].op = op
      /\ \A j \in Instances : j # i => inst'[j] = inst[j]
  BY <1>4, <1>8, RoundFacts, CurrentOp DEF IInv
<1>10. TypeOK'
  BY <1>5, <1>8, <1>9 DEF IInv, TypeOK, Instance, Counters
<1>11. \A d \in Captures : Holds(i, d)' => Holds(i, d)
  BY <1>8, <1>9 DEF Holds
<1>12. inst'[i].op.pc = "idle" \/
        OpOK(inst'[i].op, caps'[inst'[i].op.cap], images, seen[inst'[i].op.cap])
  BY <1>8, <1>9
<1> QED
  BY <1>5, <1>8, <1>9, <1>10, <1>11, <1>12, QuietStep

LEMMA ReconcileNextKeeps ==
  ASSUME IInv, NEW i \in Instances, ReconcileNext(i)
  PROVE  IInv'
<1> DEFINE chosen == NextRow(Unconfirmed, inst[i].submits)
<1>1. Unconfirmed # {} /\ Unconfirmed \subseteq Captures
  BY DEF ReconcileNext, Unconfirmed
<1>2. chosen \in Unconfirmed
  BY <1>1, NextRowChosen
<1>3. PICK c \in Captures : c = chosen
  BY <1>1, <1>2
<1>4. caps[c].status = "SUBMIT_UNKNOWN" /\ c \in Nat /\ caps[c] \in CaptureRow
  BY <1>2, <1>3, CapturesAssumption DEF Unconfirmed, IInv, TypeOK
<1>5. UNCHANGED <<mode, caps, images, scans, barcodes, docs, po, wire, seen, used>>
  BY DEF ReconcileNext
<1>6. PICK op : op = Op(c, "verify", caps[c])
  OBVIOUS
<1>7. op \in Ops /\ op.pc = "verify" /\ op.cap = c /\ op.state = caps[c] /\ ~op.fresh
  BY <1>4, <1>6, OpFacts DEF OpSteps
<1>8. inst' = [inst EXCEPT ![i] = [@ EXCEPT !.turn = "draft", !.submits = c, !.op = op]]
  BY <1>3, <1>6 DEF ReconcileNext
<1>9. /\ inst' \in [Instances -> Instance] /\ inst'[i].op = op
      /\ \A j \in Instances : j # i => inst'[j] = inst[j]
  BY <1>4, <1>7, <1>8, RoundFacts, CurrentOp DEF IInv
<1>10. TypeOK'
  BY <1>5, <1>9 DEF IInv, TypeOK, Instance
<1>11. \A d \in Captures : Holds(i, d)' => Holds(i, d)
  BY <1>7, <1>9 DEF Holds
<1>12. OpOK(op, caps[c], images, seen[c])
  BY <1>4, <1>7, CaptureFacts DEF OpOK, Writing, Photographed
<1>13. Steady
  BY <1>5, CapsSame DEF IInv
<1>14. OpOK(inst'[i].op, caps'[inst'[i].op.cap], images, seen[inst'[i].op.cap])
  BY <1>5, <1>7, <1>9, <1>12
<1> QED
  BY <1>5, <1>9, <1>10, <1>11, <1>13, <1>14, QuietStep

LEMMA CrashKeeps ==
  ASSUME IInv, NEW i \in Instances, Crash(i)
  PROVE  IInv'
<1>1. /\ inst' = [inst EXCEPT ![i] = NoInstance] /\ used' \in Counters
      /\ UNCHANGED <<mode, caps, images, scans, barcodes, docs, po, wire, seen>>
  BY CountFacts DEF Crash, IInv
<1>2. /\ inst' \in [Instances -> Instance] /\ inst'[i].op = NoOp
      /\ \A j \in Instances : j # i => inst'[j] = inst[j]
  BY <1>1, NoOpFacts, CurrentOp DEF IInv
<1>3. inst'[i].op.pc = "idle"
  BY <1>2, NoOpFacts
<1>4. \A c \in Captures : Holds(i, c)' => Holds(i, c)
  BY <1>3 DEF Holds
<1>5. TypeOK'
  BY <1>1, <1>2 DEF IInv, TypeOK, Instance, Counters
<1>6. Steady
  BY <1>1, CapsSame DEF IInv
<1> QED
  BY <1>1, <1>2, <1>3, <1>4, <1>5, <1>6, QuietStep

-----------------------------------------------------------------------------
(* The submission. *)

LEMMA SubmitKeeps ==
  ASSUME IInv, NEW i \in Instances, NEW c \in Captures, Submit(i, c)
  PROVE  IInv'
<1> DEFINE s == caps[c]
<1>1. /\ UNCHANGED <<mode, images, scans, barcodes, docs, po, wire, seen>>
      /\ used' \in Counters
  BY CountFacts DEF Submit, Fault, IInv
<1>2. /\ s.draft # None /\ s.confirmed = None /\ s.status = "DRAFT_VERIFIED"
      /\ seen[c] # None /\ seen[c].version = s.version
  BY DEF Submit
<1>3. s \in CaptureRow /\ CaptureOK(images, c, s) /\ docs[c] \in Receipts
  BY DEF IInv, TypeOK, CapsInv
<1>4. Photographed(s) /\ s.attempted /\ s.version \in Nat /\ Alike(s, s) /\ docs[c].rev \in Nat
  BY <1>2, <1>3, CaptureFacts DEF Photographed, CaptureOK, Alike, Agree, Receipts
<1>5. ASSUME Does(i, [Op(c, "confirm", s) EXCEPT !.rev = docs[c].rev]), caps' = caps
      PROVE  IInv'
  <2> DEFINE first == Op(c, "confirm", s)
             op == [first EXCEPT !.rev = docs[c].rev]
  <2>1. first \in Ops /\ first.pc = "confirm" /\ first.cap = c /\ first.state = s /\ ~first.fresh
    BY <1>3, OpFacts DEF OpSteps
  <2> HIDE DEF first
  <2>2. op \in Ops /\ op.pc = "confirm" /\ op.cap = c /\ op.state = s
    BY <1>4, <2>1 DEF Ops
  <2> HIDE DEF op
  <2>3. Does(i, op)
    BY <1>5 DEF op, first
  <2>4. /\ inst' \in [Instances -> Instance] /\ inst'[i].op = op
        /\ \A j \in Instances : j # i => inst'[j] = inst[j]
    BY <2>2, <2>3, DoesFacts, CurrentOp DEF IInv
  <2>5. OpOK(op, s, images, seen[c])
    <3> HIDE DEF s
    <3>1. Agree(s, s) /\ s.version <= s.version
      BY <1>4 DEF Agree
    <3> QED
      BY <1>2, <1>3, <1>4, <2>2, <3>1 DEF OpOK, Writing
  <2>6. Steady
    BY <1>5, CapsSame DEF IInv
  <2>7. TypeOK'
    BY <1>1, <1>5, <2>4 DEF IInv, TypeOK, Instance, Counters
  <2>8. \A d \in Captures : Holds(i, d)' => Holds(i, d)
    BY <2>2, <2>4 DEF Holds
  <2>9. OpOK(inst'[i].op, caps'[inst'[i].op.cap], images, seen[inst'[i].op.cap])
    BY <1>5, <2>2, <2>4, <2>5
  <2> QED
    BY <1>1, <2>4, <2>6, <2>7, <2>8, <2>9, QuietStep
<1>6. ASSUME caps' = Saves(c, s.version, Advanced(s, "NEEDS_REVIEW")), inst' = inst
      PROVE  IInv'
  <2>1. "NEEDS_REVIEW" \in Statuses \ {"NONE", "AWAITING_PHOTO"}
    BY DEF Statuses
  <2>2. Steady /\ caps' \in [Captures -> CaptureRow]
    BY <1>2, <1>3, <1>4, <1>6, <2>1, DecidedSteady
  <2>3. TypeOK'
    BY <1>1, <1>6, <2>2 DEF IInv, TypeOK, Counters
  <2> QED
    BY <1>1, <1>6, <2>2, <2>3, QuietStore
<1>7. \/ Does(i, [Op(c, "confirm", s) EXCEPT !.rev = docs[c].rev]) /\ caps' = caps
      \/ caps' = Saves(c, s.version, Advanced(s, "NEEDS_REVIEW")) /\ inst' = inst
  BY DEF Submit
<1> QED
  BY <1>5, <1>6, <1>7

(* What is known of a capture whose submission is followed up. *)
LEMMA FollowedOp ==
  ASSUME IInv, NEW i \in Instances, inst[i].op.pc \in {"submit", "verify"}
  PROVE  LET c == inst[i].op.cap IN
         /\ c \in Captures /\ caps[c] \in CaptureRow /\ Photographed(caps[c])
         /\ CaptureOK(images, c, caps[c])
         /\ inst[i].op.pc = "submit" => caps[c].confirmed # None
<1>1. OpOK(inst[i].op, caps[inst[i].op.cap], images, seen[inst[i].op.cap])
  BY DEF IInv, OpsInv
<1>2. /\ inst[i].op.cap \in Captures /\ Photographed(caps[inst[i].op.cap])
      /\ inst[i].op.pc = "submit" => caps[inst[i].op.cap].confirmed # None
  BY <1>1 DEF OpOK
<1> QED
  BY <1>2 DEF IInv, TypeOK, CapsInv

LEMMA NoteSubmitSteady ==
  ASSUME IInv, NEW i \in Instances, inst[i].op.pc \in {"submit", "verify"}, NoteSubmit(i)
  PROVE  Steady /\ caps' \in [Captures -> CaptureRow] /\ Does(i, NoOp)
<1>1. PICK c \in Captures : c = inst[i].op.cap
  BY FollowedOp
<1>2. caps[c] \in CaptureRow /\ Photographed(caps[c]) /\ CaptureOK(images, c, caps[c])
  BY <1>1, FollowedOp
<1> DEFINE next == Noted(caps[c], "SUBMIT_UNKNOWN")
<1>3. Does(i, NoOp) /\ (caps' = caps \/ caps' = [caps EXCEPT ![c] = next])
  BY <1>1 DEF NoteSubmit
<1>4. "SUBMIT_UNKNOWN" \in Statuses \ {"NONE", "AWAITING_PHOTO"}
  BY DEF Statuses
<1>5. next \in CaptureRow /\ Kept(caps[c], next) /\ Agree(caps[c], next) /\ CaptureOK(images, c, next)
  BY <1>2, <1>4, NotedKeeps
<1> HIDE DEF next
<1>6. CASE caps' = caps
  BY <1>3, <1>6, CapsSame DEF IInv, TypeOK
<1>7. CASE caps' = [caps EXCEPT ![c] = next]
  BY <1>3, <1>5, <1>7, StoreSteady DEF IInv
<1> QED
  BY <1>3, <1>6, <1>7

LEMMA VerifySubmitKeeps ==
  ASSUME IInv, NEW i \in Instances, VerifySubmit(i)
  PROVE  IInv'
<1>1. /\ inst[i].op.pc = "verify" /\ UNCHANGED <<images, scans, docs, wire, seen>>
      /\ UNCHANGED <<mode, barcodes, po>> /\ used' \in Counters
  BY CountFacts DEF VerifySubmit, Fault, IInv
<1>2. PICK c \in Captures : c = inst[i].op.cap
  BY <1>1, FollowedOp
<1> DEFINE t == [caps[c] EXCEPT !.receipt = TRUE]
           next == Advanced(t, "RECEIPT_SUBMITTED")
<1>3. caps[c] \in CaptureRow /\ Photographed(caps[c]) /\ CaptureOK(images, c, caps[c])
  BY <1>1, <1>2, FollowedOp
<1>4. /\ next \in CaptureRow /\ Kept(caps[c], next) /\ Agree(caps[c], next)
      /\ CaptureOK(images, c, next)
  <2>1. t \in CaptureRow /\ Alike(caps[c], t) /\ CaptureOK(images, c, t)
    BY <1>3, ChangedFacts, ChangedAlike, ChangedSound
  <2>2. Photographed(t)
    BY <1>3, <2>1 DEF Alike, Photographed
  <2>3. "RECEIPT_SUBMITTED" \in Statuses \ {"NONE", "AWAITING_PHOTO"}
    BY DEF Statuses
  <2> HIDE DEF t
  <2>4. next \in CaptureRow /\ Kept(t, next) /\ Agree(t, next) /\ CaptureOK(images, c, next)
    BY <2>1, <2>2, <2>3, AdvancedFacts, AdvancedKeeps, AdvancedSound
  <2> QED
    BY <1>3, <2>1, <2>4, KeptAlike
<1>5. Steady /\ caps' \in [Captures -> CaptureRow] /\ Does(i, NoOp)
  <2>1. \/ caps' = caps /\ Does(i, NoOp)
        \/ caps' = [caps EXCEPT ![c] = next] /\ Does(i, NoOp)
        \/ NoteSubmit(i)
    BY <1>2 DEF VerifySubmit
  <2> HIDE DEF next
  <2>2. CASE caps' = caps /\ Does(i, NoOp)
    BY <2>2, CapsSame DEF IInv, TypeOK
  <2>3. CASE caps' = [caps EXCEPT ![c] = next] /\ Does(i, NoOp)
    BY <1>4, <2>3, StoreSteady DEF IInv
  <2>4. CASE NoteSubmit(i)
    BY <1>1, <2>4, NoteSubmitSteady
  <2> QED
    BY <2>1, <2>2, <2>3, <2>4
<1>6. TypeOK'
  BY <1>1, <1>5, EndedType DEF IInv, TypeOK, Counters
<1> QED
  BY <1>1, <1>5, <1>6, EndedStep

-----------------------------------------------------------------------------
(* What reaches the receipts. *)

LEMMA ReceiptFacts ==
  ASSUME NEW d \in Receipts
  PROVE  /\ d.drafts \in Nat /\ d.posted \in Nat /\ d.rev \in Nat /\ d.docstatus \in {0, 1}
         /\ Drafted(d) \in Receipts /\ Drafted(d).drafts = d.drafts + 1
         /\ Drafted(d).posted = d.posted /\ Drafted(d).docstatus = d.docstatus
         /\ \A same \in BOOLEAN :
              /\ Edited(d, same) \in Receipts /\ Edited(d, same).drafts = d.drafts
              /\ Edited(d, same).posted = d.posted /\ Edited(d, same).docstatus = d.docstatus
<1>1. d.drafts \in Nat /\ d.posted \in Nat /\ d.rev \in Nat /\ d.docstatus \in {0, 1}
  BY DEF Receipts
<1>2. Drafted(d) \in Receipts
  BY <1>1 DEF Drafted, Receipts
<1>3. /\ Drafted(d).drafts = d.drafts + 1 /\ Drafted(d).posted = d.posted
      /\ Drafted(d).docstatus = d.docstatus
  BY DEF Drafted, Receipts
<1>4. ASSUME NEW same \in BOOLEAN
      PROVE  /\ Edited(d, same) \in Receipts /\ Edited(d, same).drafts = d.drafts
             /\ Edited(d, same).posted = d.posted /\ Edited(d, same).docstatus = d.docstatus
  <2>1. Edited(d, same) \in Receipts
    <3>1. d.rev + 1 \in Nat
      BY <1>1
    <3> DEFINE rev == d.rev + 1
               next == [d EXCEPT !.rev = rev, !.same = same]
    <3>2. Edited(d, same) = next
      BY DEF Edited
    <3> HIDE DEF rev
    <3>3. rev \in Nat
      BY <3>1 DEF rev
    <3>4. next \in Receipts
      BY <1>4, <3>3 DEF Receipts
    <3> QED
      BY <3>2, <3>4
  <2>2. /\ Edited(d, same).drafts = d.drafts
        /\ Edited(d, same).posted = d.posted /\ Edited(d, same).docstatus = d.docstatus
    BY DEF Edited, Receipts
  <2> QED
    BY <2>1, <2>2
<1> QED
  BY <1>1, <1>2, <1>3, <1>4

LEMMA SubmittedFacts ==
  ASSUME NEW d \in Receipts, d.posted = d.docstatus, NEW rev
  PROVE  /\ Submitted(d, rev) \in Receipts /\ Submitted(d, rev).drafts = d.drafts
         /\ Submitted(d, rev).posted = Submitted(d, rev).docstatus
<1>1. CASE ~Accepts(d, rev)
  BY <1>1 DEF Submitted
<1>2. CASE Accepts(d, rev)
  <2> DEFINE next == [d EXCEPT !.docstatus = 1, !.posted = @ + 1]
  <2>1. Submitted(d, rev) = next
    BY <1>2 DEF Submitted
  <2>2. d.docstatus = 0 /\ d.posted = 0
    BY <1>2 DEF Accepts
  <2>3. next \in Receipts
    <3> DEFINE posted == d.posted + 1
    <3>1. posted \in Nat
      BY <2>2
    <3>2. next = [d EXCEPT !.docstatus = 1, !.posted = posted]
      OBVIOUS
    <3> HIDE DEF posted
    <3> QED
      BY <3>1, <3>2 DEF Receipts
  <2>4. next.docstatus = 1 /\ next.posted = d.posted + 1 /\ next.drafts = d.drafts
    BY DEF Receipts
  <2> QED
    BY <2>1, <2>2, <2>3, <2>4
<1> QED
  BY <1>1, <1>2

(* A submission that lands for a confirmed capture. *)
LEMMA LandedFacts ==
  ASSUME IInv, NEW c \in Captures, NEW rev, Lands(c, rev), caps'[c].confirmed # None
  PROVE  /\ docs' \in [Captures -> Receipts] /\ po' \in Nat
         /\ \A d \in Captures :
              /\ docs'[d].drafts = docs[d].drafts
              /\ \/ docs'[d].posted = docs[d].posted /\ docs'[d].docstatus = docs[d].docstatus
                 \/ docs'[d].posted = docs'[d].docstatus /\ caps'[d].confirmed # None
<1>1. docs \in [Captures -> Receipts] /\ po \in Nat /\ docs[c].posted = docs[c].docstatus
  BY DEF IInv, TypeOK, DocInv, DocOK
<1> DEFINE next == Submitted(docs[c], rev)
<1>2. /\ next \in Receipts /\ next.drafts = docs[c].drafts /\ next.posted = next.docstatus
  BY <1>1, SubmittedFacts
<1>3. docs' = [docs EXCEPT ![c] = next] /\ po' \in {po, po + 1}
  BY DEF Lands
<1> HIDE DEF next
<1>4. docs' \in [Captures -> Receipts] /\ \A d \in Captures : docs'[d] = IF d = c THEN next ELSE docs[d]
  BY <1>1, <1>2, <1>3
<1>5. po' \in Nat
  BY <1>1, <1>3
<1> QED
  BY <1>2, <1>4, <1>5

LEMMA EditDraftKeeps ==
  ASSUME IInv, NEW c \in Captures, NEW same \in BOOLEAN, EditDraft(c, same)
  PROVE  IInv'
<1>1. /\ UNCHANGED <<mode, caps, images, scans, barcodes, po, wire, inst, seen>>
      /\ docs' = [docs EXCEPT ![c] = Edited(docs[c], same)] /\ used' \in Counters
  BY CountFacts DEF EditDraft, IInv
<1>2. docs \in [Captures -> Receipts]
  BY DEF IInv, TypeOK
<1> DEFINE next == Edited(docs[c], same)
<1>3. /\ next \in Receipts /\ next.drafts = docs[c].drafts
      /\ next.posted = docs[c].posted /\ next.docstatus = docs[c].docstatus
  BY <1>2, ReceiptFacts
<1>4. docs' = [docs EXCEPT ![c] = next]
  BY <1>1
<1> HIDE DEF next
<1>5. docs' \in [Captures -> Receipts] /\ \A d \in Captures : docs'[d] = IF d = c THEN next ELSE docs[d]
  BY <1>2, <1>3, <1>4
<1>6. Steady
  BY <1>1, CapsSame DEF IInv
<1>7. RightsMove /\ PostingsMove /\ OpsMove
  BY <1>1, <1>3, <1>5 DEF RightsMove, PostingsMove, OpsMove, Late, Holds
<1>8. TypeOK'
  BY <1>1, <1>5 DEF IInv, TypeOK, Counters
<1> QED
  BY <1>1, <1>6, <1>7, <1>8, SteadyStep

LEMMA PostSubmitKeeps ==
  ASSUME IInv, NEW i \in Instances, PostSubmit(i)
  PROVE  IInv'
<1>1. /\ inst[i].op.pc = "submit" /\ UNCHANGED <<mode, images, scans, barcodes, seen>>
      /\ used' \in Counters
  BY CountFacts DEF PostSubmit, Fault, IInv
<1>2. PICK c \in Captures : c = inst[i].op.cap
  BY <1>1, FollowedOp
<1>3. PICK op \in Ops : op = inst[i].op
  BY CurrentOp DEF IInv
<1>4. op.pc = "submit" /\ op.cap = c /\ op.rev \in Nat /\ caps[c].confirmed # None
  BY <1>1, <1>2, <1>3, FollowedOp DEF Ops
<1>5. wire \in SUBSET Requests /\ docs \in [Captures -> Receipts] /\ po \in Nat
  BY DEF IInv, TypeOK
<1> DEFINE m == [kind |-> "submit", cap |-> c, rev |-> op.rev]
           verify == [op EXCEPT !.pc = "verify"]
<1>6. \/ Lands(c, op.rev) /\ Does(i, verify) /\ caps' = caps /\ wire' = wire
      \/ NoteSubmit(i) /\ UNCHANGED <<docs, po, wire>>
      \/ NoteSubmit(i) /\ Lands(c, op.rev) /\ UNCHANGED wire
      \/ NoteSubmit(i) /\ wire' \in {wire, wire \cup {m}} /\ UNCHANGED <<docs, po>>
  BY <1>3, <1>4 DEF PostSubmit
<1>7. m \in Requests /\ m.kind = "submit" /\ m.cap = c
  BY <1>4 DEF Requests
<1> HIDE DEF m, verify
<1>8. /\ Steady /\ caps' \in [Captures -> CaptureRow] /\ inst' \in [Instances -> Instance]
      /\ \A j \in Instances : j # i => inst'[j] = inst[j]
      /\ \/ inst'[i].op.pc = "idle"
         \/ inst'[i].op.pc = "verify" /\ OpOK(inst'[i].op, caps'[inst'[i].op.cap], images', seen'[inst'[i].op.cap])
  <2>1. CASE Does(i, verify) /\ caps' = caps
    <3>1. verify \in Ops
      BY DEF verify, Ops, OpSteps
    <3>2. verify.pc = "verify" /\ verify.cap = c /\ verify.state = op.state
      BY <1>4 DEF verify, Ops
    <3>3. /\ inst' \in [Instances -> Instance] /\ inst'[i].op = verify
          /\ \A j \in Instances : j # i => inst'[j] = inst[j]
      BY <2>1, <3>1, DoesFacts, CurrentOp DEF IInv
    <3>4. OpOK(op, caps[c], images, seen[c])
      BY <1>3, <1>4 DEF IInv, OpsInv
    <3>5. OpOK(verify, caps[c], images, seen[c])
      BY <1>4, <3>2, <3>4 DEF OpOK, Writing
    <3>6. OpOK(verify, caps'[c], images', seen'[c])
      BY <1>1, <2>1, <3>5
    <3>7. Steady /\ caps' \in [Captures -> CaptureRow]
      BY <2>1, CapsSame DEF IInv, TypeOK
    <3> QED
      BY <3>2, <3>3, <3>6, <3>7
  <2>2. CASE NoteSubmit(i)
    <3>1. Steady /\ caps' \in [Captures -> CaptureRow] /\ Does(i, NoOp)
      BY <1>1, <2>2, NoteSubmitSteady
    <3>2. /\ inst' \in [Instances -> Instance] /\ inst'[i].op = NoOp
          /\ \A j \in Instances : j # i => inst'[j] = inst[j]
      BY <3>1, DoesFacts, NoOpFacts, CurrentOp DEF IInv
    <3> QED
      BY <3>1, <3>2, NoOpFacts
  <2> QED
    BY <1>6, <2>1, <2>2
<1>9. caps'[c].confirmed # None
  BY <1>4, <1>8 DEF Steady, Agree
<1>10. wire' \in SUBSET Requests /\ \A x \in wire' : x \in wire \/ x = m
  BY <1>5, <1>6, <1>7
<1>11. /\ docs' \in [Captures -> Receipts] /\ po' \in Nat
       /\ \A d \in Captures :
              /\ docs'[d].drafts = docs[d].drafts
              /\ \/ docs'[d].posted = docs[d].posted /\ docs'[d].docstatus = docs[d].docstatus
                 \/ docs'[d].posted = docs'[d].docstatus /\ caps'[d].confirmed # None
  <2>1. CASE Lands(c, op.rev)
    BY <2>1, <1>9, LandedFacts
  <2>2. CASE UNCHANGED <<docs, po>>
    BY <2>2, <1>5
  <2> QED
    BY <1>6, <2>1, <2>2
<1>12. WireOK(m)'
  BY <1>7, <1>9 DEF WireOK, m
<1>13. \A d \in Captures : Late(d)' => Late(d)
  BY <1>7, <1>10 DEF Late
<1>14. \A d \in Captures, j \in Instances : Holds(j, d)' => Holds(j, d)
  BY <1>8 DEF Holds
<1>15. RightsMove
  BY <1>11, <1>13, <1>14 DEF RightsMove
<1>16. PostingsMove
  BY <1>10, <1>11, <1>12 DEF PostingsMove
<1>17. OpsMove
  BY <1>8 DEF OpsMove
<1>18. TypeOK'
  BY <1>1, <1>8, <1>10, <1>11 DEF IInv, TypeOK, Counters, Instance
<1> QED
  BY <1>1, <1>8, <1>15, <1>16, <1>17, <1>18, SteadyStep

LEMMA PostDraftKeeps ==
  ASSUME IInv, NEW i \in Instances, PostDraft(i)
  PROVE  IInv'
<1>1. /\ inst[i].op.pc = "post" /\ UNCHANGED <<mode, images, scans, barcodes, po, seen>>
      /\ used' \in Counters
  BY CountFacts DEF PostDraft, Fault, IInv
<1>2. PICK op \in Ops : op = inst[i].op
  BY CurrentOp DEF IInv
<1>3. PICK c \in Captures : c = op.cap
  BY <1>1, <1>2, WritingOp DEF Writing
<1>4. OpOK(op, caps[c], images, seen[c]) /\ op.pc = "post"
  BY <1>1, <1>2, <1>3 DEF IInv, OpsInv
<1>5. op.fresh
  BY <1>4 DEF OpOK
<1>6. Holds(i, c) /\ Token(c)
  BY <1>2, <1>3, <1>4, <1>5 DEF Holds, IInv, TokenInv
<1>7. /\ docs[c].drafts = 0 /\ ~Late(c) /\ caps[c].attempted
      /\ \A j \in Instances : Holds(j, c) => j = i
  BY <1>6 DEF Token
<1>8. docs \in [Captures -> Receipts] /\ wire \in SUBSET Requests
  BY DEF IInv, TypeOK
<1> DEFINE drafted == Drafted(docs[c])
           m == [kind |-> "draft", cap |-> c, rev |-> 0]
           back == [op EXCEPT !.pc = "readback"]
<1>9. /\ drafted \in Receipts /\ drafted.drafts = 1
      /\ drafted.posted = docs[c].posted /\ drafted.docstatus = docs[c].docstatus
  BY <1>7, <1>8, ReceiptFacts
<1>10. m \in Requests /\ m.kind = "draft" /\ m.cap = c /\ m.rev = 0
  BY DEF Requests
<1>11. \/ docs' = [docs EXCEPT ![c] = drafted] /\ Does(i, back) /\ caps' = caps /\ wire' = wire
       \/ NoteDraft(i) /\ docs' = [docs EXCEPT ![c] = drafted] /\ wire' = wire
       \/ NoteDraft(i) /\ wire' \in {wire, wire \cup {m}} /\ docs' = docs
  BY <1>2, <1>3 DEF PostDraft
<1> HIDE DEF drafted, m, back
<1>12. /\ Steady /\ caps' \in [Captures -> CaptureRow] /\ inst' \in [Instances -> Instance]
       /\ \A j \in Instances : j # i => inst'[j] = inst[j]
       /\ \/ inst'[i].op.pc = "idle"
          \/ /\ inst'[i].op.pc = "readback"
             /\ OpOK(inst'[i].op, caps'[inst'[i].op.cap], images', seen'[inst'[i].op.cap])
  <2>1. CASE Does(i, back) /\ caps' = caps
    <3>1. back \in Ops /\ back.pc = "readback" /\ back.cap = c /\ OpOK(back, caps[c], images, seen[c])
      BY <1>3, <1>4, MovedOp DEF back
    <3>2. /\ inst' \in [Instances -> Instance] /\ inst'[i].op = back
          /\ \A j \in Instances : j # i => inst'[j] = inst[j]
      BY <2>1, <3>1, DoesFacts, CurrentOp DEF IInv
    <3>3. OpOK(back, caps'[c], images', seen'[c])
      BY <1>1, <2>1, <3>1
    <3>4. Steady /\ caps' \in [Captures -> CaptureRow]
      BY <2>1, CapsSame DEF IInv, TypeOK
    <3> QED
      BY <3>1, <3>2, <3>3, <3>4
  <2>2. CASE NoteDraft(i)
    <3>1. Steady /\ caps' \in [Captures -> CaptureRow] /\ Does(i, NoOp)
      BY <1>1, <2>2, NoteDraftSteady DEF Writing
    <3>2. /\ inst' \in [Instances -> Instance] /\ inst'[i].op = NoOp
          /\ \A j \in Instances : j # i => inst'[j] = inst[j]
      BY <3>1, DoesFacts, NoOpFacts, CurrentOp DEF IInv
    <3> QED
      BY <3>1, <3>2, NoOpFacts
  <2> QED
    BY <1>11, <2>1, <2>2
<1>13. /\ docs' \in [Captures -> Receipts]
       /\ \A d \in Captures : d # c => docs'[d] = docs[d]
       /\ docs'[c].posted = docs[c].posted /\ docs'[c].docstatus = docs[c].docstatus
       /\ \/ docs'[c].drafts = 1 /\ wire' = wire
          \/ docs'[c].drafts = 0 /\ wire' \in {wire, wire \cup {m}}
  <2>1. CASE docs' = [docs EXCEPT ![c] = drafted] /\ wire' = wire
    <3>1. docs'[c] = drafted /\ \A d \in Captures : d # c => docs'[d] = docs[d]
      BY <2>1, <1>8
    <3> QED
      BY <1>8, <1>9, <2>1, <3>1
  <2>2. CASE docs' = docs /\ wire' \in {wire, wire \cup {m}}
    BY <2>2, <1>7, <1>8
  <2> QED
    BY <1>11, <2>1, <2>2
<1>14. wire' \in SUBSET Requests /\ \A x \in wire' : x \in wire \/ x = m
  BY <1>8, <1>10, <1>13
<1>15. Continued
  BY <1>1, <1>12 DEF Continued, Steady
<1>16. \A d \in Captures, j \in Instances : Holds(j, d)' => Holds(j, d) /\ j # i
  BY <1>12 DEF Holds
<1>17. TokenInv'
  <2> SUFFICES ASSUME NEW d \in Captures PROVE Token(d)'
    BY DEF TokenInv
  <2>1. CASE d # c
    <3>1. Late(d)' => Late(d)
      BY <1>10, <1>14, <2>1 DEF Late
    <3>2. Token(d) /\ docs'[d].drafts = docs[d].drafts
      BY <1>13, <2>1 DEF IInv, TokenInv
    <3> QED
      BY <1>15, <1>16, <3>1, <3>2, TokenAt
  <2>2. CASE d = c
    <3>1. \A j \in Instances : ~Holds(j, c)'
      BY <1>7, <1>16
    <3>2. caps'[c].attempted
      BY <1>7, <1>15 DEF Continued, Kept
    <3>3. docs'[c].drafts <= 1
      BY <1>13
    <3>4. Late(c)' => docs'[c].drafts = 0
      BY <1>7, <1>13 DEF Late
    <3> QED
      BY <2>2, <3>1, <3>2, <3>3, <3>4 DEF Token
  <2> QED
    BY <2>1, <2>2
<1>18. \A d \in Captures : caps'[d].image = caps[d].image /\ caps'[d].confirmed = caps[d].confirmed
  BY <1>12 DEF Steady, Agree
<1>19. WireOK(m)'
  BY <1>10 DEF WireOK, m
<1>20. PostingsMove
  BY <1>13, <1>14, <1>19 DEF PostingsMove
<1>21. OpsMove
  BY <1>12 DEF OpsMove
<1>22. TypeOK'
  BY <1>1, <1>12, <1>13, <1>14 DEF IInv, TypeOK, Counters, Instance
<1> QED
  BY <1>1, <1>15, <1>17, <1>18, <1>20, <1>21, <1>22, RestStays DEF IInv

(* What arrives late does what it would have done in time. *)
LEMMA ArriveKeeps ==
  ASSUME IInv, NEW m \in wire, Arrive(m)
  PROVE  IInv'
<1>1. /\ UNCHANGED <<mode, caps, images, scans, barcodes, inst, seen, used>>
      /\ wire' = wire \ {m}
  BY DEF Arrive
<1>2. m \in Requests /\ docs \in [Captures -> Receipts] /\ po \in Nat /\ wire \in SUBSET Requests
  BY DEF IInv, TypeOK
<1>3. PICK c \in Captures : c = m.cap
  BY <1>2 DEF Requests
<1>4. Steady /\ OpsMove
  BY <1>1, CapsSame DEF IInv, OpsMove
<1>5. \A d \in Captures, j \in Instances : Holds(j, d)' => Holds(j, d)
  BY <1>1 DEF Holds
<1>6. \A d \in Captures : Late(d)' => Late(d)
  BY <1>1 DEF Late
<1>7. CASE m.kind = "submit"
  <2>1. Lands(c, m.rev) /\ caps'[c].confirmed # None
    BY <1>1, <1>3, <1>7 DEF Arrive, IInv, DocInv, WireOK
  <2>2. /\ docs' \in [Captures -> Receipts] /\ po' \in Nat
        /\ \A d \in Captures :
              /\ docs'[d].drafts = docs[d].drafts
              /\ \/ docs'[d].posted = docs[d].posted /\ docs'[d].docstatus = docs[d].docstatus
                 \/ docs'[d].posted = docs'[d].docstatus /\ caps'[d].confirmed # None
    BY <2>1, LandedFacts
  <2>3. RightsMove
    BY <1>5, <1>6, <2>2 DEF RightsMove
  <2>4. PostingsMove
    BY <1>1, <2>2 DEF PostingsMove
  <2>5. TypeOK'
    BY <1>1, <1>2, <2>2 DEF IInv, TypeOK
  <2> QED
    BY <1>1, <1>4, <2>3, <2>4, <2>5, SteadyStep
<1>8. CASE m.kind = "draft"
  <2>1. m.rev = 0 /\ Late(c) /\ Token(c)
    BY <1>3, <1>8 DEF IInv, DocInv, WireOK, Late, TokenInv
  <2>2. /\ docs[c].drafts = 0 /\ caps[c].attempted /\ \A j \in Instances : ~Holds(j, c)
    BY <2>1 DEF Token
  <2> DEFINE drafted == Drafted(docs[c])
  <2>3. /\ drafted \in Receipts /\ drafted.drafts = 1
        /\ drafted.posted = docs[c].posted /\ drafted.docstatus = docs[c].docstatus
    BY <1>2, <2>2, ReceiptFacts
  <2>4. docs' = [docs EXCEPT ![c] = drafted] /\ po' = po
    BY <1>3, <1>8 DEF Arrive
  <2> HIDE DEF drafted
  <2>5. docs' \in [Captures -> Receipts] /\ \A d \in Captures : docs'[d] = IF d = c THEN drafted ELSE docs[d]
    BY <1>2, <2>3, <2>4
  <2>6. ~Late(c)'
    <3>1. SUFFICES ASSUME NEW x \in wire', x.kind = "draft", x.cap = c PROVE FALSE
      BY DEF Late
    <3>2. x \in wire /\ x # m /\ x \in Requests
      BY <1>1, <1>2, <3>1
    <3>3. x.rev = 0
      BY <3>1, <3>2 DEF IInv, DocInv, WireOK
    <3>4. x = m
      BY <1>2, <1>3, <1>8, <2>1, <3>1, <3>2, <3>3 DEF Requests
    <3> QED
      BY <3>2, <3>4
  <2>7. Continued
    BY <1>1, <1>4 DEF Continued, Steady
  <2>8. TokenInv'
    <3> SUFFICES ASSUME NEW d \in Captures PROVE Token(d)'
      BY DEF TokenInv
    <3>1. CASE d # c
      BY <1>5, <1>6, <2>5, <2>7, <3>1, TokenAt DEF IInv, TokenInv
    <3>2. CASE d = c
      <4>1. docs'[c].drafts = 1 /\ caps'[c].attempted
        BY <1>1, <2>2, <2>3, <2>5
      <4>2. \A j \in Instances : ~Holds(j, c)'
        BY <1>5, <2>2
      <4> QED
        BY <2>6, <3>2, <4>1, <4>2 DEF Token
    <3> QED
      BY <3>1, <3>2
  <2>9. PostingsMove
    BY <1>1, <2>3, <2>5 DEF PostingsMove
  <2>10. TypeOK'
    BY <1>1, <1>2, <2>4, <2>5 DEF IInv, TypeOK
  <2> QED
    BY <1>1, <1>4, <2>7, <2>8, <2>9, <2>10, RestStays DEF IInv
<1> QED
  BY <1>2, <1>7, <1>8 DEF Requests

-----------------------------------------------------------------------------
(* The two claims. *)

LEMMA ClaimDraftKeeps ==
  ASSUME IInv, NEW i \in Instances, ClaimDraft(i)
  PROVE  IInv'
<1>1. /\ inst[i].op.pc = "claim"
      /\ UNCHANGED <<mode, images, scans, barcodes, docs, po, wire, seen, used>>
  BY DEF ClaimDraft
<1>2. PICK op \in Ops : op = inst[i].op
  BY CurrentOp DEF IInv
<1>3. /\ op.cap \in Captures /\ op.state \in CaptureRow
      /\ CaptureOK(images, op.cap, op.state) /\ Photographed(op.state)
      /\ op.state.confirmed = None
      /\ op.state.version = caps[op.cap].version => Agree(op.state, caps[op.cap])
  BY <1>1, <1>2, WritingOp DEF Writing
<1>4. PICK c \in Captures, s \in CaptureRow : c = op.cap /\ s = op.state
  BY <1>3
<1>5. ~s.attempted /\ Owned(images, c, s.digest)
  BY <1>1, <1>2, <1>4 DEF IInv, OpsInv, OpOK
<1> DEFINE t == [s EXCEPT !.attempted = TRUE]
           next == Advanced(t, "DRAFT_UNKNOWN")
           first == Op(c, "lookup", next)
           claimed == [first EXCEPT !.fresh = TRUE]
<1>6. t \in CaptureRow
  BY ChangedFacts
<1>7. /\ t.status = s.status /\ t.version = s.version /\ t.digest = s.digest /\ t.image = s.image
      /\ t.attempted /\ t.confirmed = s.confirmed /\ t.analysis = s.analysis
      /\ t.identity = s.identity
  BY DEF CaptureRow
<1> HIDE DEF t
<1>8. "DRAFT_UNKNOWN" \in Statuses
  BY DEF Statuses
<1>9. /\ next \in CaptureRow /\ next.status = "DRAFT_UNKNOWN" /\ next.version = s.version + 1
      /\ next.digest = s.digest /\ next.image = s.image /\ next.attempted
      /\ next.confirmed = s.confirmed /\ next.analysis = s.analysis /\ next.identity = s.identity
  BY <1>6, <1>7, <1>8, AdvancedFacts
<1> HIDE DEF next
<1>10. /\ first \in Ops /\ first.pc = "lookup" /\ first.cap = c /\ first.state = next
  BY <1>9, OpFacts DEF OpSteps
<1> HIDE DEF first
<1>11. claimed \in Ops /\ claimed.pc = "lookup" /\ claimed.cap = c /\ claimed.state = next
  BY <1>10 DEF Ops
<1> HIDE DEF claimed
<1>12. /\ caps' = Saves(c, s.version, next)
       /\ Does(i, IF Won(c, s.version) THEN claimed ELSE NoOp)
  BY <1>2, <1>4 DEF ClaimDraft, claimed, first, next, t
<1>13. caps \in [Captures -> CaptureRow] /\ s.version \in Nat /\ caps[c] \in CaptureRow
  BY CaptureFacts DEF IInv, TypeOK
<1>14. Won(c, s.version) <=> caps[c].version = s.version
  BY <1>13, WonExact
<1>15. CASE caps[c].version # s.version
  <2>1. caps' = caps /\ Does(i, NoOp)
    BY <1>12, <1>14, <1>15 DEF Saves
  <2>2. Steady
    BY <2>1, CapsSame DEF IInv
  <2>3. TypeOK'
    BY <1>1, <2>1, EndedType DEF IInv, TypeOK
  <2> QED
    BY <1>1, <2>1, <2>2, <2>3, EndedStep
<1>16. CASE caps[c].version = s.version
  <2>1. Does(i, claimed) /\ Agree(s, caps[c])
    BY <1>3, <1>4, <1>12, <1>14, <1>16
  <2>2. /\ caps' \in [Captures -> CaptureRow]
        /\ \A d \in Captures : caps'[d] = IF d = c THEN next ELSE caps[d]
    BY <1>9, <1>12, <1>13, <1>16, SavedRow
  <2>3. /\ inst' \in [Instances -> Instance] /\ inst'[i].op = claimed
        /\ \A j \in Instances : j # i => inst'[j] = inst[j]
    BY <1>11, <2>1, DoesFacts, CurrentOp DEF IInv
  <2>4. TypeOK'
    BY <1>1, <2>2, <2>3 DEF IInv, TypeOK, Instance
  <2>5. ~caps[c].attempted /\ caps[c].confirmed = None /\ next.confirmed = None
        /\ caps[c].image = next.image
    BY <1>3, <1>4, <1>5, <1>9, <2>1 DEF Agree
  <2>6. Kept(caps[c], next)
    BY <1>9, <1>13, <1>16, <2>5 DEF Kept, Photographed
  <2>7. Photographed(next)
    BY <1>9 DEF Photographed
  <2>8. CaptureOK(images, c, next)
    BY <1>3, <1>4, <1>5, <1>9, <2>5, <2>7 DEF CaptureOK
  <2>9. Continued
    BY <1>1, <1>13, <2>2, <2>6, <2>8, KeptSame DEF Continued, IInv, CapsInv
  <2>10. OpOK(claimed, next, images, seen[c])
    <3>1. Agree(next, next) /\ next.version <= next.version
      BY <1>9, <1>13 DEF Agree
    <3> QED
      BY <1>9, <1>11, <2>5, <2>7, <2>8, <3>1 DEF OpOK, Writing
  <2>11. OpsMove
    <3>1. OpOK(inst'[i].op, caps'[inst'[i].op.cap], images', seen'[inst'[i].op.cap])
      BY <1>1, <1>11, <2>2, <2>3, <2>10
    <3> QED
      BY <2>3, <3>1 DEF OpsMove
  <2>12. PostingsMove
    BY <1>1 DEF PostingsMove
  <2>13. \A d \in Captures : caps'[d].image = caps[d].image /\ caps'[d].confirmed = caps[d].confirmed
    BY <2>2, <2>5
  <2>14. \A d \in Captures : Late(d)' => Late(d)
    BY <1>1 DEF Late
  <2>15. TokenInv'
    <3> SUFFICES ASSUME NEW d \in Captures PROVE Token(d)'
      BY DEF TokenInv
    <3>1. Token(d)
      BY DEF IInv, TokenInv
    <3>2. CASE d # c
      <4>1. \A j \in Instances : Holds(j, d)' => Holds(j, d)
        BY <1>11, <2>3, <3>2 DEF Holds
      <4> QED
        BY <1>1, <2>9, <2>14, <3>1, <4>1, TokenAt
    <3>3. CASE d = c
      <4>1. docs[c].drafts = 0 /\ ~Late(c) /\ \A j \in Instances : ~Holds(j, c)
        BY <2>5, <3>1, <3>3 DEF Token
      <4>2. \A j \in Instances : Holds(j, c)' => j = i
        BY <2>3, <4>1 DEF Holds
      <4>3. docs'[c].drafts = 0 /\ ~Late(c)' /\ caps'[c].attempted
        BY <1>1, <1>9, <2>2, <2>14, <4>1
      <4> QED
        BY <3>3, <4>2, <4>3 DEF Token
    <3> QED
      BY <3>2, <3>3
  <2> QED
    BY <1>1, <2>4, <2>9, <2>11, <2>12, <2>13, <2>15, RestStays DEF IInv
<1> QED
  BY <1>15, <1>16

LEMMA InputsShown == ASSUME TypeOK, NEW c PROVE Inputs(scans, c) \in Shown
<1>1. Disputed(scans, c) \in BOOLEAN
  BY DEF Disputed
<1>2. {e \in Events : scans.stored[e] # None /\ scans.stored[e].arrival = c} \in SUBSET Events
  OBVIOUS
<1> QED
  BY <1>1, <1>2 DEF Inputs, Shown

LEMMA ClaimSubmitKeeps ==
  ASSUME IInv, NEW i \in Instances, ClaimSubmit(i)
  PROVE  IInv'
<1>1. /\ inst[i].op.pc = "confirm"
      /\ UNCHANGED <<mode, images, scans, barcodes, docs, po, wire, seen, used>>
  BY DEF ClaimSubmit
<1>2. PICK op \in Ops : op = inst[i].op
  BY CurrentOp DEF IInv
<1>3. /\ op.cap \in Captures /\ op.state \in CaptureRow
      /\ CaptureOK(images, op.cap, op.state) /\ Photographed(op.state)
      /\ op.state.confirmed = None
      /\ op.state.version = caps[op.cap].version => Agree(op.state, caps[op.cap])
  BY <1>1, <1>2, WritingOp DEF Writing
<1>4. PICK c \in Captures, s \in CaptureRow : c = op.cap /\ s = op.state
  BY <1>3
<1>5. /\ s.attempted /\ seen[c] # None
      /\ s.version = caps[c].version => seen[c].version = s.version
  BY <1>1, <1>2, <1>4 DEF IInv, OpsInv, OpOK
<1> DEFINE x == [version |-> s.version, image |-> s.image, candidate |-> s.candidate,
                 inputs |-> Inputs(scans, c)]
           t == [s EXCEPT !.confirmed = x]
           next == Advanced(t, "SUBMIT_UNKNOWN")
           first == Op(c, "submit", next)
           claimed == [first EXCEPT !.rev = op.rev]
<1>6. x \in Confirmations /\ x.inputs = Inputs(scans, c) /\ x # None
  <2>1. x \in Confirmations
    BY CaptureFacts, InputsShown DEF Confirmations, IInv
  <2> QED
    BY <2>1, NoneAssumption
<1> HIDE DEF x
<1>7. t \in CaptureRow
  BY <1>6, ChangedFacts
<1>8. /\ t.status = s.status /\ t.version = s.version /\ t.digest = s.digest /\ t.image = s.image
      /\ (t.attempted <=> s.attempted) /\ t.confirmed = x /\ t.analysis = s.analysis
      /\ t.identity = s.identity /\ t.draft = s.draft
  BY DEF CaptureRow
<1> HIDE DEF t
<1>9. "SUBMIT_UNKNOWN" \in Statuses
  BY DEF Statuses
<1>10. /\ next \in CaptureRow /\ next.status = "SUBMIT_UNKNOWN" /\ next.version = s.version + 1
       /\ next.digest = s.digest /\ next.image = s.image /\ next.attempted
       /\ next.confirmed = x /\ next.analysis = s.analysis /\ next.identity = s.identity
       /\ next.draft = s.draft
  BY <1>5, <1>7, <1>8, <1>9, AdvancedFacts
<1> HIDE DEF next
<1>11. /\ first \in Ops /\ first.pc = "submit" /\ first.cap = c /\ first.state = next
  BY <1>10, OpFacts DEF OpSteps
<1> HIDE DEF first
<1>12. claimed \in Ops /\ claimed.pc = "submit" /\ claimed.cap = c /\ claimed.state = next
  BY <1>11 DEF Ops
<1> HIDE DEF claimed
<1>13. /\ caps' = Saves(c, s.version, next)
       /\ Does(i, IF Won(c, s.version) THEN claimed ELSE NoOp)
  BY <1>2, <1>4 DEF ClaimSubmit, claimed, first, next, t, x
<1>14. caps \in [Captures -> CaptureRow] /\ s.version \in Nat /\ caps[c] \in CaptureRow
  BY CaptureFacts DEF IInv, TypeOK
<1>15. Won(c, s.version) <=> caps[c].version = s.version
  BY <1>14, WonExact
<1>16. CASE caps[c].version # s.version
  <2>1. caps' = caps /\ Does(i, NoOp)
    BY <1>13, <1>15, <1>16 DEF Saves
  <2>2. Steady
    BY <2>1, CapsSame DEF IInv
  <2>3. TypeOK'
    BY <1>1, <2>1, EndedType DEF IInv, TypeOK
  <2> QED
    BY <1>1, <2>1, <2>2, <2>3, EndedStep
<1>17. CASE caps[c].version = s.version
  <2>1. Does(i, claimed) /\ Agree(s, caps[c])
    BY <1>3, <1>4, <1>13, <1>15, <1>17
  <2>2. /\ caps' \in [Captures -> CaptureRow]
        /\ \A d \in Captures : caps'[d] = IF d = c THEN next ELSE caps[d]
    BY <1>10, <1>13, <1>14, <1>17, SavedRow
  <2>3. /\ inst' \in [Instances -> Instance] /\ inst'[i].op = claimed
        /\ \A j \in Instances : j # i => inst'[j] = inst[j]
    BY <1>12, <2>1, DoesFacts, CurrentOp DEF IInv
  <2>4. TypeOK'
    BY <1>1, <2>2, <2>3 DEF IInv, TypeOK, Instance
  <2>5. caps[c].confirmed = None /\ caps[c].image = next.image /\ caps[c].digest = next.digest
    BY <1>3, <1>4, <1>10, <2>1 DEF Agree
  <2>6. Photographed(next)
    BY <1>10 DEF Photographed
  <2>7. Kept(caps[c], next)
    BY <1>10, <1>14, <1>17, <2>5, <2>6 DEF Kept
  <2>8. CaptureOK(images, c, next)
    BY <1>3, <1>4, <1>5, <1>10, <2>6 DEF CaptureOK
  <2>9. Continued
    BY <1>1, <1>14, <2>2, <2>7, <2>8, KeptSame DEF Continued, IInv, CapsInv
  <2>10. OpOK(claimed, next, images, seen[c])
    BY <1>6, <1>10, <1>12, <1>14, <2>6 DEF OpOK, Writing
  <2>11. OpsMove
    <3>1. OpOK(inst'[i].op, caps'[inst'[i].op.cap], images', seen'[inst'[i].op.cap])
      BY <1>1, <1>12, <2>2, <2>3, <2>10
    <3> QED
      BY <2>3, <3>1 DEF OpsMove
  <2>12. PhotosKept /\ PostingsMove
    BY <1>1 DEF PhotosKept, PostingsMove
  <2>13. RightsMove
    <3>1. \A d \in Captures, j \in Instances : Holds(j, d)' => Holds(j, d)
      BY <1>12, <2>3 DEF Holds
    <3> QED
      BY <1>1, <3>1 DEF RightsMove, Late
  <2>14. CapsInv' /\ ScanInv'
    BY <1>1, <2>9 DEF CapsInv, ScanInv, Continued, IInv
  <2>15. OpsInv' /\ TokenInv' /\ DocInv'
    BY <1>1, <2>4, <2>9, <2>11, <2>12, <2>13, OpsStay, TokenStays, DocStays DEF IInv
  <2>16. ImageInv'
    BY <1>1, <2>2, <2>5, ImageStays DEF IInv
  <2>17. SeenInv'
    <3> SUFFICES ASSUME NEW d \in Captures PROVE SeenOK(d)' /\ ConfirmedOK(d)'
      BY DEF SeenInv
    <3>1. SeenOK(d) /\ ConfirmedOK(d) /\ CaptureOK(images, d, caps[d]) /\ Kept(caps[d], caps'[d])
      BY <2>9 DEF IInv, SeenInv, CapsInv, Continued
    <3>2. CASE d # c
      BY <1>1, <2>2, <2>4, <3>1, <3>2, SeenAt DEF IInv
    <3>3. CASE d = c
      <4>1. caps'[c] = next /\ seen'[c] = seen[c]
        BY <1>1, <2>2
      <4>2. seen[c].version = s.version /\ seen[c].image = next.image
            /\ seen[c].inputs = Inputs(scans, c)
        BY <1>5, <1>17, <2>5, <3>1, <3>3 DEF SeenOK
      <4>3. SeenOK(c)'
        BY <1>10, <1>14, <2>6, <4>1, <4>2 DEF SeenOK
      <4>4. ConfirmedOK(c)'
        BY <1>5, <1>6, <1>10, <4>1, <4>2 DEF ConfirmedOK
      <4> QED
        BY <3>3, <4>3, <4>4
    <3> QED
      BY <3>2, <3>3
  <2> QED
    BY <2>4, <2>14, <2>15, <2>16, <2>17 DEF IInv
<1> QED
  BY <1>16, <1>17

-----------------------------------------------------------------------------
(* What operators see, and what disturbs it. *)

LEMMA LookKeeps ==
  ASSUME IInv, NEW c \in Captures, Look(c)
  PROVE  IInv'
<1> DEFINE v == [version |-> caps[c].version, image |-> caps[c].image, inputs |-> Inputs(scans, c)]
<1>1. /\ UNCHANGED <<mode, caps, images, scans, barcodes, docs, po, wire, inst, used>>
      /\ seen' = [seen EXCEPT ![c] = v] /\ caps[c].status = "DRAFT_VERIFIED"
  BY DEF Look
<1>2. caps[c] \in CaptureRow /\ CaptureOK(images, c, caps[c]) /\ seen \in [Captures -> Sightings \cup {None}]
  BY DEF IInv, TypeOK, CapsInv
<1>3. v \in Sightings /\ v # None
  <2>1. v \in Sightings
    BY <1>2, CaptureFacts, InputsShown DEF IInv, Sightings
  <2> QED
    BY <2>1, NoneAssumption
<1>4. /\ v.version = caps[c].version /\ v.image = caps[c].image /\ v.inputs = Inputs(scans, c)
  OBVIOUS
<1> HIDE DEF v
<1>5. /\ seen' \in [Captures -> Sightings \cup {None}]
      /\ \A d \in Captures : seen'[d] = IF d = c THEN v ELSE seen[d]
  BY <1>1, <1>2, <1>3
<1>6. TypeOK'
  BY <1>1, <1>5 DEF IInv, TypeOK
<1>7. Photographed(caps[c]) /\ caps[c].confirmed = None /\ caps[c].version \in Nat
  BY <1>1, <1>2, CaptureFacts DEF Photographed, CaptureOK
<1>8. Steady
  BY <1>1, CapsSame DEF IInv
<1>9. Continued /\ PhotosKept
  BY <1>1, <1>8 DEF Continued, Steady, PhotosKept
<1>10. RightsMove /\ PostingsMove /\ OpsMove
  BY <1>1 DEF RightsMove, PostingsMove, OpsMove, Late, Holds
<1>11. \A d \in Captures :
         seen'[d] = seen[d] \/ (seen'[d] # None /\ seen'[d].version = caps'[d].version)
  BY <1>1, <1>3, <1>4, <1>5
<1>12. OpsInv' /\ TokenInv' /\ DocInv'
  BY <1>6, <1>9, <1>10, <1>11, OpsStay, TokenStays, DocStays DEF IInv
<1>13. CapsInv' /\ ScanInv' /\ ImageInv'
  BY <1>1, <1>9, ImageStays DEF CapsInv, ScanInv, Continued, IInv
<1>14. SeenInv'
  <2> SUFFICES ASSUME NEW d \in Captures PROVE SeenOK(d)' /\ ConfirmedOK(d)'
    BY DEF SeenInv
  <2>1. CASE d # c
    <3>1. SeenOK(d) /\ ConfirmedOK(d) /\ CaptureOK(images, d, caps[d]) /\ Kept(caps[d], caps'[d])
      BY <1>9 DEF IInv, SeenInv, CapsInv, Continued
    <3> QED
      BY <1>1, <1>5, <1>6, <2>1, <3>1, SeenAt DEF IInv
  <2>2. CASE d = c
    <3>1. seen'[c] = v /\ caps'[c] = caps[c] /\ scans' = scans
      BY <1>1, <1>5
    <3>2. SeenOK(c)'
      BY <1>4, <1>7, <3>1 DEF SeenOK
    <3>3. ConfirmedOK(c)'
      BY <1>7, <3>1 DEF ConfirmedOK
    <3> QED
      BY <2>2, <3>2, <3>3
  <2> QED
    BY <2>1, <2>2
<1> QED
  BY <1>6, <1>12, <1>13, <1>14 DEF IInv

ScanTable ==
  [stored : [Events -> Payloads \cup {None}], conflicts : SUBSET [event : Events, payload : Payloads]]

(* A scan: the first payload of its event, the same again, or a conflict.  *)
LEMMA ScannedFacts ==
  ASSUME NEW s \in ScanTable, NEW e \in Events, NEW p \in Payloads
  PROVE  LET t == Scanned(s, e, p) IN
         /\ t \in ScanTable
         /\ \/ /\ s.stored[e] = None /\ t.conflicts = s.conflicts /\ t.stored[e] = p
               /\ \A f \in Events : f # e => t.stored[f] = s.stored[f]
            \/ t = s
            \/ /\ s.stored[e] # None /\ t.stored = s.stored
               /\ t.conflicts = s.conflicts \cup {[event |-> e, payload |-> p]}
<1>1. s.stored \in [Events -> Payloads \cup {None}]
      /\ s.conflicts \in SUBSET [event : Events, payload : Payloads]
  BY DEF ScanTable
<1>2. CASE s.stored[e] = None
  <2> DEFINE t == [s EXCEPT !.stored[e] = p]
             filled == [s.stored EXCEPT ![e] = p]
  <2>1. Scanned(s, e, p) = t
    BY <1>2 DEF Scanned
  <2>2. filled \in [Events -> Payloads \cup {None}] /\ filled[e] = p
        /\ \A f \in Events : f # e => filled[f] = s.stored[f]
    BY <1>1
  <2>3. t.stored = filled /\ t.conflicts = s.conflicts /\ (filled \in [Events -> Payloads \cup {None}] => t \in ScanTable)
    BY <1>1 DEF ScanTable
  <2> QED
    BY <1>2, <2>1, <2>2, <2>3
<1>3. CASE s.stored[e] # None /\ s.stored[e] = p
  BY <1>3 DEF Scanned
<1>4. CASE s.stored[e] # None /\ s.stored[e] # p
  <2> DEFINE x == [event |-> e, payload |-> p]
             more == s.conflicts \cup {x}
             t == [s EXCEPT !.conflicts = more]
  <2>1. Scanned(s, e, p) = t
    BY <1>4 DEF Scanned
  <2>2. more \in SUBSET [event : Events, payload : Payloads]
    BY <1>1
  <2>3. t.stored = s.stored /\ t.conflicts = more /\ (more \in SUBSET [event : Events, payload : Payloads] => t \in ScanTable)
    BY <1>1 DEF ScanTable
  <2> QED
    BY <1>4, <2>1, <2>2, <2>3
<1> QED
  BY <1>2, <1>3, <1>4

(* An arrival a scan does not disturb is shown the same inputs. *)
LEMMA Undisturbed ==
  ASSUME NEW s \in ScanTable, NEW e \in Events, NEW p \in Payloads, NEW c,
         \A x \in s.conflicts : s.stored[x.event] # None,
         c \notin Disturbed(s, e, p)
  PROVE  Inputs(Scanned(s, e, p), c) = Inputs(s, c)
<1> DEFINE t == Scanned(s, e, p)
           Mine(u) == {f \in Events : u.stored[f] # None /\ u.stored[f].arrival = c}
<1>1. t = s \/ (c # p.arrival /\ c # t.stored[e].arrival)
  BY DEF Disturbed
<1>2. \/ /\ s.stored[e] = None /\ t.conflicts = s.conflicts /\ t.stored[e] = p
         /\ \A f \in Events : f # e => t.stored[f] = s.stored[f]
      \/ t = s
      \/ /\ s.stored[e] # None /\ t.stored = s.stored
         /\ t.conflicts = s.conflicts \cup {[event |-> e, payload |-> p]}
  BY ScannedFacts
<1>3. \A x \in s.conflicts : x.event \in Events
  BY DEF ScanTable
<1> HIDE DEF t
<1>4. CASE t = s
  BY <1>4 DEF t
<1>5. CASE /\ t # s
           /\ s.stored[e] = None /\ t.conflicts = s.conflicts /\ t.stored[e] = p
           /\ \A f \in Events : f # e => t.stored[f] = s.stored[f]
  <2>1. Mine(t) = Mine(s)
    <3> SUFFICES ASSUME NEW f \in Events
                 PROVE  (t.stored[f] # None /\ t.stored[f].arrival = c)
                          <=> (s.stored[f] # None /\ s.stored[f].arrival = c)
      OBVIOUS
    <3> QED
      BY <1>1, <1>5
  <2>2. \A x \in s.conflicts : x.event # e /\ t.stored[x.event] = s.stored[x.event]
    BY <1>3, <1>5
  <2>3. Disputed(t, c) <=> Disputed(s, c)
    BY <1>5, <2>2 DEF Disputed
  <2>4. Disputed(t, c) = Disputed(s, c)
    BY <2>3 DEF Disputed
  <2>5. Inputs(t, c) = Inputs(s, c)
    BY <2>1, <2>4, Zenon DEF Inputs
  <2> QED
    BY <2>5 DEF t
<1>6. CASE /\ t # s
           /\ s.stored[e] # None /\ t.stored = s.stored
           /\ t.conflicts = s.conflicts \cup {[event |-> e, payload |-> p]}
  <2>1. Disputed(t, c) <=> Disputed(s, c)
    BY <1>1, <1>6 DEF Disputed
  <2>2. Mine(t) = Mine(s)
    BY <1>6
  <2>3. Disputed(t, c) = Disputed(s, c)
    BY <2>1 DEF Disputed
  <2>4. Inputs(t, c) = Inputs(s, c)
    BY <2>2, <2>3, Zenon DEF Inputs
  <2> QED
    BY <2>4 DEF t
<1> QED
  BY <1>2, <1>4, <1>5, <1>6

LEMMA ScanKeeps ==
  ASSUME IInv, NEW e \in Events, NEW p \in Payloads, Scan(e, p)
  PROVE  IInv'
<1>1. /\ UNCHANGED <<mode, images, barcodes, docs, po, wire, inst, seen, used>>
      /\ scans' = Scanned(scans, e, p)
  BY DEF Scan
<1>2. scans \in ScanTable /\ \A x \in scans.conflicts : scans.stored[x.event] # None
  BY DEF IInv, TypeOK, ScanTable, ScanInv
<1>3. caps \in [Captures -> CaptureRow]
  BY DEF IInv, TypeOK
<1> DEFINE Bumped(s) == [s EXCEPT !.version = @ + 1, !.noted = FALSE]
           Hit(c) == c \in Disturbed(scans, e, p) /\ caps[c].status # "NONE"
<1>4. ASSUME NEW s \in CaptureRow
      PROVE  /\ Bumped(s) \in CaptureRow /\ Kept(s, Bumped(s)) /\ Agree(s, Bumped(s))
             /\ Bumped(s).version = s.version + 1
             /\ \A img, c : CaptureOK(img, c, s) => CaptureOK(img, c, Bumped(s))
  <2>1. s.version \in Nat
    BY <1>4, CaptureFacts
  <2>2. Bumped(s) \in CaptureRow
    <3> DEFINE v == s.version + 1
    <3>1. v \in Nat
      BY <2>1
    <3>2. Bumped(s) = [s EXCEPT !.version = v, !.noted = FALSE]
      OBVIOUS
    <3> HIDE DEF v, Bumped
    <3> QED
      BY <1>4, <3>1, <3>2 DEF CaptureRow
  <2>3. LET t == Bumped(s) IN
        /\ t.status = s.status /\ t.version = s.version + 1
        /\ t.digest = s.digest /\ t.image = s.image /\ t.attempted = s.attempted
        /\ t.confirmed = s.confirmed /\ t.draft = s.draft /\ t.analysis = s.analysis
        /\ t.identity = s.identity
    BY <1>4 DEF CaptureRow
  <2> HIDE DEF Bumped
  <2>4. Kept(s, Bumped(s)) /\ Agree(s, Bumped(s))
    BY <2>1, <2>3 DEF Kept, Agree, Photographed
  <2>5. \A img, c : CaptureOK(img, c, s) => CaptureOK(img, c, Bumped(s))
    BY <2>3 DEF CaptureOK, Photographed
  <2> QED
    BY <2>2, <2>3, <2>4, <2>5
<1>5. caps' = [c \in Captures |-> IF Hit(c) THEN Bumped(caps[c]) ELSE caps[c]]
  BY DEF Scan
<1> HIDE DEF Bumped
<1>6. \A c \in Captures : caps'[c] = IF Hit(c) THEN Bumped(caps[c]) ELSE caps[c]
  BY <1>5
<1>7. caps' \in [Captures -> CaptureRow]
  BY <1>3, <1>4, <1>5
<1>8. Steady
  <2> SUFFICES ASSUME NEW c \in Captures
               PROVE  /\ Kept(caps[c], caps'[c]) /\ Agree(caps[c], caps'[c])
                      /\ CaptureOK(images, c, caps'[c])
    BY DEF Steady
  <2>1. CaptureOK(images, c, caps[c]) /\ caps[c] \in CaptureRow
    BY <1>3 DEF IInv, CapsInv
  <2> QED
    BY <1>4, <1>6, <2>1, KeptSame
<1>9. scans' \in ScanTable /\ \A x \in scans'.conflicts : scans'.stored[x.event] # None
  <2>1. /\ scans' \in ScanTable
        /\ \/ /\ scans.stored[e] = None /\ scans'.conflicts = scans.conflicts /\ scans'.stored[e] = p
              /\ \A f \in Events : f # e => scans'.stored[f] = scans.stored[f]
           \/ scans' = scans
           \/ /\ scans.stored[e] # None /\ scans'.stored = scans.stored
              /\ scans'.conflicts = scans.conflicts \cup {[event |-> e, payload |-> p]}
    BY <1>1, <1>2, ScannedFacts
  <2>2. \A x \in scans.conflicts : x.event \in Events
    BY <1>2 DEF ScanTable
  <2>3. CASE /\ scans.stored[e] = None /\ scans'.conflicts = scans.conflicts
             /\ \A f \in Events : f # e => scans'.stored[f] = scans.stored[f]
    BY <1>2, <2>1, <2>2, <2>3
  <2>4. CASE scans' = scans
    BY <1>2, <2>1, <2>4
  <2>5. CASE /\ scans.stored[e] # None /\ scans'.stored = scans.stored
             /\ scans'.conflicts = scans.conflicts \cup {[event |-> e, payload |-> p]}
    BY <1>2, <2>1, <2>5
  <2> QED
    BY <2>1, <2>3, <2>4, <2>5
<1>10. TypeOK'
  BY <1>1, <1>7, <1>9 DEF IInv, TypeOK, ScanTable
<1>11. Continued /\ PhotosKept
  BY <1>1, <1>8 DEF Continued, Steady, PhotosKept
<1>12. RightsMove /\ PostingsMove /\ OpsMove
  BY <1>1 DEF RightsMove, PostingsMove, OpsMove, Late, Holds
<1>13. OpsInv' /\ TokenInv' /\ DocInv'
  BY <1>1, <1>10, <1>11, <1>12, OpsStay, TokenStays, DocStays DEF IInv
<1>14. CapsInv' /\ ScanInv'
  BY <1>9, <1>11 DEF CapsInv, ScanInv, Continued
<1>15. ImageInv'
  BY <1>1, <1>8, ImageStays DEF IInv, Steady, Agree
<1>16. SeenInv'
  <2> SUFFICES ASSUME NEW c \in Captures PROVE SeenOK(c)' /\ ConfirmedOK(c)'
    BY DEF SeenInv
  <2>1. /\ SeenOK(c) /\ ConfirmedOK(c) /\ CaptureOK(images, c, caps[c])
        /\ Kept(caps[c], caps'[c]) /\ Agree(caps[c], caps'[c]) /\ seen'[c] = seen[c]
    BY <1>1, <1>8 DEF IInv, SeenInv, CapsInv, Steady
  <2>2. CASE c \notin Disturbed(scans, e, p)
    <3>1. Inputs(scans', c) = Inputs(scans, c)
      BY <1>1, <1>2, <2>2, Undisturbed
    <3> QED
      BY <1>10, <2>1, <3>1, SeenAt DEF IInv, Agree
  <2>3. CASE c \in Disturbed(scans, e, p)
    <3>1. ConfirmedOK(c)'
      BY <2>1 DEF ConfirmedOK, Agree
    <3>2. SeenOK(c)'
      <4> SUFFICES ASSUME seen[c] # None
                   PROVE  /\ Photographed(caps'[c]) /\ seen[c].version < caps'[c].version
                          /\ seen[c].version \in Nat /\ caps'[c].version \in Nat
        BY <2>1 DEF SeenOK
      <4>1. Photographed(caps[c]) /\ seen[c].version <= caps[c].version
        BY <2>1 DEF SeenOK
      <4>2. caps[c].status # "NONE" /\ Photographed(caps'[c])
        BY <2>1, <4>1 DEF Photographed, Kept
      <4>3. caps[c].version \in Nat /\ caps'[c].version = caps[c].version + 1
        BY <1>3, <1>4, <1>6, <2>3, <4>2, CaptureFacts
      <4>4. seen[c].version \in Nat
        BY DEF IInv, TypeOK, Sightings
      <4> QED
        BY <4>1, <4>2, <4>3, <4>4
    <3> QED
      BY <3>1, <3>2
  <2> QED
    BY <2>2, <2>3
<1> QED
  BY <1>10, <1>13, <1>14, <1>15, <1>16 DEF IInv

-----------------------------------------------------------------------------
(* A new photo. *)

LEMMA CountedPhotos ==
  ASSUME NEW P, NEW img \in Seq(P), NEW r \in P, NEW c
  PROVE  /\ Cardinality(PhotosOf(img, c)) \in Nat
         /\ Cardinality(PhotosOf(Append(img, r), c)) =
              IF r.cap = c THEN Cardinality(PhotosOf(img, c)) + 1 ELSE Cardinality(PhotosOf(img, c))
<1> DEFINE more == Append(img, r)
<1>1. /\ Len(img) \in Nat /\ Len(more) = Len(img) + 1 /\ more[Len(img) + 1] = r
      /\ \A n \in 1..Len(img) : more[n] = img[n]
  OBVIOUS
<1> HIDE DEF more
<1>2. IsFiniteSet(PhotosOf(img, c)) /\ Cardinality(PhotosOf(img, c)) \in Nat
  <2>1. PhotosOf(img, c) \in SUBSET (1..Len(img)) /\ IsFiniteSet(1..Len(img))
    BY <1>1, FS_Interval DEF PhotosOf
  <2> QED
    BY <2>1, FS_Subset, FS_CardinalityType
<1>3. PhotosOf(more, c) =
        IF r.cap = c THEN PhotosOf(img, c) \cup {Len(img) + 1} ELSE PhotosOf(img, c)
  BY <1>1 DEF PhotosOf
<1>4. Len(img) + 1 \notin PhotosOf(img, c)
  BY <1>1 DEF PhotosOf
<1>5. Cardinality(PhotosOf(img, c) \cup {Len(img) + 1}) = Cardinality(PhotosOf(img, c)) + 1
  BY <1>2, <1>4, FS_AddElement
<1> QED
  BY <1>2, <1>3, <1>5 DEF more

LEMMA UploadKeeps ==
  ASSUME IInv, NEW i \in Instances, NEW c \in Captures, NEW photo \in Photos, Upload(i, c, photo)
  PROVE  IInv'
<1> DEFINE s == Recovered(caps[c])
           others == {n \in Rows(photo) : images[n].cap # c}
           status == IF others # {} THEN "DUPLICATE_EVIDENCE" ELSE "ANALYZING"
           dup == IF others # {} THEN images[Min(others)].cap ELSE None
           moved == Advanced(s, status)
           count == moved.image + 1
           next == [moved EXCEPT !.analysis = None, !.candidate = None, !.identity = None,
                                 !.digest = photo, !.image = count, !.dup = dup]
           row == [cap |-> c, digest |-> photo]
           op == IF others # {} THEN NoOp ELSE Op(c, "reading", next)
           Photo == [cap : Captures, digest : Photos]
<1>1. /\ UNCHANGED <<mode, scans, barcodes, docs, po, wire, seen>>
      /\ used' \in Counters
  BY CountFacts DEF Upload, IInv
<1>2. ~s.attempted /\ caps' = [caps EXCEPT ![c] = next] /\ images' = Append(images, row)
      /\ Does(i, op)
  BY DEF Upload
<1>3. /\ caps \in [Captures -> CaptureRow] /\ caps[c] \in CaptureRow
      /\ CaptureOK(images, c, caps[c]) /\ images \in Seq(Photo)
  BY DEF IInv, TypeOK, CapsInv
<1>4. dup \in Captures \cup {None}
  <2>1. ASSUME others # {} PROVE images[Min(others)].cap \in Captures
    <3>1. others \subseteq 1..Len(images) /\ others \subseteq Nat
      BY DEF Rows
    <3>2. Min(others) \in others
      BY <2>1, <3>1, LeastNumber
    <3>3. \A n \in 1..Len(images) : images[n] \in Photo
      <4> HIDE DEF Photo
      <4> QED
        BY <1>3
    <3>4. images[Min(others)] \in Photo
      BY <3>1, <3>2, <3>3
    <3> QED
      BY <3>4
  <2> QED
    BY <2>1
<1>5. /\ s \in CaptureRow /\ Kept(caps[c], s) /\ Agree(caps[c], s)
      /\ CaptureOK(images, c, s)
  BY <1>3, RecoveredFacts, RecoveredSound
<1>6. row \in Photo /\ row.cap = c /\ row.digest = photo
  OBVIOUS
<1>7. status \in Statuses \ {"NONE", "AWAITING_PHOTO"}
  BY DEF Statuses
<1> HIDE DEF Photo, row, dup, s, status
<1>8. /\ moved \in CaptureRow /\ moved.status = status /\ moved.version = s.version + 1
      /\ moved.attempted = s.attempted /\ moved.confirmed = s.confirmed
      /\ moved.draft = s.draft /\ moved.image = s.image
  BY <1>5, <1>7, AdvancedFacts
<1> HIDE DEF moved
<1>9. count \in Nat /\ count = caps[c].image + 1
  BY <1>3, <1>5, <1>8, CaptureFacts DEF Agree
<1> HIDE DEF count
<1>10. next \in CaptureRow
  BY <1>4, <1>8, <1>9 DEF CaptureRow
<1>11. /\ next.status = status /\ next.version = s.version + 1 /\ next.digest = photo
       /\ next.image = count /\ next.confirmed = s.confirmed /\ next.draft = s.draft
       /\ next.analysis = None /\ next.identity = None
  BY <1>8 DEF CaptureRow
<1>12. ~next.attempted
  <2>1. next.attempted = moved.attempted
    BY <1>8 DEF CaptureRow
  <2> QED
    BY <1>2, <1>8, <2>1
<1> HIDE DEF next
<1>13. s.draft = None /\ s.confirmed = None /\ caps[c].confirmed = None /\ ~caps[c].attempted
  BY <1>2, <1>5 DEF CaptureOK, Agree
<1>14. Photographed(next)
  BY <1>7, <1>11 DEF Photographed
<1>15. s.version \in Nat /\ caps[c].version \in Nat /\ caps[c].version < next.version
       /\ next.version \in Nat
  BY <1>3, <1>5, <1>11, CaptureFacts DEF Kept
<1>16. Kept(caps[c], next)
  BY <1>13, <1>14, <1>15 DEF Kept
<1>17. images' \in Seq(Photo)
  BY <1>2, <1>3, <1>6
<1>18. PhotosKept
  <2>1. \A d, x : CaptureOK(images, d, x) => CaptureOK(images', d, x)
    BY <1>2, <1>3, <1>6, AppendedSound
  <2>2. \A d, x : Owned(images, d, x) => Owned(images', d, x)
    BY <1>2, <1>3, <1>6, Appended
  <2> QED
    BY <2>1, <2>2 DEF PhotosKept
<1>19. CaptureOK(images', c, next)
  <2>1. Held(images', photo)
    BY <1>2, <1>3, <1>6, Appended
  <2> QED
    BY <1>11, <1>12, <1>13, <2>1 DEF CaptureOK
<1>20. /\ caps' \in [Captures -> CaptureRow]
       /\ \A d \in Captures : caps'[d] = IF d = c THEN next ELSE caps[d]
  BY <1>2, <1>3, <1>10
<1>21. Continued
  <2> SUFFICES ASSUME NEW d \in Captures
               PROVE  Kept(caps[d], caps'[d]) /\ CaptureOK(images', d, caps'[d])
    BY DEF Continued
  <2>1. CASE d = c
    BY <1>16, <1>19, <1>20, <2>1
  <2>2. CASE d # c
    <3>1. CaptureOK(images, d, caps[d]) /\ caps[d] \in CaptureRow
      BY <1>3 DEF IInv, CapsInv
    <3> QED
      BY <1>18, <1>20, <2>2, <3>1, KeptSame DEF PhotosKept
  <2> QED
    BY <2>1, <2>2
<1>22. /\ op \in Ops
       /\ \/ op.pc = "idle"
          \/ /\ op.pc = "reading" /\ op.cap = c /\ OpOK(op, next, images', seen[c])
  <2>1. CASE op = NoOp
    BY <2>1, NoOpFacts
  <2>2. CASE op = Op(c, "reading", next)
    <3> HIDE DEF op
    <3>1. op \in Ops /\ op.pc = "reading" /\ op.cap = c /\ op.state = next
      BY <1>10, <2>2, OpFacts DEF OpSteps
    <3>2. Agree(next, next) /\ next.version <= next.version
      BY <1>15 DEF Agree
    <3>3. OpOK(op, next, images', seen[c])
      BY <1>11, <1>13, <1>14, <1>19, <3>1, <3>2 DEF OpOK, Writing
    <3> QED
      BY <3>1, <3>3
  <2> QED
    BY <2>1, <2>2
<1> HIDE DEF op
<1>23. /\ inst' \in [Instances -> Instance] /\ inst'[i].op = op
       /\ \A j \in Instances : j # i => inst'[j] = inst[j]
  BY <1>2, <1>22, DoesFacts, CurrentOp DEF IInv
<1>24. TypeOK'
  BY <1>1, <1>17, <1>20, <1>23 DEF IInv, TypeOK, Counters, Instance, Photo
<1>25. OpsMove
  <2>1. op.pc = "idle" \/ OpOK(inst'[i].op, caps'[inst'[i].op.cap], images', seen'[inst'[i].op.cap])
    BY <1>1, <1>20, <1>22, <1>23
  <2> QED
    BY <1>23, <2>1 DEF OpsMove
<1>26. RightsMove /\ PostingsMove
  <2>1. \A d \in Captures, j \in Instances : Holds(j, d)' => Holds(j, d)
    BY <1>22, <1>23 DEF Holds
  <2> QED
    BY <1>1, <2>1 DEF RightsMove, PostingsMove, Late
<1>27. OpsInv' /\ TokenInv' /\ DocInv'
  BY <1>1, <1>18, <1>21, <1>24, <1>25, <1>26, OpsStay, TokenStays, DocStays DEF IInv
<1>28. CapsInv' /\ ScanInv'
  BY <1>1, <1>21 DEF CapsInv, ScanInv, Continued, IInv
<1>29. SeenInv'
  <2>1. \A d \in Captures : caps'[d].confirmed = caps[d].confirmed
    BY <1>11, <1>13, <1>20
  <2> QED
    BY <1>1, <1>21, <1>24, <2>1, SeenStays DEF IInv
<1>30. ImageInv'
  <2> SUFFICES ASSUME NEW d \in Captures PROVE caps'[d].image = Cardinality(PhotosOf(images', d))
    BY DEF ImageInv
  <2>1. caps[d].image = Cardinality(PhotosOf(images, d))
    BY DEF IInv, ImageInv
  <2>2. /\ Cardinality(PhotosOf(images, d)) \in Nat
        /\ Cardinality(PhotosOf(images', d)) =
             IF d = c THEN Cardinality(PhotosOf(images, d)) + 1 ELSE Cardinality(PhotosOf(images, d))
    BY <1>2, <1>3, <1>6, CountedPhotos
  <2> QED
    BY <1>9, <1>11, <1>20, <2>1, <2>2
<1> QED
  BY <1>24, <1>27, <1>28, <1>29, <1>30 DEF IInv

-----------------------------------------------------------------------------
(* The theorems. *)

LEMMA StartsSound == Init => IInv
<1> SUFFICES ASSUME Init PROVE IInv
  OBVIOUS
<1>1. /\ mode \in Modes /\ caps = [c \in Captures |-> NoCapture]
      /\ images = <<>> /\ scans = NoScans /\ barcodes = [c \in Captures |-> {}]
      /\ docs = [c \in Captures |-> NoReceipt] /\ po = 0 /\ wire = {}
      /\ inst = [i \in Instances |-> NoInstance]
      /\ seen = [c \in Captures |-> None]
      /\ used = [uploads |-> 0, edits |-> 0, faults |-> 0, crashes |-> 0]
  BY DEF Init
<1>2. caps \in [Captures -> CaptureRow] /\ \A c \in Captures : caps[c] = NoCapture
  BY <1>1, NoOpFacts
<1>3. images \in Seq([cap : Captures, digest : Photos]) /\ Len(images) = 0
  BY <1>1
<1>4. scans \in ScanTable /\ scans.conflicts = {}
  BY <1>1 DEF NoScans, ScanTable
<1>5. NoReceipt \in Receipts /\ NoReceipt.drafts = 0 /\ NoReceipt.posted = 0 /\ NoReceipt.docstatus = 0
  BY DEF NoReceipt, Receipts
<1>6. docs \in [Captures -> Receipts] /\ \A c \in Captures : docs[c] = NoReceipt
  BY <1>1, <1>5
<1>7. inst \in [Instances -> Instance] /\ \A i \in Instances : inst[i].op = NoOp
  BY <1>1, NoOpFacts
<1>8. used \in Counters
  BY <1>1 DEF Counters
<1>9. barcodes \in [Captures -> SUBSET Nat] /\ seen \in [Captures -> Sightings \cup {None}]
  BY <1>1
<1>10. TypeOK
  BY <1>1, <1>2, <1>3, <1>4, <1>6, <1>7, <1>8, <1>9 DEF TypeOK, ScanTable, Instance, Counters
<1>11. /\ NoCapture.status = "NONE" /\ ~NoCapture.attempted /\ NoCapture.draft = None
       /\ NoCapture.confirmed = None /\ NoCapture.analysis = None /\ NoCapture.identity = None
       /\ NoCapture.image = 0
  BY DEF NoCapture
<1>12. CapsInv
  BY <1>2, <1>11 DEF CapsInv, CaptureOK, Photographed
<1>13. OpsInv
  BY <1>7, NoOpFacts DEF OpsInv, OpOK
<1>14. \A i \in Instances, c \in Captures : ~Holds(i, c)
  BY <1>7, NoOpFacts DEF Holds
<1>15. TokenInv
  BY <1>1, <1>5, <1>6, <1>14 DEF TokenInv, Token, Late
<1>16. DocInv
  BY <1>1, <1>5, <1>6 DEF DocInv, DocOK
<1>17. SeenInv
  BY <1>1, <1>2, <1>11 DEF SeenInv, SeenOK, ConfirmedOK
<1>18. ScanInv
  BY <1>4 DEF ScanInv
<1>19. ImageInv
  <2>1. \A c \in Captures : PhotosOf(images, c) = {}
    BY <1>3 DEF PhotosOf
  <2> QED
    BY <1>2, <1>11, <2>1, FS_EmptySet DEF ImageInv
<1> QED
  BY <1>10, <1>12, <1>13, <1>15, <1>16, <1>17, <1>18, <1>19 DEF IInv

LEMMA NextKeeps == IInv /\ [Next]_vars => IInv'
<1> SUFFICES ASSUME IInv, [Next]_vars PROVE IInv'
  OBVIOUS
<1>1. CASE UNCHANGED vars
  <2>1. Steady
    BY <1>1, CapsSame DEF vars, IInv
  <2>2. TypeOK'
    BY <1>1 DEF IInv, TypeOK, vars
  <2> QED
    BY <1>1, <2>1, <2>2, QuietStore DEF vars
<1>2. CASE \E c \in Captures : Create(c) \/ Look(c) \/ LeaseEnds(c) \/ Recover(c) \/ Barcode(c)
  BY <1>2, CreateKeeps, LookKeeps, LeaseEndsKeeps, RecoverKeeps, BarcodeKeeps
<1>3. CASE \E i \in Instances : Step(i)
  BY <1>3, ReadPhotoKeeps, ClaimDraftKeeps, LookupDraftKeeps, PostDraftKeeps, ReadDraftKeeps,
     ClaimSubmitKeeps, PostSubmitKeeps, VerifySubmitKeeps DEF Step
<1>4. CASE \E i \in Instances : Worker(i) \/ Crash(i)
  BY <1>4, ReconcileNextKeeps, PrepareNextKeeps, CrashKeeps DEF Worker
<1>5. CASE \E i \in Instances, c \in Captures : Draft(i, c) \/ Submit(i, c)
  BY <1>5, DraftKeeps, SubmitKeeps
<1>6. CASE \E i \in Instances, c \in Captures, photo \in Photos : Upload(i, c, photo)
  BY <1>6, UploadKeeps
<1>7. CASE \E i \in Instances, c \in Captures : \E e \in barcodes[c] \cup {None} : ConfirmIdentity(i, c, e)
  BY <1>7, ConfirmIdentityKeeps
<1>8. CASE \E e \in Events, p \in Payloads : Scan(e, p)
  BY <1>8, ScanKeeps
<1>9. CASE \E m \in wire : Arrive(m)
  BY <1>9, ArriveKeeps
<1>10. CASE EditOrder
  BY <1>10, EditOrderKeeps
<1>11. CASE \E c \in Captures, same \in BOOLEAN : EditDraft(c, same)
  BY <1>11, EditDraftKeeps
<1> QED
  BY <1>1, <1>2, <1>3, <1>4, <1>5, <1>6, <1>7, <1>8, <1>9, <1>10, <1>11 DEF Next

(* The invariant holds in every reachable state: copies, claims, late      *)
(* requests, receipts and sightings stay consistent with the store.        *)
THEOREM Invariance == Spec => []IInv
  BY StartsSound, NextKeeps, PTL DEF Spec

(* Every variable keeps to its type. *)
THEOREM TypeCorrect == Spec => []TypeOK
<1>1. IInv => TypeOK
  BY DEF IInv
<1> QED
  BY <1>1, Invariance, PTL

(* draft_attempted and submit_attempted, claimed by version before the     *)
(* write, allow one draft and one posting per capture, and the first-owner *)
(* rule of capture_images one receipt per photo, whatever crashes, fails   *)
(* or arrives late.                                                        *)
THEOREM OneReceipt == Spec => []OneReceiptPerPhoto
<1>1. IInv => OneReceiptPerPhoto
  <2> SUFFICES ASSUME IInv PROVE OneReceiptPerPhoto
    OBVIOUS
  <2>1. ASSUME NEW c \in Captures PROVE docs[c].drafts <= 1 /\ docs[c].posted <= 1
    <3>1. docs[c].drafts <= 1 /\ docs[c].posted = docs[c].docstatus
      BY DEF IInv, TokenInv, Token, DocInv, DocOK
    <3>2. docs[c].docstatus \in {0, 1}
      BY DEF IInv, TypeOK, Receipts
    <3> QED
      BY <3>1, <3>2
  <2>2. ASSUME NEW c \in Captures, NEW d \in Captures, c # d, caps[c].attempted, caps[d].attempted
        PROVE  caps[c].digest # caps[d].digest
    <3>1. Owned(images, c, caps[c].digest) /\ Owned(images, d, caps[d].digest)
      BY <2>2 DEF IInv, CapsInv, CaptureOK
    <3>2. Len(images) \in Nat
      BY DEF IInv, TypeOK
    <3> QED
      BY <2>2, <3>1, <3>2, OneOwner
  <2> QED
    BY <2>1, <2>2 DEF OneReceiptPerPhoto
<1> QED
  BY <1>1, Invariance, PTL

(* Stock moves only for a receipt that was confirmed, the confirmation had *)
(* every input then in the store in view, and what a capture says is about *)
(* the last photo uploaded for it.                                         *)
THEOREM ConfirmedAsSeen == Spec => []ConfirmedWhatWasSeen
<1>1. IInv => ConfirmedWhatWasSeen
  <2> SUFFICES ASSUME IInv, NEW c \in Captures
               PROVE  /\ docs[c].posted > 0 => caps[c].confirmed # None
                      /\ caps[c].confirmed # None =>
                           /\ seen[c].inputs = caps[c].confirmed.inputs
                           /\ seen[c].image = caps[c].image
                      /\ caps[c].image = Cardinality({n \in 1 .. Len(images) : images[n].cap = c})
                      /\ caps[c].analysis # None => caps[c].analysis.image = caps[c].image
                      /\ caps[c].identity # None => caps[c].identity.image = caps[c].image
    BY DEF ConfirmedWhatWasSeen
  <2>1. docs[c].posted > 0 => caps[c].confirmed # None
    BY DEF IInv, DocInv, DocOK
  <2>2. ConfirmedOK(c) /\ CaptureOK(images, c, caps[c])
    BY DEF IInv, SeenInv, CapsInv
  <2>3. caps[c].image = Cardinality({n \in 1 .. Len(images) : images[n].cap = c})
    BY DEF IInv, ImageInv, PhotosOf
  <2> QED
    BY <2>1, <2>2, <2>3 DEF ConfirmedOK, CaptureOK
<1> QED
  BY <1>1, Invariance, PTL

===============================================================================
