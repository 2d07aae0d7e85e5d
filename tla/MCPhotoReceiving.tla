-------------------------- MODULE MCPhotoReceiving --------------------------
(* Bounds of photo receiving for TLC. *)
EXTENDS PhotoReceiving

Base == [instances |-> Instances, captures |-> {1}, photos |-> {"a"}, uploads |-> 1,
         kinds |-> {"matching"}, leases |-> FALSE, scans |-> {}, barcodes |-> FALSE,
         auto |-> FALSE, edits |-> 0, unfit |-> {}, faults |-> 0, crashes |-> 0]

MCModes == {
    \* retakes while an earlier photo is still being read, and scans meanwhile
    [Base EXCEPT !.uploads = 3, !.leases = TRUE, !.photos = {"a", "b"}, !.scans = {1},
                 !.kinds = {"matching", "unlabelled", "unclear", "damaged"}],
    \* one photo for two captures, on two instances
    [Base EXCEPT !.uploads = 3, !.captures = {1, 2}],
    \* uncertain writes of two captures under one worker
    [Base EXCEPT !.uploads = 2, !.captures = {1, 2}, !.photos = {"a", "b"}, !.instances = {"i"},
                 !.auto = TRUE, !.faults = 2],
    \* scans, a disputed event and edits against a confirmation
    [Base EXCEPT !.scans = {1, 2}, !.edits = 1, !.unfit = {2}],
    \* barcodes for a missing label
    [Base EXCEPT !.kinds = {"unlabelled"}, !.barcodes = TRUE, !.edits = 2, !.unfit = {2}],
    \* crashes and lost, late or repeated requests on two instances
    [Base EXCEPT !.faults = 2, !.crashes = 2, !.auto = TRUE, !.scans = {1}]}
=============================================================================
