----------------------------- MODULE MCBillingSource -----------------------------
(***************************************************************************)
(* Pages of two, at most three pages and four documents, six names: lists  *)
(* that end on a full page, lists that reach either limit, and documents   *)
(* of every kind that bears on the bill, before, between and after the     *)
(* pages.                                                                  *)
(***************************************************************************)
EXTENDS BillingSource

MCNames == 1..6

Bill == [link |-> "row", lines |-> 1, po |-> "row", ref |-> "bill", status |-> 0,
         return |-> FALSE, fits |-> TRUE, rev |-> 0]
Unrelated == [Bill EXCEPT !.link = "other", !.ref = "other"]
Order40 == [Bill EXCEPT !.ref = "other", !.status = 1]

PlainReceipt == [return |-> FALSE, against |-> "none", child |-> "row"]
ReturnReceipt == [return |-> TRUE, against |-> "target", child |-> "row"]

Kinds ==
    {Bill, Unrelated, Order40,
     [Bill EXCEPT !.status = 1],
     [Bill EXCEPT !.link = "receipt"],
     [Bill EXCEPT !.lines = 2],
     [Bill EXCEPT !.po = "other"],
     [Bill EXCEPT !.po = "undeclared"],
     [Bill EXCEPT !.return = TRUE, !.status = 1],
     [Bill EXCEPT !.fits = FALSE],
     [Bill EXCEPT !.status = 2, !.ref = "other"],
     [Unrelated EXCEPT !.link = "unknown"]}

ReturnKinds ==
    {PlainReceipt, ReturnReceipt,
     [ReturnReceipt EXCEPT !.against = "none"],
     [ReturnReceipt EXCEPT !.against = "none", !.child = "undeclared"],
     [ReturnReceipt EXCEPT !.against = "other", !.child = "other"]}

MCNewInvoices == {[d EXCEPT !.rev = 1] : d \in {Unrelated, Order40, Bill}}
MCNewReceipts == {PlainReceipt, ReturnReceipt}

Proposal == [fits |-> TRUE, body |-> 0, pinned |-> FALSE, time |-> 0]

Fitting == [fits |-> TRUE, rev |-> 0]

ERP(invoices, receipts) ==
    [order |-> Fitting, target |-> Fitting, mapper |-> Proposal,
     invoice |-> [n \in Names |-> IF n \in DOMAIN invoices THEN invoices[n] ELSE None],
     receipt |-> [n \in Names |-> IF n \in DOMAIN receipts THEN receipts[n] ELSE None]]

(* What the journal froze: nothing, or the request prepared on the ERP e,  *)
(* when no invoice that concerns the bill existed yet.                     *)
Preparing == [request |-> None, source |-> None, draft |-> None, rev |-> 0]

Inserting(e) ==
    [Preparing EXCEPT !.request = Proposal,
        !.source = [order |-> 0, receipt |-> 0,
                    invoices |-> {<<n, Unrelated>> :
                                     n \in {x \in Names : e.invoice[x] = Unrelated}},
                    receipts |-> {<<n, PlainReceipt>> :
                                     n \in {x \in Names : e.receipt[x] = PlainReceipt}}]]

At(names, d) == [n \in names |-> d]

(* Two documents of any two kinds, read undisturbed. *)
AnyTwo ==
    {[enterprise |-> ERP(<<x, y>>, <<r>>), stored |-> Preparing, edits |-> 0] :
        x \in Kinds, y \in Kinds, r \in ReturnKinds}

(* Lists of every length around the page and document limits, the last one *)
(* of them on the receipt line or not, with two edits during the read.     *)
Lists ==
    UNION {LET e == ERP([At(k..5, Unrelated) EXCEPT ![5] = d], At(2..m, PlainReceipt))
           IN  {[enterprise |-> e, stored |-> st, edits |-> 2] :
                  st \in {Inserting(e)} \cup (IF d = Order40 THEN {Preparing} ELSE {})} :
             k \in 1..5, d \in {Unrelated, Order40}, m \in {1, 2, 4}}
    \cup
    LET e == ERP(<<>>, <<PlainReceipt>>)
    IN  {[enterprise |-> e, stored |-> st, edits |-> 2] :
           st \in {Preparing, [Inserting(e) EXCEPT !.request.pinned = TRUE]}}

(* The acknowledged draft among others. *)
Submitting ==
    {LET e == ERP([At(k..4, Unrelated) EXCEPT ![k] = Bill], At(2..m, PlainReceipt))
     IN  [enterprise |-> e, stored |-> [Inserting(e) EXCEPT !.draft = k], edits |-> 2] :
        k \in 2..4, m \in 1..2}

MCModes == AnyTwo \cup Lists \cup Submitting
================================================================================
