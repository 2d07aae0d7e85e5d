--------------------------- MODULE OneInvoicePerBill ---------------------------
(***************************************************************************)
(* What the supplier-bill journal promises, without requests, approvals or *)
(* a network: one insert is asked for, then at most one submit, of the one *)
(* invoice whose name is known; the ERP acts only after it was asked, and  *)
(* the journal learns only what the ERP did.                               *)
(***************************************************************************)
VARIABLES
  asked,     \* "nothing", "insert", "submit": what was ever sent to the ERP
  invoice,   \* "none", "draft", "submitted", "deleted": what the ERP holds
  known      \* "nothing", "draft", "submitted": what the journal admitted

billVars == <<asked, invoice, known>>

Init == asked = "nothing" /\ invoice = "none" /\ known = "nothing"

AskInsert ==
  /\ asked = "nothing"
  /\ asked' = "insert"
  /\ UNCHANGED <<invoice, known>>

Create ==
  /\ asked = "insert" /\ invoice = "none"
  /\ invoice' = "draft"
  /\ UNCHANGED <<asked, known>>

LearnDraft ==
  /\ known = "nothing" /\ invoice # "none"
  /\ known' = "draft"
  /\ UNCHANGED <<asked, invoice>>

AskSubmit ==
  /\ asked = "insert" /\ known = "draft"
  /\ asked' = "submit"
  /\ UNCHANGED <<invoice, known>>

Submit ==
  /\ asked = "submit" /\ invoice = "draft"
  /\ invoice' = "submitted"
  /\ UNCHANGED <<asked, known>>

Delete ==
  /\ invoice = "draft"
  /\ invoice' = "deleted"
  /\ UNCHANGED <<asked, known>>

LearnSubmitted ==
  /\ known = "draft" /\ invoice = "submitted"
  /\ known' = "submitted"
  /\ UNCHANGED <<asked, invoice>>

Next == AskInsert \/ Create \/ LearnDraft \/ AskSubmit \/ Submit \/ Delete \/ LearnSubmitted

Spec == Init /\ [][Next]_billVars

=============================================================================
