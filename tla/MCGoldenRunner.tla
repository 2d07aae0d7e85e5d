---------------------------- MODULE MCGoldenRunner ----------------------------
(* GoldenRunner for TLC: the golden script, and free recoveries of one case. *)
EXTENDS GoldenRunner

CONSTANTS w1, a1, a2, x1, x2, x3, k1, k2, k3, operator, approver, ev0, ev1

MCRoleOf == [p \in {operator, approver} |->
               IF p = operator THEN "INTEGRATION_OPERATOR" ELSE "AP_APPROVER"]

Req(a, x, k, p, tool) ==
  [auth |-> a, exec |-> x, key |-> k, principal |-> p,
   params |-> [tool |-> tool, revision |-> 1]]

\* Free recoveries: the receipt, perhaps authorised a second time after fresh
\* evidence, then the invoice.
MCRequests ==
  { Req(a1, x1, k1, operator, Receipt), Req(a2, x2, k2, operator, Receipt),
    Req(a2, x2, k2, approver, Invoice) }

\* The main path of the suite, and every manifest that differs from it in at
\* most two fields: the sixteen and their neighbours.
Main == [fixture |-> "lock", workflow |-> "FULL_RESOLUTION", hook |-> "NONE",
         reuse |-> "NONE", tampered |-> FALSE, rejects |-> FALSE, admits |-> FALSE,
         early |-> FALSE, receiptBy |-> operator, invoiceBy |-> approver]

Changed(m) == { f \in DOMAIN Main : m[f] # Main[f] }
MCManifests == { m \in ManifestType : Cardinality(Changed(m)) <= 2 } \union {NoManifest}

=============================================================================
