-------------------------- MODULE MCAmbiguousCase --------------------------
(* Two source tools stand for the five, one specialist for the three.      *)
EXTENDS AmbiguousCase

Case == [roles |-> FALSE, variants |-> {"uncommitted_receipt"}, runs |-> 2,
         conversations |-> 0, asks |-> 0, refusals |-> FALSE, managers |-> {"m1"},
         executions |-> 1, resets |-> 0, crashes |-> 0]

MCModes ==
  { [Case EXCEPT !.variants = {"uncommitted_receipt", "supplier_hold"}, !.runs = 1,
                 !.managers = {"m1", "m2"}, !.executions = 2, !.resets = 1],
    [Case EXCEPT !.variants = {"uncommitted_receipt", "supplier_hold"}, !.resets = 1],
    [Case EXCEPT !.variants = Variants, !.runs = 1],
    [Case EXCEPT !.roles = TRUE, !.crashes = 1],
    [Case EXCEPT !.runs = 0, !.roles = TRUE, !.conversations = 2, !.asks = 3, !.crashes = 1],
    [Case EXCEPT !.runs = 1, !.conversations = 2, !.asks = 3, !.refusals = TRUE, !.resets = 1] }
=============================================================================
