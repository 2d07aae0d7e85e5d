----------------------- MODULE MCAutomaticInvestigation -----------------------
(***************************************************************************)
(* Consoles with and without writes to the ERP, with and without an        *)
(* operator who enables the automation.                                    *)
(***************************************************************************)
EXTENDS AutomaticInvestigation

State(rev, linked, up, celigo) ==
  [rev |-> rev, linked |-> linked, up |-> up, celigo |-> celigo]

\* Two revisions of agreeing records, the second with or without the
\* integration receipt; the first may be out of reach, the second may disagree.
AnySource ==
  {State(0, TRUE, TRUE, FALSE), State(0, TRUE, FALSE, FALSE), State(1, FALSE, TRUE, FALSE)}
    \cup {State(1, TRUE, TRUE, celigo) : celigo \in BOOLEAN}

\* Evidence that changes and changes back.
ChangingSource == {State(rev, TRUE, TRUE, FALSE) : rev \in {0, 1}}

\* A console that writes to the ERP, one that investigates by itself, and one
\* that does both.
Writing(scoped, hold) ==
  [executor |-> TRUE, offline |-> TRUE, enables |-> 0, scoped |-> scoped, hold |-> hold,
   sources |-> AnySource, restarts |-> 1]

Automatic ==
  [executor |-> FALSE, offline |-> FALSE, enables |-> 2, scoped |-> FALSE, hold |-> TRUE,
   sources |-> ChangingSource, restarts |-> 1]

Both ==
  [Automatic EXCEPT !.executor = TRUE, !.enables = 1, !.restarts = 0,
                    !.sources = {State(0, TRUE, TRUE, FALSE)}]

MCDeployments == {Writing(TRUE, TRUE), Writing(FALSE, FALSE), Automatic, Both}

=============================================================================
