------------------------ MODULE MCExperimentSession ------------------------
(* Two sources, one principal of each role.  Each session fixes the        *)
(* configuration and the trouble it meets.                                 *)
EXTENDS ExperimentSession

MCRoleOf == [p \in Principals |->
               IF p = "operator" THEN "INTEGRATION_OPERATOR" ELSE "AP_APPROVER"]

Session == [auto |-> TRUE, live |-> FALSE, chat |-> FALSE, early |-> FALSE,
            tools |-> {Restart}, expire |-> {}, workers |-> {"w1"}, crashes |-> 1, faults |-> 0]

MCModes ==
  { [Session EXCEPT !.tools = Tools],                        \* the whole recovery, one crash
    [Session EXCEPT !.tools = Tools, !.early = TRUE, !.crashes = 0],
    [Session EXCEPT !.workers = {"w1", "w2"}],               \* two execution threads
    [Session EXCEPT !.workers = {"w1", "w2"}, !.faults = 1, !.crashes = 0],
    [Session EXCEPT !.faults = 1, !.expire = {Restart}],     \* a failed write, an expiry
    [Session EXCEPT !.auto = FALSE, !.chat = TRUE],          \* chat before the investigation
    [Session EXCEPT !.auto = FALSE, !.chat = TRUE, !.live = TRUE] }

=============================================================================
