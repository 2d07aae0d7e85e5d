--------------------------- MODULE OnceOnlySettlement ---------------------------
(***************************************************************************)
(* What the recovery core promises, without calls, grants or databases:    *)
(* each of the two actions (restart the receipt message, release the       *)
(* invoice) is tried at most once per case, is posted at most once, and is *)
(* reported successful only when it has been posted; the receipt is never  *)
(* tried after the invoice; the case closes with the invoice's success.    *)
(***************************************************************************)
EXTENDS CaseLifecycle

VARIABLES
  posted,    \* tool -> "no", "local" (by the executor) or "external"
  outcome,   \* tool -> "open", "reserved", "success" or "failed"
  closed

settled == <<posted, outcome, closed>>

Init ==
  /\ posted = [t \in Tools |-> "no"]
  /\ outcome = [t \in Tools |-> "open"]
  /\ closed = FALSE

Reserve(t) ==
  /\ outcome[t] = "open"
  /\ \A u \in Tools : outcome[u] \notin {"reserved", "failed"}
  /\ t = Receipt => outcome[Invoice] = "open"
  /\ outcome' = [outcome EXCEPT ![t] = "reserved"]
  /\ UNCHANGED <<posted, closed>>

\* A call that raced a failed one may still commit: the effect is real, the
\* outcome stays failed.
PostLocal(t) ==
  /\ posted[t] = "no"
  /\ outcome[t] \in {"reserved", "failed"}
  /\ posted' = [posted EXCEPT ![t] = "local"]
  /\ UNCHANGED <<outcome, closed>>

PostExternal(t) ==
  /\ posted[t] = "no"
  /\ posted' = [posted EXCEPT ![t] = "external"]
  /\ UNCHANGED <<outcome, closed>>

Succeed(t) ==
  /\ outcome[t] = "reserved"
  /\ posted[t] # "no"
  /\ t = Invoice => posted[Receipt] # "no"
  /\ outcome' = [outcome EXCEPT ![t] = "success"]
  /\ closed' = (t = Invoice)
  /\ UNCHANGED posted

Fail(t) ==
  /\ outcome[t] = "reserved"
  /\ outcome' = [outcome EXCEPT ![t] = "failed"]
  /\ UNCHANGED <<posted, closed>>

Next == \E t \in Tools :
  Reserve(t) \/ PostLocal(t) \/ PostExternal(t) \/ Succeed(t) \/ Fail(t)

Spec == Init /\ [][Next]_settled

=============================================================================
