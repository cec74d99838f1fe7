----------------------------- MODULE MCDispatch ----------------------------
(* Small instance of Dispatch.                                             *)
EXTENDS Dispatch

CONSTANTS t1, t2, r1, r2

\* Tasks and start requests are interchangeable, and a task that nobody starts may as well be
\* there from the beginning and stay: the tasks are submitted first, the first start is
\* called r1 and its task t1, and t2 is stopped only if it is not left over.  Submitting,
\* starting and stopping are not subject to fairness.
InOrder ==
  /\ start' # start \/ stop' # stop => \A t \in Tasks : state[t] # "none"
  /\ start'[r2] # "none" => start'[r1] # "none"
  /\ target'[r1] # t2
  /\ stop'[t2] # "none" => target'[r2] # t1
=============================================================================
