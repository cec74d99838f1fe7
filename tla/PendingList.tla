---------------------------- MODULE PendingList ----------------------------
(***************************************************************************)
(* What the ring of pending tasks promises to the queue that holds it: a   *)
(* list in submission order, from which any task can be taken.  The ring   *)
(* of PendingRing.tla implements it.                                       *)
(***************************************************************************)
EXTENDS Naturals, Sequences

CONSTANTS
  Tasks,
  NoTask

VARIABLES
  pending,   \* the pending tasks, oldest first
  taken      \* the task handed out last

listVars == <<pending, taken>>

\* The list s without its k-th task.
Without(s, k) == [i \in 1 .. Len(s) - 1 |-> IF i < k THEN s[i] ELSE s[i + 1]]

Init == pending = << >> /\ taken = NoTask

Submit(t) == pending' = Append(pending, t) /\ UNCHANGED taken

\* The k-th task is handed out, to start or to be cancelled.
Remove(k) == pending' = Without(pending, k) /\ taken' = pending[k]

Next ==
  \/ \E t \in Tasks : Submit(t)
  \/ \E k \in DOMAIN pending : Remove(k)

Spec == Init /\ [][Next]_listVars
=============================================================================
