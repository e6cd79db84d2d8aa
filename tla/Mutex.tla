------------------------------- MODULE Mutex -------------------------------
(***************************************************************************)
(* What a lock promises its users, whatever it is made of: it has at most  *)
(* one holder, and a thread that asked for it either waits or holds it.    *)
(***************************************************************************)
EXTENDS FiniteSets

CONSTANTS Thread, Lock

VARIABLES
  holders,  \* threads inside the critical section of each lock
  waiting   \* threads that asked for each lock and do not hold it yet

vars == <<holders, waiting>>

Init ==
  /\ holders = [l \in Lock |-> {}]
  /\ waiting = [l \in Lock |-> {}]

(* The threads that have nothing to do with any lock. *)
Free == {t \in Thread : \A l \in Lock : t \notin holders[l] \cup waiting[l]}

(* Take a lock that nobody holds, at once or after waiting. *)
Acquire(t, l) ==
  /\ t \in Free \cup waiting[l]
  /\ holders[l] = {}
  /\ holders' = [holders EXCEPT ![l] = {t}]
  /\ waiting' = [waiting EXCEPT ![l] = @ \ {t}]

Request(t, l) ==
  /\ t \in Free
  /\ waiting' = [waiting EXCEPT ![l] = @ \cup {t}]
  /\ UNCHANGED holders

Release(t, l) ==
  /\ t \in holders[l]
  /\ holders' = [holders EXCEPT ![l] = @ \ {t}]
  /\ UNCHANGED waiting

Next ==
  \E t \in Thread, l \in Lock : Acquire(t, l) \/ Request(t, l) \/ Release(t, l)

Spec == Init /\ [][Next]_vars
=============================================================================
