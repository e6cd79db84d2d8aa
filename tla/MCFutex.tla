------------------------------ MODULE MCFutex ------------------------------
(* Instances of Futex for TLC. *)
EXTENDS Futex

CONSTANTS kernel, p1, t1, t2, t3

(* All threads belong to one process. *)
OneProc == [t \in Thread |-> kernel]
=============================================================================
