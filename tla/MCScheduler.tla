---------------------------- MODULE MCScheduler ----------------------------
(* Instances of Scheduler for TLC. *)
EXTENDS Scheduler

CONSTANTS kernel, p1, t1, t2

(* Every thread belongs to the kernel, like those main.rs starts. *)
KernelThreads == [t \in Thread |-> kernel]

(* Two threads of one user process. *)
OneProc == [t \in Thread |-> p1]

(* A thread of a user process and a kernel thread, which may terminate it. *)
UserAndKernel == [t \in Thread |-> IF t = t1 THEN p1 ELSE kernel]
=============================================================================
