------------------------------- MODULE MCSched ------------------------------
(* Model-checking instances of Sched: two CPUs and four processes, so both *)
(* CPUs have a pair of processes to alternate between.                     *)
EXTENDS Sched

CONSTANTS p1, p2, p3, p4, idle0, idle1

MCProcesses == <<p1, p2, p3, p4>>
MCIdle == [c \in Cpu |-> IF c = 0 THEN idle0 ELSE idle1]
=============================================================================
