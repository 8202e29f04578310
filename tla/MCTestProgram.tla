---------------------------- MODULE MCTestProgram ----------------------------
(* The test program with shorter sleeps.                                   *)
EXTENDS TestProgram

NoTimes == {}
NoRequests == {}
AllCall == PCB

(* The consumer sleeps longer than the producer: 40 and 35 ticks in the    *)
(* code.                                                                   *)
MCSleepOf(p) == IF p = 2 THEN 2 ELSE 1
=============================================================================
