---------------------------- MODULE MCSemaphores ----------------------------
(* Instances of module Semaphores.                                         *)
EXTENDS Semaphores

(* The last process never makes a blocking call.                           *)
MCCallers == 1..(MAX_NUM_PROCESSES - 1)
AllCall == PCB

(* A number that is refused and two that are not, as many as the pool has  *)
(* blocks; counts, of which none is refused.                               *)
AnyNums == {-1, 0, 1}
AnyCounts == {-1, 0, 1}

(* No guard reads a result, so states that differ by the results stored in *)
(* the PCBs alone have the same successors.                                *)
ModuloResults == <<placeVars, timer_list, fault, semVars>>
=============================================================================
