---------------------------- MODULE MCProcesses ----------------------------
(* Instances of module Processes.                                          *)
EXTENDS Processes

(* Any process may make a blocking call.                                   *)
AllCall == PCB

(* Results and the arguments of calls that are over guide no step.         *)
ModuloPast == <<placeVars, timer_list, fault, familyVars, pcb_free, pcbptr_free, zombie_list,
                [p \in InWait |-> syscall[p].arg]>>
=============================================================================
