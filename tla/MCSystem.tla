------------------------------ MODULE MCSystem ------------------------------
(* Instances of module System.                                             *)
EXTENDS System

(* Any process may make a blocking call.                                   *)
AllCall == PCB

(* One resource created, opened to read, opened alone, taken for another   *)
(* type; and two that are only created and destroyed: with the first they  *)
(* are one more than the pool has room for, and a create can find a        *)
(* Resource block and no Descriptor.                                       *)
Requests == {[id |-> 1, type |-> 0, mode |-> 1], [id |-> 1, type |-> 0, mode |-> 2],
             [id |-> 1, type |-> 0, mode |-> 6], [id |-> 1, type |-> 1, mode |-> 2],
             [id |-> 2, type |-> 0, mode |-> 1], [id |-> 3, type |-> 0, mode |-> 1]}

(* The programs of one behaviour use semaphores or resources, not both; a  *)
(* process sleeps only beside the semaphores of the first init.            *)
UsesResources == \E r \in RES : res[r].id # 0
UsesSemaphores == \E s \in SEM : sem[s].id # 0
Focus ==
  /\ UsesResources => ~UsesSemaphores
  /\ timer_list # <<>> => ~UsesResources /\ init_pcb = 1

MCSpec == SysInit /\ [][SysNext /\ Focus']_sysAll

(***************************************************************************)
(* What no step reads any more: results, the calls of those whose status   *)
(* is not Waiting, the pids (the programs wait for any child), most of     *)
(* what zombies and free PCBs held, the content of free blocks that no     *)
(* list holds, the order of the list of resources, whose numbers are       *)
(* distinct; resources 2 and 3 play the same part.  A crash changes        *)
(* nothing but fault: the states that end in one way count as one.         *)
(***************************************************************************)
Listings == UNION {Elements(sem[s].descriptors) : s \in SEM}

Present ==
  <<placeVars, timer_list, init_pcb, children, last_pid, made, pcb_free, pcbptr_free,
    zombie_list, UsesSemaphores, UsesResources,
    semaphores_list, sem_free, sem_descriptors, sd_free, sdp_free,
    res_pool, des_pool, ptr_pool,
    [r \in Elements(resources_list) |-> [res[r] EXCEPT !.id = IF @ = 3 THEN 2 ELSE @]],
    [p \in {q \in PCB : status[q] = "Waiting"} |-> syscall[p]],
    [p \in Alive |->
       <<parent[p], last_sem_fd[p], last_fd[p],
         [i \in 1..Len(descriptors[p]) |-> <<descriptors[p][i], des[descriptors[p][i]]>>]>>],
    [s \in Elements(semaphores_list) |-> sem[s]],
    [s \in Elements(sem_free) |-> sem[s].waiting_descriptors],
    [d \in (SD \ Elements(sd_free)) \cup Listings |-> sd[d]]>>

ModuloPast == IF fault = "none" THEN <<Present>> ELSE <<fault>>
=============================================================================
