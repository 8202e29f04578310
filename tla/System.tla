------------------------------- MODULE System -------------------------------
(***************************************************************************)
(* The whole kernel: the calls of Processes and Resources and those of     *)
(* Semaphores on one scheduler.  What is new here is what one component    *)
(* does to the other's state: PCB_alloc starts the numbers of semaphore    *)
(* descriptors from 0 and leaves the list of those the block's last owner  *)
(* had open; exit closes no semaphore; a process that waits at a semaphore *)
(* has status Waiting as one that waits for a child has, and is told from  *)
(* it by the call it made.                                                 *)
(***************************************************************************)
EXTENDS Semaphores, Resources

sysAll == <<resAll, semVars>>

(***************************************************************************)
(* PCB_alloc, as far as the semaphores go.                                 *)
(* The operators named ..._mutant are plausible wrong versions of the one  *)
(* that follows them; no specification uses them.                          *)
(***************************************************************************)
NewPCBSemaphores_mutant ==
  /\ last_sem_fd' = [last_sem_fd EXCEPT ![Head(pcb_free)] = 0]
  /\ sem_descriptors' = [sem_descriptors EXCEPT ![Head(pcb_free)] = <<>>]
  /\ UNCHANGED <<semaphores_list, sem, sd, sdp_free, poolVars>>

NewPCBSemaphores ==
  /\ last_sem_fd' = [last_sem_fd EXCEPT ![Head(pcb_free)] = 0]
  /\ UNCHANGED <<semaphores_list, sem, sem_descriptors, sd, sdp_free, poolVars>>

SysCreate == ResCreate /\ NewPCBSemaphores

SysSemCall == ProcUser /\ SemCall /\ Called(OtherCall) /\ UNCHANGED <<tableVars, resVars>>

SysRest == (ResCall \/ ResExit \/ ResKept) /\ UNCHANGED semVars

SysInit == ProcInit /\ ResInit /\ SemTablesInit

SysNext == SysCreate \/ SysSemCall \/ SysRest

SysSpec == SysInit /\ [][SysNext]_sysAll

-----------------------------------------------------------------------------
(* The processes the scheduler's lists hold.                               *)
Held == Elements(ready_list) \cup waiting_list \cup zombie_list

(***************************************************************************)
(* A process the lists hold has status Waiting exactly when it is on the   *)
(* waiting list.  A hand-off, a wait and a block leave the status of the   *)
(* process that runs next as it was; every handler that takes the          *)
(* processor from it must set it.                                          *)
(***************************************************************************)
StatusTruth == \A p \in Held : status[p] = "Waiting" <=> p \in waiting_list

(***************************************************************************)
(* Who is on the waiting list waits for one thing: a timer, one place in   *)
(* the queue of one semaphore, or what exit takes for a wait for a child.  *)
(* Each of the three handlers that wake looks at its own thing only.       *)
(***************************************************************************)
TimersOf(p) == Cardinality({i \in 1..Len(timer_list) : timer_list[i].pcb = p})
PlacesOf(p) == Cardinality({q \in Pairs(SEM, QueueLen) : Waiters(q[1])[q[2]] = p})
AwaitsChild(p) == status[p] = "Waiting" /\ syscall[p].num = "wait"

OneReasonToWait ==
  \A p \in Held :
    TimersOf(p) + PlacesOf(p) + (IF AwaitsChild(p) THEN 1 ELSE 0)
      = IF p \in waiting_list THEN 1 ELSE 0
=============================================================================
