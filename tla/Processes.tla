----------------------------- MODULE Processes -----------------------------
(***************************************************************************)
(* The life of processes: the init process is booted, a process spawns or  *)
(* forks children, waits for one of them, exits, or just returns from its  *)
(* function, which boots the system again over what is there.              *)
(*                                                                         *)
(* Data abstractions.                                                      *)
(*  - A freed PCB keeps its content, as the block of the pool does; the    *)
(*    free list is the stack PoolAllocator keeps.                          *)
(*  - A PCBPtr holds one pointer to a PCB, so children is the sequence of  *)
(*    the PCBs; their pool is the number of free blocks.                   *)
(*  - Two PCBs on the lists never have one pid, so PCBPtr_byPID compares   *)
(*    blocks here; wait compares pids, as its argument is a pid.           *)
(*  - zombie_list is a set: its order is only ever printed.                *)
(*  - Of syscall_num and syscall_args, which every call stores in its      *)
(*    caller's PCB, the exit of another process reads whether it was a     *)
(*    wait, and for whom: "syscall" keeps that of the last call.           *)
(*  - Signals are set and never read; exit values are left out.            *)
(***************************************************************************)
EXTENDS Scheduler

CONSTANTS
  WaitArgs,  \* the pids the programs give to disastrOS_wait, 0 for any child
  MaxPid     \* bound of the model: processes created in the life of the system

ASSUME ProcAssumption == WaitArgs \subseteq Int /\ MaxPid \in Nat \ {0}

VARIABLES
  init_pcb,     \* the PCB orphans go to
  pcb_free,     \* Seq(PCB), the free list of the PCB pool
  pcbptr_free,  \* free blocks of the PCBPtr pool
  last_pid,     \* the next pid
  pid,          \* [PCB -> Nat], the field PCB.pid
  parent,       \* [PCB -> PCB or NULL], the field PCB.parent
  children,     \* [PCB -> Seq(PCB)], the field PCB.children
  syscall,      \* [PCB -> [num, arg]], the last call of each process
  zombie_list,  \* SUBSET PCB
  made          \* the PCBs whose cpu_state has been filled

familyVars == <<init_pcb, pid, parent, children, last_pid, made>>
tableVars == <<familyVars, pcb_free, pcbptr_free, zombie_list>>
procVars == <<familyVars, pcb_free, pcbptr_free, syscall, zombie_list>>
procAll == <<schedVars, procVars>>

EWAIT == -5
WaitFor(arg) == [num |-> "wait", arg |-> arg]
OtherCall == [num |-> "other", arg |-> 0]

(***************************************************************************)
(* The operators named ..._mutant are plausible wrong versions of the one  *)
(* that follows them; no specification uses them.                          *)
(*                                                                         *)
(* disastrOS_syscall stores the number and the argument of the call.       *)
(***************************************************************************)
Called_mutant(call) ==
  syscall' = IF call = OtherCall THEN syscall ELSE [syscall EXCEPT ![running] = call]

Called(call) == syscall' = [syscall EXCEPT ![running] = call]

(* The process that runs has a context to run from.                        *)
ProcUser == UserMode /\ running \in made

-----------------------------------------------------------------------------
(***************************************************************************)
(* PCB_alloc of the head of the free list.  The block's parent is set by   *)
(* the caller; sem_descriptors, which it forgets, is not modelled here.    *)
(***************************************************************************)
PCB_alloc_mutant(father) ==
  /\ UNCHANGED pcb_free
  /\ pid' = [pid EXCEPT ![Head(pcb_free)] = last_pid]
  /\ last_pid' = last_pid + 1
  /\ parent' = [parent EXCEPT ![Head(pcb_free)] = father]

PCB_alloc(father) ==
  /\ pcb_free' = Tail(pcb_free)
  /\ pid' = [pid EXCEPT ![Head(pcb_free)] = last_pid]
  /\ last_pid' = last_pid + 1
  /\ parent' = [parent EXCEPT ![Head(pcb_free)] = father]

PCBPtr_alloc == pcbptr_free > 0 /\ pcbptr_free' = pcbptr_free - 1
PCBPtr_free_twice_mutant == pcbptr_free' = pcbptr_free + 2
PCBPtr_free_leak_mutant == UNCHANGED pcbptr_free
PCBPtr_free == pcbptr_free' = pcbptr_free + 1

(* The result of a wait is the pid of the child, in the PCB of the waiter.  *)
Report_mutant(waiter, child) ==
  syscall_retvalue' = [syscall_retvalue EXCEPT ![running] = pid[child]]

Report(waiter, child) ==
  syscall_retvalue' = [syscall_retvalue EXCEPT ![waiter] = pid[child]]

(* The children of the caller and of the new PCB after the creation.       *)
Adopted(new) == [children EXCEPT ![running] = Append(@, new), ![new] = <<>>]

(***************************************************************************)
(* internal_fork: the child goes to the tail of the ready list.  Its       *)
(* cpu_state is left as the block had it.                                  *)
(***************************************************************************)
Create ==
  /\ ProcUser
  /\ last_pid < MaxPid
  /\ pcb_free # <<>>
  /\ PCBPtr_alloc
  /\ PCB_alloc(running)
  /\ children' = Adopted(Head(pcb_free))
  /\ status' = [status EXCEPT ![Head(pcb_free)] = "Ready"]
  /\ ready_list' = Append(ready_list, Head(pcb_free))
  /\ Return(last_pid)
  /\ Called(OtherCall)
  /\ UNCHANGED <<running, waiting_list, timer_list, fault, init_pcb, zombie_list>>

Fork == Create /\ UNCHANGED made

(* internal_spawn: the same, and the child gets a context of its own.      *)
Spawn == Create /\ made' = made \cup {Head(pcb_free)}

(* PCB_alloc and PCBPtr_alloc write to the block without looking whether   *)
(* there is one, so the test of spawn and fork that follows never fails.   *)
CreateNoBlock ==
  /\ ProcUser
  /\ \/ pcb_free = <<>> /\ Crash("spawn: no PCB")
     \/ pcb_free # <<>> /\ pcbptr_free = 0 /\ Crash("spawn: no PCBPtr")
  /\ UNCHANGED procVars

(* setcontext to a cpu_state that is still all zero.                       *)
RunUnmade ==
  /\ UserMode
  /\ running \notin made
  /\ Crash("fork: no context")
  /\ UNCHANGED procVars

-----------------------------------------------------------------------------
(***************************************************************************)
(* internal_wait(arg).  The scan stops at the child asked for, or else has *)
(* looked last at the last child, which is then taken for it.              *)
(***************************************************************************)
Asked(arg) ==
  FirstOf({i \in 1..Len(children[running]) :
             IF arg = 0 THEN status[children[running][i]] = "Zombie"
                        ELSE pid[children[running][i]] = arg})

Awaited(arg) == IF Asked(arg) # 0 THEN Asked(arg) ELSE Len(children[running])

WaitRefused(arg) ==
  /\ ProcUser
  /\ children[running] = <<>>
  /\ Refuse(EWAIT)
  /\ Called(WaitFor(arg))
  /\ UNCHANGED tableVars

WaitReap(arg) ==
  /\ ProcUser
  /\ children[running] # <<>>
  /\ LET child == children[running][Awaited(arg)]
     IN /\ status[child] = "Zombie"
        /\ children' = [children EXCEPT ![running] = Detach(@, Awaited(arg))]
        /\ PCBPtr_free
        /\ zombie_list' = zombie_list \ {child}
        /\ Report(running, child)
        /\ pcb_free' = <<child>> \o pcb_free
  /\ Called(WaitFor(arg))
  /\ UNCHANGED <<placeVars, timer_list, fault, init_pcb, pid, parent, last_pid, made>>

MustWaitFor(arg) ==
  /\ ProcUser
  /\ children[running] # <<>>
  /\ status[children[running][Awaited(arg)]] # "Zombie"

(* The status of the process that runs next is not set.                    *)
WaitBlock(arg) ==
  /\ MustWaitFor(arg)
  /\ ready_list # <<>>
  /\ status' = [status EXCEPT ![running] = "Waiting"]
  /\ waiting_list' = waiting_list \cup {running}
  /\ Called(WaitFor(arg))
  /\ running' = Head(ready_list)
  /\ ready_list' = Tail(ready_list)
  /\ UNCHANGED <<timer_list, syscall_retvalue, fault, tableVars>>

WaitNoReady(arg) ==
  /\ MustWaitFor(arg)
  /\ ready_list = <<>>
  /\ Crash("wait: no ready process")
  /\ UNCHANGED procVars

-----------------------------------------------------------------------------
(***************************************************************************)
(* internal_exit.  The children go to init_pcb's list; their parent field  *)
(* keeps pointing to the block of the process that exits.                  *)
(***************************************************************************)
Reparented_mutant == [children EXCEPT ![init_pcb] = @ \o children[running]]

Reparented ==
  [children EXCEPT ![running] = <<>>, ![init_pcb] = @ \o children[running]]

(* The children of init would be moved to the list they are taken from.    *)
ExitLoops ==
  /\ ProcUser
  /\ running = init_pcb
  /\ children[running] # <<>>
  /\ Crash("exit: endless loop")
  /\ UNCHANGED procVars

CanExit == ProcUser /\ (running = init_pcb => children[running] = <<>>)

ExitNoParent ==
  /\ CanExit
  /\ parent[running] = NULL
  /\ Crash("exit: no parent")
  /\ UNCHANGED procVars

(* The block the parent field points to waits for the process that exits.  *)
ParentWaits_mutant ==
  /\ status[parent[running]] = "Waiting"
  /\ syscall[parent[running]] = WaitFor(0)

ParentWaits ==
  /\ status[parent[running]] = "Waiting"
  /\ syscall[parent[running]] \in {WaitFor(0), WaitFor(pid[running])}

PlaceInParent ==
  FirstOf({i \in 1..Len(Reparented[parent[running]]) :
             Reparented[parent[running]][i] = running})

(* The timers the scan of the timer list leaves: those of other processes. *)
TimersWithout(p) ==
  LET kept[i \in 0..Len(timer_list)] ==
        IF i = 0 THEN <<>>
        ELSE IF timer_list[i].pcb = p THEN kept[i - 1]
        ELSE Append(kept[i - 1], timer_list[i])
  IN kept[Len(timer_list)]

(***************************************************************************)
(* The parent runs next, with the pid as the result of its wait.  The PCB  *)
(* is freed, the PCBPtr taken off the parent's list is not.                *)
(***************************************************************************)
ExitAwaited ==
  /\ CanExit
  /\ parent[running] # NULL
  /\ ParentWaits
  /\ PlaceInParent # 0
  /\ children' = [Reparented EXCEPT ![parent[running]] = Detach(@, PlaceInParent)]
  /\ waiting_list' = waiting_list \ {parent[running]}
  /\ status' = [status EXCEPT ![running] = "Zombie", ![parent[running]] = "Running"]
  /\ Report(parent[running], running)
  /\ timer_list' = TimersWithout(running)
  /\ pcb_free' = <<running>> \o pcb_free
  /\ running' = parent[running]
  /\ Called(OtherCall)
  /\ UNCHANGED <<ready_list, fault, init_pcb, pid, parent, last_pid, made, pcbptr_free,
                 zombie_list>>

(* An orphan whose parent's block was reused by a process that waits.      *)
ExitNotAChild ==
  /\ CanExit
  /\ parent[running] # NULL
  /\ ParentWaits
  /\ PlaceInParent = 0
  /\ Crash("exit: not a child")
  /\ UNCHANGED procVars

(* Nobody waits for it: it becomes a zombie.                               *)
ExitZombie ==
  /\ CanExit
  /\ parent[running] # NULL
  /\ ~ParentWaits
  /\ ready_list # <<>>
  /\ children' = Reparented
  /\ zombie_list' = zombie_list \cup {running}
  /\ running' = Head(ready_list)
  /\ ready_list' = Tail(ready_list)
  /\ status' = [status EXCEPT ![running] = "Zombie", ![Head(ready_list)] = "Running"]
  /\ Called(OtherCall)
  /\ UNCHANGED <<waiting_list, timer_list, syscall_retvalue, fault, init_pcb, pid, parent,
                 last_pid, made, pcb_free, pcbptr_free>>

ExitNoReady ==
  /\ CanExit
  /\ parent[running] # NULL
  /\ ~ParentWaits
  /\ ready_list = <<>>
  /\ Crash("exit: no ready process")
  /\ UNCHANGED procVars

-----------------------------------------------------------------------------
(***************************************************************************)
(* main_context is where the trap goes when no process is left to run, and *)
(* where a process goes that returns from its function: disastrOS_start    *)
(* goes on from there and boots a new init over the old lists.             *)
(***************************************************************************)
Boot ==
  /\ fault = "none"
  /\ running = NULL \/ running \in made
  /\ last_pid < MaxPid
  /\ pcb_free # <<>>
  /\ PCB_alloc(NULL)
  /\ children' = [children EXCEPT ![Head(pcb_free)] = <<>>]
  /\ running' = Head(pcb_free)
  /\ init_pcb' = Head(pcb_free)
  /\ status' = [status EXCEPT ![Head(pcb_free)] = "Running"]
  /\ made' = made \cup {Head(pcb_free)}
  /\ UNCHANGED <<ready_list, waiting_list, timer_list, syscall_retvalue, fault, pcbptr_free,
                 syscall, zombie_list>>

BootNoBlock ==
  /\ fault = "none"
  /\ running = NULL \/ running \in made
  /\ pcb_free = <<>>
  /\ Crash("boot: no PCB")
  /\ UNCHANGED procVars

(* SIGALRM before the new init is there: timerHandler follows running.     *)
TickIdle ==
  /\ fault = "none"
  /\ running = NULL
  /\ Crash("tick: no running process")
  /\ UNCHANGED procVars

Shutdown ==
  /\ ProcUser
  /\ Crash("shutdown")
  /\ UNCHANGED procVars

Sleep(cycles) ==
  /\ ProcUser
  /\ internal_sleep(cycles)
  /\ Called(OtherCall)
  /\ UNCHANGED tableVars

Preempt == ProcUser /\ internal_preempt /\ Called(OtherCall) /\ UNCHANGED tableVars

Tick == ProcUser /\ timerInterrupt /\ UNCHANGED procVars

-----------------------------------------------------------------------------
(* disastrOS_start has booted init with the first block of the pool.       *)
ProcInit ==
  /\ running = 1 /\ init_pcb = 1
  /\ ready_list = <<>> /\ waiting_list = {} /\ timer_list = <<>> /\ zombie_list = {}
  /\ status = [p \in PCB |-> IF p = 1 THEN "Running" ELSE "Invalid"]
  /\ syscall_retvalue = [p \in PCB |-> 0]
  /\ fault = "none"
  /\ pcb_free = [i \in 1..(MAX_NUM_PROCESSES - 1) |-> i + 1]
  /\ pcbptr_free = MAX_NUM_PROCESSES
  /\ last_pid = 1
  /\ pid = [p \in PCB |-> 0]
  /\ parent = [p \in PCB |-> NULL]
  /\ children = [p \in PCB |-> <<>>]
  /\ syscall = [p \in PCB |-> OtherCall]
  /\ made = {1}

Wait(arg) == WaitRefused(arg) \/ WaitReap(arg) \/ WaitBlock(arg) \/ WaitNoReady(arg)

ExitUnawaited == ExitLoops \/ ExitNoParent \/ ExitNotAChild \/ ExitZombie \/ ExitNoReady

Exit == ExitAwaited \/ ExitUnawaited

ProcNext ==
  \/ Fork \/ Spawn \/ CreateNoBlock \/ RunUnmade
  \/ \E arg \in WaitArgs : Wait(arg)
  \/ Exit \/ Boot \/ BootNoBlock \/ TickIdle \/ Shutdown
  \/ \E cycles \in SleepTimes : Sleep(cycles)
  \/ Preempt \/ Tick

ProcSpec == ProcInit /\ [][ProcNext]_procAll

-----------------------------------------------------------------------------
Free == Elements(pcb_free)

(* The processes blocked in disastrOS_wait.                                *)
InWait == {p \in waiting_list : syscall[p].num = "wait"}

(* Type correctness of the process structures.                             *)
ProcTypeOK ==
  /\ SchedTypeOK
  /\ init_pcb \in PCB
  /\ pcb_free \in Seq(PCB)
  /\ pcbptr_free \in 0..MAX_NUM_PROCESSES
  /\ last_pid \in 0..MaxPid
  /\ pid \in [PCB -> 0..MaxPid]
  /\ parent \in [PCB -> PCB \cup {NULL}]
  /\ children \in [PCB -> Seq(PCB)]
  /\ syscall \in [PCB -> [num : {"wait", "other"}, arg : WaitArgs \cup {0}]]
  /\ zombie_list \subseteq PCB
  /\ made \subseteq PCB

(***************************************************************************)
(* A PCB is in at most one place: it runs, is ready, waits, is a zombie or *)
(* is free.  exit and wait take PCBs off lists without looking whether     *)
(* they are on them, and free blocks that other PCBs still point to.       *)
(* Until a second init is booted none is lost: it is in one place exactly. *)
(* A process that returns from its function is on no list afterwards.      *)
(***************************************************************************)
OnePlace ==
  /\ PlacedOnce
  /\ NoRepeat(pcb_free)
  /\ zombie_list \cap (Elements(ready_list) \cup waiting_list \cup {running}) = {}
  /\ Free \cap (Elements(ready_list) \cup waiting_list \cup zombie_list \cup {running}) = {}
  /\ init_pcb = 1 => PCB \subseteq Placed \cup zombie_list \cup Free

(***************************************************************************)
(* The lists of children never hold a freed PCB, nor one PCB twice, and    *)
(* every zombie is on the list of a process that has not exited.  Until a  *)
(* second init is booted that process runs, is ready or waits, so that it  *)
(* can still wait for the zombie; afterwards it may be one that returned   *)
(* from its function, and the zombie stays.                                *)
(***************************************************************************)
FamilyTree ==
  /\ \A p \in PCB : Elements(children[p]) \cap Free = {} /\ NoRepeat(children[p])
  /\ \A p, q \in PCB : p # q => Elements(children[p]) \cap Elements(children[q]) = {}
  /\ \A z \in zombie_list : \E p \in PCB \ (zombie_list \cup Free) :
       z \in Elements(children[p]) /\ (init_pcb = 1 => p \in Placed)

(***************************************************************************)
(* Who is blocked in wait has a child left, and none of those it would     *)
(* take, if it is their parent still, has exited without waking it.        *)
(***************************************************************************)
Accepts(p, child) == syscall[p].arg \in {0, pid[child]}

WaitNotLost ==
  \A p \in InWait :
    /\ children[p] # <<>>
    /\ \A child \in Elements(children[p]) :
         Accepts(p, child) /\ parent[child] = p => child \notin zombie_list

(***************************************************************************)
(* A PCB is only freed with its pid reported to the process that had it on *)
(* its list of children and now has it no more, and which runs next.       *)
(***************************************************************************)
FreedWhenReported ==
  \A p \in PCB : (p \notin Free /\ p \in Free') =>
    /\ running' \in PCB
    /\ syscall_retvalue'[running'] = pid[p]
    /\ p \in Elements(children[running'])
    /\ p \notin Elements(children'[running'])

NoSilentFree == [][FreedWhenReported]_procAll

(***************************************************************************)
(* The PCBPtr blocks, free or on a list of children, only get fewer when a *)
(* process is awaited and frees itself, and then by one: no reboot, reuse  *)
(* of a PCB or change of parent loses another, and none is freed twice.    *)
(***************************************************************************)
PtrBlocks == pcbptr_free + Cardinality(UNION {{p} \X (1..Len(children[p])) : p \in PCB})

PtrLostAtExit ==
  IF running \in Free' /\ running \notin Free
  THEN PtrBlocks' = PtrBlocks - 1
  ELSE PtrBlocks' = PtrBlocks

PtrsLostAtExits == [][PtrLostAtExit]_procAll

(***************************************************************************)
(* What the comment on internal_exit says: the children of who exits go to *)
(* init, and the parent is awakened if it was waiting.                     *)
(***************************************************************************)
ParentAwakened ==
  \A p \in InWait : \A child \in Elements(children[p]) :
    Accepts(p, child) => child \notin zombie_list

(***************************************************************************)
(* What the comment in internal_wait says: to wait for a process that is   *)
(* not in the child list is an error.                                      *)
(***************************************************************************)
WaitsForChild ==
  \A p \in InWait : syscall[p].arg > 0 =>
    \E child \in Elements(children[p]) : pid[child] = syscall[p].arg
=============================================================================
