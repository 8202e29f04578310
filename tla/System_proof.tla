---------------------------- MODULE System_proof ----------------------------
(***************************************************************************)
(* Proofs about the whole kernel: what is proved of the processes, of the  *)
(* resources and of the semaphores alone holds of all of them on one       *)
(* scheduler, where processes are created, wait for children and end while *)
(* others are blocked at semaphores.  New here is that the two kinds of    *)
(* blocked processes stay apart.                                           *)
(***************************************************************************)
EXTENDS System, Semaphores_proof, Resources_proof

-----------------------------------------------------------------------------
(***************************************************************************)
(* Who is blocked, and not in a wait for a child: no call of a process on  *)
(* another's family and no tick moves anyone in or out of that set.        *)
(***************************************************************************)
Parked == Blocked \ InWait

LEMMA ParkedStay ==
  ASSUME Blocked' = Blocked, \A p \in Blocked : syscall'[p] = syscall[p]
  PROVE  Parked' = Parked
BY DEF Parked, Blocked, InWait

LEMMA CallerAlone ==
  ASSUME ProcInv, running \in PCB, NEW call, Called(call)
  PROVE  \A p \in waiting_list : syscall'[p] = syscall[p]
BY DEF ProcInv, PlaceInv, SchedBase, SchedTypeOK, PlacedOnce, Called, CallsTypeOK

(* A handler that leaves the waiting list and the timers alone.            *)
Quiet ==
  /\ UNCHANGED <<waiting_list, timer_list>>
  /\ UNCHANGED syscall \/ (UserMode /\ \E call : Called(call))

LEMMA QuietMoves ==
  ASSUME ProcInv, Quiet
  PROVE  Parked' = Parked
<1>1. Blocked' = Blocked /\ Blocked \subseteq waiting_list
  BY DEF Quiet, Blocked, Sleepers
<1>2. \A p \in waiting_list : syscall'[p] = syscall[p]
  BY CallerAlone DEF Quiet, UserMode
<1> QED BY <1>1, <1>2, ParkedStay

LEMMA CrashQuiet ==
  ASSUME NEW where, Crash(where), UNCHANGED procVars
  PROVE  Quiet
BY DEF Crash, Quiet, procVars, placeVars

(* The calls of the family that block nobody.                              *)
LEMMA FamilyQuiet ==
  ASSUME \/ Create \/ Boot \/ ExitZombie
         \/ \E arg \in WaitArgs : WaitRefused(arg) \/ WaitReap(arg)
  PROVE  Quiet
<1>1. CASE Create \/ ExitZombie
  BY <1>1 DEF Create, ExitZombie, CanExit, ProcUser, Quiet
<1>2. CASE Boot
  BY <1>2 DEF Boot, Quiet
<1>3. CASE \E arg \in WaitArgs : WaitRefused(arg) \/ WaitReap(arg)
  BY <1>3 DEF WaitRefused, WaitReap, ProcUser, Quiet, Refuse, placeVars
<1> QED BY <1>1, <1>2, <1>3

LEMMA WaitBlockMoves ==
  ASSUME ProcInv, NEW arg \in WaitArgs, WaitBlock(arg)
  PROVE  Parked' = Parked
<1>1. running \in PCB /\ running \notin waiting_list
  BY DEF WaitBlock, MustWaitFor, ProcUser, UserMode, ProcInv, PlaceInv, SchedBase, PlacedOnce
<1>2. Blocked' \subseteq Blocked \cup {running} /\ Blocked \subseteq Blocked'
  <2>1. Sleepers \subseteq waiting_list
    BY DEF ProcInv, PlaceInv, SchedBase
  <2>2. waiting_list' = waiting_list \cup {running} /\ Sleepers' = Sleepers
    BY DEF WaitBlock, Sleepers
  <2> QED BY <1>1, <2>1, <2>2 DEF Blocked
<1>3. Called(WaitFor(arg)) /\ waiting_list' = waiting_list \cup {running}
  BY DEF WaitBlock
<1>4. syscall'[running].num = "wait"
  BY <1>1, <1>3 DEF Called, WaitFor, ProcInv, PlaceInv, CallsTypeOK
<1>5. \A p \in waiting_list : syscall'[p] = syscall[p]
  BY <1>1, <1>3, CallerAlone
<1>6. running \in InWait'
  BY <1>3, <1>4 DEF InWait
<1>7. \A p \in Blocked : p \in InWait' <=> p \in InWait
  BY <1>1, <1>3, <1>5 DEF InWait, Blocked
<1>8. running \notin Blocked
  BY <1>1 DEF Blocked
<1> QED BY <1>2, <1>6, <1>7, <1>8 DEF Parked

(* The process that exit wakes made a wait: it leaves a wait for a child.  *)
LEMMA ExitAwaitedMoves ==
  ASSUME ProcInv, ExitAwaited
  PROVE  Parked' = Parked
<1> DEFINE up == parent[running]
<1>1. running \in PCB /\ running \notin waiting_list
  BY DEF ExitAwaited, CanExit, ProcUser, UserMode, ProcInv, PlaceInv, SchedBase, PlacedOnce
<1>2. Sleepers' = Sleepers
  <2>1. running \notin Sleepers /\ timer_list \in Seq(Timers)
    BY <1>1 DEF ProcInv, PlaceInv, SchedBase, SchedTypeOK
  <2>2. timer_list' = timer_list
    BY <2>1, NoTimerToRelease DEF ExitAwaited
  <2> QED BY <2>2 DEF Sleepers
<1>3. waiting_list' = waiting_list \ {up} /\ Called(OtherCall)
  BY DEF ExitAwaited
<1>4. \A p \in waiting_list : syscall'[p] = syscall[p]
  BY <1>1, <1>3, CallerAlone
<1>5. syscall[up].num = "wait"
  BY DEF ExitAwaited, ParentWaits, WaitFor
<1> HIDE DEF up
<1>6. Blocked' = Blocked \ {up}
  BY <1>2, <1>3 DEF Blocked
<1>7. up \in Blocked => up \in InWait
  BY <1>5 DEF InWait, Blocked
<1>8. \A p \in Blocked \ {up} : p \in InWait' <=> p \in InWait
  BY <1>3, <1>4 DEF InWait, Blocked
<1> QED BY <1>6, <1>7, <1>8 DEF Parked

LEMMA ScheduleMoves ==
  ASSUME ProcInv, Preempt \/ Tick
  PROVE  Parked' = Parked
<1>1. SchedBase
  BY DEF ProcInv, PlaceInv
<1>2. Blocked' = Blocked
  BY <1>1, TickShifts, ScheduleBase DEF Preempt, Tick, internal_preempt, timerInterrupt, Blocked
<1>3. \A p \in waiting_list : syscall'[p] = syscall[p]
  <2>1. CASE Preempt
    BY <2>1, CallerAlone DEF Preempt, ProcUser, UserMode
  <2>2. CASE Tick
    BY <2>2 DEF Tick, procVars
  <2> QED BY <2>1, <2>2
<1> QED BY <1>2, <1>3, ParkedStay DEF Blocked

LEMMA SleepMoves ==
  ASSUME SchedAssumption, ProcInv, NEW cycles \in SleepTimes, Sleep(cycles)
  PROVE  Parked' = Parked
<1>1. SchedBase /\ running \in PCB /\ running \notin waiting_list
  BY DEF ProcInv, PlaceInv, Sleep, ProcUser, UserMode, SchedBase, PlacedOnce
<1>2. cycles \in Nat /\ internal_sleep(cycles)
  BY DEF SchedAssumption, Sleep
<1>3. Blocked' = Blocked
  <2>1. CASE UNCHANGED <<placeVars, timer_list>>
    BY <2>1 DEF Blocked, Sleepers, placeVars
  <2>2. CASE waiting_list' = waiting_list \cup {running} /\ Sleepers' = Sleepers \cup {running}
    BY <1>1, <2>2 DEF Blocked
  <2> QED BY <1>1, <1>2, <2>1, <2>2, SleepBase
<1>4. \A p \in waiting_list : syscall'[p] = syscall[p]
  BY <1>1, CallerAlone DEF Sleep
<1> QED BY <1>3, <1>4, ParkedStay DEF Blocked

LEMMA ProcMoves ==
  ASSUME SchedAssumption, ProcInv, ProcNext
  PROVE  Parked' = Parked
<1>1. CASE Fork \/ Spawn \/ Boot \/ ExitZombie
  BY <1>1, FamilyQuiet, QuietMoves DEF Fork, Spawn
<1>2. CASE CreateNoBlock \/ RunUnmade \/ BootNoBlock \/ TickIdle \/ Shutdown
  BY <1>2, CrashQuiet, QuietMoves DEF CreateNoBlock, RunUnmade, BootNoBlock, TickIdle, Shutdown
<1>3. CASE ExitLoops \/ ExitNoParent \/ ExitNotAChild \/ ExitNoReady
  BY <1>3, CrashQuiet, QuietMoves DEF ExitLoops, ExitNoParent, ExitNotAChild, ExitNoReady
<1>4. ASSUME NEW arg \in WaitArgs, Wait(arg)
      PROVE  Parked' = Parked
  <2>1. CASE WaitRefused(arg) \/ WaitReap(arg)
    BY <2>1, FamilyQuiet, QuietMoves
  <2>2. CASE WaitNoReady(arg)
    BY <2>2, CrashQuiet, QuietMoves DEF WaitNoReady
  <2> QED BY <1>4, <2>1, <2>2, WaitBlockMoves DEF Wait
<1> QED BY <1>1, <1>2, <1>3, <1>4, ExitAwaitedMoves, ScheduleMoves, SleepMoves
        DEF ProcNext, Exit, ExitUnawaited

-----------------------------------------------------------------------------
(***************************************************************************)
(* The inductive invariant of the kernel: those of its components, and the *)
(* processes in the queues of the semaphores are those that are blocked    *)
(* and not in a wait for a child.                                          *)
(***************************************************************************)
OneReason == InQueue = Parked

SysInv == SemBase /\ ProcInv /\ ResInv /\ OneReason

(* What every step does.                                                   *)
SysGood == SysInv' /\ PtrLostAtExit /\ FreedWhenReported /\ (PtrThere => PtrThere')

(***************************************************************************)
(* A step of the other components: PCB_alloc starts the numbers of the     *)
(* semaphore descriptors of a new PCB from 0, nothing else of the          *)
(* semaphores changes, and those in the queues stay blocked.               *)
(***************************************************************************)
LEMMA QueuesUntouched ==
  ASSUME SemBase, ProcInv', OneReason, Parked' = Parked, last_sem_fd' \in [PCB -> Nat],
         UNCHANGED <<semaphores_list, sem, sem_descriptors, sd, sdp_free, poolVars>>
  PROVE  SemBase' /\ OneReason'
<1>1. SchedBase'
  BY DEF ProcInv, PlaceInv
<1>2. ASSUME NEW s \in SEM, NEW i \in 1..Len(sem[s].waiting_descriptors)
      PROVE  Waiters(s)[i] \in waiting_list' \ Sleepers'
  <2>1. i \in 1..Len(Waiters(s)) /\ Waiters(s)[i] \in PCB
    BY WaitersSeq, ElementOfSeq
  <2>2. Waiters(s)[i] \in InQueue
    BY <2>1 DEF InQueue
  <2>3. Waiters(s)[i] \in Parked'
    BY <2>2 DEF OneReason
  <2> QED BY <2>3 DEF Parked, Blocked
<1>3. SemBase'
  BY <1>1, <1>2, StructuresKept
<1>4. InQueue' = InQueue
  BY DEF InQueue, Waiters
<1> QED BY <1>3, <1>4 DEF OneReason

(***************************************************************************)
(* A call on a semaphore.  Whoever is in a queue made a call that is no    *)
(* wait, and the caller's block is neither free nor that of a zombie.      *)
(***************************************************************************)
LEMMA SemCallOther ==
  ASSUME ProcInv, SysSemCall
  PROVE  /\ CallsTypeOK' /\ syscall'[running].num = "other"
         /\ \A p \in PCB \ {running} : syscall'[p] = syscall[p]
         /\ running \in PCB /\ running \notin waiting_list
<1>1. running \in PCB
  BY DEF SysSemCall, ProcUser, UserMode
<1>2. running \notin waiting_list
  BY DEF ProcInv, PlaceInv, SchedBase, PlacedOnce
<1>3. CallsTypeOK' /\ syscall'[running] = OtherCall
      /\ \A p \in PCB \ {running} : syscall'[p] = syscall[p]
  BY <1>1, CallTypes DEF SysSemCall, ProcInv, PlaceInv
<1> QED BY <1>1, <1>2, <1>3 DEF OtherCall

LEMMA SemCallReason ==
  ASSUME SchedAssumption, SemAssumption, SemBase, ProcInv, OneReason, SysSemCall
  PROVE  OneReason'
<1>1. /\ InQueue = {p \in Blocked : syscall[p].num # "wait"}
      /\ Parked' = {p \in Blocked' : syscall'[p].num # "wait"}
  BY DEF OneReason, Parked, InWait, Blocked
<1>2. /\ syscall'[running].num = "other"
      /\ \A p \in Blocked : syscall'[p] = syscall[p]
  <2>1. Blocked \subseteq PCB \ {running}
    BY SemCallOther, ListsHoldPCBs DEF Blocked
  <2> QED BY <2>1, SemCallOther
<1>3. \/ InQueue' = InQueue /\ Blocked' = Blocked
      \/ InQueue' = InQueue \cup {running} /\ Blocked' = Blocked \cup {running}
      \/ \E q \in InQueue : InQueue' = InQueue \ {q} /\ Blocked' = Blocked \ {q}
  BY InQueueMoves DEF SysSemCall
<1>4. InQueue' = {p \in Blocked' : syscall'[p].num # "wait"}
  BY <1>1, <1>2, <1>3
<1> QED BY <1>1, <1>4 DEF OneReason

LEMMA SemCallPlaceInv ==
  ASSUME SemBase, SemBase', ProcInv, SysSemCall
  PROVE  PlaceInv' /\ InWait' \subseteq InWait
<1>1. SemCall /\ UNCHANGED <<pcb_free, zombie_list>>
  BY DEF SysSemCall, tableVars
<1>2. Placed' = Placed /\ running \in Placed /\ Free' = Free
  BY <1>1, SemCallPlaces DEF Placed, Free
<1>3. Placed \cap (zombie_list \cup Free) = {} /\ StatusPlaces
  BY DEF ProcInv, PlaceInv
<1>4. StatusPlaces'
  <2>1. /\ waiting_list \subseteq PCB /\ Elements(ready_list) \subseteq PCB
        /\ zombie_list \subseteq PCB /\ Free \subseteq PCB
    BY ListsHoldPCBs
  <2>2. \A p \in waiting_list' : status'[p] = "Waiting"
    BY <1>1, <1>3, <2>1, SemCallPlaces DEF StatusPlaces
  <2>3. \A p \in Elements(ready_list') \cup Free : status'[p] # "Waiting"
    BY <1>1, <1>2, <1>3, <2>1, SemCallPlaces DEF StatusPlaces
  <2>4. \A p \in PCB : status'[p] = "Zombie" => p \in zombie_list \cup Free
    BY <1>1, <1>2, <1>3, <2>1, SemCallPlaces DEF StatusPlaces
  <2>5. \A z \in zombie_list : status'[z] = "Zombie"
    BY <1>1, <1>2, <1>3, <2>1, SemCallPlaces DEF StatusPlaces
  <2> QED BY <1>1, <1>2, <2>2, <2>3, <2>4, <2>5 DEF StatusPlaces
<1>5. \A p \in Sleepers' : syscall'[p].num = "other"
  <2>1. Sleepers' = Sleepers
    BY <1>1, SemCallMoves DEF Sleepers, Blocks, HandsTo
  <2>2. Sleepers \subseteq PCB \ {running}
    BY SemCallOther, ListsHoldPCBs DEF ProcInv, PlaceInv, SchedBase
  <2>3. \A p \in Sleepers : syscall[p].num = "other"
    BY DEF ProcInv, PlaceInv
  <2> QED BY <2>1, <2>2, <2>3, SemCallOther
<1>6. InWait' \subseteq InWait
  <2>1. waiting_list \subseteq PCB
    BY ListsHoldPCBs
  <2>2. waiting_list' \subseteq waiting_list \cup {running}
    BY <1>1, SemCallPlaces
  <2> QED BY <2>1, <2>2, SemCallOther DEF InWait
<1>7. SchedBase' /\ CallsTypeOK' /\ (Placed \cap (zombie_list \cup Free))' = {}
  BY <1>1, <1>2, <1>3, SemCallOther DEF SemBase
<1> QED BY <1>4, <1>5, <1>6, <1>7 DEF PlaceInv

(* No handler of the semaphores ends the program for want of a             *)
(* DescriptorPtr.                                                          *)
LEMMA SemCallFaults ==
  ASSUME SemCall
  PROVE  PtrThere => PtrThere'
<1>1. CASE UNCHANGED fault
  BY <1>1 DEF PtrThere, PtrNeverMissing
<1>2. CASE fault' # "openResource: no DescriptorPtr"
  BY <1>2 DEF PtrThere, PtrNeverMissing
<1>3. PICK n \in SemNums : SemOpenStep(n) \/ SemCloseStep(n) \/ SemWaitStep(n) \/ SemPostStep(n)
  BY DEF SemCall
<1>4. CASE SemOpenStep(n)
  BY <1>1, <1>4 DEF SemOpenStep, SemOpenRefused, SemOpenWith, SemOpenNoDescriptor,
    SemOpenNoPtr, SemOpenDone, Refuse
<1>5. CASE SemCloseStep(n)
  BY <1>1, <1>5 DEF SemCloseStep, SemCloseRefused, SemPostRefused, SemClose, SemCloseLast,
    CloseDescriptor, Refuse
<1>6. CASE SemWaitStep(n)
  BY <1>1, <1>2, <1>6 DEF SemWaitStep, SemWaitRefused, SemWaitPass, SemWaitBlock, SemWaitNoPtr,
    SemWaitNoReady, Refuse, Crash
<1>7. CASE SemPostStep(n)
  BY <1>1, <1>2, <1>7 DEF SemPostStep, SemPostRefused, SemPostStore, SemPostHandOff,
    SemPostNoWaiter, Refuse, Crash
<1> QED BY <1>3, <1>4, <1>5, <1>6, <1>7

LEMMA SysSemCallStep ==
  ASSUME SchedAssumption, SemAssumption, SysInv, SysSemCall
  PROVE  SysGood
<1>1. SemBase /\ ProcInv /\ ResInv /\ OneReason /\ SemCall
  BY DEF SysInv, SysSemCall
<1>2. UNCHANGED tableVars /\ UNCHANGED resVars
  BY DEF SysSemCall
<1>3. SemBase' /\ OneReason'
  BY <1>1, SemCallInv, SemCallReason
<1>4. TableInv' /\ PtrLostAtExit /\ FreedWhenReported
  BY <1>1, <1>2, TableKept
<1>5. PlaceInv' /\ InWait' \subseteq InWait
  BY <1>1, <1>3, SemCallPlaceInv
<1>6. WaitNotLost'
  <2>1. zombie_list' \subseteq zombie_list /\ UNCHANGED children
        /\ \A c \in PCB \ Free : pid'[c] = pid[c] /\ parent'[c] = parent[c]
    BY <1>2 DEF tableVars, familyVars
  <2>2. \A p \in InWait' : syscall'[p] = syscall[p] /\ children'[p] = children[p]
    <3>1. InWait \subseteq PCB \ {running}
      BY <1>1, SemCallOther, ListsHoldPCBs DEF InWait
    <3> QED BY <1>1, <1>5, <2>1, <3>1, SemCallOther
  <2> QED BY <1>1, <1>5, <2>1, <2>2, WaitKept
<1>7. ProcInv'
  BY <1>4, <1>5, <1>6 DEF ProcInv
<1>8. ResInv'
  <2>1. Alive' = Alive
    BY <1>2, TableKeepsAlive
  <2> QED BY <1>1, <1>2, <2>1, Untouched
<1> QED BY <1>1, <1>3, <1>4, <1>7, <1>8, SemCallFaults DEF SysGood, SysInv

(***************************************************************************)
(* The other steps.                                                        *)
(***************************************************************************)
LEMMA ResCallQuiet ==
  ASSUME ResCall
  PROVE  Quiet /\ UNCHANGED tableVars /\ (SemPostFindsWaiter => SemPostFindsWaiter')
<1>1. ASSUME NEW code, ProcUser, Refuse(code), Called(OtherCall), UNCHANGED tableVars
      PROVE  Quiet /\ UNCHANGED tableVars /\ (SemPostFindsWaiter => SemPostFindsWaiter')
  BY <1>1 DEF Quiet, ProcUser, Refuse, placeVars, SemPostFindsWaiter
<1>2. ASSUME NEW where, Crash(where), UNCHANGED procVars, where # "semPost: no waiter"
      PROVE  Quiet /\ UNCHANGED tableVars /\ (SemPostFindsWaiter => SemPostFindsWaiter')
  BY <1>2, CrashQuiet DEF Crash, procVars, tableVars, SemPostFindsWaiter
<1>3. ASSUME ProcUser, UNCHANGED <<placeVars, timer_list, fault, tableVars>>, Called(OtherCall)
      PROVE  Quiet /\ UNCHANGED tableVars /\ (SemPostFindsWaiter => SemPostFindsWaiter')
  BY <1>3 DEF Quiet, ProcUser, placeVars, SemPostFindsWaiter
<1>4. ASSUME NEW req \in OpenRequests, ResOpen(req)
      PROVE  Quiet /\ UNCHANGED tableVars /\ (SemPostFindsWaiter => SemPostFindsWaiter')
  <2>1. CASE ResOpenRefused(req) \/ ResOpenNoDescriptor(req)
    BY <1>1, <2>1 DEF ResOpenRefused, ResOpenNoDescriptor, CanFetch, ResOpenAccepted
  <2>2. CASE ResOpenNoResource(req)
    BY <1>2, <2>2 DEF ResOpenNoResource
  <2>3. CASE ResOpenDone(req)
    BY <1>2, <1>3, <2>3 DEF ResOpenDone, CanFetch, ResOpenAccepted, OpenDescriptor
  <2> QED BY <1>4, <2>1, <2>2, <2>3 DEF ResOpen
<1>5. ASSUME NEW id, ResDestroyRefused(id) \/ ResDestroy(id)
      PROVE  Quiet /\ UNCHANGED tableVars /\ (SemPostFindsWaiter => SemPostFindsWaiter')
  BY <1>1, <1>3, <1>5 DEF ResDestroyRefused, ResDestroy
<1>6. ASSUME NEW fd, ResCloseRefused(fd) \/ ResClose(fd)
      PROVE  Quiet /\ UNCHANGED tableVars /\ (SemPostFindsWaiter => SemPostFindsWaiter')
  BY <1>1, <1>3, <1>6 DEF ResCloseRefused, ResClose
<1> QED BY <1>4, <1>5, <1>6 DEF ResCall

LEMMA ProcPosts ==
  ASSUME ProcNext
  PROVE  SemPostFindsWaiter => SemPostFindsWaiter'
<1>1. CASE UNCHANGED fault
  BY <1>1 DEF SemPostFindsWaiter
<1>2. CASE fault' # "semPost: no waiter"
  BY <1>2 DEF SemPostFindsWaiter
<1>3. CASE Spawn \/ Fork \/ Boot
  BY <1>1, <1>3 DEF Spawn, Fork, Boot, Create
<1>4. CASE Exit
  BY <1>1, <1>2, <1>4 DEF Exit, ExitAwaited, ExitUnawaited, ExitLoops, ExitNoParent,
                          ExitNotAChild, ExitZombie, ExitNoReady, Crash
<1>5. CASE CreateNoBlock \/ RunUnmade \/ BootNoBlock \/ TickIdle \/ Shutdown
  BY <1>2, <1>5 DEF CreateNoBlock, RunUnmade, BootNoBlock, TickIdle, Shutdown, Crash
<1>6. ASSUME NEW arg \in WaitArgs, Wait(arg)
      PROVE  SemPostFindsWaiter => SemPostFindsWaiter'
  BY <1>1, <1>2, <1>6 DEF Wait, WaitRefused, WaitReap, WaitBlock, WaitNoReady, Refuse, Crash
<1>7. ASSUME NEW cycles \in SleepTimes, Sleep(cycles)
      PROVE  SemPostFindsWaiter => SemPostFindsWaiter'
  BY <1>1, <1>7 DEF Sleep, internal_sleep, Refuse
<1>8. CASE Preempt \/ Tick
  BY <1>1, <1>8 DEF Preempt, Tick, internal_preempt, timerInterrupt, internal_schedule
<1> QED BY <1>3, <1>4, <1>5, <1>6, <1>7, <1>8 DEF ProcNext

LEMMA ResNextProc ==
  ASSUME ResCreate \/ ResExit \/ ResKept
  PROVE  ProcNext
BY DEF ResCreate, ResExit, ResExitAwaited, ResKept, ProcNext, Exit

(* What a step of the other components does to the processes.              *)
LEMMA OtherSteps ==
  ASSUME SchedAssumption, ProcAssumption, ResAssumption, ProcInv, ResInv, ResNext
  PROVE  /\ ProcInv' /\ ResInv' /\ (PtrThere => PtrThere')
         /\ PtrLostAtExit /\ FreedWhenReported
         /\ Parked' = Parked
         /\ SemPostFindsWaiter => SemPostFindsWaiter'
<1>1. ProcInv' /\ ResInv' /\ (PtrThere => PtrThere')
  BY ResStep DEF ResGood
<1>2. CASE ResCall
  <2>1. PtrLostAtExit /\ FreedWhenReported
    BY <1>2, ResCallQuiet, TableKept
  <2> QED BY <1>1, <1>2, <2>1, ResCallQuiet, QuietMoves
<1>3. CASE ResCreate \/ ResExit \/ ResKept
  <2>1. ProcNext
    BY <1>3, ResNextProc
  <2>2. PtrLostAtExit /\ FreedWhenReported
    BY <2>1, ProcStep DEF GoodStep
  <2> QED BY <1>1, <2>1, <2>2, ProcMoves, ProcPosts
<1> QED BY <1>2, <1>3 DEF ResNext

(* What it does to the structures of the semaphores.                       *)
LEMMA OtherTables ==
  ASSUME ProcInv, SemBase, SysCreate \/ SysRest
  PROVE  /\ ResNext
         /\ last_sem_fd' \in [PCB -> Nat]
         /\ UNCHANGED <<semaphores_list, sem, sem_descriptors, sd, sdp_free, poolVars>>
<1>1. last_sem_fd \in [PCB -> Nat]
  BY DescriptorTypes
<1>2. CASE SysCreate
  BY <1>1, <1>2 DEF SysCreate, NewPCBSemaphores, ResNext
<1>3. CASE SysRest
  BY <1>1, <1>3 DEF SysRest, semVars, ResNext
<1> QED BY <1>2, <1>3

LEMMA OtherStep ==
  ASSUME SchedAssumption, ProcAssumption, ResAssumption, SysInv, SysCreate \/ SysRest
  PROVE  SysGood
<1>1. SemBase /\ ProcInv /\ ResInv /\ OneReason
  BY DEF SysInv
<1>2. /\ ResNext /\ last_sem_fd' \in [PCB -> Nat]
      /\ UNCHANGED <<semaphores_list, sem, sem_descriptors, sd, sdp_free, poolVars>>
  BY <1>1, OtherTables
<1>3. /\ ProcInv' /\ ResInv' /\ (PtrThere => PtrThere')
      /\ PtrLostAtExit /\ FreedWhenReported /\ Parked' = Parked
  BY <1>1, <1>2, OtherSteps
<1>4. SemBase' /\ OneReason'
  BY <1>1, <1>2, <1>3, QueuesUntouched
<1> QED BY <1>3, <1>4 DEF SysGood, SysInv

LEMMA SysStutter ==
  ASSUME SchedAssumption, ProcAssumption, SysInv, UNCHANGED sysAll
  PROVE  SysInv' /\ (PtrThere => PtrThere')
<1>1. SemBase /\ ProcInv /\ ResInv /\ OneReason
  BY DEF SysInv
<1>2. UNCHANGED procAll /\ UNCHANGED resVars /\ UNCHANGED semVars
  BY DEF sysAll, resAll
<1>3. UNCHANGED <<waiting_list, timer_list, syscall, fault>> /\ UNCHANGED tableVars
  BY <1>2 DEF procAll, procVars, tableVars, schedVars, placeVars
<1>4. ProcInv'
  BY <1>1, <1>2, ProcStep DEF GoodStep
<1>5. ResInv'
  BY <1>1, <1>2, <1>3, TableKeepsAlive, Untouched
<1>6. Parked' = Parked
  BY <1>1, <1>3, QuietMoves DEF Quiet
<1>7. /\ last_sem_fd' \in [PCB -> Nat]
      /\ UNCHANGED <<semaphores_list, sem, sem_descriptors, sd, sdp_free, poolVars>>
  BY <1>1, <1>2, DescriptorTypes DEF semVars
<1>8. SemBase' /\ OneReason'
  BY <1>1, <1>4, <1>6, <1>7, QueuesUntouched
<1>9. PtrThere => PtrThere'
  BY <1>3 DEF PtrThere, PtrNeverMissing
<1> QED BY <1>4, <1>5, <1>8, <1>9 DEF SysInv

LEMMA SysStep ==
  ASSUME SchedAssumption, ProcAssumption, SemAssumption, ResAssumption, SysInv, SysNext
  PROVE  SysGood
BY SysSemCallStep, OtherStep DEF SysNext

(* The kernel starts with init alone, no semaphore and no resource.        *)
LEMMA SysInitInv ==
  ASSUME SchedAssumption, ProcAssumption, SemAssumption, ResAssumption, SysInit
  PROVE  SysInv /\ PtrThere
<1>1. ProcInv /\ ResInv /\ PtrThere
  BY ProcInitInv, ResInitInv DEF SysInit
<1>2. SemBase
  BY <1>1, SemTablesInv DEF SysInit, ProcInv, PlaceInv
<1>3. Blocked = {}
  BY DEF SysInit, ProcInit, Blocked
<1>4. InQueue = {}
  BY <1>2, <1>3, InQueueBlocked
<1> QED BY <1>1, <1>2, <1>3, <1>4 DEF SysInv, OneReason, Parked

(* SysInv is an invariant of the kernel.                                   *)
LEMMA SysInvariant == SysSpec => [](SysInv /\ PtrThere)
<1> USE SchedAssumption, ProcAssumption, SemAssumption, ResAssumption
<1>1. SysInit => SysInv /\ PtrThere
  BY SysInitInv
<1>2. SysInv /\ PtrThere /\ [SysNext]_sysAll => (SysInv /\ PtrThere)'
  BY SysStep, SysStutter DEF SysGood
<1> QED BY <1>1, <1>2, PTL DEF SysSpec

-----------------------------------------------------------------------------
(***************************************************************************)
(* Who waits and why.                                                      *)
(***************************************************************************)
LEMMA StatusTold ==
  ASSUME ProcInv
  PROVE  StatusTruth
<1>1. StatusPlaces
  BY DEF ProcInv, PlaceInv
<1> QED BY <1>1 DEF StatusPlaces, StatusTruth, Held

LEMMA ReasonsCount ==
  ASSUME SysInv
  PROVE  OneReasonToWait
<1>1. SemBase /\ SchedBase /\ ProcInv /\ OneReason
  BY DEF SysInv, SemBase
<1>2. ASSUME NEW p \in Held
      PROVE  TimersOf(p) + PlacesOf(p) + (IF AwaitsChild(p) THEN 1 ELSE 0)
               = IF p \in waiting_list THEN 1 ELSE 0
  <2>1. p \in PCB
    BY <1>1, <1>2, ListsHoldPCBs DEF Held
  <2>2. TimersOf(p) = IF p \in Sleepers THEN 1 ELSE 0
    BY <1>1, TimerCount DEF TimersOf
  <2>3. PlacesOf(p) = IF p \in InQueue THEN 1 ELSE 0
    BY <1>1, <2>1, PlaceCount DEF PlacesOf
  <2>4. AwaitsChild(p) <=> p \in InWait
    BY <1>1, <1>2, StatusTold DEF StatusTruth, AwaitsChild, InWait
  <2>5. Sleepers \subseteq waiting_list /\ InWait \subseteq waiting_list
    BY <1>1 DEF SchedBase, InWait
  <2>6. Sleepers \cap InWait = {}
    BY <1>1 DEF ProcInv, PlaceInv, InWait
  <2>7. p \in InQueue <=> p \in waiting_list /\ p \notin Sleepers /\ p \notin InWait
    BY <1>1 DEF OneReason, Parked, Blocked
  <2> QED BY <2>2, <2>3, <2>4, <2>5, <2>6, <2>7
<1> QED BY <1>2 DEF OneReasonToWait

(***************************************************************************)
(* Whatever the handlers of the three components do to the status of a     *)
(* process, one that is held by a list has status Waiting exactly when     *)
(* that is the waiting list: exit, which looks at the status alone, takes  *)
(* nobody off the waiting list who is not there.                           *)
(***************************************************************************)
THEOREM StatusTellsTruth == SysSpec => []StatusTruth
<1>1. SysInv => StatusTruth
  BY StatusTold DEF SysInv
<1> QED BY <1>1, SysInvariant, PTL

(***************************************************************************)
(* Who is on the waiting list waits for a timer, or for one place in one   *)
(* queue, or for a child, and only for one of the three: no handler takes  *)
(* a process off that list that another one will look for there.           *)
(***************************************************************************)
THEOREM EachHasOneReason == SysSpec => []OneReasonToWait
<1>1. SysInv => OneReasonToWait
  BY ReasonsCount
<1> QED BY <1>1, SysInvariant, PTL

-----------------------------------------------------------------------------
(***************************************************************************)
(* What is proved of the processes and of the resources alone holds while  *)
(* others are blocked at semaphores or handed the processor.               *)
(***************************************************************************)
LEMMA SysProcInvariant == SysSpec => []ProcInv
<1>1. SysInv => ProcInv
  BY DEF SysInv
<1> QED BY <1>1, SysInvariant, PTL

(* The structures of the process table keep their types.                   *)
THEOREM SysProcTypeCorrect == SysSpec => []ProcTypeOK
BY SysProcInvariant, ProcInvTypes, PTL

LEMMA ResCallPlaces ==
  ASSUME ResCall
  PROVE  UNCHANGED placeVars
<1>1. ASSUME NEW req \in OpenRequests, ResOpen(req)
      PROVE  UNCHANGED placeVars
  BY <1>1 DEF ResOpen, ResOpenRefused, ResOpenNoDescriptor, ResOpenNoResource, ResOpenDone,
              OpenDescriptor, Refuse, Crash
<1>2. ASSUME NEW id, ResDestroyRefused(id) \/ ResDestroy(id)
      PROVE  UNCHANGED placeVars
  BY <1>2 DEF ResDestroyRefused, ResDestroy, Refuse
<1>3. ASSUME NEW fd, ResCloseRefused(fd) \/ ResClose(fd)
      PROVE  UNCHANGED placeVars
  BY <1>3 DEF ResCloseRefused, ResClose, Refuse
<1> QED BY <1>1, <1>2, <1>3 DEF ResCall

(* The calls of the other components move processes between the lists of   *)
(* the scheduler only.                                                     *)
LEMMA SysWhereaboutsStep ==
  ASSUME SchedAssumption, ProcAssumption, SysInv, Whereabouts, [SysNext]_sysAll
  PROVE  Whereabouts'
<1>1. SemBase /\ ProcInv
  BY DEF SysInv
<1>2. CASE SysSemCall
  <2>1. Placed' = Placed /\ UNCHANGED tableVars
    BY <1>1, <1>2, SemCallPlaces DEF SysSemCall
  <2> QED BY <2>1, WhereaboutsOfPlaced
<1>3. CASE ResCall
  <2>1. UNCHANGED placeVars /\ UNCHANGED tableVars
    BY <1>3, ResCallPlaces, ResCallQuiet
  <2>2. Placed' = Placed
    BY <2>1 DEF Placed, placeVars
  <2> QED BY <2>1, <2>2, WhereaboutsOfPlaced
<1>4. CASE ResCreate \/ ResExit \/ ResKept
  BY <1>1, <1>4, ResNextProc, WhereaboutsStep
<1>5. CASE UNCHANGED sysAll
  <2>1. UNCHANGED procAll
    BY <1>5 DEF sysAll, resAll
  <2> QED BY <1>1, <2>1, WhereaboutsStep
<1> QED BY <1>2, <1>3, <1>4, <1>5 DEF SysNext, SysCreate, SysRest

LEMMA SysWhereaboutsInvariant == SysSpec => []Whereabouts
<1>1. SysInit => Whereabouts
  BY SchedAssumption, ProcAssumption, WhereaboutsInit DEF SysInit
<1>2. SysInv /\ Whereabouts /\ [SysNext]_sysAll => Whereabouts'
  BY SchedAssumption, ProcAssumption, SysWhereaboutsStep
<1> QED BY <1>1, <1>2, SysInvariant, PTL DEF SysSpec

(* No handler of any component puts a PCB on two lists, nor on one while   *)
(* its block is free, and none loses a PCB before a second init is booted. *)
THEOREM SysEveryPCBInOnePlace == SysSpec => []OnePlace
BY SysProcInvariant, SysWhereaboutsInvariant, OnePlaceHolds, PTL

(***************************************************************************)
(* Every zombie is on the list of children of a process that has not       *)
(* exited, and which, until a second init is booted, runs, is ready or     *)
(* waits, however it came to be blocked.                                   *)
(***************************************************************************)
THEOREM SysFamilyTreeSound == SysSpec => []FamilyTree
BY SysProcInvariant, SysWhereaboutsInvariant, FamilyTreeHolds, PTL

(***************************************************************************)
(* Nobody stays blocked in wait beside a zombie it would take and whose    *)
(* parent field names it; an orphan's, which init has taken over, does not.*)
(***************************************************************************)
THEOREM SysNoWaitIsLost == SysSpec => []WaitNotLost
<1>1. ProcInv => WaitNotLost
  BY DEF ProcInv
<1> QED BY <1>1, SysProcInvariant, PTL

LEMMA SysSteps ==
  ASSUME SchedAssumption, ProcAssumption, SemAssumption, ResAssumption, SysInv,
         [SysNext]_sysAll
  PROVE  [PtrLostAtExit /\ FreedWhenReported]_procAll
<1>1. UNCHANGED sysAll => UNCHANGED procAll
  BY DEF sysAll, resAll
<1> QED BY <1>1, SysStep DEF SysGood

(***************************************************************************)
(* A PCB is freed only when its pid is reported to the process that had it *)
(* on its list of children, which runs next and has it there no more.      *)
(***************************************************************************)
THEOREM SysNobodyFreedUnreported == SysSpec => NoSilentFree
<1>1. SysInv /\ [SysNext]_sysAll => [FreedWhenReported]_procAll
  BY SchedAssumption, ProcAssumption, SemAssumption, ResAssumption, SysSteps
<1> QED BY <1>1, SysInvariant, PTL DEF SysSpec, NoSilentFree

(* A PCBPtr block is lost exactly when a process that is awaited exits.    *)
THEOREM SysPtrsLostOnlyAtExits == SysSpec => PtrsLostAtExits
<1>1. SysInv /\ [SysNext]_sysAll => [PtrLostAtExit]_procAll
  BY SchedAssumption, ProcAssumption, SemAssumption, ResAssumption, SysSteps
<1> QED BY <1>1, SysInvariant, PTL DEF SysSpec, PtrsLostAtExits

LEMMA SysResInvariant == SysSpec => [](ResInv /\ PtrThere)
<1>1. SysInv => ResInv
  BY DEF SysInv
<1> QED BY <1>1, SysInvariant, PTL

(* Every open descriptor of a process that is not over points to a         *)
(* resource on the list, whose own list holds its DescriptorPtr.           *)
THEOREM SysOpenResourcesStay == SysSpec => []OpenResourceListed
BY SysResInvariant, ResInvGives, PTL

(* The numbers of the resources a process has open are distinct.           *)
THEOREM SysNumbersDistinct == SysSpec => []FdsDistinct
BY SysResInvariant, ResInvGives, PTL

(* No call releases a block twice or gives out one that is still in use.   *)
THEOREM SysPoolsStaySound == SysSpec => []PoolsSound
BY SysResInvariant, ResInvGives, PTL

(* openResource never dereferences the NULL of an empty DescriptorPtr pool.*)
THEOREM SysPtrNeverRunsOut ==
  ASSUME NUM_DESCRIPTORS <= NUM_DESCRIPTORPTRS
  PROVE  SysSpec => []PtrNeverMissing
<1>1. PtrThere => PtrNeverMissing
  BY DEF PtrThere
<1> QED BY <1>1, SysResInvariant, PTL

-----------------------------------------------------------------------------
(***************************************************************************)
(* What is proved of the semaphores where all processes are there from the *)
(* start and none ends holds while they are created, forked and end, with  *)
(* what they had open left to the next owner of the PCB.                   *)
(***************************************************************************)
LEMMA SysSemInvariant == SysSpec => []SemBase
<1>1. SysInv => SemBase
  BY DEF SysInv
<1> QED BY <1>1, SysInvariant, PTL

(* The semaphore structures keep their types.                              *)
THEOREM SysSemTypeCorrect == SysSpec => []SemTypeOK
<1>1. SemBase => SemTypeOK
  BY DEF SemBase
<1> QED BY <1>1, SysSemInvariant, PTL

(* No descriptor outlives the semaphore it points to, though exit closes   *)
(* none, and who waits keeps the descriptor it waits with.                 *)
THEOREM SysNoFreedSemaphoreInUse == SysSpec => []NoDanglingSemaphore
<1>1. SemBase => NoDanglingSemaphore
  BY DEF SemBase
<1> QED BY <1>1, SysSemInvariant, PTL

(* The entries of a semaphore are as many as the descriptors open on it,   *)
(* those of PCBs that ended or were given out again included.              *)
THEOREM SysEntriesCountOpens == SysSpec => []EntriesMatchOpens
<1>1. SemBase => EntriesMatchOpens
  BY DEF SemBase, EntryPerOpen, EntriesMatchOpens
<1> QED BY <1>1, SysSemInvariant, PTL

(***************************************************************************)
(* No SemDescriptorPtr is lost or freed twice, and no free Semaphore or    *)
(* SemDescriptor is in use.  A SemDescriptor may still be lost: semOpen    *)
(* does not give it back when no SemDescriptorPtr is left.                 *)
(***************************************************************************)
THEOREM SysBlocksConserved == SysSpec => []PoolsConserved
BY SemAssumption, SysSemInvariant, BaseConserves, PTL

LEMMA SysCountStep ==
  ASSUME SchedAssumption, ProcAssumption, SemAssumption, ResAssumption, OpenCounts \subseteq Nat,
         SysInv, CountInv, [SysNext]_sysAll
  PROVE  CountInv'
<1>1. SemBase /\ ProcInv /\ ResInv
  BY DEF SysInv
<1>2. ASSUME UNCHANGED <<semaphores_list, sem>>, SemPostFindsWaiter'
      PROVE  CountInv'
  BY <1>2, CountsAlone
<1>3. CASE SysSemCall
  BY <1>1, <1>3, SemCallCounts DEF SysSemCall
<1>4. CASE SysCreate \/ SysRest
  BY <1>1, <1>2, <1>4, OtherTables, OtherSteps DEF CountInv
<1>5. CASE UNCHANGED sysAll
  <2>1. UNCHANGED <<semaphores_list, sem>> /\ UNCHANGED fault
    BY <1>5 DEF sysAll, resAll, procAll, schedVars, semVars
  <2> QED BY <1>2, <2>1 DEF CountInv, SemPostFindsWaiter
<1> QED BY <1>3, <1>4, <1>5 DEF SysNext

LEMMA SysCountInvariant ==
  ASSUME OpenCounts \subseteq Nat
  PROVE  SysSpec => [](SysInv /\ CountInv)
<1> USE SchedAssumption, ProcAssumption, SemAssumption, ResAssumption
<1>1. SysInit => CountInv
  <2> SUFFICES ASSUME SysInit PROVE CountInv
    OBVIOUS
  <2>1. Elements(semaphores_list) = {}
    BY DEF SysInit, SemTablesInit, Elements
  <2>2. fault = "none"
    BY DEF SysInit, ProcInit
  <2> QED BY <2>1, <2>2 DEF CountInv, SemPostFindsWaiter
<1>2. SysInv /\ CountInv /\ [SysNext]_sysAll => CountInv'
  BY SysCountStep
<1> QED BY <1>1, <1>2, SysInvariant, PTL DEF SysSpec

(* A negative count is the number of the waiters.                          *)
THEOREM SysCountsTellWaiters ==
  ASSUME OpenCounts \subseteq Nat
  PROVE  SysSpec => []CountMatchesWaiters
<1>1. SysInv /\ CountInv => CountMatchesWaiters
  BY SemAssumption, CountsMatch DEF SysInv
<1> QED BY <1>1, SysCountInvariant, PTL

(* semPost finds the waiter its count promises, though the process that    *)
(* waits may be orphaned and its parent's PCB given out again.             *)
THEOREM SysPostFindsWaiter ==
  ASSUME OpenCounts \subseteq Nat
  PROVE  SysSpec => []SemPostFindsWaiter
<1>1. CountInv => SemPostFindsWaiter
  BY DEF CountInv
<1> QED BY <1>1, SysCountInvariant, PTL

-----------------------------------------------------------------------------
LEMMA SysImplements ==
  ASSUME SchedAssumption, SemAssumption, OpenCounts \subseteq Nat,
         SysInv, SysInv', CountInv, CountInv', [SysNext]_sysAll
  PROVE  [Abs!AbsNext]_(Abs!absVars)
<1>1. SemBase /\ SemBase' /\ ProcInv
  BY DEF SysInv
<1>2. CASE SysSemCall
  BY <1>1, <1>2, SemCallImplements DEF SysSemCall
<1>3. CASE SysCreate \/ SysRest
  BY <1>1, <1>3, OtherTables, SwitchImplements DEF Abs!AbsNext
<1>4. CASE UNCHANGED sysAll
  <2>1. UNCHANGED <<semVars, running>>
    BY <1>4 DEF sysAll, resAll, procAll, schedVars, placeVars
  <2> QED BY <2>1, StutterImplements
<1> QED BY <1>2, <1>3, <1>4 DEF SysNext

(***************************************************************************)
(* The kernel implements the abstract counting semaphores: creation, exit, *)
(* wait, the resources, sleep and reboot are for them switches of the      *)
(* process that runs, or nothing.                                          *)
(***************************************************************************)
THEOREM KernelImplementsSemaphores ==
  ASSUME OpenCounts \subseteq Nat
  PROVE  SysSpec => SemRefines
<1> USE SchedAssumption, ProcAssumption, SemAssumption, ResAssumption
<1>1. SysInit => Abs!AbsInit
  <2> SUFFICES ASSUME SysInit PROVE Abs!AbsInit
    OBVIOUS
  <2>1. SemBase
    BY SysInitInv DEF SysInv
  <2>2. running \in PCB
    BY DEF SysInit, ProcInit, SchedAssumption, PCB
  <2> QED BY <2>1, <2>2, TablesImplement DEF SysInit
<1>2. SysInv /\ SysInv' /\ CountInv /\ CountInv' /\ [SysNext]_sysAll
        => [Abs!AbsNext]_(Abs!absVars)
  BY SysImplements
<1> QED BY <1>1, <1>2, SysCountInvariant, PTL DEF SysSpec, SemRefines, Abs!AbsSpec
=============================================================================
