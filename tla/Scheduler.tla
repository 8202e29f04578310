----------------------------- MODULE Scheduler -----------------------------
(***************************************************************************)
(* The scheduler of disastrOS: the process that runs, the ready list, the  *)
(* waiting list, the timers and the two ways a process gives up the        *)
(* processor without waiting for another process: it sleeps, or it is      *)
(* preempted (by its own call or by the timer signal).                     *)
(*                                                                         *)
(* Every variable is shared: the modules Semaphores and Processes extend   *)
(* this one and their handlers assign these variables too.  A system call  *)
(* is one step because the trap context masks SIGALRM.                     *)
(*                                                                         *)
(* Data abstractions.                                                      *)
(*  - A PCB is a block of the PCB pool, 1..MAX_NUM_PROCESSES; NULL is 0.   *)
(*  - ready_list is the sequence the linked list spells.  waiting_list is  *)
(*    a set: its order is only ever printed.                               *)
(*  - A timer holds "left", the ticks between now and its awakening_time   *)
(*    (awakening_time - disastrOS_time): a tick decrements every "left"    *)
(*    where the code increments disastrOS_time.                            *)
(***************************************************************************)
EXTENDS Lists, FiniteSets

CONSTANTS
  MAX_NUM_PROCESSES,  \* blocks of the PCB pool
  Callers,            \* the PCBs whose program makes blocking system calls; any
                      \* other one only computes, like the test's sleeperFunction
  SleepTimes          \* the arguments those programs give to disastrOS_sleep

NULL == 0
PCB == 1..MAX_NUM_PROCESSES

ASSUME SchedAssumption ==
  /\ MAX_NUM_PROCESSES \in Nat \ {0}
  /\ Callers \subseteq PCB
  /\ SleepTimes \subseteq Nat

VARIABLES
  running,          \* the PCB that owns the processor, or NULL
  ready_list,       \* Seq(PCB)
  waiting_list,     \* SUBSET PCB
  status,           \* [PCB -> Statuses], the field PCB.status
  timer_list,       \* Seq of [left, pcb], earliest first
  syscall_retvalue, \* [PCB -> Int], the field PCB.syscall_retvalue
  fault             \* in Faults: "none", or what ended the program

placeVars == <<running, ready_list, waiting_list, status>>
schedVars == <<placeVars, timer_list, syscall_retvalue, fault>>

Statuses == {"Invalid", "Running", "Ready", "Waiting", "Zombie"}
Faults == {"none", "shutdown",
           "semWait: no SemDescriptorPtr", "semWait: no ready process", "semPost: no waiter",
           "spawn: no PCB", "spawn: no PCBPtr", "fork: no context",
           "wait: no ready process", "exit: no ready process", "exit: no parent",
           "exit: not a child", "exit: endless loop",
           "openResource: no Resource", "openResource: no DescriptorPtr",
           "boot: no PCB", "tick: no running process"}
Timers == [left : Int, pcb : PCB]
ESLEEP == -7

(***************************************************************************)
(* User code runs: nothing has crashed and some process owns the           *)
(* processor.  A system call can only start here.                          *)
(***************************************************************************)
UserMode == fault = "none" /\ running \in PCB

(* The handler returns: it stores its result and the caller goes on.       *)
Return(value) == syscall_retvalue' = [syscall_retvalue EXCEPT ![running] = value]

(* The handler only reports an error.                                      *)
Refuse(code) == Return(code) /\ UNCHANGED <<placeVars, timer_list, fault>>

(* The whole program ends here, in most cases on a NULL dereference.       *)
Crash(where) ==
  /\ fault' = where
  /\ UNCHANGED <<placeVars, timer_list, syscall_retvalue>>

(***************************************************************************)
(* The operators named ..._mutant are plausible wrong versions of the one  *)
(* that follows them; no specification uses them.  Each property of a run  *)
(* fails when one of them replaces the code's.                             *)
(*                                                                         *)
(* TimerList_add: before the first item that is due later.                 *)
(***************************************************************************)
DueNoLaterThan_mutant(left) == Len(timer_list)

DueNoLaterThan(left) ==
  LongestPrefix(Len(timer_list), {i \in 1..Len(timer_list) : timer_list[i].left <= left})

TimerList_add_mutant(left, p) ==
  timer_list' = Append(SubSeq(timer_list, 1, DueNoLaterThan(left)),
                       [left |-> left, pcb |-> p])

TimerList_add_untyped_mutant(left, p) ==
  timer_list' = InsertAfter(timer_list, DueNoLaterThan(left), [left |-> left, pcb |-> NULL])

TimerList_add(left, p) ==
  timer_list' = InsertAfter(timer_list, DueNoLaterThan(left), [left |-> left, pcb |-> p])

(***************************************************************************)
(* disastrOS_sleep.  The guard on running->timer never holds: nothing ever *)
(* assigns that field but 0.  The timer pool holds MAX_NUM_PROCESSES items.*)
(* With no ready process the processor is left to no one: the trap returns *)
(* to main_context, which module Processes follows.                        *)
(***************************************************************************)
NextReady_mutant ==
  IF ready_list = <<>>
  THEN running' = NULL /\ UNCHANGED ready_list
  ELSE running' = Head(ready_list) /\ UNCHANGED ready_list

NextReady_offByOne_mutant ==
  IF Len(ready_list) <= 1
  THEN running' = NULL /\ UNCHANGED ready_list
  ELSE running' = Head(ready_list) /\ ready_list' = Tail(ready_list)

NextReady ==
  IF ready_list = <<>>
  THEN running' = NULL /\ UNCHANGED ready_list
  ELSE running' = Head(ready_list) /\ ready_list' = Tail(ready_list)

internal_sleep(cycles) ==
  /\ UserMode
  /\ IF Len(timer_list) >= MAX_NUM_PROCESSES
     THEN Refuse(ESLEEP)
     ELSE /\ TimerList_add(cycles, running)
          /\ status' = [status EXCEPT ![running] = "Waiting"]
          /\ waiting_list' = waiting_list \cup {running}
          /\ NextReady
          /\ UNCHANGED <<syscall_retvalue, fault>>

(***************************************************************************)
(* internal_schedule, given the timers as they stand at this instant: the  *)
(* elapsed ones at the front of the list wake their processes, which go to *)
(* the front of the ready list in that order; then the head of the ready   *)
(* list replaces the running process, which goes to the tail.              *)
(***************************************************************************)
NumElapsed(timers) ==
  LongestPrefix(Len(timers), {i \in 1..Len(timers) : timers[i].left <= 0})

Exchanged_mutant(awake, next) == [awake EXCEPT ![next] = "Running"]
Exchanged(awake, next) == [awake EXCEPT ![running] = "Ready", ![next] = "Running"]

internal_schedule(timers) ==
  LET k     == NumElapsed(timers)
      woken == [i \in 1..k |-> timers[i].pcb]
      queue == woken \o ready_list
      awake == [p \in PCB |-> IF p \in Elements(woken) THEN "Ready" ELSE status[p]]
  IN /\ timer_list' = SubSeq(timers, k + 1, Len(timers))
     /\ waiting_list' = waiting_list \ Elements(woken)
     /\ IF queue = <<>>
        THEN status' = awake /\ UNCHANGED <<running, ready_list>>
        ELSE /\ running' = Head(queue)
             /\ ready_list' = Append(Tail(queue), running)
             /\ status' = Exchanged(awake, Head(queue))

internal_preempt ==
  /\ UserMode
  /\ internal_schedule(timer_list)
  /\ UNCHANGED <<syscall_retvalue, fault>>

(***************************************************************************)
(* The SIGALRM handler switches to timerInterrupt: one tick, one schedule. *)
(***************************************************************************)
Ticked == [i \in 1..Len(timer_list) |-> [timer_list[i] EXCEPT !.left = @ - 1]]

timerInterrupt_mutant ==
  /\ UserMode
  /\ IF NumElapsed(Ticked) = 0
     THEN timer_list' = Ticked /\ UNCHANGED placeVars
     ELSE internal_schedule(Ticked)
  /\ UNCHANGED <<syscall_retvalue, fault>>

timerInterrupt ==
  /\ UserMode
  /\ internal_schedule(Ticked)
  /\ UNCHANGED <<syscall_retvalue, fault>>

(***************************************************************************)
(* The scheduler alone: every process has been spawned, one of them runs.  *)
(***************************************************************************)
SchedInit ==
  /\ running \in PCB
  /\ ready_list \in [1..(MAX_NUM_PROCESSES - 1) -> PCB \ {running}]
  /\ NoRepeat(ready_list) /\ Elements(ready_list) = PCB \ {running}
  /\ waiting_list = {}
  /\ status = [p \in PCB |-> IF p = running THEN "Running" ELSE "Ready"]
  /\ timer_list = <<>>
  /\ syscall_retvalue = [p \in PCB |-> 0]
  /\ fault = "none"

SchedSleep == running \in Callers /\ \E cycles \in SleepTimes : internal_sleep(cycles)

SchedNext == SchedSleep \/ internal_preempt \/ timerInterrupt

(* setitimer re-arms SIGALRM every INTERVAL milliseconds for ever.         *)
SchedSpec == SchedInit /\ [][SchedNext]_schedVars /\ WF_schedVars(timerInterrupt)

-----------------------------------------------------------------------------
(* The processes that sleep on a timer.                                    *)
Sleepers == {timer_list[i].pcb : i \in 1..Len(timer_list)}

(* Type correctness of the scheduler's variables.                          *)
SchedTypeOK ==
  /\ running \in PCB \cup {NULL}
  /\ ready_list \in Seq(PCB)
  /\ waiting_list \subseteq PCB
  /\ status \in [PCB -> Statuses]
  /\ timer_list \in Seq(Timers)
  /\ syscall_retvalue \in [PCB -> Int]
  /\ fault \in Faults

(***************************************************************************)
(* Every process is in one place: it runs, or it is on the ready list once,*)
(* or it is on the waiting list.  internal_sleep, internal_schedule and    *)
(* the semaphore calls move one list item of the PCB between the lists and *)
(* List_insert and List_detach do not check where it is.                   *)
(***************************************************************************)
PlacedOnce ==
  /\ NoRepeat(ready_list)
  /\ running \notin Elements(ready_list) \cup waiting_list
  /\ Elements(ready_list) \cap waiting_list = {}

(***************************************************************************)
(* No timer is ever overdue between two kernel steps: TimerList_current    *)
(* looks at the first timer alone, so this rests on TimerList_add keeping  *)
(* the list sorted.                                                        *)
(***************************************************************************)
NoOversleep == \A i \in 1..Len(timer_list) : timer_list[i].left >= 0

(* The timers are sorted and no process has two of them.                   *)
TimersSorted ==
  \A i, j \in 1..Len(timer_list) : i < j =>
    /\ timer_list[i].left <= timer_list[j].left
    /\ timer_list[i].pcb # timer_list[j].pcb

(* The part of the inductive invariant that every component keeps: the     *)
(* processes that have a timer wait.                                       *)
SchedBase == SchedTypeOK /\ PlacedOnce /\ TimersSorted /\ Sleepers \subseteq waiting_list

(***************************************************************************)
(* Where all processes are there from the start and none ends, no process  *)
(* is lost by the three lists, and who waits made a blocking call.         *)
(***************************************************************************)
Placed == Elements(ready_list) \cup waiting_list \cup {running}
AllPlaced == waiting_list \subseteq Callers /\ PCB \subseteq Placed

SchedCore == SchedBase /\ AllPlaced

(***************************************************************************)
(* A process waits exactly when a timer will wake it: a process on the     *)
(* waiting list without a timer would never be found by internal_schedule. *)
(***************************************************************************)
SleepersWait == Sleepers = waiting_list

(***************************************************************************)
(* The processor is never left without a process when some program never   *)
(* blocks (the reason the test spawns sleeperFunction first).              *)
(***************************************************************************)
NeverIdle == Callers # PCB => running # NULL

(***************************************************************************)
(* Every process runs again and again, whatever the others call and        *)
(* however they sleep: the woken processes overtake the ready list, but    *)
(* the one they preempt goes to its tail.                                  *)
(***************************************************************************)
NoStarvation == \A p \in PCB : []<>(running = p)
=============================================================================
