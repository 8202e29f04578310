---------------------------- MODULE TestProgram ----------------------------
(***************************************************************************)
(* disastrOS_test.c, the program this kernel runs: initFunction spawns the *)
(* sleeper and two children, creating a resource before each child; the    *)
(* children, of pid 2 and 3, are a consumer and a producer over two        *)
(* semaphores; init waits for both and shuts the system down.              *)
(*                                                                         *)
(* A system call is one step of module System.  Where the program looks at *)
(* the result, reading it is a step of its own: disastrOS_syscall reads    *)
(* syscall_retvalue after the trap, when the timer signal may come again.  *)
(*                                                                         *)
(* Data abstractions: the prints of the producer and of the consumer are   *)
(* two counters; resource descriptors and exit values are not looked at;   *)
(* the pool has room for the four processes.                               *)
(***************************************************************************)
EXTENDS System

CONSTANTS
  HowManyTimes,   \* what each child produces or consumes
  SEM_P, SEM_C,   \* the numbers of the two semaphores
  SleepOf(_)      \* the time a child of that pid sleeps between two rounds

GREENLIGHT == 1
REDLIGHT == 0

ASSUME TestAssumption ==
  /\ HowManyTimes \in Nat
  /\ SEM_P \in Nat /\ SEM_C \in Nat /\ SEM_P # SEM_C

VARIABLES
  pc,        \* [PCB -> Labels], the next statement of each process
  round,     \* [PCB -> Nat], the i or j of its loop
  fds,       \* [PCB -> SUBSET Int], results a child has read and will test
  alive,     \* alive_children of init
  reported,  \* Seq(Int), the pids init was told by wait
  produced, consumed   \* how often each line was printed

userVars == <<pc, round, fds, alive, reported, produced, consumed>>
testAll == <<sysAll, userVars>>

Labels ==
  {"dead", "sleeper", "returned",
   "spawn sleeper", "create", "spawn child", "wait", "read wait", "shutdown",
   "open P", "read P", "open C", "read C", "next round", "take", "print", "give", "sleep",
   "close P", "read close P", "close C", "read close C", "exit"}

At(label) == ProcUser /\ pc[running] = label
Goto(label) == pc' = [pc EXCEPT ![running] = label]

Consumer == pid[running] = 2
Producer == pid[running] = 3

(* A semaphore call of the running process.                                *)
InSemaphores == Called(OtherCall) /\ UNCHANGED <<tableVars, resVars>>

semOpen(num, count) == (SemOpenRefused(num) \/ SemOpenWith(num, count)) /\ InSemaphores
semClose(num) == SemCloseStep(num) /\ InSemaphores
semWait(num) == SemWaitStep(num) /\ InSemaphores
semPost(num) == SemPostStep(num) /\ InSemaphores

-----------------------------------------------------------------------------
(* initFunction.                                                           *)

Begin(function) == pc' = [pc EXCEPT ![running] = function[1], ![Head(pcb_free)] = function[2]]

SpawnSleeper ==
  /\ At("spawn sleeper")
  /\ Spawn /\ NewPCB /\ NewPCBSemaphores
  /\ Begin(<<"create", "sleeper">>)
  /\ UNCHANGED <<round, fds, alive, reported, produced, consumed>>

CreateResource ==
  /\ At("create")
  /\ ResOpen([id |-> round[running], type |-> 0, mode |-> 1])
  /\ Goto("spawn child")
  /\ UNCHANGED <<semVars, round, fds, alive, reported, produced, consumed>>

SpawnChild ==
  /\ At("spawn child")
  /\ Spawn /\ NewPCB /\ NewPCBSemaphores
  /\ round' = [round EXCEPT ![running] = @ + 1]
  /\ alive' = alive + 1
  /\ Begin(<<IF round[running] + 1 < 2 THEN "create" ELSE "wait", "open P">>)
  /\ UNCHANGED <<fds, reported, produced, consumed>>

WaitChild ==
  /\ At("wait")
  /\ Wait(0)
  /\ Goto("read wait")
  /\ UNCHANGED <<resVars, semVars, round, fds, alive, reported, produced, consumed>>

(* The loop ends on an error, or when both have been reported.             *)
ReadWait ==
  LET result == syscall_retvalue[running]
  IN /\ At("read wait")
     /\ reported' = Append(reported, result)
     /\ alive' = IF result >= 0 THEN alive - 1 ELSE alive
     /\ Goto(IF result >= 0 /\ alive - 1 > 0 THEN "wait" ELSE "shutdown")
     /\ UNCHANGED <<sysAll, round, fds, produced, consumed>>

ShutdownCall ==
  /\ At("shutdown")
  /\ Shutdown
  /\ UNCHANGED <<resVars, semVars, userVars>>

-----------------------------------------------------------------------------
(***************************************************************************)
(* childFunction_2_laVendetta.  A child that returns would boot a second   *)
(* init: here it stops, and NobodyReturns says that none does.             *)
(***************************************************************************)
OpenP ==
  /\ At("open P")
  /\ semOpen(SEM_P, GREENLIGHT)
  /\ Goto("read P")
  /\ UNCHANGED <<round, fds, alive, reported, produced, consumed>>

OpenC ==
  /\ At("open C")
  /\ semOpen(SEM_C, REDLIGHT)
  /\ Goto("read C")
  /\ UNCHANGED <<round, fds, alive, reported, produced, consumed>>

Read(label, next) ==
  /\ At(label)
  /\ fds' = [fds EXCEPT ![running] = @ \cup {syscall_retvalue[running]}]
  /\ Goto(next)
  /\ UNCHANGED <<sysAll, round, alive, reported, produced, consumed>>

(* The second result is read and both are tested.                          *)
ReadBoth(label, good, next) ==
  /\ At(label)
  /\ Goto(IF fds[running] \cup {syscall_retvalue[running]} \subseteq good
          THEN next ELSE "returned")
  /\ fds' = [fds EXCEPT ![running] = {}]
  /\ UNCHANGED <<sysAll, round, alive, reported, produced, consumed>>

NextRound ==
  /\ At("next round")
  /\ Goto(IF (Consumer \/ Producer) /\ round[running] < HowManyTimes THEN "take" ELSE "close P")
  /\ UNCHANGED <<sysAll, round, fds, alive, reported, produced, consumed>>

(* producer and consumer: wait at one semaphore, print, post the other.    *)
Take ==
  /\ At("take")
  /\ semWait(IF Consumer THEN SEM_C ELSE SEM_P)
  /\ Goto("print")
  /\ UNCHANGED <<round, fds, alive, reported, produced, consumed>>

PrintLine ==
  /\ At("print")
  /\ consumed' = IF Consumer THEN consumed + 1 ELSE consumed
  /\ produced' = IF Consumer THEN produced ELSE produced + 1
  /\ Goto("give")
  /\ UNCHANGED <<sysAll, round, fds, alive, reported>>

Give ==
  /\ At("give")
  /\ semPost(IF Consumer THEN SEM_P ELSE SEM_C)
  /\ Goto("sleep")
  /\ UNCHANGED <<round, fds, alive, reported, produced, consumed>>

SleepCall ==
  /\ At("sleep")
  /\ Sleep(SleepOf(pid[running]))
  /\ round' = [round EXCEPT ![running] = @ + 1]
  /\ Goto("next round")
  /\ UNCHANGED <<resVars, semVars, fds, alive, reported, produced, consumed>>

Close(label, num, next) ==
  /\ At(label)
  /\ semClose(num)
  /\ Goto(next)
  /\ UNCHANGED <<round, fds, alive, reported, produced, consumed>>

ExitCall ==
  /\ At("exit")
  /\ ResExit
  /\ Goto("dead")
  /\ UNCHANGED <<semVars, round, fds, alive, reported, produced, consumed>>

Child ==
  \/ OpenP \/ Read("read P", "open C")
  \/ OpenC \/ ReadBoth("read C", Nat, "next round")
  \/ NextRound \/ Take \/ PrintLine \/ Give \/ SleepCall
  \/ Close("close P", SEM_P, "read close P") \/ Read("read close P", "close C")
  \/ Close("close C", SEM_C, "read close C") \/ ReadBoth("read close C", {0}, "exit")
  \/ ExitCall

InitFunction ==
  \/ SpawnSleeper \/ CreateResource \/ SpawnChild
  \/ WaitChild \/ ReadWait \/ ShutdownCall

UserStep == Child \/ InitFunction

TestTick == Tick /\ UNCHANGED <<resVars, semVars, userVars>>

TestInit ==
  /\ SysInit
  /\ pc = [p \in PCB |-> IF p = running THEN "spawn sleeper" ELSE "dead"]
  /\ round = [p \in PCB |-> 0]
  /\ fds = [p \in PCB |-> {}]
  /\ alive = 0 /\ reported = <<>>
  /\ produced = 0 /\ consumed = 0

TestNext == UserStep \/ TestTick

(***************************************************************************)
(* The timer goes off for ever, and a process that runs again and again    *)
(* gets on: INTERVAL is long for a statement.                              *)
(***************************************************************************)
TestSpec ==
  /\ TestInit /\ [][TestNext]_testAll
  /\ WF_testAll(TestTick)
  /\ \A p \in PCB : SF_testAll(running = p /\ UserStep)

-----------------------------------------------------------------------------
(***************************************************************************)
(* The two semaphores make a buffer of one place: an item is produced only *)
(* when the last one is consumed, and consumed only once produced.         *)
(***************************************************************************)
Alternate == produced - consumed \in 0..GREENLIGHT

(***************************************************************************)
(* No child takes one of the two early returns, which would boot a second  *)
(* init: every open and every close succeeds, although the closes look for *)
(* entries by numbers both children use, and although a result can be      *)
(* overwritten, before it is read, by another process's semWait.           *)
(***************************************************************************)
NobodyReturns == \A p \in PCB : pc[p] # "returned"

(* No handler the program calls meets the end of a list, and no pool ends. *)
NoCrash == fault \in {"none", "shutdown"}

(***************************************************************************)
(* At the shutdown init has been told of its two children, each once; both *)
(* are gone with their PCBs, no semaphore is left and all the blocks of    *)
(* the semaphore pools are back.                                           *)
(***************************************************************************)
CleanEnd ==
  fault = "shutdown" =>
    /\ reported \in {<<2, 3>>, <<3, 2>>}
    /\ Cardinality(Free) = MAX_NUM_PROCESSES - 2 /\ zombie_list = {}
    /\ semaphores_list = <<>> /\ Open = {}
    /\ Len(sd_free) = NUM_SEMDESCRIPTORS /\ sdp_free = NUM_SEMDESCRIPTORPTRS
    /\ produced = HowManyTimes /\ consumed = HowManyTimes

(***************************************************************************)
(* The program ends: nobody waits for a unit, a timer or a child that      *)
(* never comes.                                                            *)
(***************************************************************************)
Terminates == <>(fault = "shutdown")
=============================================================================
