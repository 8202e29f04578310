------------------------- MODULE AbstractSemaphore -------------------------
(***************************************************************************)
(* What the four semaphore calls promise the processes: counting           *)
(* semaphores, created by the first open and destroyed by the last close,  *)
(* with a first-come first-served queue, whose post hands the unit and the *)
(* processor to the first process of the queue.                            *)
(*                                                                         *)
(* It knows nothing of descriptors, lists, pools or the ready list; the    *)
(* module Semaphores implements it (property SemRefines).                  *)
(***************************************************************************)
EXTENDS Integers, Sequences

CONSTANTS
  Process,   \* the processes
  Idle,      \* what user is when no process has the processor
  Name,      \* the semaphore numbers
  Counts     \* the initial counts

(* What the constants are supposed to be: a hypothesis of the theorems.     *)
AbsAssumption == Idle \notin Process /\ Counts \subseteq Nat

VARIABLES
  user,      \* the process that has the processor, or Idle
  live,      \* the numbers of the semaphores that exist
  value,     \* [Name -> Nat], units in store
  holders,   \* [Name -> Nat], how many times it is open
  queue      \* [Name -> Seq(Process)], who waits, in order of arrival

absVars == <<user, live, value, holders, queue>>

Queued == UNION {{queue[n][i] : i \in 1..Len(queue[n])} : n \in Name}

AbsInit ==
  /\ user \in Process
  /\ live = {}
  /\ value = [n \in Name |-> 0]
  /\ holders = [n \in Name |-> 0]
  /\ queue = [n \in Name |-> <<>>]

(* Another process gets the processor: any one that waits for no unit.     *)
AbsSwitch ==
  /\ user' \in (Process \cup {Idle}) \ Queued
  /\ UNCHANGED <<live, value, holders, queue>>

(* The first open creates the semaphore; opening may fail after that.      *)
AbsOpen(n, c) ==
  /\ user \in Process
  /\ live' = live \cup {n}
  /\ value' = [value EXCEPT ![n] = IF n \in live THEN @ ELSE c]
  /\ \E opened \in {0, 1} : holders' = [holders EXCEPT ![n] = @ + opened]
  /\ UNCHANGED <<user, queue>>

(* The last close destroys the semaphore, when nobody waits at it.         *)
AbsClose(n) ==
  /\ user \in Process
  /\ n \in live /\ holders[n] > 0
  /\ holders' = [holders EXCEPT ![n] = @ - 1]
  /\ IF holders[n] > 1
     THEN UNCHANGED <<live, value>>
     ELSE /\ queue[n] = <<>>
          /\ live' = live \ {n}
          /\ value' = [value EXCEPT ![n] = 0]
  /\ UNCHANGED <<user, queue>>

AbsPass(n) ==
  /\ user \in Process
  /\ n \in live /\ holders[n] > 0 /\ value[n] > 0
  /\ value' = [value EXCEPT ![n] = @ - 1]
  /\ UNCHANGED <<user, live, holders, queue>>

AbsBlock(n) ==
  /\ user \in Process
  /\ n \in live /\ holders[n] > 0 /\ value[n] = 0
  /\ queue' = [queue EXCEPT ![n] = Append(@, user)]
  /\ user' \in Process \ (Queued \cup {user})
  /\ UNCHANGED <<live, value, holders>>

AbsStore(n) ==
  /\ user \in Process
  /\ n \in live /\ holders[n] > 0 /\ queue[n] = <<>>
  /\ value' = [value EXCEPT ![n] = @ + 1]
  /\ UNCHANGED <<user, live, holders, queue>>

AbsHandOff(n) ==
  /\ user \in Process
  /\ n \in live /\ queue[n] # <<>>
  /\ user' = Head(queue[n])
  /\ queue' = [queue EXCEPT ![n] = Tail(@)]
  /\ UNCHANGED <<live, value, holders>>

AbsNext ==
  \/ AbsSwitch
  \/ \E n \in Name :
       \/ \E c \in Counts : AbsOpen(n, c)
       \/ AbsClose(n) \/ AbsPass(n) \/ AbsBlock(n) \/ AbsStore(n) \/ AbsHandOff(n)

AbsSpec == AbsInit /\ [][AbsNext]_absVars

-----------------------------------------------------------------------------
(***************************************************************************)
(* Type correctness.                                                       *)
(***************************************************************************)
AbsTypeOK ==
  /\ user \in Process \cup {Idle}
  /\ live \subseteq Name
  /\ value \in [Name -> Nat]
  /\ holders \in [Name -> Nat]
  /\ queue \in [Name -> Seq(Process)]

(***************************************************************************)
(* The safety of the abstract semaphores.  A unit is not stored while      *)
(* somebody waits for one: semPost hands it over.                          *)
(***************************************************************************)
NoLostUnit == \A n \in Name : queue[n] # <<>> => value[n] = 0

(***************************************************************************)
(* Who waits does not run, and waits in one place of one queue: semWait    *)
(* blocks its caller, and semPost wakes the process it takes off.          *)
(***************************************************************************)
WaitersBlocked ==
  /\ user \notin Queued
  /\ \A m, n \in Name : \A i \in 1..Len(queue[m]), j \in 1..Len(queue[n]) :
       queue[m][i] = queue[n][j] => m = n /\ i = j
=============================================================================
