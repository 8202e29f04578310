----------------------------- MODULE Semaphores -----------------------------
(***************************************************************************)
(* The semaphore system calls: semOpen, semClose, semWait and semPost over *)
(* the global list of semaphores, the pools their structures come from and *)
(* the scheduler's lists.  Each handler runs to its end inside the trap,   *)
(* so each is one step; one action per way out of the handler.             *)
(*                                                                         *)
(* Data abstractions.                                                      *)
(*  - A Semaphore and a SemDescriptor are blocks of their pools; a freed   *)
(*    block keeps its content, as the code's does, and the free list is    *)
(*    the stack PoolAllocator keeps: the last block freed is the next      *)
(*    one given out.                                                       *)
(*  - A SemDescriptorPtr holds one pointer to a SemDescriptor, so a list   *)
(*    of them is the sequence of the SemDescriptors; their pool is the     *)
(*    number of free blocks.                                               *)
(*  - pids are compared in the code to compare processes: two PCB blocks   *)
(*    never hold one pid, so the blocks are compared here.                 *)
(***************************************************************************)
EXTENDS Scheduler

CONSTANTS
  MAX_NUM_SEMAPHORES,                 \* blocks of the Semaphore pool
  NUM_SEMDESCRIPTORS,                 \* blocks of the SemDescriptor pool
  NUM_SEMDESCRIPTORPTRS,              \* blocks of the SemDescriptorPtr pool
  MAX_NUM_SEMDESCRIPTORS_PER_PROCESS, \* open semaphores of one process
  SemNums,                            \* semaphore numbers the programs use
  OpenCounts,                         \* initial counts the programs give
  MaxFd, MaxCount                     \* bounds of the model: descriptors opened
                                      \* in the life of a process, posts in store

SEM == 1..MAX_NUM_SEMAPHORES
SD == 1..NUM_SEMDESCRIPTORS

ASSUME SemAssumption ==
  /\ MAX_NUM_SEMAPHORES \in Nat
  /\ NUM_SEMDESCRIPTORS \in Nat
  /\ NUM_SEMDESCRIPTORPTRS \in Nat
  /\ MAX_NUM_SEMDESCRIPTORS_PER_PROCESS \in Nat
  /\ SemNums \subseteq Int
  /\ OpenCounts \subseteq Int
  /\ MaxFd \in Nat /\ MaxCount \in Nat

VARIABLES
  semaphores_list,  \* Seq(SEM)
  sem,              \* [SEM -> [id, count, descriptors, waiting_descriptors]]
  sem_free,         \* Seq(SEM), the free list of the Semaphore pool
  sem_descriptors,  \* [PCB -> Seq(SD)], the field PCB.sem_descriptors
  last_sem_fd,      \* [PCB -> Nat], the field PCB.last_sem_fd
  sd,               \* [SD -> [pcb, semaphore, fd]]
  sd_free,          \* Seq(SD), the free list of the SemDescriptor pool
  sdp_free          \* free blocks of the SemDescriptorPtr pool

poolVars == <<sem_free, sd_free>>
semVars == <<semaphores_list, sem, sem_descriptors, last_sem_fd, sd, sdp_free, poolVars>>
semAll == <<schedVars, semVars>>

TOOMUCHSEMDES == -1
SEMNUMINVALID == -2
SEMAPHOREALLOCFAILURE == -3
TOOMUCHSEM == -4
DESERROR == -5
TOOFEWSEM == -6

-----------------------------------------------------------------------------
(* Lookups.  Each gives a position in a list, 0 when there is none.        *)

SemaphoreList_byId(semnum) ==
  FirstOf({i \in 1..Len(semaphores_list) : sem[semaphores_list[i]].id = semnum})

getDes(semnum) ==
  FirstOf({i \in 1..Len(sem_descriptors[running]) :
             sem[sd[sem_descriptors[running][i]].semaphore].id = semnum})

getPtr(p, s) ==
  FirstOf({i \in 1..Len(sem[s].descriptors) : sd[sem[s].descriptors[i]].pcb = p})

getPtr2(fd, s) ==
  FirstOf({i \in 1..Len(sem[s].descriptors) : sd[sem[s].descriptors[i]].fd = fd})

(* The semaphore of that number, and the caller's descriptor for it.       *)
Found(semnum) == semaphores_list[SemaphoreList_byId(semnum)]
Mine(semnum) == sem_descriptors[running][getDes(semnum)]

(***************************************************************************)
(* The guards semWait, semPost and semClose share: checkPrel, the number   *)
(* is on the global list, the caller holds a descriptor for it.            *)
(***************************************************************************)
Usable(semnum) ==
  /\ semnum >= 0
  /\ SemaphoreList_byId(semnum) # 0
  /\ getDes(semnum) # 0

(* The position of the entry the call looks for in the semaphore's list:   *)
(* semWait looks for the caller's pid, semPost and semClose for the fd.    *)
EntryByPid(semnum) == getPtr(sd[Mine(semnum)].pcb, Found(semnum))
EntryByFd(semnum) == getPtr2(sd[Mine(semnum)].fd, Found(semnum))

RefusalCode == IF semaphores_list = <<>> THEN TOOFEWSEM ELSE SEMNUMINVALID

SemWaitRefused(semnum) ==
  /\ UserMode
  /\ ~(Usable(semnum) /\ EntryByPid(semnum) # 0)
  /\ Refuse(RefusalCode)
  /\ UNCHANGED semVars

SemPostRefused(semnum) ==
  /\ UserMode
  /\ ~(Usable(semnum) /\ EntryByFd(semnum) # 0)
  /\ Refuse(RefusalCode)
  /\ UNCHANGED semVars

(* semClose makes the same checks, inline.                                 *)
SemCloseRefused(semnum) == SemPostRefused(semnum)

-----------------------------------------------------------------------------
(***************************************************************************)
(* semOpen(semnum, count).  The checks come in this order; the first one   *)
(* refuses the call even when the semaphore exists already.                *)
(***************************************************************************)
Listed(semnum) == SemaphoreList_byId(semnum) # 0

SemOpenError(semnum) ==
  IF Len(semaphores_list) >= MAX_NUM_SEMAPHORES THEN TOOMUCHSEM
  ELSE IF Len(sem_descriptors[running]) >= MAX_NUM_SEMDESCRIPTORS_PER_PROCESS
  THEN TOOMUCHSEMDES
  ELSE IF semnum < 0 THEN SEMNUMINVALID
  ELSE IF ~Listed(semnum) /\ sem_free = <<>> THEN SEMAPHOREALLOCFAILURE
  ELSE 0

SemOpenRefused(semnum) ==
  /\ UserMode
  /\ SemOpenError(semnum) # 0
  /\ Refuse(SemOpenError(semnum))
  /\ UNCHANGED semVars

(***************************************************************************)
(* The semaphore the call works on: the listed one of that number, or the  *)
(* next free block, filled and listed.  Semaphore_alloc leaves the waiting *)
(* list of the block as it was.                                            *)
(***************************************************************************)
Target(semnum) == IF Listed(semnum) THEN Found(semnum) ELSE Head(sem_free)

Semaphore_alloc_mutant(semnum, count) ==
  [sem[Target(semnum)] EXCEPT !.id = semnum, !.count = count]

Semaphore_alloc(semnum, count) ==
  IF Listed(semnum) THEN sem[Found(semnum)]
  ELSE [sem[Head(sem_free)] EXCEPT !.id = semnum, !.count = count, !.descriptors = <<>>]

FindOrAlloc(semnum, count, entries) ==
  /\ sem' = [sem EXCEPT ![Target(semnum)] =
                [Semaphore_alloc(semnum, count) EXCEPT !.descriptors = @ \o entries]]
  /\ semaphores_list' = IF Listed(semnum) THEN semaphores_list
                                          ELSE Append(semaphores_list, Head(sem_free))
  /\ sem_free' = IF Listed(semnum) THEN sem_free ELSE Tail(sem_free)

(* SemDescriptor_alloc(running->last_sem_fd, s, running).                  *)
SemDescriptor_alloc(semnum) ==
  /\ sd' = [sd EXCEPT ![Head(sd_free)] =
              [pcb |-> running, semaphore |-> Target(semnum), fd |-> last_sem_fd[running]]]
  /\ sd_free' = Tail(sd_free)
  /\ last_sem_fd' = [last_sem_fd EXCEPT ![running] = @ + 1]

(***************************************************************************)
(* The pool of SemDescriptorPtr.                                           *)
(***************************************************************************)
SemDescriptorPtr_alloc == sdp_free > 0 /\ sdp_free' = sdp_free - 1

SemDescriptorPtr_free_twice_mutant == sdp_free' = sdp_free + 2
SemDescriptorPtr_free_leak_mutant == UNCHANGED sdp_free
SemDescriptorPtr_free == sdp_free' = sdp_free + 1

SemOpenAccepted(semnum) ==
  /\ UserMode
  /\ last_sem_fd[running] < MaxFd
  /\ SemOpenError(semnum) = 0

(* No descriptor block: the semaphore just created stays on the list.      *)
SemOpenNoDescriptor(semnum, count) ==
  /\ SemOpenAccepted(semnum)
  /\ sd_free = <<>>
  /\ FindOrAlloc(semnum, count, <<>>)
  /\ Refuse(DESERROR)
  /\ UNCHANGED <<sem_descriptors, last_sem_fd, sd, sd_free, sdp_free>>

(* No SemDescriptorPtr block: the descriptor taken is on no list.          *)
SemOpenNoPtr(semnum, count) ==
  /\ SemOpenAccepted(semnum)
  /\ sd_free # <<>>
  /\ sdp_free = 0
  /\ FindOrAlloc(semnum, count, <<>>)
  /\ SemDescriptor_alloc(semnum)
  /\ Refuse(DESERROR)
  /\ UNCHANGED <<sem_descriptors, sdp_free>>

SemOpenDone(semnum, count) ==
  /\ SemOpenAccepted(semnum)
  /\ sd_free # <<>>
  /\ SemDescriptorPtr_alloc
  /\ FindOrAlloc(semnum, count, <<Head(sd_free)>>)
  /\ SemDescriptor_alloc(semnum)
  /\ sem_descriptors' = [sem_descriptors EXCEPT ![running] = Append(@, Head(sd_free))]
  /\ Return(semnum)
  /\ UNCHANGED <<placeVars, timer_list, fault>>

-----------------------------------------------------------------------------
(***************************************************************************)
(* semClose(semnum).  The entry taken off the semaphore's list is the one  *)
(* found by descriptor number, whose owner may be another process.  When   *)
(* the list is empty DeleteSem frees the semaphore.                        *)
(***************************************************************************)
SemCloseAccepted(semnum) ==
  /\ UserMode
  /\ Usable(semnum)
  /\ EntryByFd(semnum) # 0

EntriesLeft_kept_mutant(semnum) == sem[Found(semnum)].descriptors

EntriesLeft_all_mutant(semnum) ==
  SelectSeq(sem[Found(semnum)].descriptors, LAMBDA d : sd[d].fd # sd[Mine(semnum)].fd)

EntriesLeft(semnum) == Detach(sem[Found(semnum)].descriptors, EntryByFd(semnum))

CloseDescriptor(semnum) ==
  /\ sem_descriptors' = [sem_descriptors EXCEPT ![running] = Detach(@, getDes(semnum))]
  /\ sem' = [sem EXCEPT ![Found(semnum)].descriptors = EntriesLeft(semnum)]
  /\ sd_free' = <<Mine(semnum)>> \o sd_free
  /\ SemDescriptorPtr_free
  /\ Return(0)
  /\ UNCHANGED <<placeVars, timer_list, fault, last_sem_fd, sd>>

SemClose(semnum) ==
  /\ SemCloseAccepted(semnum)
  /\ EntriesLeft(semnum) # <<>>
  /\ CloseDescriptor(semnum)
  /\ UNCHANGED <<semaphores_list, sem_free>>

SemCloseLast(semnum) ==
  /\ SemCloseAccepted(semnum)
  /\ EntriesLeft(semnum) = <<>>
  /\ CloseDescriptor(semnum)
  /\ semaphores_list' = Detach(semaphores_list, SemaphoreList_byId(semnum))
  /\ sem_free' = <<Found(semnum)>> \o sem_free

-----------------------------------------------------------------------------
(***************************************************************************)
(* semWait(semnum).  The count is decremented, then compared with zero.    *)
(***************************************************************************)
MustWait_late_mutant(semnum) == sem[Found(semnum)].count - 1 < -1
MustWait(semnum) == sem[Found(semnum)].count - 1 < 0

SemWaitAccepted(semnum) ==
  /\ UserMode
  /\ Usable(semnum)
  /\ EntryByPid(semnum) # 0

SemWaitPass(semnum) ==
  /\ SemWaitAccepted(semnum)
  /\ ~MustWait(semnum)
  /\ sem' = [sem EXCEPT ![Found(semnum)].count = @ - 1]
  /\ Return(semnum)
  /\ UNCHANGED <<placeVars, timer_list, fault, semaphores_list, sem_descriptors,
                 last_sem_fd, sd, sdp_free, poolVars>>

(***************************************************************************)
(* The caller waits and the head of the ready list runs: its status is not *)
(* set, and the result is stored in it, not in the caller.                 *)
(***************************************************************************)
SemWaitBlock(semnum) ==
  /\ SemWaitAccepted(semnum)
  /\ MustWait(semnum)
  /\ SemDescriptorPtr_alloc
  /\ ready_list # <<>>
  /\ sem' = [sem EXCEPT ![Found(semnum)].count = @ - 1,
                        ![Found(semnum)].waiting_descriptors = Append(@, Mine(semnum))]
  /\ waiting_list' = waiting_list \cup {running}
  /\ status' = [status EXCEPT ![running] = "Waiting"]
  /\ running' = Head(ready_list)
  /\ ready_list' = Tail(ready_list)
  /\ syscall_retvalue' = [syscall_retvalue EXCEPT ![Head(ready_list)] = semnum]
  /\ UNCHANGED <<timer_list, fault, semaphores_list, sem_descriptors, last_sem_fd, sd,
                 poolVars>>

(* SemDescriptorPtr_alloc gives NULL and List_insert dereferences it.      *)
SemWaitNoPtr(semnum) ==
  /\ SemWaitAccepted(semnum)
  /\ MustWait(semnum)
  /\ sdp_free = 0
  /\ Crash("semWait: no SemDescriptorPtr")
  /\ UNCHANGED semVars

(* List_detach(&ready_list, NULL) dereferences NULL.                       *)
SemWaitNoReady(semnum) ==
  /\ SemWaitAccepted(semnum)
  /\ MustWait(semnum)
  /\ sdp_free > 0
  /\ ready_list = <<>>
  /\ Crash("semWait: no ready process")
  /\ UNCHANGED semVars

-----------------------------------------------------------------------------
(***************************************************************************)
(* semPost(semnum).  The count is incremented, then compared with zero.    *)
(***************************************************************************)
MustWake_late_mutant(semnum) == sem[Found(semnum)].count + 1 < 0
MustWake_early_mutant(semnum) == sem[Found(semnum)].count <= 0
MustWake(semnum) == sem[Found(semnum)].count + 1 <= 0

SemPostAccepted(semnum) ==
  /\ UserMode
  /\ Usable(semnum)
  /\ EntryByFd(semnum) # 0
  /\ sem[Found(semnum)].count < MaxCount

SemPostStore(semnum) ==
  /\ SemPostAccepted(semnum)
  /\ ~MustWake(semnum)
  /\ sem' = [sem EXCEPT ![Found(semnum)].count = @ + 1]
  /\ Return(0)
  /\ UNCHANGED <<placeVars, timer_list, fault, semaphores_list, sem_descriptors,
                 last_sem_fd, sd, sdp_free, poolVars>>

(* The process to wake: the one whose descriptor waits first.              *)
Waiter_holder_mutant(semnum) == sd[Head(sem[Found(semnum)].descriptors)].pcb
Waiter_newest_mutant(semnum) ==
  LET waiters == sem[Found(semnum)].waiting_descriptors
  IN sd[waiters[Len(waiters)]].pcb
Waiter(semnum) == sd[Head(sem[Found(semnum)].waiting_descriptors)].pcb

(***************************************************************************)
(* The first waiter takes the processor at once, the caller goes to the    *)
(* tail of the ready list.  The result is stored in the waiter, whose      *)
(* status stays Waiting.                                                   *)
(***************************************************************************)
SemPostHandOff(semnum) ==
  /\ SemPostAccepted(semnum)
  /\ MustWake(semnum)
  /\ sem[Found(semnum)].waiting_descriptors # <<>>
  /\ sem' = [sem EXCEPT ![Found(semnum)].count = @ + 1,
                        ![Found(semnum)].waiting_descriptors = Tail(@)]
  /\ SemDescriptorPtr_free
  /\ waiting_list' = waiting_list \ {Waiter(semnum)}
  /\ ready_list' = Append(ready_list, running)
  /\ status' = [status EXCEPT ![running] = "Ready"]
  /\ running' = Waiter(semnum)
  /\ syscall_retvalue' = [syscall_retvalue EXCEPT ![Waiter(semnum)] = 0]
  /\ UNCHANGED <<timer_list, fault, semaphores_list, sem_descriptors, last_sem_fd, sd,
                 poolVars>>

(* List_detach(&s->waiting_descriptors, NULL) dereferences NULL.           *)
SemPostNoWaiter(semnum) ==
  /\ SemPostAccepted(semnum)
  /\ MustWake(semnum)
  /\ sem[Found(semnum)].waiting_descriptors = <<>>
  /\ Crash("semPost: no waiter")
  /\ UNCHANGED semVars

-----------------------------------------------------------------------------
(* No semaphore exists; the pools are whole.                               *)
SemTablesInit ==
  /\ semaphores_list = <<>>
  /\ sem = [s \in SEM |-> [id |-> 0, count |-> 0, descriptors |-> <<>>,
                           waiting_descriptors |-> <<>>]]
  /\ sem_free = [i \in SEM |-> i]
  /\ sem_descriptors = [p \in PCB |-> <<>>]
  /\ last_sem_fd = [p \in PCB |-> 0]
  /\ sd = [d \in SD |-> [pcb |-> NULL, semaphore |-> NULL, fd |-> 0]]
  /\ sd_free = [i \in SD |-> i]
  /\ sdp_free = NUM_SEMDESCRIPTORPTRS

SemInit == SchedInit /\ SemTablesInit

SemOpenWith(semnum, count) ==
  \/ SemOpenNoDescriptor(semnum, count)
  \/ SemOpenNoPtr(semnum, count)
  \/ SemOpenDone(semnum, count)

SemOpenStep(semnum) ==
  \/ SemOpenRefused(semnum)
  \/ \E count \in OpenCounts : SemOpenWith(semnum, count)

SemCloseStep(semnum) ==
  SemCloseRefused(semnum) \/ SemClose(semnum) \/ SemCloseLast(semnum)

SemWaitStep(semnum) ==
  \/ SemWaitRefused(semnum)
  \/ SemWaitPass(semnum)
  \/ SemWaitBlock(semnum)
  \/ SemWaitNoPtr(semnum)
  \/ SemWaitNoReady(semnum)

SemPostStep(semnum) ==
  \/ SemPostRefused(semnum)
  \/ SemPostStore(semnum)
  \/ SemPostHandOff(semnum)
  \/ SemPostNoWaiter(semnum)

SemCall ==
  /\ running \in Callers
  /\ \E semnum \in SemNums : \/ SemOpenStep(semnum) \/ SemCloseStep(semnum)
                             \/ SemWaitStep(semnum) \/ SemPostStep(semnum)

SemNext == SemCall \/ (SchedNext /\ UNCHANGED semVars)

SemSpec == SemInit /\ [][SemNext]_semAll /\ WF_semAll(timerInterrupt /\ UNCHANGED semVars)

-----------------------------------------------------------------------------
(* The descriptors a process can close, those on semaphore s, and the      *)
(* SemDescriptorPtr blocks in use.                                         *)
OpenBy(p) == Elements(sem_descriptors[p])
Open == UNION {OpenBy(p) : p \in PCB}
OpenOn(s) == {d \in Open : sd[d].semaphore = s}
Waiters(s) == [i \in 1..Len(sem[s].waiting_descriptors) |->
                 sd[sem[s].waiting_descriptors[i]].pcb]

(* Type correctness of the semaphore structures.                           *)
SemTypeOK ==
  /\ SchedTypeOK
  /\ semaphores_list \in Seq(SEM)
  /\ sem \in [SEM -> [id : Int, count : Int, descriptors : Seq(SD),
                      waiting_descriptors : Seq(SD)]]
  /\ sem_free \in Seq(SEM)
  /\ sem_descriptors \in [PCB -> Seq(SD)]
  /\ last_sem_fd \in [PCB -> Nat]
  /\ sd \in [SD -> [pcb : PCB \cup {NULL}, semaphore : SEM \cup {NULL}, fd : Nat]]
  /\ sd_free \in Seq(SD)
  /\ sdp_free \in 0..NUM_SEMDESCRIPTORPTRS

(***************************************************************************)
(* A negative count is the number of the waiters, and nobody waits at a    *)
(* semaphore with units in store; a block that is not listed has no        *)
(* waiters left for Semaphore_alloc to inherit.                            *)
(***************************************************************************)
CountMatchesWaiters ==
  \A s \in SEM :
    Len(sem[s].waiting_descriptors) =
      IF s \in Elements(semaphores_list) /\ sem[s].count < 0 THEN -sem[s].count ELSE 0

(***************************************************************************)
(* The list of a semaphore has as many entries as there are descriptors    *)
(* open on it, although semClose may take off the entry of another         *)
(* process: so DeleteSem frees it with its last descriptor and not before. *)
(***************************************************************************)
EntriesMatchOpens ==
  \A s \in SEM : s \in Elements(semaphores_list) =>
    Len(sem[s].descriptors) = Cardinality(OpenOn(s))

(***************************************************************************)
(* No open descriptor points to a freed semaphore, and who waits still     *)
(* holds the descriptor it waits with.                                     *)
(***************************************************************************)
NoDanglingSemaphore ==
  /\ \A d \in Open : sd[d].semaphore \in Elements(semaphores_list)
  /\ \A s \in SEM : Elements(sem[s].waiting_descriptors) \subseteq OpenOn(s)

(***************************************************************************)
(* Who is on the waiting list waits for one thing, which will take it off  *)
(* that list: a timer or one place in the queue of one semaphore.          *)
(***************************************************************************)
WaitsForOneThing ==
  \A p \in PCB :
    Cardinality({i \in 1..Len(timer_list) : timer_list[i].pcb = p})
    + Cardinality({q \in SEM \X (1..NUM_SEMDESCRIPTORPTRS) :
                     q[2] <= Len(Waiters(q[1])) /\ Waiters(q[1])[q[2]] = p})
    = IF p \in waiting_list THEN 1 ELSE 0

(***************************************************************************)
(* Every block of the SemDescriptorPtr pool is free, or an entry of one    *)
(* list of a semaphore; free descriptors and semaphores are out of use.    *)
(* (A SemDescriptor can be lost: SemOpenNoPtr.)                            *)
(***************************************************************************)
EntryLen == [s \in SEM |-> Len(sem[s].descriptors)]
QueueLen == [s \in SEM |-> Len(sem[s].waiting_descriptors)]
Pairs(S, len) == UNION {{<<s, i>> : i \in 1..len[s]} : s \in S}

PtrsConserved(S) ==
  sdp_free + Cardinality(Pairs(S, EntryLen)) + Cardinality(Pairs(S, QueueLen))
    = NUM_SEMDESCRIPTORPTRS

BlocksApart ==
  /\ NoRepeat(sd_free) /\ Elements(sd_free) \cap Open = {}
  /\ NoRepeat(semaphores_list) /\ NoRepeat(sem_free)
  /\ Elements(semaphores_list) \cap Elements(sem_free) = {}

PoolsConserved == PtrsConserved(Elements(semaphores_list)) /\ BlocksApart

(***************************************************************************)
(* What internal_semPost asserts: when it has to wake a process there is   *)
(* one to wake.                                                            *)
(***************************************************************************)
SemPostFindsWaiter == fault # "semPost: no waiter"

(***************************************************************************)
(* What else the safety of the semaphores rests on.  The number of a       *)
(* semaphore names one on the list; a process has its own descriptors on   *)
(* its list, each once; who is in a queue is blocked by that alone.        *)
(***************************************************************************)
UniqueIds ==
  \A s, t \in Elements(semaphores_list) : sem[s].id = sem[t].id => s = t

Owned ==
  \A p \in PCB : /\ NoRepeat(sem_descriptors[p])
                 /\ \A d \in OpenBy(p) : sd[d].pcb = p

QueuedBlocked ==
  \A s \in SEM : \A i \in 1..Len(sem[s].waiting_descriptors) :
    /\ Waiters(s)[i] \in waiting_list \ Sleepers
    /\ \A t \in SEM : \A j \in 1..Len(sem[t].waiting_descriptors) :
         Waiters(s)[i] = Waiters(t)[j] => s = t /\ i = j

EntryPerOpen == \A s \in SEM : Len(sem[s].descriptors) = Cardinality(OpenOn(s))

(* The inductive invariant, wherever the calls are made, and where all the *)
(* processes are there from the start and none ends.                       *)
SemBase ==
  /\ SchedBase /\ SemTypeOK
  /\ BlocksApart /\ PtrsConserved(SEM)
  /\ IsFiniteSet(Pairs(SEM, EntryLen)) /\ IsFiniteSet(Pairs(SEM, QueueLen))
  /\ UniqueIds /\ Owned /\ QueuedBlocked
  /\ NoDanglingSemaphore /\ EntryPerOpen

SemInv == SemBase /\ AllPlaced

(***************************************************************************)
(* Neither handler that switches processes dereferences NULL: semWait      *)
(* finds a ready process and semPost finds the waiter its count promises.  *)
(***************************************************************************)
NoFault == fault = "none"

(***************************************************************************)
(* Whoever is ready runs: a hand-off, a process that blocks and the timer  *)
(* all take the processor past or from the head of the ready list, and     *)
(* sleepers come in before it.  It takes the timer, nothing else.          *)
(***************************************************************************)
ReadyRuns == \A p \in PCB : (p \in Elements(ready_list)) ~> (running = p)

(***************************************************************************)
(* What the header says of Semaphore.descriptors: all the processes that   *)
(* have the semaphore.                                                     *)
(***************************************************************************)
OpenersListed ==
  \A p \in PCB, d \in SD :
    d \in OpenBy(p) => d \in Elements(sem[sd[d].semaphore].descriptors)

-----------------------------------------------------------------------------
(***************************************************************************)
(* What the processes see: a semaphore is its number, its units in store   *)
(* (a negative count has none), the descriptors open on it, and its        *)
(* waiters.                                                                *)
(***************************************************************************)
LiveIds == {sem[s].id : s \in Elements(semaphores_list)}
OfLive(value(_), default) ==
  [n \in SemNums |-> LET i == SemaphoreList_byId(n)
                     IN IF i = 0 THEN default ELSE value(semaphores_list[i])]
Units(s) == IF sem[s].count > 0 THEN sem[s].count ELSE 0
Holders(s) == Cardinality(OpenOn(s))

Abs == INSTANCE AbstractSemaphore WITH
  Process <- PCB, Idle <- NULL, Name <- SemNums, Counts <- OpenCounts,
  user <- running, live <- LiveIds, value <- OfLive(Units, 0),
  holders <- OfLive(Holders, 0), queue <- OfLive(Waiters, <<>>)

(***************************************************************************)
(* Every step of the handlers is a step of the abstract semaphores or      *)
(* none, as long as no program opens one with a negative count.            *)
(***************************************************************************)
SemRefines == Abs!AbsSpec
=============================================================================
