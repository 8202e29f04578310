# disastrOS, in TLA+

disastrOS is a toy operating system kernel in C: it runs in one host thread,
gives every process a `ucontext`, and takes its timer from `SIGALRM`. The
repository adds counting semaphores to it, with a producer/consumer program as
the test. This directory models the kernel in TLA+, checks the models with TLC
and proves part of what they say with TLAPS. Paths below are relative to
`src/disastrOS_semaphores/`.

## The system

A system call (`disastrOS.c:88` `disastrOS_syscall`) stores its arguments in
`running`, saves the caller's context with `swapcontext` and goes to the trap
context, whose signal mask holds `SIGALRM` (`disastrOS.c:222`). The handler
runs there to its end and leaves in `running` the process to resume. The timer
signal (`disastrOS.c:47` `timerHandler`) saves the context of `running` and
goes to `timerInterrupt` (`disastrOS.c:51`). So handlers never interleave with
each other or with a tick, and **the interleaving that matters is the one of
whole handlers called by different processes, and of ticks between them**.
What is hard is that a handler leaves its caller half way through something (on
a waiting list, in the queue of a semaphore, among the children of a parent)
and a handler run by *another* process, an arbitrary number of steps later, has
to find exactly that and undo it.

| component | state | operations |
|---|---|---|
| scheduler, timers | `running`, `ready_list`, `waiting_list`, `timer_list`, `disastrOS_time`, `PCB.status` | `internal_schedule`, `internal_preempt`, `internal_sleep`, `timerInterrupt`, `TimerList_*` |
| semaphores | `semaphores_list`, the lists and `count` of each `Semaphore`, `PCB.sem_descriptors`, `PCB.last_sem_fd`, three pools | `internal_semOpen/semClose/semWait/semPost`, `DeleteSem`, `checkPrel`, `getDes`, `getPtr`, `getPtr2` |
| processes | PCB and PCBPtr pools, `last_pid`, `init_pcb`, `zombie_list`, `PCB.parent/children/pid` | boot, `internal_spawn/fork/wait/exit/shutdown` |
| resources | `resources_list`, `Resource.descriptors`, `PCB.descriptors`, three pools | `internal_openResource/closeResource/destroyResource`, the release in `internal_exit` |
| linked lists | `first`, `last`, `size`, `prev`/`next` of the items | `List_insert`, `List_detach`, `List_find` |
| pool allocator | `free_list`, `first_idx`, `size` | `PoolAllocator_getBlock`, `PoolAllocator_releaseBlock` |
| start, trap, signal | `main_context`, `trap_context`, `interrupt_context`, the syscall vectors | `disastrOS_start`, `disastrOS_syscall`, `disastrOS_trap`, `timerHandler` |
| test program | two semaphores, what each process has still to do | `producer`, `consumer`, `childFunction_2_laVendetta`, `initFunction`, `sleeperFunction` |

How they interact: every component shares the three lists of the scheduler and
`running`; a PCB has **one** list item, so it must be in one list at most, and
the list functions do not check it. The semaphores and the processes both block
their caller by moving it to `waiting_list` and both wake someone by assigning
`running` directly, past the ready list. `internal_exit` frees a PCB whose
semaphores and resources may still be open. Pools are stacks: the last block
freed is the next one given out, with its old content.

What makes each component correct:

- scheduler: no process is lost or in two places; nobody is woken late; every
  process that can run does run, again and again.
- semaphores: a unit is never lost and never given twice; who waits is served,
  first come first served; no pointer survives what it points to; the handlers
  never dereference `NULL`; together, they implement a counting semaphore.
- processes: the child lists partition the living and the zombies; no PCB is
  freed unreported; a parent that waits is awakened.
- resources, pools, lists: no leak, no double free, no dangling pointer.

## Modules

| module | models | state and actions |
|---|---|---|
| `Lists` | `linked_list.c` as sequences: insert after a position, detach, first match, the prefix before the first larger item | operators only |
| `Scheduler` | the scheduler and the timers | one action for each of `internal_sleep`, `internal_preempt`, `timerInterrupt` |
| `Semaphores` (extends `Scheduler`) | the four semaphore calls | one action for each way out of each handler: refused, done, no block left, pass, block, store, hand off, crash |
| `AbstractSemaphore` | what the calls promise | seven abstract steps; checked and proved as what `Semaphores` and `System` implement (`SemRefines`) |
| `Processes` (extends `Scheduler`) | life of processes | one action for each way out of spawn/fork, wait, exit, boot, shutdown |
| `PoolAllocator` | `pool_allocator.c`: the free list threaded through an array of indices | `getBlock`, `releaseBlock` |
| `Resources` (extends `Processes`, three instances of `PoolAllocator`) | the three resource calls, and the release in exit | one action for each way out of open, close, destroy; `ResCreate` and `ResExit` add to a creation and an exit what they do to the descriptors |
| `System` (extends `Semaphores` and `Resources`) | the whole kernel on one scheduler | every call of the three, with what `PCB_alloc` does and does not reset |
| `TestProgram` (extends `System`) | `disastrOS_test.c` on that kernel | one action for each statement of `initFunction` and of the children, and the tick |
| `MC...` | the instances for TLC | |
| `..._proof` | the theorems and their proofs | |

A variable has the name of the field or global it stands for. The structures
are abstracted as follows.

- A PCB, a Semaphore and a SemDescriptor are block numbers of their pools, and
  the content of a block outlives its release, as in the code. A free list is
  a sequence used as a stack where it matters *which* block comes next; the
  pools of `SemDescriptorPtr` and `PCBPtr`, whose blocks have no identity in
  the model, are counters.
- `timer_list` holds the ticks left instead of the absolute wake-up time: the
  clock would make the state space infinite and nothing else reads it.
- `waiting_list` and `zombie_list` are sets: they are only searched through a
  pointer to the item, and their order is only printed.
- A crash (a `NULL` dereference, a failed `assert`, an endless loop) stops the
  system in a state whose variable `fault` names it. The handlers do their
  checks in the code's order, and every error code is kept.
- `Processes` keeps what the code does after `main_context` is resumed: a
  process that returns from its function, or a trap that leaves nobody to run,
  boots a second init over the lists of the first system.

## Plan

Done, in this order: `Lists`, `Scheduler`, `Semaphores`, `AbstractSemaphore`
(the refinement), `Processes`, the proofs about the scheduler, the abstract
semaphores and the safety of the real ones; `PoolAllocator` with its proof,
`Resources`, `System`, `TestProgram`; the proofs about `Processes`, the
refinement, the proofs about `Resources`, and those about `System`, which lift
what is proved of the parts to the whole kernel. Left: the windows inside the
handlers of the signal (see "Not modelled").

## Runs

| run | instance | what it shows |
|---|---|---|
| `sched` | 4 processes, 3 sleep 0, 1 or 3 ticks | the lists of the scheduler keep every process once; nobody oversleeps; a process that never sleeps keeps the processor busy; everybody runs again and again |
| `sem` | 3 processes (1 only computes), 2 semaphores, 2 descriptors each | the counts and lists of a semaphore stay consistent although `semClose` removes entries by descriptor number; neither switching handler meets `NULL`; the handlers implement `AbstractSemaphore` |
| `sem_queue` | 4 processes, 1 semaphore, sleeps of 1 tick | who blocks waits for exactly one thing, and who is ready runs |
| `sem_limits` | 2 processes, 2 usable numbers for 2 `Semaphore` blocks, 3 blocks in each of the other pools, numbers and counts from -1 | all three pools run out; no pointer dangles, no `SemDescriptorPtr` is lost, no free block is in use |
| `proc` | 4 PCBs, 5 processes in the life of the system | no PCB in two places; until a second init is booted none is lost and every zombie is on the list of a process that can still wait for it; no exit is missed by a true parent; a PCB is freed only when reported to who had it as a child |
| `system` | 3 PCBs, 3 processes in the life of the system, sleeps of 1 tick, 1 semaphore number or 3 resources for 2 blocks | statuses tell who waits, and each for one thing; processes that die with descriptors open and processes that inherit them leave the structures, the pools and the refinement intact |
| `test_program` | the 4 processes of the test, 2 rounds, sleeps of 2 and 1 ticks | in every schedule producer and consumer alternate, no child takes an error return, nothing crashes, the system shuts down with everything closed and both children reported |
| `sem_negative` | *violation* | `assert(att_des!=NULL)` of `disastrOS_sempost.c:44` fails (the dereference one line earlier crashes first) after `semOpen` with a negative count |
| `sem_entries` | *violation* | after `semClose` the list of a semaphore lacks a process that has it open, against `disastrOS_semaphore.h:10` |
| `proc_orphan` | *violation* | init waits and is not awakened by the exit of an orphan, against `disastrOS_exit.c:10-14` |
| `res_zombie` | *violation*, the instance of `system` | a process that exits unawaited keeps its resource descriptors, against `disastrOS_exit.c:74` |
| `proc_not_a_child` | *violation* | `disastrOS_wait` for a stranger's pid blocks instead of failing, against `disastrOS_wait.c:33-34` |

The bounds. Three callers are what it takes for the order of a queue to matter
and four PCBs for an orphan, a reused block and a waiting init at once; two
semaphores and two descriptors per process are what it takes for two entries of
one semaphore to carry one descriptor number, which is when `semClose` removes
the wrong one. `MaxFd` bounds the descriptors a process opens in its life (each
number is compared with others for equality only), `MaxCount` the units in store
(the code compares the count with 0 only), `MaxPid` the processes ever created
(5 of them over 4 blocks, so that a block is reused while others still point to
it). Sleep times 0, 1 and 3 make timers collide, overtake each other and stay
adjacent. In `sem_limits` a process opens two semaphores in its
life; the error of a `Semaphore` pool that is empty (`SEMAPHOREALLOCFAILURE`) is
never given there or anywhere, as the list of semaphores is as long as the pool
then and the call is refused before. In `system` a process opens one semaphore, or two resources, in its
life; two descriptors for two resources is what it takes for a create to find a
`Resource` block and no `Descriptor`. The programs of one behaviour use semaphores or resources, not both, and a
process sleeps only beside the semaphores of the first init (the condition
`Focus` on the next state of every step): no handler of resources reads what
those of semaphores or of the timers write, but for the scheduler's state, which
both kinds of behaviour exercise. Three processes are enough for the free list
of PCBs, which is last in, first out, to hand the block of the first child to
the second, with the list of descriptors it inherits, and for both children to
run beside init when neither has exited.
`test_program` has two rounds in place
of five, which is what it takes for each child to come back to a semaphore the
other left, and sleeps of 2 and 1 ticks in place of 40 and 35: the consumer
still sleeps longer than the producer, and ticks fall between any two
statements, so that either can come first. `sem` and `sem_queue` have one process that makes no blocking call, as
the test program has its `sleeperFunction`; `sem_limits` and `proc` have none, so
that they reach the crashes of an empty ready list. The view of a run drops the
stored results, which no guard reads, and in `proc` also the arguments of calls
that are over; in `system` also pids, which the programs of that run do not
wait for, the order of the resources, which have distinct numbers, which of the
two that are only created and destroyed is which, and what freed blocks hold that is overwritten before it is read;
the states that end in the same crash count as one.
`test_program` has no view: there the results are read.

Runs with `CHECK_DEADLOCK FALSE` are those in which the system may stop: a
crash, a shutdown or a bound on the pids and descriptors ever given; for `sem` and `sem_entries`, the
system cannot stop and the option costs nothing.

Fairness. Outside `test_program` the only assumption is weak fairness of the timer tick:
`setitimer` (`disastrOS.c:82`) re-arms `SIGALRM` every `INTERVAL` ms for ever,
user code does not mask it, and the handlers terminate. Nothing is assumed of
the programs, which may call anything or nothing. `NoStarvation` and
`ReadyRuns` hold under that alone. `test_program` adds, for each process, strong
fairness of its statements: a process that gets the processor again and again
gets on with its program, as a time slice is 100 ms and a statement a few
instructions. That it does get the processor again and again is not assumed but
follows from the scheduler, and `Terminates` fails when a handler loses a
waiter.

What the window after the trap does. `disastrOS_syscall` reads the result after
the trap, when the signal may come again (`disastrOS.c:101-102`), and a
`semWait` that blocks stores *its* result in the process that runs next
(`disastrOS_semwait.c:60`). So in `test_program` a child can read, as the result
of its `semOpen` or `semClose`, the number of the semaphore another child waits
at. A semaphore number is positive, and both tests of the program stay as they
are as long as no `semClose` (which must read 0) can be overtaken this way:
`NobodyReturns` and `CleanEnd` say that in this program none is.

Each property has a mutant: an operator named `..._mutant` beside the one it
replaces, with the plausible slip (a swapped comparison, a missing reset, the
newest waiter instead of the oldest, a block freed twice) that makes it fail.

## Proofs

- `Lists_proof`: what the list operators return: lengths, elements, absence
  of repetitions.
- `Scheduler_proof`: for any number of processes, any set of callers and any
  sleep times, `SchedTypeOK`, `PlacedOnce`, `NoOversleep`, `SleepersWait` and
  `NeverIdle` are invariants of `SchedSpec`. `PlacedOnce` alone is not
  inductive: a tick moves the processes *of the elapsed timers* to the ready
  list, so one must know that a process has one timer at most and that those
  with a timer are on the waiting list. `NoOversleep` is not either: only the
  head of the list is looked at, so the list has to be sorted. Hence
  `SchedCore`, to which `SleepersWait`, `NoOversleep` and `NeverIdle` are added.
  The tick is cut in two: aging the timers keeps the order, and
  `internal_schedule` on any sorted list removes exactly the prefix that is due.
  `SchedCore` has two parts. `SchedBase` (types, `PlacedOnce`, `TimersSorted`,
  sleepers are on the waiting list) is kept by every component: it asks that
  sleepers be waiting, not the converse, as semaphores and waits block too.
  `AllPlaced` (every PCB is on a list or runs) is true only where all processes
  are there from the start and none ends.
- `PoolAllocator_proof`: for any number of blocks, and whatever its users
  release, the pool is a stack: exactly one sequence of blocks is spelled by
  the indices (`SpelledOnce`: two would differ first at some position, but the
  block before it names the next one), `getBlock` pops it and `releaseBlock`
  pushes a block in use and ignores the rest (`PoolIsAStack`); the free list
  ends, repeats nothing and is as long as `size` (`FreeListSound`). This is the
  abstraction `Semaphores` and `Processes` make of their pools; `Resources` uses
  the allocator itself. The invariant is that *some* sequence is spelled; that
  a pushed block still fits is the pigeonhole principle. The lemmas
  `GetStacked`, `ReleaseStacked` and `ReleaseAllStacked` say what a user of a
  pool needs: which blocks are in use afterwards, and how many are left. The
  releases of an exit are a recursive function on the list of descriptors; its
  value at every position is the least-number argument on its defining
  equation, which has a solution because the pool after `i` releases has a
  closed form (`ReleasesDefined`).
- `AbstractSemaphore_proof`: for any processes, numbers and initial counts that
  satisfy `AbsAssumption`, `NoLostUnit` and `WaitersBlocked` are invariants of
  `AbsSpec`. They are inductive together with the types and `QueuesOpen` (a
  semaphore with a queue exists and is open), which comes from the guards of the
  abstract steps and says nothing of the code by itself: that the handlers obey
  those guards is what `SemaphoresImplement` and `KernelImplementsSemaphores` prove,
  and the safety of the abstract semaphores is theirs through the refinement.

- `Semaphores_proof`: for any number of processes, semaphores and blocks,
  `SemTypeOK`, `PlacedOnce`, `NoDanglingSemaphore`, `EntriesMatchOpens` and
  `PoolsConserved` (every `SemDescriptorPtr` is free or on a list, no free
  `Semaphore` or `SemDescriptor` is in use; a `SemDescriptor` *can* be lost,
  `disastrOS_semopen.c:64-69`) are invariants of `SemSpec`; and if `OpenCounts` holds no
  negative number so are `CountMatchesWaiters` and `SemPostFindsWaiter`. The
  condition is needed: `sem_negative` is the counterexample. The argument:
  - `semClose` may take off another process's entry, so nothing can be said of
    *which* entries a list holds, only of their number: `EntryPerOpen` has one
    for each descriptor open on the semaphore. Hence the list is empty, and
    the semaphore freed, exactly when its last descriptor is closed.
  - The process that closes it is running. Who is in a queue is on the waiting
    list (`QueuedBlocked`) and still holds its descriptor, of which it is the
    owner (`Owned`): so the last close finds the queue empty, and the block is
    freed without waiters for `Semaphore_alloc` to inherit.
  - The lookups return what they should because numbers are unique on the list
    (`UniqueIds`) and open descriptors point to listed semaphores.
  - A hand-off makes the first waiter run: it must be in no other queue and on
    no timer, or it would be taken off one of its two places only
    (`QueuedBlocked`), and `SchedBase` carries the rest.
  - `PtrsConserved` counts the blocks as pairs of a list and a position, so
    that an item more or less is one element of one set (`PairsGrow`).

  `SemBase` is the conjunction of these, and `SemInv` adds `AllPlaced`; the part
  about the counts is inductive on top of `SemBase` (`CountInv`), and says nothing
  of blocks off the list. The lemma of each handler asks for `SemBase` only, so
  that it can be used where processes are created and exit. On top of them:
  - `WaitsForOneThing`: `QueuedBlocked` says that who is in a queue is blocked
    and in one place; the converse, that who is on the waiting list without a
    timer is in *some* queue, is `QueuesCover`, which only the five handlers that
    touch a queue or the waiting list can disturb.
  - `NoFault`, when no semaphore is opened with a negative count, some process
    makes no blocking call, and the pool of `SemDescriptorPtr` has
    `MAX_NUM_SEMDESCRIPTORS_PER_PROCESS + 1` blocks for each process that calls.
    The first hypothesis is needed (`sem_negative`), and so is the second
    (`sem_limits` reaches the crash of the empty ready list). The third is a
    matter of counting: a process has at most that many descriptors open
    (`OpensBounded`), each with one entry, and is in one queue; so the open
    descriptors and the places in queues inject into pairs of a caller and a
    number, and the caller itself has none in a queue. The pools of the code
    have 1024 blocks, 32 descriptors for each process: enough for 31 processes
    that use semaphores at once. The runs `sem` and `sem_queue` meet the bound
    with equality.
  - `SemaphoresImplement`: `SemSpec => SemRefines` if `OpenCounts` holds no
    negative number. The abstract state is a function of the semaphore that has
    a number (`View`): nobody holds it, or its count, its holders and its queue
    are those of the one block on the list with that number. Each handler
    touches one block (`TouchedOne`), so the abstract state of every other
    number stays, and for that one the step is an abstract open, close, pass,
    block, store or hand-off; the steps of the scheduler touch none and change
    only who runs. Blocks that are not on the list matter too: a block is
    reused with the queue it had, which is empty.
- `Processes_proof`: for any number of PCBs, arguments of `wait` and sleep
  times, `ProcTypeOK`, `OnePlace`, `FamilyTree`, `WaitNotLost` and the two
  action properties `NoSilentFree` and `PtrsLostAtExits` hold of `ProcSpec`. None
  is inductive alone. `ProcInv` joins three parts, and `Whereabouts` is a second
  invariant on top of it:
  - `TableInv`: the lists of children are a forest (`Forest`: no PCB on two lists
    or twice on one); free and zombie PCBs have no children; the `parent`
    field of a child is the owner of the list, unless the child is an orphan
    that `init` has taken over, and `init` has no parent (`ParentFields`); the pids of the
    PCBs in use are distinct and below `last_pid`; there is a `PCBPtr` for each child.
  - `PlaceInv`: `SchedBase`; no PCB of the scheduler is free or a zombie; who is on
    the waiting list has status `Waiting`, and who is ready or free has not; status
    `Zombie` means the zombie list or a freed block; a process with a timer has not
    called `wait`. Nothing is said of the status of the process that runs: a hand-off
    resumes one whose status is still `Waiting`.
  - `WaitNotLost` itself.
  - `Whereabouts`: until a second init is booted every PCB is free, a zombie or held by the
    scheduler. Only the boot after a process has returned from its function drops one (the
    process that ran), so each handler has to be shown to put down whom it takes the
    processor from. PCB 1, the init of that time, has no parent, so it is on no list
    of children and is never freed: `init_pcb = 1` does mean the first init. It gives the last
    parts of `OnePlace` and `FamilyTree`: the process that has a zombie as a child
    is still there to wait for it.

  `NoSilentFree` asks that whoever is told had the freed PCB on its list of children
  and has it no longer: a report to a stale parent would violate it.

  The step that needs all of it is the awaited exit: it looks at the block its
  `parent` field points to, finds it waiting, detaches itself from that block's
  children and gives it the processor. That the
  block has no timer, is on the waiting list and is nobody's zombie follows from
  `PlaceInv`; that freeing the PCB leaves no list of children with it, from the
  forest. The scan of the timers there (`TimersWithout`) is proved to find
  nothing. `PtrLostAtExit` compares cardinalities of pairs of a list and a
  position, before and after each of the operations on forests (`Adoption`,
  `Separation`, `Inheritance`). `MaxPid` must not be 0: init has pid 0.
- `Resources_proof`: for any sizes of the pools and any requests,
  `OpenResourceListed`, `FdsDistinct` and `PoolsSound` are invariants of
  `ResSpec`, and so is `PtrNeverMissing` when there are as many `DescriptorPtr` as
  `Descriptor` blocks, as there are in the code (`disastrOS_descriptor.c:22-37`).
  `ResInv` says that what a process that is not over has open is in use, points
  to a listed resource that lists it, has a number below the next one, and is
  nobody else's; and that the two pools have lost equally many blocks. The
  release of many descriptors at once takes off the lists of the resources
  exactly the items of the descriptors released because no two descriptors share
  one. `ProcInv` is carried along: that a new PCB was free, that who exits was
  alive, and that a reaped child was a zombie decide whose descriptors count.

- `System_proof`: all of this holds of the whole kernel (`SysSpec`), where
  processes are created, wait for children and end while others are blocked at
  semaphores and blocks of PCBs are reused with the descriptors of their last
  owner: the theorems of `Processes_proof` and `Resources_proof`, those of
  `Semaphores_proof` that do not suppose the processes fixed, and the refinement
  (`KernelImplementsSemaphores`). New are `StatusTruth` and `OneReasonToWait`. The
  invariant is `SysInv`: `SemBase`, `ProcInv`, `ResInv`, and the link between them,
  `OneReason`: the processes in the queues of semaphores are exactly those that are
  blocked, have no timer and are not in a wait for a child (`Parked`). It is needed
  because the awaited exit tells a parent that waits for it from a process blocked at
  a semaphore only by the last call it made, and would resume one that a queue still
  holds. Every step of a process or a resource call leaves `Parked` as it is, and
  finds the tables of semaphores untouched but for the numbers of a new PCB
  (`QueuesUntouched`); every semaphore call moves `Parked` and the queues alike
  (`InQueueMoves`). `Whereabouts` holds here too: no call of a semaphore or a resource
  loses a PCB (`SysWhereaboutsInvariant`). TLC checked `SysInv` on the instance of `system` before it was
  proved.

Assumptions: `SchedAssumption` (at least one PCB, callers are PCBs, sleep times
are naturals, as `disastrOS_sleep` of a negative time is not called),
`ProcAssumption` (arguments of `wait` are integers, `MaxPid` is positive),
`SemAssumption`
(sizes are naturals, semaphore numbers and counts are integers) and
`ResAssumption` (no pool of the resources is empty, requests have numbers and a
mode of three bits). The theorems about the pool suppose at
least one block, as every pool of the kernel has; `TestAssumption` says that
the two semaphores of the test have different numbers. Hypotheses that a
theorem has beyond these are in its statement; so is `AbsAssumption` (`Idle` is no
process, counts are naturals) in those of `AbstractSemaphore_proof`.

Only model-checked: liveness (`NoStarvation`, `ReadyRuns`, `Terminates`: out of
TLAPS's reach), and the four properties of `TestProgram`.

## What the code does against its own words

Five disagreements, each a run expected to be violated (see the table): a
negative initial count crashes the first post; a close takes off another
process's entry; an orphan's exit does not wake init, as `parent` is not
updated; a wait for a stranger blocks; `internal_exit` releases "all resources of a
process upon termination" (`disastrOS_exit.c:74`) of an awaited process only: a
zombie's descriptors stay on the lists of their resources, which cannot be
destroyed any more, and their blocks are lost (`PoolsSound` and
`OpenResourceListed` say that nothing worse follows). Other behaviour that surprised us and no
text contradicts: the `PCBPtr` of an awaited exit is never freed
(`disastrOS_exit.c:52`), so a long-lived system runs out of them and crashes in
spawn; the error branches of `spawn` and `fork` are dead, as the allocation
writes to the block before they test it; a forked process has no context of its
own to run from; init's exit with children left loops for ever. From the later
modules:

- `PCB_alloc` initialises `descriptors` twice and `sem_descriptors` never
  (`disastrOS_pcb.c:53` and `:58`): a process starts with the semaphores the last owner
  of its block had open, while its numbers start from 0, so two of its
  descriptors can have one number. `SemRefines` still holds, because the
  descriptors were never closed and the new owner is in the same block; it
  fails for the obvious repair, to empty the list without closing what is on it.
- `DSOS_WRITE` is `0x3`, which contains `DSOS_CREATE` (`disastrOS_constants.h:51-53`):
  to open an existing resource for writing is refused. The check for
  `DSOS_EXCL` looks at those who have the resource open, not at how: an
  exclusive open does not keep out later ones.
- A process that was handed a unit keeps status `Waiting` while it runs. If it
  then makes a `wait` that returns at once and returns from its function, it is
  on no list, and the exit of a child takes it for a waiting parent and resumes
  it.
- With a log file, the trap and the timer log `running->pid` before anyone looks
  whether a process runs (`disastrOS.c:132`).

## Not modelled

- The windows inside the signal and the trap: a tick inside `swapcontext`
  (where it changes the mask is the C library's matter), a second tick inside
  `timerInterrupt`, and a tick inside `disastrOS_start` before the first process
  runs, which take a handler longer than 100 ms. A system call and a tick are
  one step each.
- Bytes and alignment in the pool allocator, and its refusal of a memory block
  that is too small.
- `childFunction` of the test, which nothing spawns.
- Log and status output: no state depends on it.
- Exit values and signals: written and never read by the kernel.
- The overflow of the wake-up time and of the counters `last_pid`, `last_fd`,
  `last_sem_fd` and `count`: they need years of ticks or `2^31` calls.
- The pointers of the linked lists: an item is either in the list or not, and
  `PlacedOnce`/`OnePlace` state the condition under which that abstraction is
  right.
