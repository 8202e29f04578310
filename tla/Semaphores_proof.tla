-------------------------- MODULE Semaphores_proof --------------------------
(***************************************************************************)
(* The semaphore handlers keep their structures consistent, for any number *)
(* of processes, semaphores and blocks: no descriptor outlives what it     *)
(* points to, no block of a pool is lost, and, if no semaphore is opened   *)
(* with a negative count, a negative count is the number of the waiters.   *)
(* Then who waits is in one place, no handler meets a NULL pointer, and    *)
(* the handlers implement the abstract counting semaphores.                *)
(***************************************************************************)
EXTENDS Semaphores, Scheduler_proof, FiniteSetTheorems, FunctionTheorems

(* One list grows by an item at its end, the others stay.                  *)
LEMMA PairsGrow ==
  ASSUME NEW S, NEW s \in S, NEW f, NEW g, f[s] \in Nat, g[s] = f[s] + 1,
         \A t \in S \ {s} : g[t] = f[t]
  PROVE  /\ Pairs(S, g) = Pairs(S, f) \cup {<<s, g[s]>>}
         /\ <<s, g[s]>> \notin Pairs(S, f)
<1>1. 1..g[s] = (1..f[s]) \cup {g[s]} /\ g[s] \notin 1..f[s]
  OBVIOUS
<1>2. ASSUME NEW x PROVE x \in Pairs(S, g) <=> x \in Pairs(S, f) \cup {<<s, g[s]>>}
  BY <1>1 DEF Pairs
<1>3. <<s, g[s]>> \notin Pairs(S, f)
  BY <1>1 DEF Pairs
<1> QED BY <1>2, <1>3

(* The number of pairs after a list has grown or shrunk by one item.       *)
LEMMA GrowCount ==
  ASSUME NEW S, NEW s \in S, NEW f, NEW g, f[s] \in Nat, g[s] = f[s] + 1,
         \A t \in S \ {s} : g[t] = f[t], IsFiniteSet(Pairs(S, f))
  PROVE  /\ IsFiniteSet(Pairs(S, g))
         /\ Cardinality(Pairs(S, f)) \in Nat
         /\ Cardinality(Pairs(S, g)) = Cardinality(Pairs(S, f)) + 1
<1>1. Pairs(S, g) = Pairs(S, f) \cup {<<s, g[s]>>} /\ <<s, g[s]>> \notin Pairs(S, f)
  BY PairsGrow
<1>2. /\ IsFiniteSet(Pairs(S, f) \cup {<<s, g[s]>>})
      /\ Cardinality(Pairs(S, f) \cup {<<s, g[s]>>}) = Cardinality(Pairs(S, f)) + 1
  BY <1>1, FS_AddElement
<1> QED BY <1>1, <1>2, FS_CardinalityType

(* The converse: one list loses its last item.                             *)
LEMMA ShrinkCount ==
  ASSUME NEW S, NEW s \in S, NEW f, NEW g, g[s] \in Nat, f[s] = g[s] + 1,
         \A t \in S \ {s} : f[t] = g[t], IsFiniteSet(Pairs(S, f))
  PROVE  /\ IsFiniteSet(Pairs(S, g))
         /\ Cardinality(Pairs(S, g)) \in Nat
         /\ Cardinality(Pairs(S, f)) = Cardinality(Pairs(S, g)) + 1
<1>1. Pairs(S, f) = Pairs(S, g) \cup {<<s, f[s]>>} /\ <<s, f[s]>> \notin Pairs(S, g)
  BY PairsGrow
<1>2. IsFiniteSet(Pairs(S, g))
  BY <1>1, FS_Subset
<1>3. Cardinality(Pairs(S, g) \cup {<<s, f[s]>>}) = Cardinality(Pairs(S, g)) + 1
  BY <1>1, <1>2, FS_AddElement
<1> QED BY <1>1, <1>2, <1>3, FS_CardinalityType

(* No list changes its length.                                             *)
LEMMA SamePairs ==
  ASSUME NEW S, NEW f, NEW g, \A t \in S : g[t] = f[t]
  PROVE  Pairs(S, g) = Pairs(S, f)
<1>1. ASSUME NEW x PROVE x \in Pairs(S, g) <=> x \in Pairs(S, f)
  BY DEF Pairs
<1> QED BY <1>1

-----------------------------------------------------------------------------
(* There are finitely many descriptors to be open.                         *)
LEMMA OpenFinite ==
  ASSUME SemAssumption, SemTypeOK, NEW s
  PROVE  OpenOn(s) \subseteq SD /\ IsFiniteSet(OpenOn(s))
<1>1. OpenOn(s) \in SUBSET SD
  <2>1. \A p \in PCB : OpenBy(p) \subseteq SD
    BY ElementOfSeq DEF SemTypeOK, OpenBy, Elements
  <2> QED BY <2>1 DEF OpenOn, Open
<1>2. IsFiniteSet(SD)
  BY FS_Interval DEF SemAssumption, SD
<1> QED BY <1>1, <1>2, FS_Subset

-----------------------------------------------------------------------------
(***************************************************************************)
(* Steps that leave the structures of the semaphores alone, but for the    *)
(* number of a process's next descriptor.                                  *)
(***************************************************************************)
LEMMA StructuresKept ==
  ASSUME SemBase, SchedBase', last_sem_fd' \in [PCB -> Nat],
         UNCHANGED <<semaphores_list, sem, sem_descriptors, sd, sdp_free, poolVars>>,
         \A s \in SEM : \A i \in 1..Len(sem[s].waiting_descriptors) :
           Waiters(s)[i] \in waiting_list' \ Sleepers'
  PROVE  SemBase'
<1>1. UNCHANGED <<semaphores_list, sem, sem_descriptors, sd, sdp_free, sem_free, sd_free>>
  BY DEF poolVars
<1>2. SemTypeOK'
  BY <1>1 DEF SemBase, SemTypeOK, SchedBase
<1>3. BlocksApart' /\ UniqueIds' /\ Owned'
  BY <1>1 DEF SemBase, BlocksApart, UniqueIds, Owned, Open, OpenBy
<1>4. /\ PtrsConserved(SEM)'
      /\ IsFiniteSet(Pairs(SEM, EntryLen))' /\ IsFiniteSet(Pairs(SEM, QueueLen))'
  BY <1>1 DEF SemBase, PtrsConserved, EntryLen, QueueLen
<1>5. QueuedBlocked'
  <2>1. \A s \in SEM : Waiters(s)' = Waiters(s)
    BY <1>1 DEF Waiters
  <2>2. \A s \in SEM : \A i \in 1..Len(sem'[s].waiting_descriptors) :
          Waiters(s)'[i] \in waiting_list' \ Sleepers'
    BY <1>1, <2>1
  <2> QED BY <1>1, <2>1, <2>2 DEF SemBase, QueuedBlocked
<1>6. NoDanglingSemaphore' /\ EntryPerOpen'
  BY <1>1 DEF SemBase, NoDanglingSemaphore, EntryPerOpen, OpenOn, Open, OpenBy
<1> QED BY <1>2, <1>3, <1>4, <1>5, <1>6 DEF SemBase

(* Those of the scheduler, the refusals and the crashes.                   *)
LEMMA StructuresAlone ==
  ASSUME SemBase, UNCHANGED semVars, SchedBase',
         waiting_list \ Sleepers \subseteq waiting_list' \ Sleepers'
  PROVE  SemBase'
<1>1. /\ UNCHANGED <<semaphores_list, sem, sem_descriptors, sd, sdp_free, poolVars>>
      /\ last_sem_fd' \in [PCB -> Nat]
  BY DEF semVars, SemBase, SemTypeOK
<1>2. \A s \in SEM : \A i \in 1..Len(sem[s].waiting_descriptors) :
        Waiters(s)[i] \in waiting_list' \ Sleepers'
  BY DEF SemBase, QueuedBlocked
<1> QED BY <1>1, <1>2, StructuresKept

(* A handler that only stores a result.                                    *)
LEMMA ReturnCore ==
  ASSUME SchedBase, UserMode, NEW code \in Int, Return(code),
         UNCHANGED <<placeVars, timer_list, fault>>
  PROVE  SchedBase' /\ waiting_list' \ Sleepers' = waiting_list \ Sleepers
<1>1. syscall_retvalue' \in [PCB -> Int]
  BY DEF SchedBase, SchedTypeOK, UserMode, Return
<1> QED BY <1>1 DEF placeVars, SchedBase, SchedTypeOK, PlacedOnce, TimersSorted,
      Sleepers

(* The end of the program.                                                 *)
LEMMA CrashInv ==
  ASSUME SemBase, NEW where \in Faults, Crash(where), UNCHANGED semVars
  PROVE  SemBase'
<1>1. SchedBase' /\ waiting_list' \ Sleepers' = waiting_list \ Sleepers
  BY DEF Crash, placeVars, SemBase, SchedBase, SchedTypeOK, PlacedOnce,
    TimersSorted, Sleepers
<1> QED BY <1>1, StructuresAlone

(* A refused call.                                                         *)
LEMMA RefuseInv ==
  ASSUME SemBase, UserMode, NEW code \in Int, Refuse(code), UNCHANGED semVars
  PROVE  SemBase'
<1>1. SchedBase' /\ waiting_list' \ Sleepers' = waiting_list \ Sleepers
  BY ReturnCore DEF Refuse, SemBase
<1> QED BY <1>1, StructuresAlone

-----------------------------------------------------------------------------
(***************************************************************************)
(* What the lookups of a call find: a listed semaphore, and a descriptor   *)
(* of the caller that is open on it.                                       *)
(***************************************************************************)
LEMMA ListedFound ==
  ASSUME SemTypeOK, NEW semnum, Listed(semnum)
  PROVE  /\ SemaphoreList_byId(semnum) \in 1..Len(semaphores_list)
         /\ Found(semnum) \in Elements(semaphores_list)
         /\ Found(semnum) \in SEM
         /\ sem[Found(semnum)].id = semnum
<1> DEFINE I == {i \in 1..Len(semaphores_list) : sem[semaphores_list[i]].id = semnum}
<1>1. Len(semaphores_list) \in Nat /\ semaphores_list \in Seq(SEM)
  BY LenProperties DEF SemTypeOK
<1>2. FirstOf(I) \in I
  BY <1>1, FirstOfProperties DEF Listed, SemaphoreList_byId
<1>3. SemaphoreList_byId(semnum) \in I
  BY <1>2 DEF SemaphoreList_byId
<1> QED BY <1>1, <1>3, ElementOfSeq DEF Found, Elements

(* A number that is not found is the number of no listed semaphore.        *)
LEMMA NotListed ==
  ASSUME SemTypeOK, NEW semnum, ~Listed(semnum)
  PROVE  \A s \in Elements(semaphores_list) : sem[s].id # semnum
<1> DEFINE I == {i \in 1..Len(semaphores_list) : sem[semaphores_list[i]].id = semnum}
<1>1. Len(semaphores_list) \in Nat
  BY LenProperties DEF SemTypeOK
<1>2. I = {}
  BY <1>1, FirstOfProperties DEF Listed, SemaphoreList_byId
<1> QED BY <1>2 DEF Elements

(* What the guards shared by semWait, semPost and semClose find.           *)
LEMMA Lookup ==
  ASSUME SemBase, UserMode, NEW semnum, Usable(semnum)
  PROVE  /\ SemaphoreList_byId(semnum) \in 1..Len(semaphores_list)
         /\ Found(semnum) \in Elements(semaphores_list) /\ Found(semnum) \in SEM
         /\ sem[Found(semnum)].id = semnum
         /\ getDes(semnum) \in 1..Len(sem_descriptors[running])
         /\ Mine(semnum) = sem_descriptors[running][getDes(semnum)]
         /\ Mine(semnum) \in SD
         /\ Mine(semnum) \in OpenBy(running)
         /\ Mine(semnum) \in OpenOn(Found(semnum))
         /\ sd[Mine(semnum)].pcb = running
         /\ sd[Mine(semnum)].semaphore = Found(semnum)
<1>1. /\ SemaphoreList_byId(semnum) \in 1..Len(semaphores_list)
      /\ Found(semnum) \in Elements(semaphores_list) /\ Found(semnum) \in SEM
      /\ sem[Found(semnum)].id = semnum
  BY ListedFound DEF Usable, Listed, SemBase
<1>2. running \in PCB /\ sem_descriptors[running] \in Seq(SD)
  BY DEF UserMode, SemBase, SemTypeOK
<1> DEFINE I == {i \in 1..Len(sem_descriptors[running]) :
                   sem[sd[sem_descriptors[running][i]].semaphore].id = semnum}
<1>3. getDes(semnum) \in I
  <2>1. Len(sem_descriptors[running]) \in Nat
    BY <1>2, LenProperties
  <2>2. FirstOf(I) \in I
    BY <2>1, FirstOfProperties DEF Usable, getDes
  <2> QED BY <2>2 DEF getDes
<1>4. /\ Mine(semnum) = sem_descriptors[running][getDes(semnum)]
      /\ Mine(semnum) \in SD /\ Mine(semnum) \in OpenBy(running)
      /\ sem[sd[Mine(semnum)].semaphore].id = semnum
  BY <1>2, <1>3, ElementOfSeq DEF Mine, OpenBy, Elements
<1>5. sd[Mine(semnum)].pcb = running /\ Mine(semnum) \in Open
  BY <1>2, <1>4 DEF SemBase, Owned, Open
<1>6. sd[Mine(semnum)].semaphore = Found(semnum)
  BY <1>1, <1>4, <1>5 DEF SemBase, NoDanglingSemaphore, UniqueIds
<1> QED BY <1>1, <1>3, <1>4, <1>5, <1>6 DEF OpenOn

(* The position of the entry that semClose takes off.                      *)
LEMMA EntryFound ==
  ASSUME SemBase, NEW s \in SEM, NEW fd
  PROVE  /\ getPtr2(fd, s) \in 0..Len(sem[s].descriptors)
         /\ Len(sem[s].descriptors) \in Nat
<1>1. Len(sem[s].descriptors) \in Nat
  BY LenProperties DEF SemBase, SemTypeOK
<1> QED BY <1>1, FirstOfProperties DEF getPtr2

-----------------------------------------------------------------------------
(***************************************************************************)
(* semWait and semPost leave the descriptors and their lists alone.        *)
(***************************************************************************)
LEMMA EntriesAlone ==
  ASSUME SemBase,
         UNCHANGED <<semaphores_list, sem_free, sem_descriptors, sd, sd_free>>,
         \A t \in SEM : /\ sem'[t].id = sem[t].id
                        /\ sem'[t].descriptors = sem[t].descriptors
  PROVE  /\ BlocksApart' /\ UniqueIds' /\ Owned' /\ EntryPerOpen'
         /\ \A d \in Open' : sd'[d].semaphore \in Elements(semaphores_list')
         /\ \A t \in SEM : OpenOn(t)' = OpenOn(t)
         /\ EntryLen' = EntryLen
<1>1. Open' = Open /\ \A p \in PCB : OpenBy(p)' = OpenBy(p)
  BY DEF Open, OpenBy
<1>2. \A t \in SEM : OpenOn(t)' = OpenOn(t)
  BY <1>1 DEF OpenOn
<1>3. EntryLen' = EntryLen
  BY DEF EntryLen
<1>4. UniqueIds'
  <2>1. Elements(semaphores_list) \subseteq SEM
    BY ElementOfSeq DEF SemBase, SemTypeOK, Elements
  <2> QED BY <2>1 DEF SemBase, UniqueIds
<1>5. EntryPerOpen'
  BY <1>2 DEF SemBase, EntryPerOpen
<1> QED BY <1>1, <1>2, <1>3, <1>4, <1>5 DEF SemBase, BlocksApart, Owned, NoDanglingSemaphore

(* What a queue is before and after its change.                            *)
LEMMA QueueTypes ==
  ASSUME SemBase, NEW s \in SEM
  PROVE  /\ sem[s].waiting_descriptors \in Seq(SD)
         /\ Len(sem[s].waiting_descriptors) \in Nat
         /\ sem[s].count \in Int /\ sem[s].id \in Int
         /\ sem[s].descriptors \in Seq(SD)
         /\ \A i \in 1..Len(sem[s].waiting_descriptors) :
              sem[s].waiting_descriptors[i] \in SD
<1>1. sem[s] \in [id : Int, count : Int, descriptors : Seq(SD), waiting_descriptors : Seq(SD)]
  BY DEF SemBase, SemTypeOK
<1> QED BY <1>1, LenProperties, ElementOfSeq

(* The type invariant from its parts, when only the queues change.         *)
LEMMA TypesFromCore ==
  ASSUME SemBase, SchedBase',
         UNCHANGED <<semaphores_list, sem_free, sem_descriptors, last_sem_fd, sd, sd_free>>,
         sem' \in [SEM -> [id : Int, count : Int, descriptors : Seq(SD),
                           waiting_descriptors : Seq(SD)]],
         sdp_free' \in 0..NUM_SEMDESCRIPTORPTRS
  PROVE  SemTypeOK'
  BY DEF SemBase, SemTypeOK, SchedBase

(* A call that finds the count on its side of zero changes nothing else.   *)
LEMMA CountInvStep ==
  ASSUME SemBase, UserMode, NEW s \in SEM, NEW c \in Int, NEW code \in Int,
         sem' = [sem EXCEPT ![s].count = c], Return(code),
         UNCHANGED <<placeVars, timer_list, fault, semaphores_list, sem_descriptors,
                     last_sem_fd, sd, sdp_free, poolVars>>
  PROVE  SemBase'
<1>1. SchedBase' /\ waiting_list' \ Sleepers' = waiting_list \ Sleepers
  BY ReturnCore DEF SemBase
<1>2. UNCHANGED <<semaphores_list, sem_free, sem_descriptors, last_sem_fd, sd, sd_free, sdp_free>>
  BY DEF poolVars
<1>3. /\ sem' \in [SEM -> [id : Int, count : Int, descriptors : Seq(SD),
                          waiting_descriptors : Seq(SD)]]
      /\ \A t \in SEM : /\ sem'[t].id = sem[t].id
                        /\ sem'[t].descriptors = sem[t].descriptors
                        /\ sem'[t].waiting_descriptors = sem[t].waiting_descriptors
  BY DEF SemBase, SemTypeOK
<1>4. SemTypeOK'
  <2>1. sdp_free \in 0..NUM_SEMDESCRIPTORPTRS
    BY DEF SemBase, SemTypeOK
  <2> QED BY <1>1, <1>2, <1>3, <2>1, TypesFromCore
<1>5. /\ BlocksApart' /\ UniqueIds' /\ Owned' /\ EntryPerOpen'
      /\ \A d \in Open' : sd'[d].semaphore \in Elements(semaphores_list')
      /\ \A t \in SEM : OpenOn(t)' = OpenOn(t)
      /\ EntryLen' = EntryLen
  BY <1>2, <1>3, EntriesAlone
<1>6. QueueLen' = QueueLen
  BY <1>3 DEF QueueLen
<1>7. /\ PtrsConserved(SEM)'
      /\ IsFiniteSet(Pairs(SEM, EntryLen))' /\ IsFiniteSet(Pairs(SEM, QueueLen))'
  BY <1>2, <1>5, <1>6 DEF SemBase, PtrsConserved
<1>8. QueuedBlocked'
  <2>1. \A t \in SEM : Waiters(t)' = Waiters(t)
    BY <1>2, <1>3 DEF Waiters
  <2> QED BY <1>1, <1>3, <2>1 DEF SemBase, QueuedBlocked
<1>9. NoDanglingSemaphore'
  BY <1>3, <1>5 DEF SemBase, NoDanglingSemaphore
<1> QED BY <1>1, <1>4, <1>5, <1>7, <1>8, <1>9 DEF SemBase

(* semWait with units in store.                                            *)
LEMMA WaitPassInv ==
  ASSUME SemAssumption, SemBase, NEW semnum \in SemNums, SemWaitPass(semnum)
  PROVE  SemBase'
<1>1. UserMode /\ Usable(semnum) /\ Return(semnum)
  BY DEF SemWaitPass, SemWaitAccepted
<1>2. PICK s \in SEM : s = Found(semnum)
  BY <1>1, Lookup
<1>3. PICK c \in Int : c = sem[s].count - 1
  BY QueueTypes
<1>4. /\ sem' = [sem EXCEPT ![s].count = c]
      /\ UNCHANGED <<placeVars, timer_list, fault, semaphores_list, sem_descriptors,
                     last_sem_fd, sd, sdp_free, poolVars>>
  BY <1>2, <1>3 DEF SemWaitPass
<1>5. semnum \in Int
  BY DEF SemAssumption
<1> QED BY <1>1, <1>4, <1>5, CountInvStep

(* semPost with nobody waiting.                                            *)
LEMMA PostStoreInv ==
  ASSUME SemAssumption, SemBase, NEW semnum \in SemNums, SemPostStore(semnum)
  PROVE  SemBase'
<1>1. UserMode /\ Usable(semnum) /\ Return(0)
  BY DEF SemPostStore, SemPostAccepted
<1>2. PICK s \in SEM : s = Found(semnum)
  BY <1>1, Lookup
<1>3. PICK c \in Int : c = sem[s].count + 1
  BY QueueTypes
<1>4. /\ sem' = [sem EXCEPT ![s].count = c]
      /\ UNCHANGED <<placeVars, timer_list, fault, semaphores_list, sem_descriptors,
                     last_sem_fd, sd, sdp_free, poolVars>>
  BY <1>2, <1>3 DEF SemPostStore
<1>5. 0 \in Int
  OBVIOUS
<1> QED BY <1>1, <1>4, <1>5, CountInvStep

(***************************************************************************)
(* semWait blocks: the caller p goes to the waiting list and its           *)
(* descriptor d to the end of the queue of s.                              *)
(***************************************************************************)
LEMMA WaitBlockCore ==
  ASSUME SemAssumption, SemBase, NEW semnum \in SemNums, SemWaitBlock(semnum)
  PROVE  SchedBase' /\ waiting_list' \ Sleepers' = (waiting_list \ Sleepers) \cup {running}
<1>1. /\ ready_list # <<>>
      /\ waiting_list' = waiting_list \cup {running}
      /\ status' = [status EXCEPT ![running] = "Waiting"]
      /\ running' = Head(ready_list)
      /\ ready_list' = Tail(ready_list)
      /\ syscall_retvalue' = [syscall_retvalue EXCEPT ![Head(ready_list)] = semnum]
      /\ UNCHANGED <<timer_list, fault>>
      /\ running \in PCB /\ semnum \in Int
  BY DEF SemWaitBlock, SemWaitAccepted, UserMode, SemAssumption
<1>2. /\ ready_list \in Seq(PCB) /\ waiting_list \subseteq PCB
      /\ status \in [PCB -> Statuses] /\ syscall_retvalue \in [PCB -> Int]
      /\ NoRepeat(ready_list) /\ running \notin Elements(ready_list)
      /\ running \notin waiting_list /\ Elements(ready_list) \cap waiting_list = {}
      /\ Sleepers \subseteq waiting_list
      /\ timer_list \in Seq(Timers) /\ fault \in Faults
  BY <1>1 DEF SemBase, SchedBase, SchedTypeOK, PlacedOnce
<1>3. /\ Head(ready_list) \in PCB /\ Tail(ready_list) \in Seq(PCB)
      /\ Elements(ready_list) = Elements(Tail(ready_list)) \cup {Head(ready_list)}
      /\ NoRepeat(Tail(ready_list)) /\ Head(ready_list) \notin Elements(Tail(ready_list))
  BY <1>1, <1>2, HeadTailElements
<1>4. Sleepers' = Sleepers /\ TimersSorted'
  BY <1>1 DEF Sleepers, TimersSorted, SemBase, SchedBase
<1>5. SchedTypeOK'
  <2>1. status' \in [PCB -> Statuses]
    BY <1>1, <1>2 DEF Statuses
  <2>2. syscall_retvalue' \in [PCB -> Int]
    BY <1>1, <1>2
  <2>3. waiting_list' \subseteq PCB /\ running' \in PCB /\ ready_list' \in Seq(PCB)
    BY <1>1, <1>2, <1>3
  <2> QED BY <1>1, <1>2, <2>1, <2>2, <2>3 DEF SchedTypeOK
<1>6. PlacedOnce'
  BY <1>1, <1>2, <1>3 DEF PlacedOnce
<1>7. Sleepers' \subseteq waiting_list'
  BY <1>1, <1>2, <1>4
<1> QED BY <1>1, <1>2, <1>4, <1>5, <1>6, <1>7 DEF SchedBase

(* The structures after semWait blocks.                                    *)
LEMMA WaitBlockInv ==
  ASSUME SemAssumption, SemBase, NEW semnum \in SemNums, SemWaitBlock(semnum)
  PROVE  SemBase'
<1>1. /\ UserMode /\ Usable(semnum) /\ running \in PCB
      /\ sdp_free > 0 /\ sdp_free' = sdp_free - 1
  BY DEF SemWaitBlock, SemWaitAccepted, UserMode, SemDescriptorPtr_alloc
<1>2. PICK s \in SEM, d \in SD, p \in PCB : s = Found(semnum) /\ d = Mine(semnum) /\ p = running
  BY <1>1, Lookup
<1>3. d \in OpenOn(s) /\ sd[d].pcb = p
  BY <1>1, <1>2, Lookup
<1> DEFINE w == sem[s].waiting_descriptors
           c == sem[s].count - 1
<1>4. /\ sem' = [sem EXCEPT ![s].count = c, ![s].waiting_descriptors = Append(w, d)]
      /\ UNCHANGED <<semaphores_list, sem_free, sem_descriptors, last_sem_fd, sd, sd_free>>
  BY <1>2 DEF SemWaitBlock, poolVars
<1>5. w \in Seq(SD) /\ Len(w) \in Nat /\ c \in Int
  BY QueueTypes
<1>6. /\ Append(w, d) \in Seq(SD) /\ Len(Append(w, d)) = Len(w) + 1
      /\ \A i \in 1..Len(w) : Append(w, d)[i] = w[i]
      /\ Append(w, d)[Len(w) + 1] = d
  BY <1>5, AppendProperties
<1>7. /\ sem' \in [SEM -> [id : Int, count : Int, descriptors : Seq(SD),
                          waiting_descriptors : Seq(SD)]]
      /\ \A t \in SEM : /\ sem'[t].id = sem[t].id
                        /\ sem'[t].descriptors = sem[t].descriptors
      /\ \A t \in SEM \ {s} : sem'[t].waiting_descriptors = sem[t].waiting_descriptors
      /\ sem'[s].waiting_descriptors = Append(w, d)
  <2> HIDE DEF w, c
  <2>1. sem \in [SEM -> [id : Int, count : Int, descriptors : Seq(SD),
                         waiting_descriptors : Seq(SD)]]
    BY DEF SemBase, SemTypeOK
  <2> QED BY <1>4, <1>5, <1>6, <2>1
<1>8. SchedBase' /\ waiting_list' \ Sleepers' = (waiting_list \ Sleepers) \cup {p}
  BY <1>2, WaitBlockCore
<1>9. /\ BlocksApart' /\ UniqueIds' /\ Owned' /\ EntryPerOpen'
      /\ \A e \in Open' : sd'[e].semaphore \in Elements(semaphores_list')
      /\ \A t \in SEM : OpenOn(t)' = OpenOn(t)
      /\ EntryLen' = EntryLen
  BY <1>4, <1>7, EntriesAlone
<1> HIDE DEF w, c
<1>10. /\ PtrsConserved(SEM)' /\ sdp_free' \in 0..NUM_SEMDESCRIPTORPTRS
       /\ IsFiniteSet(Pairs(SEM, EntryLen))' /\ IsFiniteSet(Pairs(SEM, QueueLen))'
  <2>1. /\ QueueLen[s] \in Nat /\ QueueLen'[s] = QueueLen[s] + 1
        /\ \A t \in SEM \ {s} : QueueLen'[t] = QueueLen[t]
    BY <1>5, <1>6, <1>7 DEF QueueLen, w
  <2> DEFINE f == QueueLen
             g == QueueLen'
  <2>2. /\ f[s] \in Nat /\ g[s] = f[s] + 1 /\ \A t \in SEM \ {s} : g[t] = f[t]
        /\ IsFiniteSet(Pairs(SEM, f))
    BY <2>1 DEF SemBase
  <2> HIDE DEF f, g
  <2>3. /\ IsFiniteSet(Pairs(SEM, g)) /\ Cardinality(Pairs(SEM, f)) \in Nat
        /\ Cardinality(Pairs(SEM, g)) = Cardinality(Pairs(SEM, f)) + 1
    BY <2>2, GrowCount
  <2> USE DEF f, g
  <2>4. IsFiniteSet(Pairs(SEM, EntryLen)) /\ Cardinality(Pairs(SEM, EntryLen)) \in Nat
    BY FS_CardinalityType DEF SemBase
  <2>5. /\ sdp_free \in 0..NUM_SEMDESCRIPTORPTRS /\ NUM_SEMDESCRIPTORPTRS \in Nat
        /\ sdp_free + Cardinality(Pairs(SEM, EntryLen)) + Cardinality(Pairs(SEM, QueueLen))
             = NUM_SEMDESCRIPTORPTRS
    BY DEF SemBase, SemTypeOK, PtrsConserved, SemAssumption
  <2> QED BY <1>1, <1>9, <2>3, <2>4, <2>5 DEF PtrsConserved
<1>11. SemTypeOK'
  BY <1>4, <1>7, <1>8, <1>10, TypesFromCore
<1>12. ASSUME NEW t \in SEM, NEW i \in 1..Len(sem'[t].waiting_descriptors)
       PROVE  \/ i \in 1..Len(sem[t].waiting_descriptors) /\ Waiters(t)'[i] = Waiters(t)[i]
              \/ t = s /\ i = Len(w) + 1 /\ Waiters(t)'[i] = p
  <2>1. Waiters(t)'[i] = sd[sem'[t].waiting_descriptors[i]].pcb
    BY <1>4 DEF Waiters
  <2>2. \A j \in 1..Len(sem[t].waiting_descriptors) :
          Waiters(t)[j] = sd[sem[t].waiting_descriptors[j]].pcb
    BY DEF Waiters
  <2>3. CASE t # s
    BY <1>7, <2>1, <2>2, <2>3
  <2>4. CASE t = s /\ i \in 1..Len(w)
    BY <1>6, <1>7, <2>1, <2>2, <2>4 DEF w
  <2>5. CASE t = s /\ i \notin 1..Len(w)
    <3>1. i = Len(w) + 1
      BY <1>5, <1>6, <1>7, <2>5
    <3> QED BY <1>3, <1>6, <1>7, <2>1, <2>5, <3>1
  <2> QED BY <2>3, <2>4, <2>5
<1>13. QueuedBlocked'
  <2>1. p \notin waiting_list
    BY <1>2 DEF SemBase, SchedBase, PlacedOnce
  <2>2. ASSUME NEW t \in SEM, NEW i \in 1..Len(sem[t].waiting_descriptors)
        PROVE  Waiters(t)[i] \in waiting_list \ Sleepers
    BY DEF SemBase, QueuedBlocked
  <2>3. ASSUME NEW t \in SEM, NEW i \in 1..Len(sem'[t].waiting_descriptors)
        PROVE  Waiters(t)'[i] \in waiting_list' \ Sleepers'
    BY <1>8, <1>12, <2>2
  <2>4. ASSUME NEW t \in SEM, NEW i \in 1..Len(sem'[t].waiting_descriptors),
               NEW u \in SEM, NEW j \in 1..Len(sem'[u].waiting_descriptors),
               Waiters(t)'[i] = Waiters(u)'[j]
        PROVE  t = u /\ i = j
    <3>1. CASE /\ i \in 1..Len(sem[t].waiting_descriptors)
               /\ Waiters(t)'[i] = Waiters(t)[i]
      <4>1. Waiters(u)'[j] # p
        BY <2>1, <2>2, <2>4, <3>1
      <4>2. j \in 1..Len(sem[u].waiting_descriptors) /\ Waiters(u)'[j] = Waiters(u)[j]
        BY <1>12, <4>1
      <4>3. Waiters(t)[i] = Waiters(u)[j]
        BY <2>4, <3>1, <4>2
      <4> QED BY <3>1, <4>2, <4>3 DEF SemBase, QueuedBlocked
    <3>2. CASE t = s /\ i = Len(w) + 1 /\ Waiters(t)'[i] = p
      <4>1. u = s /\ j = Len(w) + 1
        BY <1>12, <2>1, <2>2, <2>4, <3>2
      <4> QED BY <3>2, <4>1
    <3> QED BY <1>12, <3>1, <3>2
  <2> QED BY <2>3, <2>4 DEF QueuedBlocked
<1>14. NoDanglingSemaphore'
  <2>1. Elements(Append(w, d)) = Elements(w) \cup {d}
    BY <1>5, AppendElements
  <2>2. ASSUME NEW t \in SEM
        PROVE  Elements(sem'[t].waiting_descriptors) \subseteq OpenOn(t)
    <3>1. Elements(sem[t].waiting_descriptors) \subseteq OpenOn(t)
      BY DEF SemBase, NoDanglingSemaphore
    <3> QED BY <1>3, <1>7, <2>1, <3>1 DEF w
  <2> QED BY <1>9, <2>2 DEF NoDanglingSemaphore
<1> QED BY <1>8, <1>9, <1>10, <1>11, <1>13, <1>14 DEF SemBase

(***************************************************************************)
(* semPost hands over: the first process q of the queue of s leaves both   *)
(* its queue and the waiting list, and runs.                               *)
(***************************************************************************)
LEMMA HandOffCore ==
  ASSUME SemBase, NEW semnum, SemPostHandOff(semnum), NEW q \in PCB, q = Waiter(semnum),
         q \in waiting_list \ Sleepers
  PROVE  SchedBase' /\ waiting_list' \ Sleepers' = (waiting_list \ Sleepers) \ {q}
<1>1. /\ waiting_list' = waiting_list \ {q}
      /\ ready_list' = Append(ready_list, running)
      /\ status' = [status EXCEPT ![running] = "Ready"]
      /\ running' = q
      /\ syscall_retvalue' = [syscall_retvalue EXCEPT ![q] = 0]
      /\ UNCHANGED <<timer_list, fault>>
      /\ running \in PCB
  BY DEF SemPostHandOff, SemPostAccepted, UserMode
<1>2. /\ ready_list \in Seq(PCB) /\ waiting_list \subseteq PCB
      /\ status \in [PCB -> Statuses] /\ syscall_retvalue \in [PCB -> Int]
      /\ NoRepeat(ready_list) /\ running \notin Elements(ready_list)
      /\ running \notin waiting_list /\ Elements(ready_list) \cap waiting_list = {}
      /\ Sleepers \subseteq waiting_list
      /\ timer_list \in Seq(Timers) /\ fault \in Faults
  BY <1>1 DEF SemBase, SchedBase, SchedTypeOK, PlacedOnce
<1>3. /\ Append(ready_list, running) \in Seq(PCB)
      /\ Elements(Append(ready_list, running)) = Elements(ready_list) \cup {running}
      /\ NoRepeat(Append(ready_list, running))
  BY <1>1, <1>2, AppendElements
<1>4. Sleepers' = Sleepers /\ TimersSorted'
  BY <1>1 DEF Sleepers, TimersSorted, SemBase, SchedBase
<1>5. SchedTypeOK'
  <2>1. status' \in [PCB -> Statuses]
    BY <1>1, <1>2 DEF Statuses
  <2>2. syscall_retvalue' \in [PCB -> Int]
    BY <1>1, <1>2
  <2>3. waiting_list' \subseteq PCB /\ running' \in PCB /\ ready_list' \in Seq(PCB)
    BY <1>1, <1>2, <1>3
  <2> QED BY <1>1, <1>2, <2>1, <2>2, <2>3 DEF SchedTypeOK
<1>6. PlacedOnce'
  BY <1>1, <1>2, <1>3 DEF PlacedOnce
<1>7. Sleepers' \subseteq waiting_list'
  BY <1>1, <1>2, <1>4
<1> QED BY <1>1, <1>4, <1>5, <1>6, <1>7 DEF SchedBase

(* The waiter a hand-off finds is blocked.                                 *)
LEMMA HandOffWaiter ==
  ASSUME SemBase, NEW semnum, SemPostHandOff(semnum)
  PROVE  Waiter(semnum) \in PCB /\ Waiter(semnum) \in waiting_list \ Sleepers
<1>1. UserMode /\ Usable(semnum)
  BY DEF SemPostHandOff, SemPostAccepted
<1>2. PICK s \in SEM : s = Found(semnum)
  BY <1>1, Lookup
<1> DEFINE w == sem[s].waiting_descriptors
<1>3. w # <<>>
  BY <1>2 DEF SemPostHandOff
<1>4. w \in Seq(SD)
  BY QueueTypes
<1>5. 1 \in 1..Len(w) /\ Head(w) = w[1]
  <2> HIDE DEF w
  <2>1. Head(w) = w[1] /\ Len(w) \in Nat \ {0}
    BY <1>3, <1>4, EmptySeq
  <2> QED BY <2>1
<1>6. Waiters(s)[1] = sd[w[1]].pcb
  BY <1>5 DEF Waiters
<1>7. Waiter(semnum) = Waiters(s)[1]
  BY <1>2, <1>5, <1>6 DEF Waiter
<1>8. Waiters(s)[1] \in waiting_list \ Sleepers
  BY <1>5 DEF SemBase, QueuedBlocked
<1>9. waiting_list \subseteq PCB
  BY DEF SemBase, SchedBase, SchedTypeOK
<1> QED BY <1>7, <1>8, <1>9

(* The structures after a hand-off.                                        *)
LEMMA HandOffInv ==
  ASSUME SemAssumption, SemBase, NEW semnum, SemPostHandOff(semnum)
  PROVE  SemBase'
<1>1. /\ UserMode /\ Usable(semnum)
      /\ sdp_free' = sdp_free + 1
  BY DEF SemPostHandOff, SemPostAccepted, SemDescriptorPtr_free
<1>2. PICK s \in SEM : s = Found(semnum)
  BY <1>1, Lookup
<1> DEFINE w == sem[s].waiting_descriptors
           c == sem[s].count + 1
<1>3. /\ w # <<>>
      /\ sem' = [sem EXCEPT ![s].count = c, ![s].waiting_descriptors = Tail(w)]
      /\ UNCHANGED <<semaphores_list, sem_free, sem_descriptors, last_sem_fd, sd, sd_free>>
  BY <1>2 DEF SemPostHandOff, poolVars
<1>4. w \in Seq(SD) /\ Len(w) \in Nat /\ c \in Int
  BY QueueTypes
<1> HIDE DEF c
<1>5. /\ Head(w) \in SD /\ Tail(w) \in Seq(SD) /\ Len(Tail(w)) = Len(w) - 1
      /\ Head(w) = w[1] /\ Len(w) \in Nat \ {0}
      /\ \A i \in 1..Len(Tail(w)) : Tail(w)[i] = w[i + 1]
  <2> HIDE DEF w
  <2>1. /\ Head(w) \in SD /\ Tail(w) \in Seq(SD) /\ Len(Tail(w)) = Len(w) - 1
        /\ \A i \in 1..Len(Tail(w)) : Tail(w)[i] = w[i + 1]
    BY <1>3, <1>4, HeadTailProperties
  <2>2. Head(w) = w[1] /\ Len(w) \in Nat \ {0}
    BY <1>3, <1>4, EmptySeq
  <2> QED BY <2>1, <2>2
<1>6. /\ sem' \in [SEM -> [id : Int, count : Int, descriptors : Seq(SD),
                          waiting_descriptors : Seq(SD)]]
      /\ \A t \in SEM : /\ sem'[t].id = sem[t].id
                        /\ sem'[t].descriptors = sem[t].descriptors
      /\ \A t \in SEM \ {s} : sem'[t].waiting_descriptors = sem[t].waiting_descriptors
      /\ sem'[s].waiting_descriptors = Tail(w)
  <2> HIDE DEF w
  <2>1. sem \in [SEM -> [id : Int, count : Int, descriptors : Seq(SD),
                         waiting_descriptors : Seq(SD)]]
    BY DEF SemBase, SemTypeOK
  <2> QED BY <1>3, <1>4, <1>5, <2>1
<1> HIDE DEF w
<1>7. PICK q \in PCB : q = Waiter(semnum) /\ q = Waiters(s)[1] /\ q \in waiting_list \ Sleepers
  <2>1. 1 \in 1..Len(sem[s].waiting_descriptors)
    BY <1>5 DEF w
  <2>2. Waiters(s)[1] = sd[w[1]].pcb
    BY <2>1 DEF Waiters, w
  <2>3. Waiter(semnum) = Waiters(s)[1]
    BY <1>2, <1>5, <2>2 DEF Waiter, w
  <2>4. Waiters(s)[1] \in waiting_list \ Sleepers
    BY <2>1 DEF SemBase, QueuedBlocked
  <2>5. waiting_list \subseteq PCB
    BY DEF SemBase, SchedBase, SchedTypeOK
  <2> QED BY <2>3, <2>4, <2>5
<1>8. SchedBase' /\ waiting_list' \ Sleepers' = (waiting_list \ Sleepers) \ {q}
  BY <1>7, HandOffCore
<1>9. /\ BlocksApart' /\ UniqueIds' /\ Owned' /\ EntryPerOpen'
      /\ \A e \in Open' : sd'[e].semaphore \in Elements(semaphores_list')
      /\ \A t \in SEM : OpenOn(t)' = OpenOn(t)
      /\ EntryLen' = EntryLen
  BY <1>3, <1>6, EntriesAlone
<1>10. /\ PtrsConserved(SEM)' /\ sdp_free' \in 0..NUM_SEMDESCRIPTORPTRS
       /\ IsFiniteSet(Pairs(SEM, EntryLen))' /\ IsFiniteSet(Pairs(SEM, QueueLen))'
  <2>1. /\ QueueLen'[s] \in Nat /\ QueueLen[s] = QueueLen'[s] + 1
        /\ \A t \in SEM \ {s} : QueueLen[t] = QueueLen'[t]
    <3>1. QueueLen'[s] = Len(Tail(w)) /\ QueueLen[s] = Len(w)
      BY <1>6 DEF QueueLen, w
    <3>2. \A t \in SEM \ {s} : QueueLen[t] = QueueLen'[t]
      BY <1>6 DEF QueueLen
    <3>3. Len(w) - 1 \in Nat /\ Len(w) = (Len(w) - 1) + 1
      BY <1>5
    <3> QED BY <1>5, <3>1, <3>2, <3>3
  <2> DEFINE f == QueueLen
             g == QueueLen'
  <2>2. /\ g[s] \in Nat /\ f[s] = g[s] + 1 /\ \A t \in SEM \ {s} : f[t] = g[t]
        /\ IsFiniteSet(Pairs(SEM, f))
    BY <2>1 DEF SemBase
  <2> HIDE DEF f, g
  <2>3. /\ IsFiniteSet(Pairs(SEM, g)) /\ Cardinality(Pairs(SEM, g)) \in Nat
        /\ Cardinality(Pairs(SEM, f)) = Cardinality(Pairs(SEM, g)) + 1
    BY <2>2, ShrinkCount
  <2> USE DEF f, g
  <2>4. IsFiniteSet(Pairs(SEM, EntryLen)) /\ Cardinality(Pairs(SEM, EntryLen)) \in Nat
    BY FS_CardinalityType DEF SemBase
  <2>5. /\ sdp_free \in 0..NUM_SEMDESCRIPTORPTRS /\ NUM_SEMDESCRIPTORPTRS \in Nat
        /\ sdp_free + Cardinality(Pairs(SEM, EntryLen)) + Cardinality(Pairs(SEM, QueueLen))
             = NUM_SEMDESCRIPTORPTRS
    BY DEF SemBase, SemTypeOK, PtrsConserved, SemAssumption
  <2> QED BY <1>1, <1>9, <2>3, <2>4, <2>5 DEF PtrsConserved
<1>11. SemTypeOK'
  BY <1>3, <1>6, <1>8, <1>10, TypesFromCore
<1> DEFINE shift(t) == IF t = s THEN 1 ELSE 0
<1>12. ASSUME NEW t \in SEM, NEW i \in 1..Len(sem'[t].waiting_descriptors)
       PROVE  \E k \in 1..Len(sem[t].waiting_descriptors) :
                /\ k = i + shift(t)
                /\ sem'[t].waiting_descriptors[i] = sem[t].waiting_descriptors[k]
                /\ Waiters(t)'[i] = Waiters(t)[k]
  <2>1. Waiters(t)'[i] = sd[sem'[t].waiting_descriptors[i]].pcb
    BY <1>3 DEF Waiters
  <2>2. \A j \in 1..Len(sem[t].waiting_descriptors) :
          Waiters(t)[j] = sd[sem[t].waiting_descriptors[j]].pcb
    BY DEF Waiters
  <2>3. CASE t # s
    <3>1. sem'[t].waiting_descriptors = sem[t].waiting_descriptors /\ i + shift(t) = i
      BY <1>6, <2>3
    <3> QED BY <2>1, <2>2, <3>1
  <2>4. CASE t = s
    <3>1. sem'[t].waiting_descriptors = Tail(w)
      BY <1>6, <2>4
    <3>2. i \in 1..Len(Tail(w)) /\ i + shift(t) = i + 1
      BY <2>4, <3>1
    <3>3. i + 1 \in 1..Len(w) /\ Tail(w)[i] = w[i + 1]
      BY <1>5, <3>2
    <3> QED BY <2>1, <2>2, <2>4, <3>1, <3>2, <3>3 DEF w
  <2> QED BY <2>3, <2>4
<1>13. QueuedBlocked'
  <2>1. ASSUME NEW t \in SEM, NEW i \in 1..Len(sem[t].waiting_descriptors),
               NEW u \in SEM, NEW j \in 1..Len(sem[u].waiting_descriptors),
               Waiters(t)[i] = Waiters(u)[j]
        PROVE  t = u /\ i = j
    BY <2>1 DEF SemBase, QueuedBlocked
  <2>2. ASSUME NEW t \in SEM, NEW i \in 1..Len(sem'[t].waiting_descriptors)
        PROVE  Waiters(t)'[i] \in waiting_list' \ Sleepers'
    <3>1. PICK k \in 1..Len(sem[t].waiting_descriptors) :
                k = i + shift(t) /\ Waiters(t)'[i] = Waiters(t)[k]
      BY <1>12
    <3>2. Waiters(t)[k] \in waiting_list \ Sleepers
      BY DEF SemBase, QueuedBlocked
    <3>3. 1 \in 1..Len(sem[s].waiting_descriptors) /\ ~(t = s /\ k = 1)
      BY <1>5, <3>1 DEF w
    <3>4. Waiters(t)[k] # q
      BY <1>7, <2>1, <3>3
    <3> QED BY <1>8, <3>1, <3>2, <3>4
  <2>3. ASSUME NEW t \in SEM, NEW i \in 1..Len(sem'[t].waiting_descriptors),
               NEW u \in SEM, NEW j \in 1..Len(sem'[u].waiting_descriptors),
               Waiters(t)'[i] = Waiters(u)'[j]
        PROVE  t = u /\ i = j
    <3>1. PICK k \in 1..Len(sem[t].waiting_descriptors) :
                k = i + shift(t) /\ Waiters(t)'[i] = Waiters(t)[k]
      BY <1>12
    <3>2. PICK l \in 1..Len(sem[u].waiting_descriptors) :
                l = j + shift(u) /\ Waiters(u)'[j] = Waiters(u)[l]
      BY <1>12
    <3>3. Waiters(t)[k] = Waiters(u)[l]
      BY <2>3, <3>1, <3>2
    <3>4. t = u /\ k = l
      BY <2>1, <3>3
    <3> QED BY <3>1, <3>2, <3>4
  <2> QED BY <2>2, <2>3 DEF QueuedBlocked
<1>14. NoDanglingSemaphore'
  <2>1. ASSUME NEW t \in SEM, NEW i \in 1..Len(sem'[t].waiting_descriptors)
        PROVE  sem'[t].waiting_descriptors[i] \in OpenOn(t)
    <3>1. PICK k \in 1..Len(sem[t].waiting_descriptors) :
                sem'[t].waiting_descriptors[i] = sem[t].waiting_descriptors[k]
      BY <1>12
    <3> QED BY <3>1 DEF SemBase, NoDanglingSemaphore, Elements
  <2>2. \A t \in SEM : Elements(sem'[t].waiting_descriptors) \subseteq OpenOn(t)
    BY <2>1 DEF Elements
  <2> QED BY <1>9, <2>2 DEF NoDanglingSemaphore
<1> QED BY <1>8, <1>9, <1>10, <1>11, <1>13, <1>14 DEF SemBase

-----------------------------------------------------------------------------
(***************************************************************************)
(* semOpen and semClose leave the queues alone.                            *)
(***************************************************************************)
LEMMA QueuesKept ==
  ASSUME SemBase, UNCHANGED <<placeVars, timer_list>>,
         \A t \in SEM : sem'[t].waiting_descriptors = sem[t].waiting_descriptors,
         \A e \in Open : sd'[e] = sd[e]
  PROVE  QueuedBlocked' /\ QueueLen' = QueueLen
<1>1. ASSUME NEW t \in SEM, NEW i \in 1..Len(sem[t].waiting_descriptors)
      PROVE  Waiters(t)'[i] = Waiters(t)[i]
  <2>1. sem[t].waiting_descriptors[i] \in Open
    BY DEF SemBase, NoDanglingSemaphore, Elements, OpenOn
  <2> QED BY <2>1 DEF Waiters
<1>2. Sleepers' = Sleepers /\ waiting_list' = waiting_list
  BY DEF Sleepers, placeVars
<1>3. QueuedBlocked'
  <2>1. ASSUME NEW t \in SEM, NEW i \in 1..Len(sem'[t].waiting_descriptors)
        PROVE  Waiters(t)'[i] \in waiting_list' \ Sleepers'
    BY <1>1, <1>2 DEF SemBase, QueuedBlocked
  <2>2. ASSUME NEW t \in SEM, NEW i \in 1..Len(sem'[t].waiting_descriptors),
               NEW u \in SEM, NEW j \in 1..Len(sem'[u].waiting_descriptors),
               Waiters(t)'[i] = Waiters(u)'[j]
        PROVE  t = u /\ i = j
    <3>1. i \in 1..Len(sem[t].waiting_descriptors) /\ j \in 1..Len(sem[u].waiting_descriptors)
      OBVIOUS
    <3>2. Waiters(t)[i] = Waiters(u)[j]
      BY <1>1, <2>2, <3>1
    <3> QED BY <3>1, <3>2 DEF SemBase, QueuedBlocked
  <2> QED BY <2>1, <2>2 DEF QueuedBlocked
<1>4. QueueLen' = QueueLen
  BY DEF QueueLen
<1> QED BY <1>3, <1>4

(* The lists a call opens or closes on, whatever it does to them.          *)
LEMMA DescriptorTypes ==
  ASSUME SemBase
  PROVE  /\ semaphores_list \in Seq(SEM) /\ sem_free \in Seq(SEM)
         /\ Elements(semaphores_list) \subseteq SEM
         /\ sem \in [SEM -> [id : Int, count : Int, descriptors : Seq(SD),
                            waiting_descriptors : Seq(SD)]]
         /\ sem_descriptors \in [PCB -> Seq(SD)]
         /\ last_sem_fd \in [PCB -> Nat]
         /\ sd \in [SD -> [pcb : PCB \cup {NULL}, semaphore : SEM \cup {NULL}, fd : Nat]]
         /\ sd_free \in Seq(SD) /\ sdp_free \in 0..NUM_SEMDESCRIPTORPTRS
         /\ Open \subseteq SD
<1>1. /\ semaphores_list \in Seq(SEM) /\ sem_free \in Seq(SEM)
      /\ sem \in [SEM -> [id : Int, count : Int, descriptors : Seq(SD),
                         waiting_descriptors : Seq(SD)]]
      /\ sem_descriptors \in [PCB -> Seq(SD)]
      /\ last_sem_fd \in [PCB -> Nat]
      /\ sd \in [SD -> [pcb : PCB \cup {NULL}, semaphore : SEM \cup {NULL}, fd : Nat]]
      /\ sd_free \in Seq(SD) /\ sdp_free \in 0..NUM_SEMDESCRIPTORPTRS
  BY DEF SemBase, SemTypeOK
<1>2. Elements(semaphores_list) \subseteq SEM
  BY <1>1, ElementOfSeq DEF Elements
<1>3. Open \subseteq SD
  <2>1. \A p \in PCB : OpenBy(p) \subseteq SD
    BY <1>1, ElementOfSeq DEF OpenBy, Elements
  <2> QED BY <2>1 DEF Open
<1> QED BY <1>1, <1>2, <1>3

(* A block that is not on the global list has no entries and no waiters.   *)
LEMMA UnlistedEmpty ==
  ASSUME SemAssumption, SemBase, NEW s \in SEM, s \notin Elements(semaphores_list)
  PROVE  /\ OpenOn(s) = {}
         /\ sem[s].descriptors = <<>>
         /\ sem[s].waiting_descriptors = <<>>
<1>1. OpenOn(s) = {}
  BY DEF SemBase, NoDanglingSemaphore, OpenOn
<1>2. Len(sem[s].descriptors) = 0
  BY <1>1, FS_EmptySet DEF SemBase, EntryPerOpen
<1>3. sem[s].descriptors \in Seq(SD) /\ sem[s].waiting_descriptors \in Seq(SD)
  BY QueueTypes
<1>4. sem[s].descriptors = <<>>
  BY <1>2, <1>3, EmptySeq
<1>5. sem[s].waiting_descriptors = <<>>
  <2>1. Elements(sem[s].waiting_descriptors) = {}
    BY <1>1 DEF SemBase, NoDanglingSemaphore
  <2> SUFFICES ASSUME sem[s].waiting_descriptors # <<>> PROVE FALSE
    OBVIOUS
  <2>2. Len(sem[s].waiting_descriptors) \in Nat \ {0}
    BY <1>3, EmptySeq
  <2>3. 1 \in 1..Len(sem[s].waiting_descriptors)
    BY <2>2
  <2> QED BY <2>1, <2>3 DEF Elements
<1> QED BY <1>1, <1>4, <1>5

-----------------------------------------------------------------------------
(***************************************************************************)
(* semOpen: the semaphore s it works on was listed, or is the next free    *)
(* block, which is listed now; its list of entries grows by entries.       *)
(***************************************************************************)
Allotted(s, entries) ==
  /\ s \in SEM
  /\ sem' \in [SEM -> [id : Int, count : Int, descriptors : Seq(SD),
                      waiting_descriptors : Seq(SD)]]
  /\ \A t \in SEM \ {s} : sem'[t] = sem[t]
  /\ sem'[s].descriptors = sem[s].descriptors \o entries
  /\ sem'[s].waiting_descriptors = sem[s].waiting_descriptors
  /\ Elements(semaphores_list') = Elements(semaphores_list) \cup {s}
  /\ semaphores_list' \in Seq(SEM) /\ sem_free' \in Seq(SEM)
  /\ NoRepeat(semaphores_list') /\ NoRepeat(sem_free')
  /\ Elements(semaphores_list') \cap Elements(sem_free') = {}
  /\ UniqueIds'

(* Both ways to find the semaphore give that result.                       *)
LEMMA FindOrAllocFacts ==
  ASSUME SemAssumption, SemBase, NEW semnum \in Int, NEW count \in Int,
         SemOpenError(semnum) = 0, NEW entries \in Seq(SD),
         FindOrAlloc(semnum, count, entries), NEW s, s = Target(semnum)
  PROVE  Allotted(s, entries)
<1> DEFINE Sems == [id : Int, count : Int, descriptors : Seq(SD), waiting_descriptors : Seq(SD)]
<1>1. /\ semaphores_list \in Seq(SEM) /\ sem_free \in Seq(SEM)
      /\ Elements(semaphores_list) \subseteq SEM /\ sem \in [SEM -> Sems]
      /\ NoRepeat(semaphores_list) /\ NoRepeat(sem_free)
      /\ Elements(semaphores_list) \cap Elements(sem_free) = {}
      /\ UniqueIds
  BY DescriptorTypes DEF SemBase, BlocksApart
<1>2. CASE Listed(semnum)
  <2>1. s = Found(semnum) /\ s \in SEM /\ s \in Elements(semaphores_list)
    BY <1>2, ListedFound DEF Target, SemBase
  <2>2. /\ sem' = [sem EXCEPT ![s] = [sem[s] EXCEPT !.descriptors = @ \o entries]]
        /\ semaphores_list' = semaphores_list /\ sem_free' = sem_free
    BY <1>2, <2>1 DEF FindOrAlloc, Semaphore_alloc
  <2>3. sem[s].descriptors \o entries \in Seq(SD)
    BY <2>1, QueueTypes, ConcatProperties
  <2>4. /\ sem' \in [SEM -> Sems]
        /\ \A t \in SEM \ {s} : sem'[t] = sem[t]
        /\ sem'[s].descriptors = sem[s].descriptors \o entries
        /\ sem'[s].waiting_descriptors = sem[s].waiting_descriptors
        /\ sem'[s].id = sem[s].id
    BY <1>1, <2>1, <2>2, <2>3
  <2>5. UniqueIds'
    <3>1. \A t \in SEM : sem'[t].id = sem[t].id
      BY <2>4
    <3> QED BY <1>1, <2>2, <3>1 DEF UniqueIds
  <2> QED BY <1>1, <2>1, <2>2, <2>4, <2>5 DEF Allotted
<1>3. CASE ~Listed(semnum)
  <2>1. sem_free # <<>>
    BY <1>3 DEF SemOpenError, SEMAPHOREALLOCFAILURE, TOOMUCHSEM, TOOMUCHSEMDES, SEMNUMINVALID
  <2>2. s = Head(sem_free)
    BY <1>3 DEF Target
  <2>3. /\ s \in SEM /\ Tail(sem_free) \in Seq(SEM) /\ s \in Elements(sem_free)
        /\ Elements(sem_free) = Elements(Tail(sem_free)) \cup {s}
        /\ NoRepeat(Tail(sem_free)) /\ s \notin Elements(Tail(sem_free))
    BY <1>1, <2>1, <2>2, HeadTailElements
  <2>4. s \notin Elements(semaphores_list) /\ sem[s].descriptors = <<>>
    BY <1>1, <2>3, UnlistedEmpty
  <2>5. /\ sem' = [sem EXCEPT ![s] = [[sem[s] EXCEPT !.id = semnum, !.count = count,
                                         !.descriptors = <<>>] EXCEPT !.descriptors = @ \o entries]]
        /\ semaphores_list' = Append(semaphores_list, s) /\ sem_free' = Tail(sem_free)
    BY <1>3, <2>2 DEF FindOrAlloc, Semaphore_alloc, Target
  <2>6. <<>> \in Seq(SD) /\ <<>> \o entries = entries
    BY ConcatEmptySeq, EmptySeq
  <2>7. /\ sem' \in [SEM -> Sems]
        /\ \A t \in SEM \ {s} : sem'[t] = sem[t]
        /\ sem'[s].descriptors = <<>> \o entries
        /\ sem'[s].waiting_descriptors = sem[s].waiting_descriptors
        /\ sem'[s].id = semnum
    BY <1>1, <2>3, <2>5, <2>6
  <2>8. /\ Append(semaphores_list, s) \in Seq(SEM)
        /\ Elements(Append(semaphores_list, s)) = Elements(semaphores_list) \cup {s}
        /\ NoRepeat(Append(semaphores_list, s))
    <3>1. semaphores_list \in Seq(SEM) /\ NoRepeat(semaphores_list) /\ s \in SEM
          /\ s \notin Elements(semaphores_list)
      BY <1>1, <2>3, <2>4
    <3> QED BY <3>1, AppendElements
  <2>9. UniqueIds'
    <3>1. \A t \in Elements(semaphores_list) : sem[t].id # semnum
      BY <1>3, NotListed DEF SemBase
    <3>2. \A t \in Elements(semaphores_list) : t \in SEM \ {s}
      BY <1>1, <2>4
    <3>3. \A t \in Elements(semaphores_list) : sem'[t].id = sem[t].id
      BY <2>7, <3>2
    <3>4. Elements(semaphores_list)' = Elements(semaphores_list) \cup {s} /\ sem'[s].id = semnum
      BY <2>5, <2>7, <2>8
    <3> QED BY <1>1, <3>1, <3>3, <3>4 DEF UniqueIds
  <2>10. sem'[s].descriptors = sem[s].descriptors \o entries
    BY <2>4, <2>7
  <2>11. /\ Elements(semaphores_list') = Elements(semaphores_list) \cup {s}
         /\ semaphores_list' \in Seq(SEM) /\ sem_free' \in Seq(SEM)
         /\ NoRepeat(semaphores_list') /\ NoRepeat(sem_free')
         /\ Elements(semaphores_list') \cap Elements(sem_free') = {}
    BY <1>1, <2>3, <2>5, <2>8
  <2> QED BY <2>3, <2>7, <2>9, <2>10, <2>11 DEF Allotted
<1> QED BY <1>2, <1>3

(***************************************************************************)
(* What remains to show when a call has opened or closed: the lists of the *)
(* processes and of the semaphore agree, and the blocks are accounted for. *)
(***************************************************************************)
LEMMA OpenCloseInv ==
  ASSUME SemAssumption, SemBase, UserMode, NEW code \in Int, Return(code),
         UNCHANGED <<placeVars, timer_list, fault>>,
         \A t \in SEM : sem'[t].waiting_descriptors = sem[t].waiting_descriptors,
         \A e \in Open : sd'[e] = sd[e],
         SemTypeOK', BlocksApart', UniqueIds', Owned', NoDanglingSemaphore', EntryPerOpen',
         PtrsConserved(SEM)', IsFiniteSet(Pairs(SEM, EntryLen))'
  PROVE  SemBase'
<1>1. SchedBase'
  BY ReturnCore DEF SemBase
<1>2. QueuedBlocked' /\ QueueLen' = QueueLen
  BY QueuesKept
<1> QED BY <1>1, <1>2 DEF SemBase

(* The descriptor block d that semOpen takes: no process has it open.      *)
LEMMA DescriptorTaken ==
  ASSUME SemBase, UserMode, NEW semnum, sd_free # <<>>, SemDescriptor_alloc(semnum),
         NEW s \in SEM, s = Target(semnum), NEW d, d = Head(sd_free)
  PROVE  /\ d \in SD /\ d \notin Open
         /\ sd' \in [SD -> [pcb : PCB \cup {NULL}, semaphore : SEM \cup {NULL}, fd : Nat]]
         /\ sd'[d].pcb = running /\ sd'[d].semaphore = s
         /\ \A e \in SD \ {d} : sd'[e] = sd[e]
         /\ sd_free' \in Seq(SD) /\ NoRepeat(sd_free')
         /\ Elements(sd_free) = Elements(sd_free') \cup {d} /\ d \notin Elements(sd_free')
         /\ last_sem_fd' \in [PCB -> Nat]
<1>1. /\ sd' = [sd EXCEPT ![d] = [pcb |-> running, semaphore |-> s, fd |-> last_sem_fd[running]]]
      /\ sd_free' = Tail(sd_free)
      /\ last_sem_fd' = [last_sem_fd EXCEPT ![running] = @ + 1]
      /\ running \in PCB
  BY DEF SemDescriptor_alloc, UserMode
<1>2. /\ sd_free \in Seq(SD) /\ NoRepeat(sd_free) /\ Elements(sd_free) \cap Open = {}
      /\ last_sem_fd \in [PCB -> Nat]
      /\ sd \in [SD -> [pcb : PCB \cup {NULL}, semaphore : SEM \cup {NULL}, fd : Nat]]
  BY DescriptorTypes DEF SemBase, BlocksApart
<1>3. /\ d \in SD /\ Tail(sd_free) \in Seq(SD) /\ d \in Elements(sd_free)
      /\ Elements(sd_free) = Elements(Tail(sd_free)) \cup {d}
      /\ NoRepeat(Tail(sd_free)) /\ d \notin Elements(Tail(sd_free))
  BY <1>2, HeadTailElements
<1>4. last_sem_fd' \in [PCB -> Nat]
  BY <1>1, <1>2
<1>5. [pcb |-> running, semaphore |-> s, fd |-> last_sem_fd[running]]
        \in [pcb : PCB \cup {NULL}, semaphore : SEM \cup {NULL}, fd : Nat]
  BY <1>1, <1>2
<1>6. /\ sd' \in [SD -> [pcb : PCB \cup {NULL}, semaphore : SEM \cup {NULL}, fd : Nat]]
      /\ sd'[d].pcb = running /\ sd'[d].semaphore = s
      /\ \A e \in SD \ {d} : sd'[e] = sd[e]
  BY <1>1, <1>2, <1>3, <1>5
<1> QED BY <1>1, <1>2, <1>3, <1>4, <1>6

(***************************************************************************)
(* semOpen that runs out of blocks: the semaphore is listed, no entry and  *)
(* no open descriptor is added.                                            *)
(***************************************************************************)
LEMMA OpenFailedInv ==
  ASSUME SemAssumption, SemBase, NEW semnum \in Int, NEW count \in Int,
         UserMode, SemOpenError(semnum) = 0,
         FindOrAlloc(semnum, count, <<>>), Refuse(DESERROR),
         UNCHANGED <<sem_descriptors, sdp_free>>,
         \A e \in Open : sd'[e] = sd[e],
         sd' \in [SD -> [pcb : PCB \cup {NULL}, semaphore : SEM \cup {NULL}, fd : Nat]],
         sd_free' \in Seq(SD), NoRepeat(sd_free'), Elements(sd_free') \subseteq Elements(sd_free),
         last_sem_fd' \in [PCB -> Nat]
  PROVE  SemBase'
<1>1. PICK s : s = Target(semnum)
  OBVIOUS
<1>2. PICK none \in Seq(SD) : none = <<>> /\ FindOrAlloc(semnum, count, none)
  BY EmptySeq
<1>3. Allotted(s, none)
  BY <1>1, <1>2, FindOrAllocFacts
<1>4. \A t \in SEM : /\ sem'[t].descriptors = sem[t].descriptors
                     /\ sem'[t].waiting_descriptors = sem[t].waiting_descriptors
  <2>1. sem[s].descriptors \o <<>> = sem[s].descriptors
    BY <1>3, QueueTypes, ConcatEmptySeq DEF Allotted
  <2> QED BY <1>2, <1>3, <2>1 DEF Allotted
<1>5. Open' = Open /\ \A q \in PCB : OpenBy(q)' = OpenBy(q)
  BY DEF Open, OpenBy
<1>6. \A t \in SEM : OpenOn(t)' = OpenOn(t)
  BY <1>5 DEF OpenOn
<1>7. DESERROR \in Int /\ Return(DESERROR) /\ UNCHANGED <<placeVars, timer_list, fault>>
  BY DEF Refuse, DESERROR
<1>8. SemTypeOK'
  <2>1. SchedTypeOK'
    BY <1>7, ReturnCore DEF SemBase, SchedBase
  <2> QED BY <1>3, <2>1, DescriptorTypes DEF SemTypeOK, Allotted
<1>9. BlocksApart'
  BY <1>3, <1>5 DEF SemBase, BlocksApart, Allotted
<1>10. Owned'
  <2>1. \A q \in PCB : OpenBy(q) \subseteq Open
    BY DEF Open
  <2>2. ASSUME NEW q \in PCB, NEW e \in OpenBy(q) PROVE sd'[e].pcb = q
    BY <2>1 DEF SemBase, Owned
  <2> QED BY <1>5, <2>2 DEF SemBase, Owned
<1>11. NoDanglingSemaphore'
  <2>1. \A e \in Open : sd'[e].semaphore \in Elements(semaphores_list')
    BY <1>3 DEF SemBase, NoDanglingSemaphore, Allotted
  <2>2. \A t \in SEM : Elements(sem'[t].waiting_descriptors) \subseteq OpenOn(t)
    BY <1>4 DEF SemBase, NoDanglingSemaphore
  <2> QED BY <1>5, <1>6, <2>1, <2>2 DEF NoDanglingSemaphore
<1>12. EntryPerOpen'
  BY <1>4, <1>6 DEF SemBase, EntryPerOpen
<1>13. PtrsConserved(SEM)' /\ IsFiniteSet(Pairs(SEM, EntryLen))'
  <2>1. EntryLen' = EntryLen /\ QueueLen' = QueueLen
    BY <1>4 DEF EntryLen, QueueLen
  <2> QED BY <2>1 DEF SemBase, PtrsConserved
<1>14. UniqueIds'
  BY <1>3 DEF Allotted
<1> QED BY <1>4, <1>7, <1>8, <1>9, <1>10, <1>11, <1>12, <1>13, <1>14, OpenCloseInv

(* semOpen without a SemDescriptor block.                                  *)
LEMMA OpenNoDescriptorInv ==
  ASSUME SemAssumption, SemBase, NEW semnum \in SemNums, NEW count \in OpenCounts,
         SemOpenNoDescriptor(semnum, count)
  PROVE  SemBase'
<1>1. /\ UserMode /\ SemOpenError(semnum) = 0 /\ FindOrAlloc(semnum, count, <<>>)
      /\ Refuse(DESERROR)
      /\ UNCHANGED <<sem_descriptors, last_sem_fd, sd, sd_free, sdp_free>>
  BY DEF SemOpenNoDescriptor, SemOpenAccepted
<1>2. semnum \in Int /\ count \in Int
  BY DEF SemAssumption
<1>3. /\ sd \in [SD -> [pcb : PCB \cup {NULL}, semaphore : SEM \cup {NULL}, fd : Nat]]
      /\ sd_free \in Seq(SD) /\ NoRepeat(sd_free) /\ last_sem_fd \in [PCB -> Nat]
  BY DescriptorTypes DEF SemBase, BlocksApart
<1> QED BY <1>1, <1>2, <1>3, OpenFailedInv

(* semOpen without a SemDescriptorPtr block.                               *)
LEMMA OpenNoPtrInv ==
  ASSUME SemAssumption, SemBase, NEW semnum \in SemNums, NEW count \in OpenCounts,
         SemOpenNoPtr(semnum, count)
  PROVE  SemBase'
<1>1. /\ UserMode /\ SemOpenError(semnum) = 0 /\ FindOrAlloc(semnum, count, <<>>)
      /\ sd_free # <<>> /\ SemDescriptor_alloc(semnum)
      /\ Refuse(DESERROR)
      /\ UNCHANGED <<sem_descriptors, sdp_free>>
  BY DEF SemOpenNoPtr, SemOpenAccepted
<1>2. semnum \in Int /\ count \in Int /\ <<>> \in Seq(SD)
  BY EmptySeq DEF SemAssumption
<1>3. PICK s \in SEM : s = Target(semnum)
  BY <1>1, <1>2, FindOrAllocFacts DEF Allotted
<1>4. PICK d : d = Head(sd_free)
  OBVIOUS
<1>5. /\ d \in SD /\ d \notin Open
      /\ sd' \in [SD -> [pcb : PCB \cup {NULL}, semaphore : SEM \cup {NULL}, fd : Nat]]
      /\ \A e \in SD \ {d} : sd'[e] = sd[e]
      /\ sd_free' \in Seq(SD) /\ NoRepeat(sd_free')
      /\ Elements(sd_free') \subseteq Elements(sd_free)
      /\ last_sem_fd' \in [PCB -> Nat]
  BY <1>1, <1>3, <1>4, DescriptorTaken
<1>6. \A e \in Open : sd'[e] = sd[e]
  BY <1>5, DescriptorTypes
<1> QED BY <1>1, <1>2, <1>5, <1>6, OpenFailedInv

(***************************************************************************)
(* semOpen that succeeds: d joins the caller's list and that of s.         *)
(***************************************************************************)
LEMMA OpenDoneInv ==
  ASSUME SemAssumption, SemBase, NEW semnum \in SemNums, NEW count \in OpenCounts,
         SemOpenDone(semnum, count)
  PROVE  SemBase'
<1>1. /\ UserMode /\ SemOpenError(semnum) = 0
      /\ sd_free # <<>> /\ SemDescriptor_alloc(semnum)
      /\ FindOrAlloc(semnum, count, <<Head(sd_free)>>)
      /\ sem_descriptors' = [sem_descriptors EXCEPT ![running] = Append(@, Head(sd_free))]
      /\ sdp_free > 0 /\ sdp_free' = sdp_free - 1
      /\ Return(semnum) /\ UNCHANGED <<placeVars, timer_list, fault>>
  BY DEF SemOpenDone, SemOpenAccepted, SemDescriptorPtr_alloc
<1>2. semnum \in Int /\ count \in Int
  BY DEF SemAssumption
<1>3. PICK p \in PCB : p = running
  BY <1>1 DEF UserMode
<1>4. PICK d \in SD : d = Head(sd_free)
  BY <1>1, DescriptorTypes, HeadTailElements
<1>5. PICK entries \in Seq(SD) : entries = <<d>>
  <2>1. <<d>> \in Seq(SD)
    OBVIOUS
  <2> QED BY <2>1
<1>6. PICK s : s = Target(semnum)
  OBVIOUS
<1>7. Allotted(s, entries)
  <2>1. FindOrAlloc(semnum, count, entries)
    BY <1>1, <1>4, <1>5
  <2> QED BY <1>1, <1>2, <1>6, <2>1, FindOrAllocFacts
<1>8. s \in SEM
  BY <1>7 DEF Allotted
<1>9. /\ d \notin Open
      /\ sd' \in [SD -> [pcb : PCB \cup {NULL}, semaphore : SEM \cup {NULL}, fd : Nat]]
      /\ sd'[d].pcb = p /\ sd'[d].semaphore = s
      /\ \A e \in SD \ {d} : sd'[e] = sd[e]
      /\ sd_free' \in Seq(SD) /\ NoRepeat(sd_free')
      /\ Elements(sd_free) = Elements(sd_free') \cup {d} /\ d \notin Elements(sd_free')
      /\ last_sem_fd' \in [PCB -> Nat]
  BY <1>1, <1>3, <1>4, <1>6, <1>8, DescriptorTaken
<1>10. \A e \in Open : sd'[e] = sd[e]
  BY <1>9, DescriptorTypes
<1>11. /\ sem'[s].descriptors = Append(sem[s].descriptors, d)
       /\ Len(sem'[s].descriptors) = Len(sem[s].descriptors) + 1
       /\ Len(sem[s].descriptors) \in Nat
       /\ \A t \in SEM \ {s} : sem'[t].descriptors = sem[t].descriptors
       /\ \A t \in SEM : sem'[t].waiting_descriptors = sem[t].waiting_descriptors
  <2>1. sem[s].descriptors \in Seq(SD)
    BY <1>8, QueueTypes
  <2>2. sem[s].descriptors \o entries = Append(sem[s].descriptors, d)
    BY <1>5, <2>1, AppendIsConcat
  <2>3. Len(Append(sem[s].descriptors, d)) = Len(sem[s].descriptors) + 1
    BY <2>1, AppendProperties
  <2>4. Len(sem[s].descriptors) \in Nat
    BY <2>1, LenProperties
  <2> QED BY <1>7, <2>2, <2>3, <2>4 DEF Allotted
<1>12. /\ sem_descriptors' \in [PCB -> Seq(SD)]
       /\ OpenBy(p)' = OpenBy(p) \cup {d} /\ NoRepeat(sem_descriptors'[p])
       /\ \A q \in PCB \ {p} : sem_descriptors'[q] = sem_descriptors[q]
  <2>1. /\ sem_descriptors \in [PCB -> Seq(SD)] /\ sem_descriptors[p] \in Seq(SD)
        /\ NoRepeat(sem_descriptors[p]) /\ d \notin Elements(sem_descriptors[p])
    BY <1>9, DescriptorTypes DEF SemBase, Owned, Open, OpenBy
  <2>2. /\ Append(sem_descriptors[p], d) \in Seq(SD)
        /\ Elements(Append(sem_descriptors[p], d)) = Elements(sem_descriptors[p]) \cup {d}
        /\ NoRepeat(Append(sem_descriptors[p], d))
    BY <2>1, AppendElements
  <2>3. sem_descriptors' = [sem_descriptors EXCEPT ![p] = Append(sem_descriptors[p], d)]
    BY <1>1, <1>3, <1>4
  <2> QED BY <2>1, <2>2, <2>3 DEF OpenBy
<1>13. Open' = Open \cup {d} /\ \A q \in PCB \ {p} : OpenBy(q)' = OpenBy(q)
  <2>1. \A q \in PCB \ {p} : OpenBy(q)' = OpenBy(q)
    BY <1>12 DEF OpenBy
  <2> QED BY <1>12, <2>1 DEF Open
<1>14. /\ OpenOn(s)' = OpenOn(s) \cup {d} /\ d \notin OpenOn(s)
       /\ \A t \in SEM \ {s} : OpenOn(t)' = OpenOn(t)
  BY <1>9, <1>10, <1>13 DEF OpenOn
<1>15. SemTypeOK'
  <2>1. SchedTypeOK'
    BY <1>1, <1>2, ReturnCore DEF SemBase, SchedBase
  <2>2. sdp_free' \in 0..NUM_SEMDESCRIPTORPTRS
    BY <1>1, DescriptorTypes
  <2> QED BY <1>7, <1>9, <1>12, <2>1, <2>2 DEF SemTypeOK, Allotted
<1>16. BlocksApart' /\ UniqueIds'
  <2>1. Elements(sd_free') \cap (Open \cup {d}) = {}
    BY <1>9 DEF SemBase, BlocksApart
  <2> QED BY <1>7, <1>9, <1>13, <2>1 DEF Allotted, BlocksApart
<1>17. Owned'
  <2>1. ASSUME NEW q \in PCB
        PROVE  NoRepeat(sem_descriptors'[q]) /\ \A e \in OpenBy(q)' : sd'[e].pcb = q
    <3>1. NoRepeat(sem_descriptors[q]) /\ \A e \in OpenBy(q) : sd'[e].pcb = q
      BY <1>10 DEF SemBase, Owned, Open
    <3>2. CASE q = p
      BY <1>9, <1>12, <3>1, <3>2
    <3>3. CASE q # p
      <4>1. OpenBy(q)' = OpenBy(q) /\ sem_descriptors'[q] = sem_descriptors[q]
        BY <1>12, <1>13, <3>3
      <4> QED BY <3>1, <4>1
    <3> QED BY <3>2, <3>3
  <2> QED BY <2>1 DEF Owned
<1>18. NoDanglingSemaphore'
  <2>1. \A e \in Open' : sd'[e].semaphore \in Elements(semaphores_list')
    <3>1. Elements(semaphores_list') = Elements(semaphores_list) \cup {s}
      BY <1>7 DEF Allotted
    <3> QED BY <1>9, <1>10, <1>13, <3>1 DEF SemBase, NoDanglingSemaphore
  <2>2. \A t \in SEM : Elements(sem'[t].waiting_descriptors) \subseteq OpenOn(t)'
    BY <1>11, <1>14 DEF SemBase, NoDanglingSemaphore
  <2> QED BY <2>1, <2>2 DEF NoDanglingSemaphore
<1>19. EntryPerOpen'
  <2>1. IsFiniteSet(OpenOn(s))
    BY OpenFinite DEF SemBase
  <2>2. Cardinality(OpenOn(s) \cup {d}) = Cardinality(OpenOn(s)) + 1
    BY <1>14, <2>1, FS_AddElement
  <2>3. Len(sem[s].descriptors) = Cardinality(OpenOn(s))
    BY <1>8 DEF SemBase, EntryPerOpen
  <2>4. Len(sem'[s].descriptors) = Cardinality(OpenOn(s)')
    BY <1>11, <1>14, <2>2, <2>3
  <2>5. \A t \in SEM \ {s} : Len(sem'[t].descriptors) = Cardinality(OpenOn(t)')
    BY <1>11, <1>14 DEF SemBase, EntryPerOpen
  <2> QED BY <2>4, <2>5 DEF EntryPerOpen
<1>20. PtrsConserved(SEM)' /\ IsFiniteSet(Pairs(SEM, EntryLen))'
  <2>1. /\ EntryLen[s] \in Nat /\ EntryLen'[s] = EntryLen[s] + 1
        /\ \A t \in SEM \ {s} : EntryLen'[t] = EntryLen[t]
    BY <1>8, <1>11 DEF EntryLen
  <2> DEFINE f == EntryLen
             g == EntryLen'
  <2>2. /\ f[s] \in Nat /\ g[s] = f[s] + 1 /\ \A t \in SEM \ {s} : g[t] = f[t]
        /\ IsFiniteSet(Pairs(SEM, f))
    BY <2>1 DEF SemBase
  <2> HIDE DEF f, g
  <2>3. /\ IsFiniteSet(Pairs(SEM, g)) /\ Cardinality(Pairs(SEM, f)) \in Nat
        /\ Cardinality(Pairs(SEM, g)) = Cardinality(Pairs(SEM, f)) + 1
    BY <1>8, <2>2, GrowCount
  <2> USE DEF f, g
  <2>4. QueueLen' = QueueLen
    BY <1>11 DEF QueueLen
  <2>5. Cardinality(Pairs(SEM, QueueLen)) \in Nat
    BY FS_CardinalityType DEF SemBase
  <2>6. /\ sdp_free \in 0..NUM_SEMDESCRIPTORPTRS
        /\ sdp_free + Cardinality(Pairs(SEM, EntryLen)) + Cardinality(Pairs(SEM, QueueLen))
             = NUM_SEMDESCRIPTORPTRS
    BY DEF SemBase, SemTypeOK, PtrsConserved
  <2> QED BY <1>1, <2>3, <2>4, <2>5, <2>6 DEF PtrsConserved
<1> QED BY <1>1, <1>2, <1>10, <1>11, <1>15, <1>16, <1>17, <1>18, <1>19, <1>20, OpenCloseInv

-----------------------------------------------------------------------------
(* A freed block goes on top of its free list.                            *)
LEMMA PushFree ==
  ASSUME NEW S, NEW b \in S, NEW free \in Seq(S), NoRepeat(free), b \notin Elements(free)
  PROVE  /\ <<b>> \o free \in Seq(S)
         /\ Elements(<<b>> \o free) = {b} \cup Elements(free)
         /\ NoRepeat(<<b>> \o free)
<1>1. PICK one : one = <<b>>
  OBVIOUS
<1>2. one \in Seq(S) /\ Elements(one) = {b} /\ NoRepeat(one)
  BY <1>1 DEF Elements, NoRepeat
<1>3. Elements(one) \cap Elements(free) = {}
  BY <1>2
<1>4. /\ one \o free \in Seq(S)
      /\ Elements(one \o free) = Elements(one) \cup Elements(free)
      /\ NoRepeat(one \o free)
  BY <1>2, <1>3, ConcatElements
<1> QED BY <1>1, <1>2, <1>4

(***************************************************************************)
(* semClose takes an entry off the list of s, whoever's it is: the list    *)
(* still has one entry for each descriptor open on s.  So it is empty, and *)
(* s freed, exactly when the caller's descriptor was the last one; and no  *)
(* process waits at s then, as the one that holds it is running.           *)
(***************************************************************************)
LEMMA CloseInv ==
  ASSUME SemAssumption, SemBase, NEW semnum, SemClose(semnum) \/ SemCloseLast(semnum)
  PROVE  SemBase'
<1>1. /\ UserMode /\ Usable(semnum) /\ EntryByFd(semnum) # 0
      /\ sem_descriptors' = [sem_descriptors EXCEPT ![running] = Detach(@, getDes(semnum))]
      /\ sem' = [sem EXCEPT ![Found(semnum)].descriptors = EntriesLeft(semnum)]
      /\ sd_free' = <<Mine(semnum)>> \o sd_free
      /\ sdp_free' = sdp_free + 1
      /\ Return(0) /\ UNCHANGED <<placeVars, timer_list, fault, last_sem_fd, sd>>
  BY DEF SemClose, SemCloseLast, SemCloseAccepted, CloseDescriptor, SemDescriptorPtr_free
<1>2. PICK p \in PCB : p = running
  BY <1>1 DEF UserMode
<1>3. PICK s \in SEM, d \in SD : s = Found(semnum) /\ d = Mine(semnum)
  BY <1>1, Lookup
<1>4. PICK g : g = getDes(semnum)
  OBVIOUS
<1>5. PICK k : k = EntryByFd(semnum)
  OBVIOUS
<1>6. /\ s \in Elements(semaphores_list) /\ d \in OpenBy(p) /\ d \in OpenOn(s) /\ d \in Open
      /\ sd[d].pcb = p /\ sd[d].semaphore = s
      /\ g \in 1..Len(sem_descriptors[p]) /\ d = sem_descriptors[p][g]
  BY <1>1, <1>2, <1>3, <1>4, Lookup DEF OpenOn
<1>7. k \in 1..Len(sem[s].descriptors) /\ EntriesLeft(semnum) = Detach(sem[s].descriptors, k)
  <2>1. k = getPtr2(sd[d].fd, s) /\ k # 0
    BY <1>1, <1>3, <1>5 DEF EntryByFd
  <2>2. k \in 0..Len(sem[s].descriptors) /\ Len(sem[s].descriptors) \in Nat
    BY <2>1, EntryFound
  <2> QED BY <1>3, <1>5, <2>1, <2>2 DEF EntriesLeft
<1> DEFINE left == Detach(sem[s].descriptors, k)
<1>8. left \in Seq(SD) /\ Len(left) = Len(sem[s].descriptors) - 1 /\ Len(left) \in Nat
  <2>1. sem[s].descriptors \in Seq(SD)
    BY QueueTypes
  <2>2. left \in Seq(SD) /\ Len(left) = Len(sem[s].descriptors) - 1
    BY <1>7, <2>1, DetachProperties
  <2> QED BY <2>2, LenProperties
<1> HIDE DEF left
<1>9. /\ sem' \in [SEM -> [id : Int, count : Int, descriptors : Seq(SD),
                          waiting_descriptors : Seq(SD)]]
      /\ \A t \in SEM : /\ sem'[t].id = sem[t].id
                        /\ sem'[t].waiting_descriptors = sem[t].waiting_descriptors
      /\ \A t \in SEM \ {s} : sem'[t].descriptors = sem[t].descriptors
      /\ sem'[s].descriptors = left
  <2>1. sem' = [sem EXCEPT ![s].descriptors = left]
    BY <1>1, <1>3, <1>7 DEF left
  <2> QED BY <1>8, <2>1, DescriptorTypes
<1>10. /\ sem_descriptors' \in [PCB -> Seq(SD)]
       /\ OpenBy(p)' = OpenBy(p) \ {d} /\ NoRepeat(sem_descriptors'[p])
       /\ \A q \in PCB \ {p} : sem_descriptors'[q] = sem_descriptors[q]
  <2>1. /\ sem_descriptors \in [PCB -> Seq(SD)] /\ sem_descriptors[p] \in Seq(SD)
        /\ NoRepeat(sem_descriptors[p])
    BY DescriptorTypes DEF SemBase, Owned
  <2>2. /\ Detach(sem_descriptors[p], g) \in Seq(SD)
        /\ Elements(sem_descriptors[p]) = Elements(Detach(sem_descriptors[p], g)) \cup {d}
        /\ NoRepeat(Detach(sem_descriptors[p], g))
        /\ d \notin Elements(Detach(sem_descriptors[p], g))
    BY <1>6, <2>1, DetachProperties, DetachElements
  <2>3. sem_descriptors' = [sem_descriptors EXCEPT ![p] = Detach(sem_descriptors[p], g)]
    BY <1>1, <1>2, <1>4
  <2> QED BY <2>1, <2>2, <2>3 DEF OpenBy
<1>11. \A q \in PCB \ {p} : OpenBy(q)' = OpenBy(q) /\ d \notin OpenBy(q)
  BY <1>6, <1>10 DEF OpenBy, SemBase, Owned
<1>12. Open' = Open \ {d}
  BY <1>10, <1>11 DEF Open
<1>13. /\ OpenOn(s)' = OpenOn(s) \ {d}
       /\ \A t \in SEM \ {s} : OpenOn(t)' = OpenOn(t)
  BY <1>1, <1>6, <1>12 DEF OpenOn
<1>14. EntryPerOpen'
  <2>1. IsFiniteSet(OpenOn(s))
    BY OpenFinite DEF SemBase
  <2>2. Cardinality(OpenOn(s) \ {d}) = Cardinality(OpenOn(s)) - 1
    BY <1>6, <2>1, FS_RemoveElement
  <2>3. Len(sem[s].descriptors) = Cardinality(OpenOn(s))
    BY DEF SemBase, EntryPerOpen
  <2>4. Len(sem'[s].descriptors) = Cardinality(OpenOn(s)')
    BY <1>8, <1>9, <1>13, <2>2, <2>3
  <2>5. \A t \in SEM \ {s} : Len(sem'[t].descriptors) = Cardinality(OpenOn(t)')
    BY <1>9, <1>13 DEF SemBase, EntryPerOpen
  <2> QED BY <2>4, <2>5 DEF EntryPerOpen
(* What becomes of the global list and of the free semaphores.             *)
<1>15. /\ semaphores_list' \in Seq(SEM) /\ sem_free' \in Seq(SEM)
       /\ NoRepeat(semaphores_list') /\ NoRepeat(sem_free')
       /\ Elements(semaphores_list') \cap Elements(sem_free') = {}
       /\ Elements(semaphores_list') \subseteq Elements(semaphores_list)
       /\ \A t \in Elements(semaphores_list) : t # s \/ left # <<>>
             => t \in Elements(semaphores_list')
  <2>1. /\ semaphores_list \in Seq(SEM) /\ sem_free \in Seq(SEM)
        /\ NoRepeat(semaphores_list) /\ NoRepeat(sem_free)
        /\ Elements(semaphores_list) \cap Elements(sem_free) = {}
    BY DescriptorTypes DEF SemBase, BlocksApart
  <2>2. CASE SemClose(semnum)
    <3>1. semaphores_list' = semaphores_list /\ sem_free' = sem_free
      BY <2>2 DEF SemClose
    <3> QED BY <2>1, <3>1
  <2>3. CASE SemCloseLast(semnum)
    <3>1. PICK i \in 1..Len(semaphores_list) :
                i = SemaphoreList_byId(semnum) /\ semaphores_list[i] = s
      BY <1>1, <1>3, Lookup DEF Found
    <3>2. /\ left = <<>>
          /\ semaphores_list' = Detach(semaphores_list, i) /\ sem_free' = <<s>> \o sem_free
      BY <1>3, <1>7, <2>3, <3>1 DEF SemCloseLast, left
    <3>3. /\ Detach(semaphores_list, i) \in Seq(SEM)
          /\ Elements(semaphores_list) = Elements(Detach(semaphores_list, i)) \cup {s}
          /\ NoRepeat(Detach(semaphores_list, i))
          /\ s \notin Elements(Detach(semaphores_list, i))
      BY <2>1, <3>1, DetachProperties, DetachElements
    <3>4. /\ <<s>> \o sem_free \in Seq(SEM)
          /\ Elements(<<s>> \o sem_free) = {s} \cup Elements(sem_free)
          /\ NoRepeat(<<s>> \o sem_free)
      BY <1>6, <2>1, PushFree
    <3> QED BY <2>1, <3>2, <3>3, <3>4
  <2> QED BY <2>2, <2>3
<1>16. SemTypeOK' /\ BlocksApart'
  <2>1. /\ sd_free \in Seq(SD) /\ NoRepeat(sd_free) /\ Elements(sd_free) \cap Open = {}
    BY DescriptorTypes DEF SemBase, BlocksApart
  <2>4. /\ sd_free' \in Seq(SD) /\ Elements(sd_free') = {d} \cup Elements(sd_free)
        /\ NoRepeat(sd_free')
    <3>1. d \notin Elements(sd_free)
      BY <1>6, <2>1
    <3>2. /\ <<d>> \o sd_free \in Seq(SD)
          /\ Elements(<<d>> \o sd_free) = {d} \cup Elements(sd_free)
          /\ NoRepeat(<<d>> \o sd_free)
      BY <2>1, <3>1, PushFree
    <3> QED BY <1>1, <1>3, <3>2
  <2>5. SchedTypeOK'
    <3>1. 0 \in Int
      OBVIOUS
    <3> QED BY <1>1, <3>1, ReturnCore DEF SemBase, SchedBase
  <2>6. sdp_free' \in 0..NUM_SEMDESCRIPTORPTRS
    <3>1. /\ EntryLen[s] \in Nat \ {0}
      BY <1>8 DEF EntryLen
    <3>2. <<s, 1>> \in Pairs(SEM, EntryLen)
      BY <3>1 DEF Pairs
    <3>3. Cardinality(Pairs(SEM, EntryLen)) \in Nat /\ Cardinality(Pairs(SEM, EntryLen)) # 0
      BY <3>2, FS_CardinalityType, FS_EmptySet DEF SemBase
    <3>4. Cardinality(Pairs(SEM, QueueLen)) \in Nat
      BY FS_CardinalityType DEF SemBase
    <3>5. /\ sdp_free \in 0..NUM_SEMDESCRIPTORPTRS /\ NUM_SEMDESCRIPTORPTRS \in Nat
          /\ sdp_free + Cardinality(Pairs(SEM, EntryLen)) + Cardinality(Pairs(SEM, QueueLen))
               = NUM_SEMDESCRIPTORPTRS
      BY DEF SemBase, SemTypeOK, PtrsConserved, SemAssumption
    <3>6. sdp_free' = sdp_free + 1
      BY <1>1
    <3> QED BY <3>3, <3>4, <3>5, <3>6
  <2>7. SemTypeOK'
    BY <1>1, <1>9, <1>10, <1>15, <2>4, <2>5, <2>6, DescriptorTypes DEF SemTypeOK
  <2>8. BlocksApart'
    BY <1>12, <1>15, <2>1, <2>4 DEF BlocksApart
  <2> QED BY <2>7, <2>8
<1>17. UniqueIds' /\ Owned'
  <2>1. UniqueIds'
    BY <1>9, <1>15, DescriptorTypes DEF SemBase, UniqueIds
  <2>2. ASSUME NEW q \in PCB
        PROVE  NoRepeat(sem_descriptors'[q]) /\ \A e \in OpenBy(q)' : sd'[e].pcb = q
    <3>1. NoRepeat(sem_descriptors[q]) /\ \A e \in OpenBy(q) : sd'[e].pcb = q
      BY <1>1 DEF SemBase, Owned
    <3>2. CASE q = p
      BY <1>10, <3>1, <3>2
    <3>3. CASE q # p
      <4>1. OpenBy(q)' = OpenBy(q) /\ sem_descriptors'[q] = sem_descriptors[q]
        BY <1>10, <1>11, <3>3
      <4> QED BY <3>1, <4>1
    <3> QED BY <3>2, <3>3
  <2> QED BY <2>1, <2>2 DEF Owned
<1>18. NoDanglingSemaphore'
  <2>1. ASSUME NEW e \in Open' PROVE sd'[e].semaphore \in Elements(semaphores_list')
    <3>1. e \in Open /\ e # d /\ sd'[e] = sd[e]
      BY <1>1, <1>12
    <3>2. sd[e].semaphore \in Elements(semaphores_list)
      BY <3>1 DEF SemBase, NoDanglingSemaphore
    <3>3. sd[e].semaphore # s \/ left # <<>>
      <4> SUFFICES ASSUME sd[e].semaphore = s, left = <<>> PROVE FALSE
        OBVIOUS
      <4>1. e \in OpenOn(s)'
        BY <1>13, <3>1 DEF OpenOn
      <4>2. Cardinality(OpenOn(s)') = 0
        BY <1>9, <1>14, EmptySeq DEF EntryPerOpen
      <4>3. IsFiniteSet(OpenOn(s)')
        <5>1. IsFiniteSet(OpenOn(s))
          BY OpenFinite DEF SemBase
        <5> QED BY <1>13, <5>1, FS_RemoveElement
      <4> QED BY <4>1, <4>2, <4>3, FS_EmptySet
    <3> QED BY <1>15, <3>1, <3>2, <3>3
  <2>2. ASSUME NEW t \in SEM, NEW i \in 1..Len(sem[t].waiting_descriptors)
        PROVE  sem[t].waiting_descriptors[i] \in OpenOn(t)'
    <3>1. sem[t].waiting_descriptors[i] \in OpenOn(t)
      BY DEF SemBase, NoDanglingSemaphore, Elements
    <3>2. sd[sem[t].waiting_descriptors[i]].pcb \in waiting_list
      BY DEF SemBase, QueuedBlocked, Waiters
    <3>3. p \notin waiting_list
      BY <1>2 DEF SemBase, SchedBase, PlacedOnce
    <3>4. sem[t].waiting_descriptors[i] # d
      BY <1>6, <3>2, <3>3
    <3> QED BY <1>13, <3>1, <3>4
  <2>3. \A t \in SEM : Elements(sem'[t].waiting_descriptors) \subseteq OpenOn(t)'
    BY <1>9, <2>2 DEF Elements
  <2> QED BY <2>1, <2>3 DEF NoDanglingSemaphore
<1>19. PtrsConserved(SEM)' /\ IsFiniteSet(Pairs(SEM, EntryLen))'
  <2>1. /\ EntryLen'[s] \in Nat /\ EntryLen[s] = EntryLen'[s] + 1
        /\ \A t \in SEM \ {s} : EntryLen[t] = EntryLen'[t]
    <3>1. EntryLen'[s] = Len(left) /\ EntryLen[s] = Len(sem[s].descriptors)
      BY <1>9 DEF EntryLen
    <3>2. \A t \in SEM \ {s} : EntryLen[t] = EntryLen'[t]
      BY <1>9 DEF EntryLen
    <3>3. Len(sem[s].descriptors) \in Nat
      BY QueueTypes, LenProperties
    <3> QED BY <1>8, <3>1, <3>2, <3>3
  <2> DEFINE f == EntryLen
             h == EntryLen'
  <2>2. /\ h[s] \in Nat /\ f[s] = h[s] + 1 /\ \A t \in SEM \ {s} : f[t] = h[t]
        /\ IsFiniteSet(Pairs(SEM, f))
    BY <2>1 DEF SemBase
  <2> HIDE DEF f, h
  <2>3. /\ IsFiniteSet(Pairs(SEM, h)) /\ Cardinality(Pairs(SEM, h)) \in Nat
        /\ Cardinality(Pairs(SEM, f)) = Cardinality(Pairs(SEM, h)) + 1
    BY <2>2, ShrinkCount
  <2> USE DEF f, h
  <2>4. QueueLen' = QueueLen
    BY <1>9 DEF QueueLen
  <2>5. Cardinality(Pairs(SEM, QueueLen)) \in Nat
    BY FS_CardinalityType DEF SemBase
  <2>6. /\ sdp_free \in 0..NUM_SEMDESCRIPTORPTRS
        /\ sdp_free + Cardinality(Pairs(SEM, EntryLen)) + Cardinality(Pairs(SEM, QueueLen))
             = NUM_SEMDESCRIPTORPTRS
    BY DEF SemBase, SemTypeOK, PtrsConserved
  <2> QED BY <1>1, <2>3, <2>4, <2>5, <2>6 DEF PtrsConserved
<1>20. 0 \in Int /\ \A e \in Open : sd'[e] = sd[e]
  BY <1>1
<1> QED BY <1>1, <1>9, <1>14, <1>16, <1>17, <1>18, <1>19, <1>20, OpenCloseInv

(***************************************************************************)
(* The calls that only report an error, and those that end the program.    *)
(***************************************************************************)
LEMMA RefusedInv ==
  ASSUME SemBase, NEW semnum,
         \/ SemWaitRefused(semnum) \/ SemPostRefused(semnum) \/ SemOpenRefused(semnum)
  PROVE  SemBase'
<1>1. RefusalCode \in Int /\ SemOpenError(semnum) \in Int
  BY DEF RefusalCode, SemOpenError, TOOMUCHSEMDES, SEMNUMINVALID, SEMAPHOREALLOCFAILURE,
    TOOMUCHSEM, TOOFEWSEM
<1>2. PICK code \in Int : UserMode /\ Refuse(code) /\ UNCHANGED semVars
  BY <1>1 DEF SemWaitRefused, SemPostRefused, SemOpenRefused
<1> QED BY <1>2, RefuseInv

(* The three ways a handler ends the program.                              *)
LEMMA CrashedInv ==
  ASSUME SemBase, NEW semnum,
         \/ SemWaitNoPtr(semnum) \/ SemWaitNoReady(semnum) \/ SemPostNoWaiter(semnum)
  PROVE  SemBase'
<1>1. PICK where \in Faults : Crash(where) /\ UNCHANGED semVars
  BY DEF SemWaitNoPtr, SemWaitNoReady, SemPostNoWaiter, Faults
<1> QED BY <1>1, CrashInv

(* Every system call on a semaphore preserves the invariant.               *)
LEMMA SemCallInv ==
  ASSUME SemAssumption, SemBase, SemCall
  PROVE  SemBase'
<1>1. PICK semnum \in SemNums : \/ SemOpenStep(semnum) \/ SemCloseStep(semnum)
                                \/ SemWaitStep(semnum) \/ SemPostStep(semnum)
  BY DEF SemCall
<1>2. CASE SemOpenStep(semnum)
  <2>1. CASE SemOpenRefused(semnum)
    BY <2>1, RefusedInv
  <2>2. ASSUME NEW count \in OpenCounts, SemOpenNoDescriptor(semnum, count)
        PROVE  SemBase'
    BY <2>2, OpenNoDescriptorInv
  <2>3. ASSUME NEW count \in OpenCounts, SemOpenNoPtr(semnum, count)
        PROVE  SemBase'
    BY <2>3, OpenNoPtrInv
  <2>4. ASSUME NEW count \in OpenCounts, SemOpenDone(semnum, count)
        PROVE  SemBase'
    BY <2>4, OpenDoneInv
  <2> QED BY <1>2, <2>1, <2>2, <2>3, <2>4 DEF SemOpenStep, SemOpenWith
<1>3. CASE SemCloseStep(semnum)
  BY <1>3, RefusedInv, CloseInv DEF SemCloseStep, SemCloseRefused
<1>4. CASE SemWaitStep(semnum)
  BY <1>4, RefusedInv, CrashedInv, WaitPassInv, WaitBlockInv DEF SemWaitStep
<1>5. CASE SemPostStep(semnum)
  BY <1>5, RefusedInv, CrashedInv, PostStoreInv, HandOffInv DEF SemPostStep
<1> QED BY <1>1, <1>2, <1>3, <1>4, <1>5

(***************************************************************************)
(* What a call does to the lists of the scheduler: nothing, or the caller  *)
(* blocks and the next ready process runs, or the caller hands over to q,  *)
(* which was blocked, and is ready itself.  Blocked is who is on the       *)
(* waiting list and on no timer.                                           *)
(***************************************************************************)
Blocked == waiting_list \ Sleepers

Blocks ==
  /\ ready_list # <<>>
  /\ waiting_list' = waiting_list \cup {running}
  /\ status' = [status EXCEPT ![running] = "Waiting"]
  /\ running' = Head(ready_list)
  /\ ready_list' = Tail(ready_list)
  /\ UNCHANGED timer_list

HandsTo(q) ==
  /\ waiting_list' = waiting_list \ {q}
  /\ status' = [status EXCEPT ![running] = "Ready"]
  /\ running' = q
  /\ ready_list' = Append(ready_list, running)
  /\ UNCHANGED timer_list

LEMMA SemCallUser ==
  ASSUME SemCall
  PROVE  UserMode
BY DEF SemCall, SemOpenStep, SemOpenRefused, SemOpenWith, SemOpenNoDescriptor, SemOpenNoPtr,
  SemOpenDone, SemOpenAccepted, SemCloseStep, SemCloseRefused, SemPostRefused, SemClose,
  SemCloseLast, SemCloseAccepted, SemWaitStep, SemWaitRefused, SemWaitPass, SemWaitBlock,
  SemWaitNoPtr, SemWaitNoReady, SemWaitAccepted, SemPostStep, SemPostStore, SemPostHandOff,
  SemPostNoWaiter, SemPostAccepted

LEMMA SemCallMoves ==
  ASSUME SemBase, SemCall
  PROVE  \/ UNCHANGED <<placeVars, timer_list>>
         \/ Blocks
         \/ \E q \in Blocked : HandsTo(q)
<1>1. PICK semnum \in SemNums : \/ SemOpenStep(semnum) \/ SemCloseStep(semnum)
                                \/ SemWaitStep(semnum) \/ SemPostStep(semnum)
  BY DEF SemCall
<1>2. CASE SemOpenStep(semnum)
  BY <1>2 DEF SemOpenStep, SemOpenRefused, SemOpenWith, SemOpenNoDescriptor, SemOpenNoPtr,
    SemOpenDone, Refuse
<1>3. CASE SemCloseStep(semnum)
  BY <1>3 DEF SemCloseStep, SemCloseRefused, SemPostRefused, SemClose, SemCloseLast,
    CloseDescriptor, Refuse
<1>4. CASE SemWaitStep(semnum)
  BY <1>4 DEF SemWaitStep, SemWaitRefused, SemWaitPass, SemWaitBlock, SemWaitNoPtr,
    SemWaitNoReady, Refuse, Crash, Blocks
<1>5. CASE SemPostHandOff(semnum)
  <2>1. HandsTo(Waiter(semnum))
    BY <1>5 DEF SemPostHandOff, HandsTo
  <2>2. Waiter(semnum) \in Blocked
    BY <1>5, HandOffWaiter DEF Blocked
  <2> QED BY <2>1, <2>2
<1>6. CASE SemPostStep(semnum) /\ ~SemPostHandOff(semnum)
  BY <1>6 DEF SemPostStep, SemPostRefused, SemPostStore, SemPostNoWaiter, Refuse, Crash
<1> QED BY <1>1, <1>2, <1>3, <1>4, <1>5, <1>6

(* A call loses no process; of those who are not in a place yet only the   *)
(* caller comes to wait or to be ready, with the status that tells it.     *)
LEMMA SemCallPlaces ==
  ASSUME SemBase, SemCall
  PROVE  /\ Placed' = Placed
         /\ waiting_list' \subseteq waiting_list \cup {running}
         /\ Elements(ready_list') \subseteq Elements(ready_list) \cup {running}
         /\ \A p \in PCB \ {running} : status'[p] = status[p]
         /\ status'[running] \in {status[running], "Waiting", "Ready"}
         /\ running \in waiting_list' => status'[running] = "Waiting"
         /\ running \in Elements(ready_list') => status'[running] = "Ready"
<1>1. /\ ready_list \in Seq(PCB) /\ running \in PCB /\ status \in [PCB -> Statuses]
      /\ running \notin Elements(ready_list) \cup waiting_list
  BY SemCallUser DEF SemBase, SchedBase, SchedTypeOK, PlacedOnce, UserMode
<1>2. CASE UNCHANGED <<placeVars, timer_list>>
  BY <1>1, <1>2 DEF Placed, placeVars
<1>3. CASE Blocks
  <2>1. Elements(ready_list) = Elements(ready_list') \cup {running'}
    BY <1>1, <1>3, HeadTailElements DEF Blocks
  <2>2. status'[running] = "Waiting" /\ \A p \in PCB \ {running} : status'[p] = status[p]
    BY <1>1, <1>3 DEF Blocks
  <2>3. Placed' = Placed /\ waiting_list' = waiting_list \cup {running}
    BY <1>3, <2>1 DEF Placed, Blocks
  <2>4. running \notin Elements(ready_list')
    BY <1>1, <2>1
  <2> QED BY <2>1, <2>2, <2>3, <2>4
<1>4. ASSUME NEW q \in Blocked, HandsTo(q)
      PROVE  /\ Placed' = Placed
             /\ waiting_list' \subseteq waiting_list /\ running \notin waiting_list'
             /\ Elements(ready_list') = Elements(ready_list) \cup {running}
             /\ status'[running] = "Ready"
             /\ \A p \in PCB \ {running} : status'[p] = status[p]
  <2>1. Elements(ready_list') = Elements(ready_list) \cup {running}
    BY <1>1, <1>4, AppendElements DEF HandsTo
  <2>2. status'[running] = "Ready" /\ \A p \in PCB \ {running} : status'[p] = status[p]
    BY <1>1, <1>4 DEF HandsTo
  <2>3. waiting_list' = waiting_list \ {q} /\ running' = q /\ q \in waiting_list
    BY <1>4 DEF HandsTo, Blocked
  <2> QED BY <1>1, <2>1, <2>2, <2>3 DEF Placed
<1> QED BY <1>2, <1>3, <1>4, SemCallMoves

(* With no semaphore every queue is empty and the pools are whole.         *)
LEMMA SemTablesInv ==
  ASSUME SemAssumption, SchedBase, SemTablesInit
  PROVE  SemBase
<1>1. /\ \A s \in SEM : sem[s].descriptors = <<>> /\ sem[s].waiting_descriptors = <<>>
      /\ \A p \in PCB : sem_descriptors[p] = <<>>
      /\ semaphores_list = <<>>
  BY DEF SemTablesInit
<1>2. /\ Elements(semaphores_list) = {} /\ NoRepeat(semaphores_list)
      /\ \A p \in PCB : OpenBy(p) = {} /\ NoRepeat(sem_descriptors[p])
      /\ \A s \in SEM : Elements(sem[s].waiting_descriptors) = {}
                        /\ Len(sem[s].descriptors) = 0
                        /\ Len(sem[s].waiting_descriptors) = 0
  BY <1>1, EmptySeq DEF OpenBy, Elements, NoRepeat
<1>3. Open = {} /\ \A s \in SEM : OpenOn(s) = {}
  BY <1>2 DEF Open, OpenOn
<1>4. Pairs(SEM, EntryLen) = {} /\ Pairs(SEM, QueueLen) = {}
  <2>1. \A s \in SEM : EntryLen[s] = 0 /\ QueueLen[s] = 0
    BY <1>2 DEF EntryLen, QueueLen
  <2> QED BY <2>1 DEF Pairs
<1>5. /\ IsFiniteSet(Pairs(SEM, EntryLen)) /\ Cardinality(Pairs(SEM, EntryLen)) = 0
      /\ IsFiniteSet(Pairs(SEM, QueueLen)) /\ Cardinality(Pairs(SEM, QueueLen)) = 0
  BY <1>4, FS_EmptySet
<1>6. SemTypeOK
  <2>1. sem_free \in Seq(SEM) /\ sd_free \in Seq(SD)
    BY DEF SemTablesInit, SEM, SD, SemAssumption
  <2>2. /\ sem \in [SEM -> [id : Int, count : Int, descriptors : Seq(SD),
                            waiting_descriptors : Seq(SD)]]
        /\ sem_descriptors \in [PCB -> Seq(SD)]
        /\ sd \in [SD -> [pcb : PCB \cup {NULL}, semaphore : SEM \cup {NULL}, fd : Nat]]
    BY DEF SemTablesInit
  <2>3. semaphores_list \in Seq(SEM) /\ last_sem_fd \in [PCB -> Nat]
    BY DEF SemTablesInit
  <2>4. sdp_free \in 0..NUM_SEMDESCRIPTORPTRS
    BY DEF SemTablesInit, SemAssumption
  <2> QED BY <2>1, <2>2, <2>3, <2>4 DEF SemTypeOK, SchedBase
<1>7. BlocksApart
  <2>1. NoRepeat(sd_free) /\ NoRepeat(sem_free)
    BY DEF SemTablesInit, NoRepeat, SEM, SD, SemAssumption
  <2> QED BY <1>2, <1>3, <2>1 DEF BlocksApart
<1>8. PtrsConserved(SEM)
  BY <1>5 DEF PtrsConserved, SemTablesInit, SemAssumption
<1>9. UniqueIds /\ Owned /\ NoDanglingSemaphore
  BY <1>2, <1>3 DEF UniqueIds, Owned, NoDanglingSemaphore
<1>10. QueuedBlocked
  BY <1>2 DEF QueuedBlocked
<1>11. EntryPerOpen
  BY <1>2, <1>3, FS_EmptySet DEF EntryPerOpen
<1> QED BY <1>5, <1>6, <1>7, <1>8, <1>9, <1>10, <1>11 DEF SemBase

(***************************************************************************)
(* SemInv is inductive.                                                    *)
(***************************************************************************)
LEMMA SemInitInv ==
  ASSUME SchedAssumption, SemAssumption, SemInit
  PROVE  SemInv
<1>1. SchedBase /\ AllPlaced
  BY InitCore DEF SemInit, SchedCore
<1> QED BY <1>1, SemTablesInv DEF SemInit, SemInv

(* The steps of the scheduler, as far as the semaphores go.                *)
LEMMA SemSchedStep ==
  ASSUME SchedAssumption, SemInv, SchedNext \/ UNCHANGED schedVars
  PROVE  SchedCore' /\ Blocked' = Blocked
<1>1. SchedCore
  BY DEF SemInv, SemBase, SchedCore
<1>2. CASE SchedNext
  BY <1>1, <1>2, StepCore DEF Blocked
<1>3. CASE UNCHANGED schedVars
  <2>1. SchedBase' /\ AllPlaced'
    BY <1>1, <1>3 DEF SchedCore, SchedBase, SchedTypeOK, PlacedOnce, TimersSorted, Sleepers,
      AllPlaced, Placed, schedVars, placeVars
  <2> QED BY <1>3, <2>1 DEF SchedCore, Blocked, Sleepers, schedVars, placeVars
<1> QED BY <1>2, <1>3

LEMMA SemStep ==
  ASSUME SchedAssumption, SemAssumption, SemInv, [SemNext]_semAll
  PROVE  SemInv'
<1>1. CASE SemCall
  BY <1>1, SemCallInv, SemCallPlaces DEF SemInv, AllPlaced, SemCall
<1>2. CASE (SchedNext \/ UNCHANGED schedVars) /\ UNCHANGED semVars
  <2>1. SchedBase' /\ AllPlaced' /\ Blocked' = Blocked
    BY <1>2, SemSchedStep DEF SchedCore
  <2>2. SemBase'
    BY <1>2, <2>1, StructuresAlone DEF SemInv, Blocked
  <2> QED BY <2>1, <2>2 DEF SemInv
<1>3. UNCHANGED semAll => UNCHANGED schedVars /\ UNCHANGED semVars
  BY DEF semAll
<1> QED BY <1>1, <1>2, <1>3 DEF SemNext

(* SemInv is an invariant.                                                 *)
LEMMA SemInvariant == SemSpec => []SemInv
<1>1. SemInit => SemInv
  BY SchedAssumption, SemAssumption, SemInitInv
<1>2. SemInv /\ [SemNext]_semAll => SemInv'
  BY SchedAssumption, SemAssumption, SemStep
<1> QED BY <1>1, <1>2, PTL DEF SemSpec

LEMMA SemBaseInvariant == SemSpec => []SemBase
<1>1. SemInv => SemBase
  BY DEF SemInv
<1> QED BY <1>1, SemInvariant, PTL

-----------------------------------------------------------------------------
(* The semaphore structures keep their types.                              *)
THEOREM SemTypeCorrect == SemSpec => []SemTypeOK
<1>1. SemBase => SemTypeOK
  BY DEF SemBase
<1> QED BY <1>1, SemBaseInvariant, PTL

(* No hand-off and no wait, between them and with the scheduler's own      *)
(* moves, puts a process in two lists or in one twice.                     *)
THEOREM ProcessesStayPlaced == SemSpec => []PlacedOnce
<1>1. SemBase => PlacedOnce
  BY DEF SemBase, SchedBase
<1> QED BY <1>1, SemBaseInvariant, PTL

(* A semaphore is freed by no semClose while a descriptor is open on it,   *)
(* and who waits keeps the descriptor it waits with.                       *)
THEOREM NoFreedSemaphoreInUse == SemSpec => []NoDanglingSemaphore
<1>1. SemBase => NoDanglingSemaphore
  BY DEF SemBase
<1> QED BY <1>1, SemBaseInvariant, PTL

(* Taking off the entry of another process keeps the number of entries.    *)
THEOREM EntriesCountOpens == SemSpec => []EntriesMatchOpens
<1>1. SemBase => EntriesMatchOpens
  BY DEF SemBase, EntryPerOpen, EntriesMatchOpens
<1> QED BY <1>1, SemBaseInvariant, PTL

(* A block that is not on the list of semaphores has no entries: the pool  *)
(* of SemDescriptorPtr is whole counting the semaphores listed alone.      *)
LEMMA BaseConserves ==
  ASSUME SemAssumption, SemBase
  PROVE  PoolsConserved
<1>1. \A s \in SEM \ Elements(semaphores_list) : EntryLen[s] = 0 /\ QueueLen[s] = 0
  BY UnlistedEmpty, EmptySeq DEF EntryLen, QueueLen
<1>2. Elements(semaphores_list) \subseteq SEM
  BY DescriptorTypes
<1>3. /\ Pairs(Elements(semaphores_list), EntryLen) = Pairs(SEM, EntryLen)
      /\ Pairs(Elements(semaphores_list), QueueLen) = Pairs(SEM, QueueLen)
  BY <1>1, <1>2 DEF Pairs
<1> QED BY <1>3 DEF SemBase, PtrsConserved, PoolsConserved

(***************************************************************************)
(* No SemDescriptorPtr is lost or freed twice, and no free Semaphore or    *)
(* SemDescriptor is in use, whatever calls fail half way.  A SemDescriptor *)
(* may still be lost: semOpen does not give it back when no                *)
(* SemDescriptorPtr is left.                                               *)
(***************************************************************************)
THEOREM BlocksConserved == SemSpec => []PoolsConserved
BY SemAssumption, SemBaseInvariant, BaseConserves, PTL

-----------------------------------------------------------------------------
(***************************************************************************)
(* The counts.  No program opens a semaphore with less than 0: then the    *)
(* count of a listed semaphore says how many wait at it.  Blocks that are  *)
(* not listed have no waiters, by SemBase alone (UnlistedEmpty).           *)
(***************************************************************************)
Owing(c) == IF c < 0 THEN -c ELSE 0

CountInv ==
  /\ \A s \in Elements(semaphores_list) :
       Len(sem[s].waiting_descriptors) = Owing(sem[s].count)
  /\ SemPostFindsWaiter

(* The step leaves the counts and the queues of listed semaphores alone.   *)
LEMMA CountsAlone ==
  ASSUME CountInv, SemPostFindsWaiter',
         \A s \in Elements(semaphores_list') :
           /\ s \in Elements(semaphores_list)
           /\ sem'[s].count = sem[s].count
           /\ sem'[s].waiting_descriptors = sem[s].waiting_descriptors
  PROVE  CountInv'
  BY DEF CountInv

(* The step changes the count of s to c and its queue to w.                *)
LEMMA CountChanged ==
  ASSUME SemBase, CountInv, UNCHANGED <<semaphores_list, fault>>,
         NEW s \in SEM, NEW c \in Int, NEW w \in Seq(SD), Len(w) = Owing(c),
         sem' = [sem EXCEPT ![s].count = c, ![s].waiting_descriptors = w]
  PROVE  CountInv'
<1>1. ASSUME NEW t \in Elements(semaphores_list')
      PROVE  Len(sem'[t].waiting_descriptors) = Owing(sem'[t].count)
  <2>1. /\ sem \in [SEM -> [id : Int, count : Int, descriptors : Seq(SD),
                           waiting_descriptors : Seq(SD)]]
        /\ t \in Elements(semaphores_list) /\ t \in SEM
    BY DescriptorTypes
  <2>2. CASE t = s
    <3>1. sem'[t].waiting_descriptors = w /\ sem'[t].count = c
      BY <2>1, <2>2
    <3> QED BY <3>1
  <2>3. CASE t # s
    <3>1. sem'[t] = sem[t]
      BY <2>1, <2>3
    <3> QED BY <2>1, <3>1 DEF CountInv
  <2> QED BY <2>2, <2>3
<1> QED BY <1>1 DEF CountInv, SemPostFindsWaiter

(* The number of waiters at the semaphore of a call, and its count.        *)
LEMMA CountOfFound ==
  ASSUME SemBase, CountInv, UserMode, NEW semnum, Usable(semnum)
  PROVE  \E s \in SEM, c \in Int, w \in Seq(SD) :
           /\ s = Found(semnum) /\ sem[s].count = c /\ sem[s].waiting_descriptors = w
           /\ Len(w) \in Nat /\ Len(w) = Owing(c) /\ Mine(semnum) \in SD
<1>1. PICK s \in SEM : s = Found(semnum)
  BY Lookup
<1>2. s \in Elements(semaphores_list) /\ Mine(semnum) \in SD
  BY <1>1, Lookup
<1> QED BY <1>1, <1>2, QueueTypes DEF CountInv

(* semWait takes a unit or adds a waiter, never both.                      *)
LEMMA WaitCounts ==
  ASSUME SemAssumption, SemBase, CountInv, NEW semnum \in SemNums, SemWaitStep(semnum)
  PROVE  CountInv'
<1>1. CASE SemWaitRefused(semnum) \/ SemWaitNoPtr(semnum) \/ SemWaitNoReady(semnum)
  <2>1. UNCHANGED <<semaphores_list, sem>> /\ SemPostFindsWaiter'
    BY <1>1 DEF SemWaitRefused, SemWaitNoPtr, SemWaitNoReady, Refuse, Crash, semVars,
      CountInv, SemPostFindsWaiter
  <2> QED BY <2>1, CountsAlone
<1>2. CASE SemWaitPass(semnum)
  <2>1. PICK s \in SEM, c \in Int, w \in Seq(SD) :
           /\ s = Found(semnum) /\ sem[s].count = c /\ sem[s].waiting_descriptors = w
           /\ Len(w) \in Nat /\ Len(w) = Owing(c) /\ Mine(semnum) \in SD
    BY <1>2, CountOfFound DEF SemWaitPass, SemWaitAccepted
  <2>2. ~(c - 1 < 0) /\ UNCHANGED <<semaphores_list, fault>>
    BY <1>2, <2>1 DEF SemWaitPass, MustWait
  <2>3. sem' = [sem EXCEPT ![s].count = c - 1, ![s].waiting_descriptors = w]
    <3>1. sem' = [sem EXCEPT ![s].count = c - 1]
      BY <1>2, <2>1 DEF SemWaitPass
    <3>2. sem \in [SEM -> [id : Int, count : Int, descriptors : Seq(SD),
                           waiting_descriptors : Seq(SD)]]
      BY DescriptorTypes
    <3> QED BY <2>1, <3>1, <3>2
  <2>4. c - 1 \in Int /\ Len(w) = Owing(c - 1)
    BY <2>1, <2>2 DEF Owing
  <2> QED BY <2>1, <2>2, <2>3, <2>4, CountChanged
<1>3. CASE SemWaitBlock(semnum)
  <2>1. PICK s \in SEM, c \in Int, w \in Seq(SD) :
           /\ s = Found(semnum) /\ sem[s].count = c /\ sem[s].waiting_descriptors = w
           /\ Len(w) \in Nat /\ Len(w) = Owing(c) /\ Mine(semnum) \in SD
    BY <1>3, CountOfFound DEF SemWaitBlock, SemWaitAccepted
  <2>2. c - 1 < 0 /\ UNCHANGED <<semaphores_list, fault>>
    BY <1>3, <2>1 DEF SemWaitBlock, MustWait
  <2>3. PICK d \in SD : d = Mine(semnum)
    BY <2>1
  <2>4. sem' = [sem EXCEPT ![s].count = c - 1, ![s].waiting_descriptors = Append(w, d)]
    <3>1. sem' = [sem EXCEPT ![s].count = @ - 1, ![s].waiting_descriptors = Append(@, d)]
      BY <1>3, <2>1, <2>3 DEF SemWaitBlock
    <3>2. sem \in [SEM -> [id : Int, count : Int, descriptors : Seq(SD),
                           waiting_descriptors : Seq(SD)]]
      BY DescriptorTypes
    <3> QED BY <2>1, <3>1, <3>2
  <2>5. Append(w, d) \in Seq(SD) /\ Len(Append(w, d)) = Len(w) + 1
    BY <2>1, AppendProperties
  <2>6. c - 1 \in Int /\ Len(Append(w, d)) = Owing(c - 1)
    BY <2>1, <2>2, <2>5 DEF Owing
  <2> QED BY <2>1, <2>2, <2>4, <2>5, <2>6, CountChanged
<1> QED BY <1>1, <1>2, <1>3 DEF SemWaitStep

(* The assertion of internal_semPost: a negative count promises a waiter.  *)
LEMMA PostCounts ==
  ASSUME SemAssumption, SemBase, CountInv, NEW semnum \in SemNums, SemPostStep(semnum)
  PROVE  CountInv'
<1>1. CASE SemPostRefused(semnum)
  <2>1. UNCHANGED <<semaphores_list, sem>> /\ SemPostFindsWaiter'
    BY <1>1 DEF SemPostRefused, Refuse, semVars, CountInv, SemPostFindsWaiter
  <2> QED BY <2>1, CountsAlone
<1>2. CASE SemPostStore(semnum)
  <2>1. PICK s \in SEM, c \in Int, w \in Seq(SD) :
           /\ s = Found(semnum) /\ sem[s].count = c /\ sem[s].waiting_descriptors = w
           /\ Len(w) \in Nat /\ Len(w) = Owing(c) /\ Mine(semnum) \in SD
    BY <1>2, CountOfFound DEF SemPostStore, SemPostAccepted
  <2>2. ~(c + 1 <= 0) /\ UNCHANGED <<semaphores_list, fault>>
    BY <1>2, <2>1 DEF SemPostStore, MustWake
  <2>3. sem' = [sem EXCEPT ![s].count = c + 1, ![s].waiting_descriptors = w]
    <3>1. sem' = [sem EXCEPT ![s].count = c + 1]
      BY <1>2, <2>1 DEF SemPostStore
    <3>2. sem \in [SEM -> [id : Int, count : Int, descriptors : Seq(SD),
                           waiting_descriptors : Seq(SD)]]
      BY DescriptorTypes
    <3> QED BY <2>1, <3>1, <3>2
  <2>4. c + 1 \in Int /\ Len(w) = Owing(c + 1)
    BY <2>1, <2>2 DEF Owing
  <2> QED BY <2>1, <2>2, <2>3, <2>4, CountChanged
<1>3. CASE SemPostHandOff(semnum)
  <2>1. PICK s \in SEM, c \in Int, w \in Seq(SD) :
           /\ s = Found(semnum) /\ sem[s].count = c /\ sem[s].waiting_descriptors = w
           /\ Len(w) \in Nat /\ Len(w) = Owing(c) /\ Mine(semnum) \in SD
    BY <1>3, CountOfFound DEF SemPostHandOff, SemPostAccepted
  <2>2. c + 1 <= 0 /\ w # <<>> /\ UNCHANGED <<semaphores_list, fault>>
    BY <1>3, <2>1 DEF SemPostHandOff, MustWake
  <2>3. sem' = [sem EXCEPT ![s].count = c + 1, ![s].waiting_descriptors = Tail(w)]
    <3>1. sem' = [sem EXCEPT ![s].count = @ + 1, ![s].waiting_descriptors = Tail(@)]
      BY <1>3, <2>1 DEF SemPostHandOff
    <3>2. sem \in [SEM -> [id : Int, count : Int, descriptors : Seq(SD),
                           waiting_descriptors : Seq(SD)]]
      BY DescriptorTypes
    <3> QED BY <2>1, <3>1, <3>2
  <2>4. Tail(w) \in Seq(SD) /\ Len(Tail(w)) = Len(w) - 1
    BY <2>1, <2>2, HeadTailProperties
  <2>5. c + 1 \in Int /\ Len(Tail(w)) = Owing(c + 1)
    <3>1. Owing(c) = -c /\ Owing(c + 1) = -(c + 1)
      BY <2>2 DEF Owing
    <3>2. Len(w) = -c
      BY <2>1, <3>1
    <3> QED BY <2>4, <3>1, <3>2
  <2> QED BY <2>1, <2>2, <2>3, <2>4, <2>5, CountChanged
<1>4. CASE SemPostNoWaiter(semnum)
  <2>1. PICK s \in SEM, c \in Int, w \in Seq(SD) :
           /\ s = Found(semnum) /\ sem[s].count = c /\ sem[s].waiting_descriptors = w
           /\ Len(w) \in Nat /\ Len(w) = Owing(c) /\ Mine(semnum) \in SD
    BY <1>4, CountOfFound DEF SemPostNoWaiter, SemPostAccepted
  <2>2. c + 1 <= 0 /\ Len(w) = 0
    BY <1>4, <2>1, EmptySeq DEF SemPostNoWaiter, MustWake
  <2> QED BY <2>1, <2>2 DEF Owing
<1> QED BY <1>1, <1>2, <1>3, <1>4 DEF SemPostStep

(* A new semaphore gets a block without waiters and a count from 0 up.     *)
LEMMA SemOpenCounts ==
  ASSUME SemAssumption, OpenCounts \subseteq Nat, SemBase, CountInv,
         NEW semnum \in SemNums, SemOpenStep(semnum)
  PROVE  CountInv'
<1>1. CASE SemOpenRefused(semnum)
  <2>1. UNCHANGED <<semaphores_list, sem>> /\ SemPostFindsWaiter'
    BY <1>1 DEF SemOpenRefused, Refuse, semVars, CountInv, SemPostFindsWaiter
  <2> QED BY <2>1, CountsAlone
<1>2. ASSUME NEW count \in OpenCounts,
             SemOpenNoDescriptor(semnum, count) \/ SemOpenNoPtr(semnum, count)
             \/ SemOpenDone(semnum, count)
      PROVE  CountInv'
  <2>1. PICK entries : /\ FindOrAlloc(semnum, count, entries)
                       /\ entries \in Seq(SD)
                       /\ SemOpenError(semnum) = 0 /\ fault' = fault
    <3>1. sd_free # <<>> => Head(sd_free) \in SD
      BY DescriptorTypes, HeadTailProperties
    <3>2. CASE SemOpenDone(semnum, count)
      <4>1. <<Head(sd_free)>> \in Seq(SD)
        BY <3>1, <3>2 DEF SemOpenDone
      <4> QED BY <3>2, <4>1 DEF SemOpenDone, SemOpenAccepted
    <3>3. CASE SemOpenNoDescriptor(semnum, count) \/ SemOpenNoPtr(semnum, count)
      <4>1. <<>> \in Seq(SD)
        OBVIOUS
      <4> QED BY <3>3, <4>1 DEF SemOpenNoDescriptor, SemOpenNoPtr, SemOpenAccepted, Refuse
    <3> QED BY <1>2, <3>2, <3>3
  <2>2. semnum \in Int /\ count \in Int /\ count \in Nat
    BY DEF SemAssumption
  <2>3. PICK s : s = Target(semnum)
    OBVIOUS
  <2>4. Allotted(s, entries)
    BY <2>1, <2>2, <2>3, FindOrAllocFacts
  <2>5. \A t \in Elements(semaphores_list') \ {s} :
          /\ t \in Elements(semaphores_list) /\ t \in SEM
          /\ sem'[t] = sem[t]
    <3>1. Elements(semaphores_list) \subseteq SEM
      BY DescriptorTypes
    <3> QED BY <2>4, <3>1 DEF Allotted
  <2>6. SemPostFindsWaiter'
    BY <2>1 DEF CountInv, SemPostFindsWaiter
  <2>7. CASE Listed(semnum)
    <3>1. s = Found(semnum) /\ s \in Elements(semaphores_list) /\ s \in SEM
      BY <2>3, <2>7, ListedFound DEF Target, SemBase
    <3>2. sem'[s].count = sem[s].count
      <4>1. sem' = [sem EXCEPT ![s] = [sem[s] EXCEPT !.descriptors = @ \o entries]]
        BY <2>1, <2>3, <2>7, <3>1 DEF FindOrAlloc, Semaphore_alloc
      <4> QED BY <3>1, <4>1, DescriptorTypes
    <3>3. sem'[s].waiting_descriptors = sem[s].waiting_descriptors
      BY <2>4 DEF Allotted
    <3> QED BY <2>5, <2>6, <3>1, <3>2, <3>3, CountsAlone
  <2>8. CASE ~Listed(semnum)
    <3>1. s = Head(sem_free) /\ s \in SEM
      BY <2>3, <2>4, <2>8 DEF Target, Allotted
    <3>2. s \notin Elements(semaphores_list)
      <4>1. sem_free # <<>>
        BY <2>1, <2>8 DEF SemOpenError, SEMAPHOREALLOCFAILURE, TOOMUCHSEMDES,
          SEMNUMINVALID, TOOMUCHSEM
      <4>2. sem_free \in Seq(SEM)
        BY DescriptorTypes
      <4>3. Head(sem_free) \in Elements(sem_free)
        BY <4>1, <4>2, HeadTailElements
      <4> QED BY <3>1, <4>3 DEF SemBase, BlocksApart
    <3>3. sem[s].waiting_descriptors = <<>>
      BY <3>1, <3>2, UnlistedEmpty
    <3>4. sem'[s].count = count
      <4>1. sem' = [sem EXCEPT ![s] =
              [[sem[s] EXCEPT !.id = semnum, !.count = count, !.descriptors = <<>>]
                 EXCEPT !.descriptors = @ \o entries]]
        BY <2>1, <2>3, <2>8, <3>1 DEF FindOrAlloc, Semaphore_alloc
      <4> QED BY <3>1, <4>1, DescriptorTypes
    <3>5. Len(sem'[s].waiting_descriptors) = Owing(sem'[s].count)
      <4>1. sem'[s].waiting_descriptors = <<>>
        BY <2>4, <3>3 DEF Allotted
      <4> QED BY <2>2, <3>4, <4>1 DEF Owing
    <3> QED BY <2>5, <2>6, <3>5 DEF CountInv
  <2> QED BY <2>7, <2>8
<1> QED BY <1>1, <1>2 DEF SemOpenStep, SemOpenWith

(* Closing takes semaphores off the list, and touches no count.            *)
LEMMA CloseCounts ==
  ASSUME SemAssumption, SemBase, CountInv, NEW semnum \in SemNums, SemCloseStep(semnum)
  PROVE  CountInv'
<1>1. CASE SemCloseRefused(semnum)
  <2>1. UNCHANGED <<semaphores_list, sem>> /\ SemPostFindsWaiter'
    BY <1>1 DEF SemCloseRefused, SemPostRefused, Refuse, semVars, CountInv,
      SemPostFindsWaiter
  <2> QED BY <2>1, CountsAlone
<1>2. CASE SemClose(semnum) \/ SemCloseLast(semnum)
  <2>1. /\ UserMode /\ Usable(semnum) /\ fault' = fault
        /\ sem' = [sem EXCEPT ![Found(semnum)].descriptors = EntriesLeft(semnum)]
    BY <1>2 DEF SemClose, SemCloseLast, SemCloseAccepted, CloseDescriptor
  <2>2. \A t \in SEM : /\ sem'[t].count = sem[t].count
                       /\ sem'[t].waiting_descriptors = sem[t].waiting_descriptors
    BY <2>1, DescriptorTypes
  <2>3. Elements(semaphores_list') \subseteq Elements(semaphores_list)
    <3>1. CASE SemClose(semnum)
      BY <3>1 DEF SemClose
    <3>2. CASE SemCloseLast(semnum)
      <4>1. PICK i \in 1..Len(semaphores_list) : i = SemaphoreList_byId(semnum)
        BY <2>1, Lookup
      <4>2. semaphores_list \in Seq(SEM) /\ NoRepeat(semaphores_list)
        BY DescriptorTypes DEF SemBase, BlocksApart
      <4>3. Elements(semaphores_list)
              = Elements(Detach(semaphores_list, i)) \cup {semaphores_list[i]}
        BY <4>2, DetachElements
      <4> QED BY <3>2, <4>1, <4>3 DEF SemCloseLast
    <3> QED BY <1>2, <3>1, <3>2
  <2>4. Elements(semaphores_list) \subseteq SEM /\ SemPostFindsWaiter'
    BY <2>1, DescriptorTypes DEF CountInv, SemPostFindsWaiter
  <2> QED BY <2>2, <2>3, <2>4, CountsAlone
<1> QED BY <1>1, <1>2 DEF SemCloseStep

(* Every call keeps CountInv.                                              *)
LEMMA SemCallCounts ==
  ASSUME SemAssumption, OpenCounts \subseteq Nat, SemBase, CountInv, SemCall
  PROVE  CountInv'
<1>1. PICK semnum \in SemNums : \/ SemOpenStep(semnum) \/ SemCloseStep(semnum)
                                \/ SemWaitStep(semnum) \/ SemPostStep(semnum)
  BY DEF SemCall
<1> QED BY <1>1, SemOpenCounts, CloseCounts, WaitCounts, PostCounts

(* CountInv is an invariant too.                                           *)
LEMMA CountInvariant ==
  ASSUME OpenCounts \subseteq Nat
  PROVE  SemSpec => [](SemBase /\ CountInv)
<1> USE SchedAssumption, SemAssumption
<1>1. SemInit => CountInv
  <2> SUFFICES ASSUME SemInit PROVE CountInv
    OBVIOUS
  <2>1. Elements(semaphores_list) = {}
    BY DEF SemInit, SemTablesInit, Elements
  <2>2. fault = "none"
    BY DEF SemInit, SemTablesInit, SchedInit
  <2> QED BY <2>1, <2>2 DEF CountInv, SemPostFindsWaiter
<1>2. SemBase /\ CountInv /\ [SemNext]_semAll => CountInv'
  <2> SUFFICES ASSUME SemBase, CountInv, [SemNext]_semAll PROVE CountInv'
    OBVIOUS
  <2>2. CASE SemCall
    BY <2>2, SemCallCounts
  <2>3. CASE (SchedNext /\ UNCHANGED semVars) \/ UNCHANGED semAll
    <3>1. UNCHANGED semVars /\ fault' = fault
      BY <2>3 DEF SchedNext, SchedSleep, internal_sleep, internal_preempt, timerInterrupt,
        Refuse, semAll, schedVars
    <3>2. UNCHANGED <<semaphores_list, sem>> /\ SemPostFindsWaiter'
      BY <3>1 DEF semVars, CountInv, SemPostFindsWaiter
    <3> QED BY <3>2, CountsAlone
  <2> QED BY <2>2, <2>3 DEF SemNext
<1> QED BY <1>1, <1>2, SemBaseInvariant, PTL DEF SemSpec

-----------------------------------------------------------------------------
LEMMA CountsMatch ==
  ASSUME SemAssumption, SemBase, CountInv
  PROVE  CountMatchesWaiters
<1>1. ASSUME NEW s \in SEM, s \notin Elements(semaphores_list)
      PROVE  Len(sem[s].waiting_descriptors) = 0
  BY <1>1, UnlistedEmpty, EmptySeq
<1> QED BY <1>1 DEF CountInv, CountMatchesWaiters, Owing

(* When no program opens a semaphore with less than 0, a negative count is *)
(* the number of the waiters and nobody waits beside units in store.       *)
THEOREM CountsTellWaiters ==
  ASSUME OpenCounts \subseteq Nat
  PROVE  SemSpec => []CountMatchesWaiters
BY SemAssumption, CountInvariant, CountsMatch, PTL

(* Under the same condition the assertion of internal_semPost holds: the   *)
(* condition is needed, as run sem_negative shows.                         *)
THEOREM PostFindsWaiter ==
  ASSUME OpenCounts \subseteq Nat
  PROVE  SemSpec => []SemPostFindsWaiter
<1>1. CountInv => SemPostFindsWaiter
  BY DEF CountInv
<1> QED BY <1>1, CountInvariant, PTL

-----------------------------------------------------------------------------
(***************************************************************************)
(* The queues of the semaphores: who is blocked waits for one thing, no    *)
(* handler meets a NULL pointer, and the four handlers implement the       *)
(* abstract semaphores.                                                    *)
(***************************************************************************)

(* A queue as the sequence of its processes.                               *)
LEMMA WaitersSeq ==
  ASSUME SemBase, NEW s \in SEM
  PROVE  /\ Waiters(s) \in Seq(PCB)
         /\ Len(Waiters(s)) = Len(sem[s].waiting_descriptors)
         /\ Len(Waiters(s)) \in Nat
         /\ \A i \in 1..Len(Waiters(s)) : Waiters(s)[i] \in Blocked
<1> DEFINE w == sem[s].waiting_descriptors
<1>1. Len(w) \in Nat
  BY QueueTypes
<1>2. \A i \in 1..Len(w) : Waiters(s)[i] \in Blocked
  BY DEF SemBase, QueuedBlocked, Blocked
<1>3. Blocked \subseteq PCB
  BY DEF SemBase, SemTypeOK, SchedTypeOK, Blocked
<1>4. Waiters(s) = [i \in 1..Len(w) |-> sd[w[i]].pcb]
  BY DEF Waiters
<1> HIDE DEF w
<1>5. Waiters(s) \in [1..Len(w) -> PCB]
  <2>1. \A i \in 1..Len(w) : sd[w[i]].pcb \in PCB
    BY <1>2, <1>3, <1>4
  <2> QED BY <1>4, <2>1
<1>6. Waiters(s) \in Seq(PCB) /\ Len(Waiters(s)) = Len(w)
  BY <1>1, <1>5, LenProperties
<1> QED BY <1>1, <1>2, <1>6 DEF w

-----------------------------------------------------------------------------
(***************************************************************************)
(* What a step does to the queues, and to who is blocked.  Most do nothing.*)
(***************************************************************************)
QueuesStay ==
  /\ Blocked' = Blocked
  /\ \A t \in SEM : Waiters(t)' = Waiters(t)

QueueGrows(s) ==
  /\ Blocked' = Blocked \cup {running}
  /\ Waiters(s)' = Append(Waiters(s), running)
  /\ \A t \in SEM \ {s} : Waiters(t)' = Waiters(t)

QueueShrinks(s) ==
  /\ Waiters(s) # <<>>
  /\ Blocked' = Blocked \ {Head(Waiters(s))}
  /\ Waiters(s)' = Tail(Waiters(s))
  /\ \A t \in SEM \ {s} : Waiters(t)' = Waiters(t)

(* Steps that touch neither a queue nor a descriptor in one.               *)
LEMMA SameQueues ==
  ASSUME SemBase, Blocked' = Blocked,
         \A t \in SEM : sem'[t].waiting_descriptors = sem[t].waiting_descriptors,
         \A e \in Open : sd'[e] = sd[e]
  PROVE  QueuesStay
<1>1. ASSUME NEW t \in SEM PROVE Waiters(t)' = Waiters(t)
  <2>1. \A i \in 1..Len(sem[t].waiting_descriptors) : sem[t].waiting_descriptors[i] \in Open
    BY DEF SemBase, NoDanglingSemaphore, Elements, OpenOn
  <2>2. \A i \in 1..Len(sem[t].waiting_descriptors) :
          sd'[sem[t].waiting_descriptors[i]].pcb = sd[sem[t].waiting_descriptors[i]].pcb
    BY <2>1
  <2> QED BY <2>2 DEF Waiters
<1> QED BY <1>1 DEF QueuesStay

(* semOpen finds or fills a block, and adds one entry to it or none.       *)
LEMMA OpenEntries ==
  ASSUME SemBase, NEW semnum, NEW count, SemOpenWith(semnum, count)
  PROVE  \E entries \in Seq(SD) : /\ FindOrAlloc(semnum, count, entries) /\ UserMode
                                  /\ SemOpenError(semnum) = 0 /\ Len(entries) \in {0, 1}
<1>1. CASE SemOpenDone(semnum, count)
  <2>1. Head(sd_free) \in SD
    BY <1>1, DescriptorTypes, HeadTailElements DEF SemOpenDone
  <2>2. <<Head(sd_free)>> \in Seq(SD) /\ Len(<<Head(sd_free)>>) = 1
    BY <2>1
  <2> QED BY <1>1, <2>2 DEF SemOpenDone, SemOpenAccepted
<1>2. CASE SemOpenNoDescriptor(semnum, count) \/ SemOpenNoPtr(semnum, count)
  <2>1. <<>> \in Seq(SD) /\ Len(<<>>) = 0
    OBVIOUS
  <2> QED BY <1>2, <2>1 DEF SemOpenNoDescriptor, SemOpenNoPtr, SemOpenAccepted
<1> QED BY <1>1, <1>2 DEF SemOpenWith

(* semOpen, whatever of it succeeds.                                       *)
LEMMA OpenQueues ==
  ASSUME SchedAssumption, SemAssumption, SemBase, NEW semnum \in SemNums,
         NEW count \in OpenCounts, SemOpenWith(semnum, count)
  PROVE  QueuesStay
<1>1. UNCHANGED <<placeVars, timer_list>>
  BY DEF SemOpenWith, SemOpenNoDescriptor, SemOpenNoPtr, SemOpenDone, Refuse
<1>2. Blocked' = Blocked
  BY <1>1 DEF Blocked, Sleepers, placeVars
<1>3. PICK entries \in Seq(SD) : /\ FindOrAlloc(semnum, count, entries) /\ UserMode
                                 /\ SemOpenError(semnum) = 0 /\ Len(entries) \in {0, 1}
  BY OpenEntries
<1>4. PICK s : s = Target(semnum)
  OBVIOUS
<1>5. Allotted(s, entries)
  <2>1. semnum \in Int /\ count \in Int
    BY DEF SemAssumption
  <2> QED BY <1>3, <1>4, <2>1, FindOrAllocFacts
<1>6. \A t \in SEM : sem'[t].waiting_descriptors = sem[t].waiting_descriptors
  BY <1>5 DEF Allotted
<1>7. \A e \in Open : sd'[e] = sd[e]
  <2>1. CASE SemOpenNoDescriptor(semnum, count)
    BY <2>1 DEF SemOpenNoDescriptor
  <2>2. CASE SemOpenNoPtr(semnum, count) \/ SemOpenDone(semnum, count)
    <3>1. sd_free # <<>> /\ SemDescriptor_alloc(semnum)
      BY <2>2 DEF SemOpenNoPtr, SemOpenDone
    <3>2. s \in SEM
      BY <1>5 DEF Allotted
    <3>3. PICK d : d = Head(sd_free)
      OBVIOUS
    <3>4. d \notin Open /\ \A e \in SD \ {d} : sd'[e] = sd[e]
      BY <1>3, <1>4, <3>1, <3>2, <3>3, DescriptorTaken
    <3> QED BY <3>4, DescriptorTypes
  <2> QED BY <2>1, <2>2 DEF SemOpenWith
<1> QED BY <1>2, <1>6, <1>7, SameQueues

(* semClose takes no descriptor off a queue.                               *)
LEMMA CloseQueues ==
  ASSUME SemBase, NEW semnum, SemClose(semnum) \/ SemCloseLast(semnum)
  PROVE  QueuesStay
<1>1. /\ UserMode /\ Usable(semnum)
      /\ sem' = [sem EXCEPT ![Found(semnum)].descriptors = EntriesLeft(semnum)]
      /\ UNCHANGED <<placeVars, timer_list, sd>>
  BY DEF SemClose, SemCloseLast, SemCloseAccepted, CloseDescriptor
<1>2. Blocked' = Blocked
  BY <1>1 DEF Blocked, Sleepers, placeVars
<1>3. \A t \in SEM : sem'[t].waiting_descriptors = sem[t].waiting_descriptors
  BY <1>1, DescriptorTypes
<1> QED BY <1>1, <1>2, <1>3, SameQueues

(* A semWait or semPost that changes the count alone.                      *)
LEMMA CountQueues ==
  ASSUME SemBase, NEW semnum, SemWaitPass(semnum) \/ SemPostStore(semnum)
  PROVE  QueuesStay
<1>1. UNCHANGED <<placeVars, timer_list, sd>>
  BY DEF SemWaitPass, SemPostStore
<1>2. Blocked' = Blocked
  BY <1>1 DEF Blocked, Sleepers, placeVars
<1>3. \A t \in SEM : sem'[t].waiting_descriptors = sem[t].waiting_descriptors
  <2>1. PICK s : s = Found(semnum)
    OBVIOUS
  <2>2. \/ sem' = [sem EXCEPT ![s].count = @ - 1]
        \/ sem' = [sem EXCEPT ![s].count = @ + 1]
    BY <2>1 DEF SemWaitPass, SemPostStore
  <2>3. sem \in [SEM -> [id : Int, count : Int, descriptors : Seq(SD),
                         waiting_descriptors : Seq(SD)]]
    BY DescriptorTypes
  <2> QED BY <2>2, <2>3
<1> QED BY <1>1, <1>2, <1>3, SameQueues

(* The steps of the scheduler, refusals and crashes.                       *)
LEMMA AloneQueues ==
  ASSUME SemBase, UNCHANGED semVars, Blocked' = Blocked
  PROVE  QueuesStay
<1>1. UNCHANGED <<sem, sd>>
  BY DEF semVars
<1> QED BY <1>1, SameQueues

(* semWait that blocks: the caller joins the end of the queue.             *)
LEMMA BlockQueues ==
  ASSUME SemAssumption, SemBase, NEW semnum \in SemNums,
         SemWaitBlock(semnum), NEW s \in SEM, s = Found(semnum)
  PROVE  QueueGrows(s)
<1>1. UserMode /\ Usable(semnum) /\ UNCHANGED sd
  BY DEF SemWaitBlock, SemWaitAccepted
<1>2. PICK d \in SD, p \in PCB : d = Mine(semnum) /\ p = running
  BY <1>1, Lookup DEF UserMode
<1>3. sd[d].pcb = p
  BY <1>1, <1>2, Lookup
<1> DEFINE w == sem[s].waiting_descriptors
           c == sem[s].count - 1
<1>4. sem' = [sem EXCEPT ![s].count = c, ![s].waiting_descriptors = Append(w, d)]
  BY <1>2 DEF SemWaitBlock
<1>5. w \in Seq(SD) /\ Len(w) \in Nat
  BY QueueTypes
<1>6. Blocked' = Blocked \cup {p}
  BY <1>2, WaitBlockCore DEF Blocked
<1> HIDE DEF c
<1>7. /\ sem'[s].waiting_descriptors = Append(w, d)
      /\ \A t \in SEM \ {s} : sem'[t].waiting_descriptors = sem[t].waiting_descriptors
  <2> HIDE DEF w
  <2>1. sem \in [SEM -> [id : Int, count : Int, descriptors : Seq(SD),
                         waiting_descriptors : Seq(SD)]]
    BY DescriptorTypes
  <2> QED BY <1>4, <2>1
<1>8. \A t \in SEM \ {s} : Waiters(t)' = Waiters(t)
  BY <1>1, <1>7 DEF Waiters
<1>9. Waiters(s)' = Append(Waiters(s), p)
  <2> DEFINE v == Append(w, d)
  <2>1. Waiters(s)' = [i \in 1..Len(v) |-> sd[v[i]].pcb]
    BY <1>1, <1>7 DEF Waiters
  <2>2. Waiters(s) = [i \in 1..Len(w) |-> sd[w[i]].pcb]
    BY DEF Waiters
  <2>3. Waiters(s) \in Seq(PCB) /\ Len(Waiters(s)) = Len(w)
    BY WaitersSeq
  <2>4. /\ Len(v) = Len(w) + 1 /\ v[Len(w) + 1] = d
        /\ \A i \in 1..Len(w) : v[i] = w[i]
    BY <1>5, AppendProperties
  <2> HIDE DEF v, w
  <2>5. /\ Append(Waiters(s), p) \in [1..(Len(w) + 1) -> PCB]
        /\ \A i \in 1..Len(w) : Append(Waiters(s), p)[i] = Waiters(s)[i]
        /\ Append(Waiters(s), p)[Len(w) + 1] = p
    <3>1. /\ Append(Waiters(s), p) \in Seq(PCB)
          /\ Len(Append(Waiters(s), p)) = Len(w) + 1
          /\ \A i \in 1..Len(w) : Append(Waiters(s), p)[i] = Waiters(s)[i]
          /\ Append(Waiters(s), p)[Len(w) + 1] = p
      BY <2>3, AppendProperties
    <3>2. Append(Waiters(s), p) \in [1..(Len(w) + 1) -> PCB]
      BY <3>1, LenProperties
    <3> QED BY <3>1, <3>2
  <2>6. \A i \in 1..(Len(w) + 1) : sd[v[i]].pcb = Append(Waiters(s), p)[i]
    <3>1. ASSUME NEW i \in 1..(Len(w) + 1)
          PROVE  sd[v[i]].pcb = Append(Waiters(s), p)[i]
      <4>1. CASE i \in 1..Len(w)
        BY <2>2, <2>4, <2>5, <4>1
      <4>2. CASE i = Len(w) + 1
        BY <1>3, <2>4, <2>5, <4>2
      <4>3. PICK k \in Nat : k = Len(w)
        BY <1>5
      <4>4. i \in 1..k \/ i = k + 1
        BY <4>3
      <4> QED BY <4>1, <4>2, <4>3, <4>4
    <3> QED BY <3>1
  <2> QED BY <2>1, <2>4, <2>5, <2>6
<1> QED BY <1>2, <1>6, <1>8, <1>9 DEF QueueGrows

(* semPost that hands over: the first of the queue leaves it and runs.     *)
LEMMA HandOffQueues ==
  ASSUME SemBase, NEW semnum, SemPostHandOff(semnum), NEW s \in SEM, s = Found(semnum)
  PROVE  QueueShrinks(s) /\ running' = Head(Waiters(s))
<1>1. UserMode /\ Usable(semnum) /\ UNCHANGED sd
  BY DEF SemPostHandOff, SemPostAccepted
<1> DEFINE w == sem[s].waiting_descriptors
           c == sem[s].count + 1
<1>2. /\ w # <<>>
      /\ sem' = [sem EXCEPT ![s].count = c, ![s].waiting_descriptors = Tail(w)]
      /\ running' = Waiter(semnum) /\ Waiter(semnum) = sd[Head(w)].pcb
  BY DEF SemPostHandOff, Waiter
<1>3. w \in Seq(SD) /\ Len(w) \in Nat
  BY QueueTypes
<1> HIDE DEF c
<1>4. /\ sem'[s].waiting_descriptors = Tail(w)
      /\ \A t \in SEM \ {s} : sem'[t].waiting_descriptors = sem[t].waiting_descriptors
  <2> HIDE DEF w
  <2>1. sem \in [SEM -> [id : Int, count : Int, descriptors : Seq(SD),
                         waiting_descriptors : Seq(SD)]]
    BY DescriptorTypes
  <2> QED BY <1>2, <2>1
<1>5. \A t \in SEM \ {s} : Waiters(t)' = Waiters(t)
  BY <1>1, <1>4 DEF Waiters
<1> DEFINE v == Tail(w)
<1>6. /\ Waiters(s) = [i \in 1..Len(w) |-> sd[w[i]].pcb]
      /\ Waiters(s)' = [i \in 1..Len(v) |-> sd[v[i]].pcb]
  BY <1>1, <1>4 DEF Waiters
<1>7. /\ Waiters(s) \in Seq(PCB) /\ Len(Waiters(s)) = Len(w)
      /\ \A i \in 1..Len(w) : Waiters(s)[i] \in Blocked
  BY WaitersSeq
<1> HIDE DEF w
<1>8. /\ Len(v) = Len(w) - 1 /\ \A i \in 1..Len(v) : v[i] = w[i + 1]
      /\ Head(w) = w[1] /\ Len(w) \in Nat \ {0}
  BY <1>2, <1>3, HeadTailProperties, EmptySeq
<1> HIDE DEF v
<1>9. /\ Waiters(s) # <<>>
      /\ Head(Waiters(s)) = Waiters(s)[1]
      /\ Tail(Waiters(s)) \in [1..(Len(w) - 1) -> PCB]
      /\ \A i \in 1..(Len(w) - 1) : Tail(Waiters(s))[i] = Waiters(s)[i + 1]
  <2>1. Waiters(s) # <<>>
    BY <1>7, <1>8, EmptySeq
  <2>2. /\ Tail(Waiters(s)) \in Seq(PCB) /\ Len(Tail(Waiters(s))) = Len(w) - 1
        /\ \A i \in 1..Len(Tail(Waiters(s))) : Tail(Waiters(s))[i] = Waiters(s)[i + 1]
    BY <1>7, <2>1, HeadTailProperties
  <2>3. Head(Waiters(s)) = Waiters(s)[1]
    BY <1>7, <2>1, EmptySeq
  <2>4. Tail(Waiters(s)) \in [1..(Len(w) - 1) -> PCB]
    BY <2>2, LenProperties
  <2> QED BY <2>1, <2>2, <2>3, <2>4
<1>10. Waiters(s)' = Tail(Waiters(s))
  <2>1. \A i \in 1..(Len(w) - 1) : sd[v[i]].pcb = Tail(Waiters(s))[i]
    <3>1. ASSUME NEW i \in 1..(Len(w) - 1) PROVE sd[v[i]].pcb = Tail(Waiters(s))[i]
      <4>1. i + 1 \in 1..Len(w) /\ v[i] = w[i + 1]
        BY <1>8
      <4> QED BY <1>6, <1>9, <4>1
    <3> QED BY <3>1
  <2> QED BY <1>6, <1>8, <1>9, <2>1
<1>11. running' = Head(Waiters(s)) /\ Waiter(semnum) = Head(Waiters(s))
  <2>1. 1 \in 1..Len(w)
    BY <1>8
  <2> QED BY <1>2, <1>6, <1>8, <1>9, <2>1
<1>12. Blocked' = Blocked \ {Head(Waiters(s))}
  <2>1. PICK q : q = Waiter(semnum)
    OBVIOUS
  <2>2. q \in Blocked /\ q \in PCB
    <3>1. Waiters(s)[1] \in Blocked
      BY <1>7, <1>8
    <3>2. Blocked \subseteq PCB
      BY DEF SemBase, SemTypeOK, SchedTypeOK, Blocked
    <3> QED BY <1>9, <1>11, <2>1, <3>1, <3>2
  <2>3. waiting_list' \ Sleepers' = (waiting_list \ Sleepers) \ {q}
    BY <2>1, <2>2, HandOffCore DEF Blocked
  <2> QED BY <1>11, <2>1, <2>3 DEF Blocked
<1> QED BY <1>5, <1>9, <1>10, <1>11, <1>12 DEF QueueShrinks

(* A call does one of the three.                                           *)
LEMMA CallQueueMoves ==
  ASSUME SchedAssumption, SemAssumption, SemBase, SemCall
  PROVE  QueuesStay \/ \E s \in SEM : QueueGrows(s) \/ QueueShrinks(s)
<1>1. PICK semnum \in SemNums : \/ SemOpenStep(semnum) \/ SemCloseStep(semnum)
                                \/ SemWaitStep(semnum) \/ SemPostStep(semnum)
  BY DEF SemCall
<1>2. CASE \/ SemOpenRefused(semnum) \/ SemPostRefused(semnum)
           \/ SemWaitRefused(semnum) \/ SemWaitNoPtr(semnum)
           \/ SemWaitNoReady(semnum) \/ SemPostNoWaiter(semnum)
  <2>1. UNCHANGED semVars /\ UNCHANGED <<placeVars, timer_list>>
    BY <1>2 DEF SemOpenRefused, SemPostRefused, SemWaitRefused, SemWaitNoPtr,
      SemWaitNoReady, SemPostNoWaiter, Refuse, Crash
  <2>2. Blocked' = Blocked
    BY <2>1 DEF placeVars, Blocked, Sleepers
  <2> QED BY <2>1, <2>2, AloneQueues
<1>3. CASE \E count \in OpenCounts : SemOpenWith(semnum, count)
  BY <1>3, OpenQueues
<1>4. CASE SemClose(semnum) \/ SemCloseLast(semnum)
  BY <1>4, CloseQueues
<1>5. CASE SemWaitPass(semnum) \/ SemPostStore(semnum)
  BY <1>5, CountQueues
<1>6. CASE SemWaitBlock(semnum)
  <2>1. PICK s \in SEM : s = Found(semnum)
    BY <1>6, Lookup DEF SemWaitBlock, SemWaitAccepted
  <2> QED BY <1>6, <2>1, BlockQueues
<1>7. CASE SemPostHandOff(semnum)
  <2>1. PICK s \in SEM : s = Found(semnum)
    BY <1>7, Lookup DEF SemPostHandOff, SemPostAccepted
  <2> QED BY <1>7, <2>1, HandOffQueues
<1> QED BY <1>1, <1>2, <1>3, <1>4, <1>5, <1>6, <1>7
        DEF SemOpenStep, SemCloseStep, SemCloseRefused, SemWaitStep, SemPostStep

(***************************************************************************)
(* Who is in a queue: the same processes, or the caller more, or one less, *)
(* which was in no other place.                                            *)
(***************************************************************************)
InQueue ==
  {p \in PCB : \E s \in SEM : \E i \in 1..Len(Waiters(s)) : Waiters(s)[i] = p}

(* They are blocked, each in one place.                                    *)
LEMMA InQueueBlocked ==
  ASSUME SemBase
  PROVE  InQueue \subseteq Blocked
BY WaitersSeq DEF InQueue

LEMMA OnePlaceInQueues ==
  ASSUME SemBase, NEW s \in SEM, NEW i \in 1..Len(Waiters(s)),
         NEW t \in SEM, NEW j \in 1..Len(Waiters(t)), Waiters(s)[i] = Waiters(t)[j]
  PROVE  s = t /\ i = j
<1>1. /\ i \in 1..Len(sem[s].waiting_descriptors)
      /\ j \in 1..Len(sem[t].waiting_descriptors)
  BY WaitersSeq
<1> QED BY <1>1 DEF SemBase, QueuedBlocked

LEMMA InQueueGrows ==
  ASSUME SemBase, UserMode, NEW s \in SEM, QueueGrows(s)
  PROVE  InQueue' = InQueue \cup {running}
<1>1. PICK v \in Seq(PCB) : v = Waiters(s) /\ Len(v) \in Nat
  BY WaitersSeq
<1>2. running \in PCB
  BY DEF UserMode
<1>3. /\ Waiters(s)' = Append(v, running)
      /\ Len(Append(v, running)) = Len(v) + 1
      /\ Append(v, running)[Len(v) + 1] = running
      /\ \A i \in 1..Len(v) : Append(v, running)[i] = v[i]
  <2>1. Waiters(s)' = Append(v, running)
    BY <1>1 DEF QueueGrows
  <2> QED BY <1>1, <1>2, <2>1, AppendProperties
<1>4. \A t \in SEM \ {s} : Waiters(t)' = Waiters(t)
  BY DEF QueueGrows
<1>5. ASSUME NEW p \in PCB, NEW t \in SEM, NEW i \in 1..Len(Waiters(t)), Waiters(t)[i] = p
      PROVE  \E u \in SEM : \E j \in 1..Len(Waiters(u)') : Waiters(u)'[j] = p
  <2>1. CASE t = s
    <3>1. i \in 1..Len(v) /\ v[i] = p
      BY <1>1, <1>5, <2>1
    <3>2. i \in 1..Len(Waiters(s)') /\ Waiters(s)'[i] = p
      BY <1>1, <1>3, <3>1
    <3> QED BY <3>2
  <2>2. CASE t # s
    BY <1>4, <1>5, <2>2
  <2> QED BY <2>1, <2>2
<1>6. \E j \in 1..Len(Waiters(s)') : Waiters(s)'[j] = running
  <2>1. Len(v) + 1 \in 1..Len(Waiters(s)')
    BY <1>1, <1>3
  <2> QED BY <1>3, <2>1
<1>7. ASSUME NEW p \in PCB, NEW t \in SEM, NEW i \in 1..Len(Waiters(t)'), Waiters(t)'[i] = p,
             p # running
      PROVE  \E u \in SEM : \E j \in 1..Len(Waiters(u)) : Waiters(u)[j] = p
  <2>1. CASE t = s
    <3>1. i \in 1..(Len(v) + 1) /\ Append(v, running)[i] = p
      BY <1>3, <1>7, <2>1
    <3>2. i # Len(v) + 1
      BY <1>3, <1>7, <3>1
    <3>3. i \in 1..Len(v)
      BY <1>1, <3>1, <3>2
    <3>4. v[i] = p
      BY <1>3, <3>1, <3>3
    <3> QED BY <1>1, <3>3, <3>4
  <2>2. CASE t # s
    BY <1>4, <1>7, <2>2
  <2> QED BY <2>1, <2>2
<1>8. \A p \in PCB : p \in InQueue' <=> p \in InQueue \/ p = running
  BY <1>5, <1>6, <1>7 DEF InQueue
<1>9. InQueue \subseteq PCB /\ InQueue' \subseteq PCB
  BY DEF InQueue
<1> HIDE DEF InQueue
<1> QED BY <1>2, <1>8, <1>9

LEMMA InQueueShrinks ==
  ASSUME SemBase, NEW s \in SEM, QueueShrinks(s)
  PROVE  Head(Waiters(s)) \in InQueue /\ InQueue' = InQueue \ {Head(Waiters(s))}
<1>1. PICK v \in Seq(PCB) : v = Waiters(s) /\ Len(v) \in Nat /\ v # <<>>
  BY WaitersSeq DEF QueueShrinks
<1>2. PICK h : h = Head(Waiters(s)) /\ h = Head(v)
  BY <1>1
<1>3. /\ Waiters(s)' = Tail(v) /\ h = v[1] /\ Len(v) # 0
      /\ Len(Tail(v)) = Len(v) - 1
      /\ \A i \in 1..Len(Tail(v)) : Tail(v)[i] = v[i + 1]
  BY <1>1, <1>2, HeadTailProperties, EmptySeq DEF QueueShrinks
<1>4. 1 \in 1..Len(Waiters(s)) /\ Waiters(s)[1] = h
  BY <1>1, <1>3
<1>5. \A t \in SEM \ {s} : Waiters(t)' = Waiters(t)
  BY DEF QueueShrinks
<1>6. h \in InQueue
  <2>1. h \in PCB
    BY <1>1, <1>3, <1>4, ElementOfSeq
  <2> QED BY <1>4, <2>1 DEF InQueue
<1>7. ASSUME NEW p \in PCB, NEW t \in SEM, NEW i \in 1..Len(Waiters(t)), Waiters(t)[i] = p,
             p # h
      PROVE  \E u \in SEM : \E j \in 1..Len(Waiters(u)') : Waiters(u)'[j] = p
  <2>1. CASE t = s
    <3>1. i \in 1..Len(v) /\ v[i] = p /\ i # 1
      BY <1>1, <1>3, <1>7, <2>1
    <3>2. i - 1 \in 1..Len(Tail(v)) /\ (i - 1) + 1 = i
      BY <1>1, <1>3, <3>1
    <3>3. i - 1 \in 1..Len(Waiters(s)') /\ Waiters(s)'[i - 1] = p
      BY <1>3, <3>1, <3>2
    <3> QED BY <3>3
  <2>2. CASE t # s
    BY <1>5, <1>7, <2>2
  <2> QED BY <2>1, <2>2
<1>8. ASSUME NEW p \in PCB, NEW t \in SEM, NEW i \in 1..Len(Waiters(t)'), Waiters(t)'[i] = p
      PROVE  p # h /\ \E u \in SEM : \E j \in 1..Len(Waiters(u)) : Waiters(u)[j] = p
  <2>1. CASE t = s
    <3>1. i \in 1..Len(Tail(v)) /\ v[i + 1] = p
      BY <1>3, <1>8, <2>1
    <3>2. i + 1 \in 1..Len(Waiters(s)) /\ Waiters(s)[i + 1] = p /\ i + 1 # 1
      BY <1>1, <1>3, <3>1
    <3>3. p # h
      BY <1>4, <3>2, OnePlaceInQueues
    <3> QED BY <3>2, <3>3
  <2>2. CASE t # s
    <3>1. i \in 1..Len(Waiters(t)) /\ Waiters(t)[i] = p
      BY <1>5, <1>8, <2>2
    <3>2. p # h
      BY <1>4, <2>2, <3>1, OnePlaceInQueues
    <3> QED BY <3>1, <3>2
  <2> QED BY <2>1, <2>2
<1>9. \A p \in PCB : p \in InQueue' <=> p \in InQueue /\ p # h
  BY <1>7, <1>8 DEF InQueue
<1>10. InQueue \subseteq PCB /\ InQueue' \subseteq PCB
  BY DEF InQueue
<1> HIDE DEF InQueue
<1> QED BY <1>2, <1>6, <1>9, <1>10

(* What a call does to the queues, and to who is blocked.                  *)
LEMMA InQueueMoves ==
  ASSUME SchedAssumption, SemAssumption, SemBase, SemCall
  PROVE  \/ InQueue' = InQueue /\ Blocked' = Blocked
         \/ InQueue' = InQueue \cup {running} /\ Blocked' = Blocked \cup {running}
         \/ \E q \in InQueue : InQueue' = InQueue \ {q} /\ Blocked' = Blocked \ {q}
<1>1. CASE QueuesStay
  BY <1>1 DEF QueuesStay, InQueue
<1>2. ASSUME NEW s \in SEM, QueueGrows(s)
      PROVE  InQueue' = InQueue \cup {running} /\ Blocked' = Blocked \cup {running}
  <2>1. UserMode
    BY SemCallUser
  <2> QED BY <1>2, <2>1, InQueueGrows DEF QueueGrows
<1>3. ASSUME NEW s \in SEM, QueueShrinks(s)
      PROVE  \E q \in InQueue : InQueue' = InQueue \ {q} /\ Blocked' = Blocked \ {q}
  BY <1>3, InQueueShrinks DEF QueueShrinks
<1> QED BY <1>1, <1>2, <1>3, CallQueueMoves

-----------------------------------------------------------------------------
(***************************************************************************)
(* Nobody is blocked outside the queues: together with QueuedBlocked, the  *)
(* places in the queues and the blocked processes are in bijection.        *)
(***************************************************************************)
QueuesCover == Blocked \subseteq InQueue

(* Every step keeps it.                                                    *)
LEMMA CoverStep ==
  ASSUME SchedAssumption, SemAssumption, SemInv, QueuesCover, [SemNext]_semAll
  PROVE  QueuesCover'
<1>1. CASE SemCall
  BY <1>1, InQueueMoves DEF SemInv, QueuesCover
<1>2. CASE (SchedNext \/ UNCHANGED schedVars) /\ UNCHANGED semVars
  <2>1. Blocked' = Blocked
    BY <1>2, SemSchedStep
  <2>2. QueuesStay
    BY <1>2, <2>1, AloneQueues DEF SemInv
  <2> QED BY <2>1, <2>2 DEF QueuesStay, InQueue, QueuesCover
<1>3. UNCHANGED semAll => UNCHANGED schedVars /\ UNCHANGED semVars
  BY DEF semAll
<1> QED BY <1>1, <1>2, <1>3 DEF SemNext

(* It is an invariant.                                                     *)
LEMMA CoverInvariant == SemSpec => [](SemBase /\ QueuesCover)
<1> USE SchedAssumption, SemAssumption
<1>1. SemInit => QueuesCover
  BY DEF SemInit, SchedInit, QueuesCover, Blocked
<1>2. SemInv /\ QueuesCover /\ [SemNext]_semAll => QueuesCover'
  BY CoverStep
<1>3. SemInv => SemBase
  BY DEF SemInv
<1> QED BY <1>1, <1>2, <1>3, SemInvariant, PTL DEF SemSpec

(* No queue is longer than the pool of its entries.                        *)
LEMMA QueueFits ==
  ASSUME SemAssumption, SemBase, NEW s \in SEM
  PROVE  Len(Waiters(s)) <= NUM_SEMDESCRIPTORPTRS
<1>1. PICK n \in Nat : n = QueueLen[s] /\ n = Len(Waiters(s))
  BY WaitersSeq DEF QueueLen
<1>2. {s} \X (1..n) \in SUBSET Pairs(SEM, QueueLen)
  <2>1. ASSUME NEW i \in 1..n PROVE <<s, i>> \in Pairs(SEM, QueueLen)
    <3>1. i \in 1..QueueLen[s]
      BY <1>1
    <3>2. <<s, i>> \in {<<s, j>> : j \in 1..QueueLen[s]}
      BY <3>1
    <3> QED BY <3>2 DEF Pairs
  <2>2. ASSUME NEW x \in {s} \X (1..n) PROVE x \in Pairs(SEM, QueueLen)
    <3>1. PICK i \in 1..n : x = <<s, i>>
      OBVIOUS
    <3> QED BY <2>1, <3>1
  <2> QED BY <2>2
<1>3. IsFiniteSet({s} \X (1..n)) /\ Cardinality({s} \X (1..n)) = n
  <2> DEFINE A == {s}
             B == 1..n
  <2>1. IsFiniteSet(A) /\ Cardinality(A) = 1
    BY FS_Singleton
  <2>2. IsFiniteSet(B) /\ Cardinality(B) = n
    BY FS_Interval
  <2> HIDE DEF A, B
  <2>3. IsFiniteSet(A \X B) /\ Cardinality(A \X B) = Cardinality(A) * Cardinality(B)
    BY <2>1, <2>2, FS_Product
  <2>4. IsFiniteSet(A \X B) /\ Cardinality(A \X B) = n
    BY <2>1, <2>2, <2>3
  <2> QED BY <2>4 DEF A, B
<1>4. n <= Cardinality(Pairs(SEM, QueueLen))
  BY <1>2, <1>3, FS_Subset DEF SemBase
<1>5. /\ Cardinality(Pairs(SEM, EntryLen)) \in Nat
      /\ Cardinality(Pairs(SEM, QueueLen)) \in Nat
  BY FS_CardinalityType DEF SemBase
<1>6. /\ sdp_free \in Nat /\ NUM_SEMDESCRIPTORPTRS \in Nat
      /\ sdp_free + Cardinality(Pairs(SEM, EntryLen)) + Cardinality(Pairs(SEM, QueueLen))
           = NUM_SEMDESCRIPTORPTRS
  BY DEF SemBase, SemTypeOK, PtrsConserved, SemAssumption
<1> QED BY <1>1, <1>4, <1>5, <1>6

(* Nobody has two timers.                                                  *)
LEMMA TimerCount ==
  ASSUME SchedBase, NEW p
  PROVE  Cardinality({i \in 1..Len(timer_list) : timer_list[i].pcb = p})
           = IF p \in Sleepers THEN 1 ELSE 0
<1> DEFINE I == {i \in 1..Len(timer_list) : timer_list[i].pcb = p}
<1>1. CASE p \in Sleepers
  <2>1. PICK k \in 1..Len(timer_list) : timer_list[k].pcb = p
    BY <1>1 DEF Sleepers
  <2>2. Len(timer_list) \in Nat
    BY LenProperties DEF SchedBase, SchedTypeOK
  <2>3. \A i \in 1..Len(timer_list) : timer_list[i].pcb = p => i = k
    <3>1. ASSUME NEW i \in 1..Len(timer_list), timer_list[i].pcb = p, i # k
          PROVE  FALSE
      <4>1. i < k \/ k < i
        BY <2>2, <3>1
      <4> QED BY <2>1, <3>1, <4>1 DEF SchedBase, TimersSorted
    <3> QED BY <3>1
  <2>4. I = {k}
    BY <2>1, <2>3
  <2> QED BY <1>1, <2>4, FS_Singleton
<1>2. CASE p \notin Sleepers
  <2>1. I = {}
    BY <1>2 DEF Sleepers
  <2> QED BY <1>2, <2>1, FS_EmptySet
<1> QED BY <1>1, <1>2

(* The places of the queues.                                               *)
LEMMA PlacePairs ==
  ASSUME SemBase
  PROVE  /\ \A s \in SEM : \A i \in 1..Len(Waiters(s)) : <<s, i>> \in Pairs(SEM, QueueLen)
         /\ \A x \in Pairs(SEM, QueueLen) :
              \E s \in SEM : \E i \in 1..Len(Waiters(s)) : x = <<s, i>>
<1>1. \A s \in SEM : QueueLen[s] = Len(Waiters(s))
  BY WaitersSeq DEF QueueLen
<1> QED BY <1>1 DEF Pairs

(* Nobody is in two places of the queues.                                  *)
LEMMA PlaceCount ==
  ASSUME SemBase, NEW p \in PCB
  PROVE  Cardinality({q \in Pairs(SEM, QueueLen) : Waiters(q[1])[q[2]] = p})
           = IF p \in InQueue THEN 1 ELSE 0
<1> DEFINE Q == {q \in Pairs(SEM, QueueLen) : Waiters(q[1])[q[2]] = p}
<1>1. CASE p \in InQueue
  <2>1. PICK s \in SEM : \E k \in 1..Len(Waiters(s)) : Waiters(s)[k] = p
    BY <1>1 DEF InQueue
  <2>2. PICK k \in 1..Len(Waiters(s)) : Waiters(s)[k] = p
    BY <2>1
  <2>3. <<s, k>> \in Q
    BY <2>2, PlacePairs
  <2>4. ASSUME NEW q \in Q PROVE q = <<s, k>>
    <3>1. q \in Pairs(SEM, QueueLen) /\ Waiters(q[1])[q[2]] = p
      BY <2>4
    <3>2. PICK t \in SEM : \E j \in 1..Len(Waiters(t)) : q = <<t, j>>
      BY <3>1, PlacePairs
    <3>3. PICK j \in 1..Len(Waiters(t)) : q = <<t, j>>
      BY <3>2
    <3>4. Waiters(t)[j] = p
      BY <3>1, <3>3
    <3>5. t = s /\ j = k
      BY <2>2, <3>4, OnePlaceInQueues
    <3> QED BY <3>3, <3>5
  <2> HIDE DEF Q
  <2>5. Q = {<<s, k>>}
    BY <2>3, <2>4
  <2> QED BY <1>1, <2>5, FS_Singleton DEF Q
<1>2. CASE p \notin InQueue
  <2>1. ASSUME NEW q \in Q PROVE FALSE
    <3>1. q \in Pairs(SEM, QueueLen) /\ Waiters(q[1])[q[2]] = p
      BY <2>1
    <3>2. PICK t \in SEM : \E j \in 1..Len(Waiters(t)) : q = <<t, j>>
      BY <3>1, PlacePairs
    <3>3. PICK j \in 1..Len(Waiters(t)) : q = <<t, j>>
      BY <3>2
    <3>4. Waiters(t)[j] = p
      BY <3>1, <3>3
    <3> QED BY <1>2, <3>4 DEF InQueue
  <2>2. Q = {}
    BY <2>1
  <2> QED BY <1>2, <2>2, FS_EmptySet
<1> QED BY <1>1, <1>2

(***************************************************************************)
(* A process on the waiting list is there for one timer or for one place   *)
(* in one queue, and whoever has a timer or a place is on that list: so    *)
(* the handler that takes it off its one place may take it off the list.   *)
(***************************************************************************)
THEOREM EachWaitsForOneThing == SemSpec => []WaitsForOneThing
<1>1. ASSUME SemBase, QueuesCover, NEW p \in PCB
      PROVE  Cardinality({i \in 1..Len(timer_list) : timer_list[i].pcb = p})
             + Cardinality({q \in SEM \X (1..NUM_SEMDESCRIPTORPTRS) :
                              q[2] <= Len(Waiters(q[1])) /\ Waiters(q[1])[q[2]] = p})
             = IF p \in waiting_list THEN 1 ELSE 0
  <2> DEFINE I == {i \in 1..Len(timer_list) : timer_list[i].pcb = p}
             P == {q \in Pairs(SEM, QueueLen) : Waiters(q[1])[q[2]] = p}
             Q == {q \in SEM \X (1..NUM_SEMDESCRIPTORPTRS) :
                     q[2] <= Len(Waiters(q[1])) /\ Waiters(q[1])[q[2]] = p}
  <2>1. Cardinality(I) = IF p \in Sleepers THEN 1 ELSE 0
    BY <1>1, TimerCount DEF SemBase
  <2>2. Cardinality(P) = IF p \in InQueue THEN 1 ELSE 0
    BY <1>1, PlaceCount
  <2>3. ASSUME NEW s \in SEM
        PROVE  /\ Len(Waiters(s)) \in Nat /\ NUM_SEMDESCRIPTORPTRS \in Nat
               /\ Len(Waiters(s)) <= NUM_SEMDESCRIPTORPTRS
    BY <1>1, SemAssumption, QueueFits, WaitersSeq DEF SemAssumption
  <2>4. ASSUME NEW q \in P PROVE q \in Q
    <3>1. q \in Pairs(SEM, QueueLen) /\ Waiters(q[1])[q[2]] = p
      BY <2>4
    <3>2. PICK s \in SEM : \E i \in 1..Len(Waiters(s)) : q = <<s, i>>
      BY <1>1, <3>1, PlacePairs
    <3>3. PICK i \in 1..Len(Waiters(s)) : q = <<s, i>>
      BY <3>2
    <3>4. i \in 1..NUM_SEMDESCRIPTORPTRS /\ i <= Len(Waiters(s))
      BY <2>3
    <3> QED BY <3>1, <3>3, <3>4
  <2>5. ASSUME NEW q \in Q PROVE q \in P
    <3>1. PICK s \in SEM, i \in 1..NUM_SEMDESCRIPTORPTRS :
            q = <<s, i>> /\ i <= Len(Waiters(s)) /\ Waiters(s)[i] = p
      OBVIOUS
    <3>2. i \in 1..Len(Waiters(s))
      BY <2>3, <3>1
    <3> QED BY <1>1, <3>1, <3>2, PlacePairs
  <2>6. InQueue = Blocked /\ Sleepers \subseteq waiting_list
    BY <1>1, InQueueBlocked DEF QueuesCover, SemBase, SchedBase
  <2> HIDE DEF I, P, Q
  <2>7. Cardinality(Q) = IF p \in InQueue THEN 1 ELSE 0
    <3>1. P = Q
      BY <2>4, <2>5
    <3> QED BY <2>2, <3>1
  <2>8. Cardinality(I) + Cardinality(Q) = IF p \in waiting_list THEN 1 ELSE 0
    BY <2>1, <2>6, <2>7 DEF Blocked
  <2> QED BY <2>8 DEF I, Q
<1>2. SemBase /\ QueuesCover => WaitsForOneThing
  BY <1>1 DEF WaitsForOneThing
<1> QED BY <1>2, CoverInvariant, PTL

-----------------------------------------------------------------------------
(***************************************************************************)
(* The blocks of the SemDescriptorPtr pool that can be in use: a process   *)
(* that makes calls has one for each descriptor it has open, of which      *)
(* semOpen limits the number, and one more while it waits.                 *)
(***************************************************************************)
OpensBounded ==
  \A p \in PCB : Len(sem_descriptors[p])
                   <= (IF p \in Callers THEN MAX_NUM_SEMDESCRIPTORS_PER_PROCESS ELSE 0)

(* semOpen and semClose keep the limit, the others open nothing.           *)
LEMMA BoundStep ==
  ASSUME SemAssumption, SemBase, OpensBounded, [SemNext]_semAll
  PROVE  OpensBounded'
<1>1. CASE UNCHANGED sem_descriptors
  BY <1>1 DEF OpensBounded
<1>2. ASSUME running \in Callers, NEW semnum \in SemNums, NEW count \in OpenCounts,
             SemOpenDone(semnum, count)
      PROVE  OpensBounded'
  <2>1. /\ running \in PCB /\ sd_free # <<>> /\ SemOpenError(semnum) = 0
        /\ sem_descriptors' = [sem_descriptors EXCEPT ![running] = Append(@, Head(sd_free))]
    BY <1>2 DEF SemOpenDone, SemOpenAccepted, UserMode
  <2>2. PICK d \in SD : d = Head(sd_free)
    BY <2>1, DescriptorTypes, HeadTailElements
  <2>3. sem_descriptors \in [PCB -> Seq(SD)] /\ sem_descriptors[running] \in Seq(SD)
    BY <2>1, DescriptorTypes
  <2>4. /\ Len(Append(sem_descriptors[running], d)) = Len(sem_descriptors[running]) + 1
        /\ Len(sem_descriptors[running]) \in Nat
    BY <2>3, AppendProperties, LenProperties
  <2>5. ~(Len(sem_descriptors[running]) >= MAX_NUM_SEMDESCRIPTORS_PER_PROCESS)
    BY <2>1 DEF SemOpenError, TOOMUCHSEM, TOOMUCHSEMDES
  <2>6. Len(Append(sem_descriptors[running], d)) <= MAX_NUM_SEMDESCRIPTORS_PER_PROCESS
    BY <2>4, <2>5 DEF SemAssumption
  <2>7. /\ sem_descriptors'[running] = Append(sem_descriptors[running], d)
        /\ \A p \in PCB \ {running} : sem_descriptors'[p] = sem_descriptors[p]
    BY <2>1, <2>2, <2>3
  <2> QED BY <1>2, <2>6, <2>7 DEF OpensBounded
<1>3. ASSUME NEW semnum \in SemNums, SemClose(semnum) \/ SemCloseLast(semnum)
      PROVE  OpensBounded'
  <2>1. /\ UserMode /\ Usable(semnum)
        /\ sem_descriptors' = [sem_descriptors EXCEPT ![running] = Detach(@, getDes(semnum))]
    BY <1>3 DEF SemClose, SemCloseLast, SemCloseAccepted, CloseDescriptor
  <2>2. running \in PCB
    BY <2>1 DEF UserMode
  <2>3. PICK g : g = getDes(semnum) /\ g \in 1..Len(sem_descriptors[running])
    BY <2>1, Lookup
  <2>4. sem_descriptors \in [PCB -> Seq(SD)] /\ sem_descriptors[running] \in Seq(SD)
    BY <2>2, DescriptorTypes
  <2>5. /\ Len(Detach(sem_descriptors[running], g)) = Len(sem_descriptors[running]) - 1
        /\ Len(sem_descriptors[running]) \in Nat
    BY <2>3, <2>4, DetachProperties, LenProperties
  <2>6. /\ sem_descriptors'[running] = Detach(sem_descriptors[running], g)
        /\ \A p \in PCB \ {running} : sem_descriptors'[p] = sem_descriptors[p]
    BY <2>1, <2>2, <2>3, <2>4
  <2>7. ASSUME NEW n \in Nat, Len(sem_descriptors[running]) <= n
        PROVE  Len(sem_descriptors'[running]) <= n
    BY <2>5, <2>6, <2>7
  <2>8. Len(sem_descriptors'[running])
          <= (IF running \in Callers THEN MAX_NUM_SEMDESCRIPTORS_PER_PROCESS ELSE 0)
    BY <2>2, <2>7 DEF OpensBounded, SemAssumption
  <2> QED BY <2>6, <2>8 DEF OpensBounded
<1>4. CASE SemCall
  <2>1. PICK semnum \in SemNums : \/ SemOpenStep(semnum) \/ SemCloseStep(semnum)
                                  \/ SemWaitStep(semnum) \/ SemPostStep(semnum)
    BY <1>4 DEF SemCall
  <2>2. running \in Callers
    BY <1>4 DEF SemCall
  <2>3. CASE SemOpenStep(semnum)
    <3>1. CASE SemOpenRefused(semnum)
      BY <1>1, <3>1 DEF SemOpenRefused, semVars
    <3>2. ASSUME NEW count \in OpenCounts, SemOpenWith(semnum, count) PROVE OpensBounded'
      <4>1. CASE SemOpenNoDescriptor(semnum, count) \/ SemOpenNoPtr(semnum, count)
        BY <1>1, <4>1 DEF SemOpenNoDescriptor, SemOpenNoPtr
      <4> QED BY <1>2, <2>2, <3>2, <4>1 DEF SemOpenWith
    <3> QED BY <2>3, <3>1, <3>2 DEF SemOpenStep
  <2>4. CASE SemCloseStep(semnum)
    BY <1>1, <1>3, <2>4 DEF SemCloseStep, SemCloseRefused, SemPostRefused, semVars
  <2>5. CASE SemWaitStep(semnum)
    BY <1>1, <2>5 DEF SemWaitStep, SemWaitRefused, SemWaitPass, SemWaitBlock, SemWaitNoPtr,
      SemWaitNoReady, semVars
  <2>6. CASE SemPostStep(semnum)
    BY <1>1, <2>6 DEF SemPostStep, SemPostRefused, SemPostStore, SemPostHandOff,
      SemPostNoWaiter, semVars
  <2> QED BY <2>1, <2>3, <2>4, <2>5, <2>6
<1>5. CASE (SchedNext /\ UNCHANGED semVars) \/ UNCHANGED semAll
  BY <1>1, <1>5 DEF semVars, semAll
<1> QED BY <1>4, <1>5 DEF SemNext

(* The limit is an invariant.                                              *)
LEMMA BoundInvariant == SemSpec => [](SemInv /\ OpensBounded)
<1> USE SchedAssumption, SemAssumption
<1>1. SemInit => OpensBounded
  <2> SUFFICES ASSUME SemInit PROVE OpensBounded
    OBVIOUS
  <2>1. \A p \in PCB : Len(sem_descriptors[p]) = 0
    BY EmptySeq DEF SemInit, SemTablesInit
  <2> QED BY <2>1 DEF OpensBounded, SemAssumption
<1>2. SemInv /\ OpensBounded /\ [SemNext]_semAll => OpensBounded'
  BY BoundStep DEF SemInv
<1> QED BY <1>1, <1>2, SemInvariant, PTL DEF SemSpec

(* The callers are finitely many.                                          *)
LEMMA CallersFinite ==
  ASSUME SchedAssumption
  PROVE  IsFiniteSet(Callers) /\ Cardinality(Callers) \in Nat
<1>1. IsFiniteSet(PCB) /\ Callers \in SUBSET PCB
  BY FS_Interval DEF SchedAssumption, PCB
<1> QED BY <1>1, FS_Subset, FS_CardinalityType

(* An open descriptor is one of the places in its owner's list.            *)
LEMMA OpenFitsCallers ==
  ASSUME SchedAssumption, SemAssumption, SemBase, OpensBounded
  PROVE  /\ IsFiniteSet(Open)
         /\ Cardinality(Open) <= Cardinality(Callers) * MAX_NUM_SEMDESCRIPTORS_PER_PROCESS
<1> DEFINE M == MAX_NUM_SEMDESCRIPTORS_PER_PROCESS
           place == [d \in Open |-> <<sd[d].pcb,
                       CHOOSE i \in 1..Len(sem_descriptors[sd[d].pcb]) :
                         sem_descriptors[sd[d].pcb][i] = d>>]
<1>1. M \in Nat
  BY DEF SemAssumption
<1>2. ASSUME NEW d \in Open
      PROVE  \E p \in Callers, i \in 1..M : place[d] = <<p, i>> /\ sem_descriptors[p][i] = d
  <2>1. PICK p \in PCB : d \in OpenBy(p)
    BY DEF Open
  <2>2. sd[d].pcb = p
    BY <2>1 DEF SemBase, Owned
  <2>3. \E i \in 1..Len(sem_descriptors[p]) : sem_descriptors[p][i] = d
    BY <2>1 DEF OpenBy, Elements
  <2>4. PICK i \in 1..Len(sem_descriptors[p]) :
          sem_descriptors[p][i] = d /\ place[d] = <<p, i>>
    BY <2>2, <2>3
  <2>5. Len(sem_descriptors[p]) \in Nat
    BY LenProperties, DescriptorTypes
  <2>6. p \in Callers /\ Len(sem_descriptors[p]) <= M
    <3>1. CASE p \in Callers
      BY <3>1 DEF OpensBounded
    <3>2. CASE p \notin Callers
      <4>1. Len(sem_descriptors[p]) <= 0
        BY <3>2 DEF OpensBounded
      <4> QED BY <2>4, <2>5, <4>1
    <3> QED BY <3>1, <3>2
  <2>7. i \in 1..M
    BY <1>1, <2>5, <2>6
  <2> QED BY <2>4, <2>6, <2>7
<1>3. DOMAIN place = Open
  OBVIOUS
<1> HIDE DEF place, M
<1>4. place \in Injection(Open, Callers \X (1..M))
  <2>1. \A d \in Open : place[d] \in Callers \X (1..M)
    BY <1>2
  <2>2. place \in [Open -> Callers \X (1..M)]
    <3>1. place = [d \in Open |-> place[d]]
      BY DEF place
    <3> QED BY <2>1, <3>1
  <2>3. ASSUME NEW d \in Open, NEW e \in Open, place[d] = place[e] PROVE d = e
    <3>1. PICK p \in Callers, i \in 1..M : place[d] = <<p, i>> /\ sem_descriptors[p][i] = d
      BY <1>2
    <3>2. PICK q \in Callers, j \in 1..M : place[e] = <<q, j>> /\ sem_descriptors[q][j] = e
      BY <1>2
    <3>3. <<p, i>> = <<q, j>>
      BY <2>3, <3>1, <3>2
    <3>4. p = q /\ i = j
      BY <3>3
    <3> QED BY <3>1, <3>2, <3>4
  <2> QED BY <2>2, <2>3, Fun_IsInj
<1>5. /\ IsFiniteSet(Callers \X (1..M))
      /\ Cardinality(Callers \X (1..M)) = Cardinality(Callers) * M
  <2>1. IsFiniteSet(1..M) /\ Cardinality(1..M) = M
    BY <1>1, FS_Interval
  <2> QED BY <2>1, CallersFinite, FS_Product
<1> QED BY <1>4, <1>5, FS_Injection DEF M

(* There are as many entries as open descriptors.                          *)
LEMMA EntriesFitOpen ==
  ASSUME SemAssumption, SemBase, IsFiniteSet(Open)
  PROVE  Cardinality(Pairs(SEM, EntryLen)) <= Cardinality(Open)
<1> DEFINE nth(s) == CHOOSE f : f \in Bijection(1..EntryLen[s], OpenOn(s))
           opened == [x \in Pairs(SEM, EntryLen) |-> nth(x[1])[x[2]]]
<1>1. ASSUME NEW s \in SEM PROVE nth(s) \in Bijection(1..EntryLen[s], OpenOn(s))
  <2>1. EntryLen[s] = Cardinality(OpenOn(s))
    BY DEF SemBase, EntryPerOpen, EntryLen
  <2>2. IsFiniteSet(OpenOn(s))
    BY OpenFinite DEF SemBase
  <2>3. ExistsBijection(1..EntryLen[s], OpenOn(s))
    BY <2>1, <2>2, FS_CardinalityType
  <2>4. Bijection(1..EntryLen[s], OpenOn(s)) # {}
    BY <2>3, Fun_ExistsBij
  <2> QED BY <2>4
<1> HIDE DEF nth
<1>2. ASSUME NEW s \in SEM, NEW i \in 1..EntryLen[s]
      PROVE  /\ nth(s)[i] \in Open /\ sd[nth(s)[i]].semaphore = s
             /\ \A j \in 1..EntryLen[s] : nth(s)[i] = nth(s)[j] => i = j
  <2>1. /\ nth(s) \in [1..EntryLen[s] -> OpenOn(s)]
        /\ \A j, k \in 1..EntryLen[s] : nth(s)[j] = nth(s)[k] => j = k
    <3> DEFINE I == 1..EntryLen[s]
    <3>1. nth(s) \in Bijection(I, OpenOn(s))
      BY <1>1
    <3> HIDE DEF I
    <3>2. /\ nth(s) \in [I -> OpenOn(s)]
          /\ \A j, k \in I : nth(s)[j] = nth(s)[k] => j = k
      BY <3>1, Fun_BijectionProperties
    <3> QED BY <3>2 DEF I
  <2>2. /\ nth(s)[i] \in OpenOn(s)
        /\ \A j \in 1..EntryLen[s] : nth(s)[i] = nth(s)[j] => i = j
    BY <2>1
  <2> QED BY <2>2 DEF OpenOn
<1>3. ASSUME NEW x \in Pairs(SEM, EntryLen)
      PROVE  \E s \in SEM : \E i \in 1..EntryLen[s] : x = <<s, i>> /\ opened[x] = nth(s)[i]
  <2>1. PICK s \in SEM : \E i \in 1..EntryLen[s] : x = <<s, i>>
    BY DEF Pairs
  <2>2. PICK i \in 1..EntryLen[s] : x = <<s, i>>
    BY <2>1
  <2>3. opened[x] = nth(s)[i]
    BY <2>2
  <2> QED BY <2>2, <2>3
<1>4. opened \in Injection(Pairs(SEM, EntryLen), Open)
  <2>1. opened \in [Pairs(SEM, EntryLen) -> Open]
    <3>1. \A x \in Pairs(SEM, EntryLen) : nth(x[1])[x[2]] \in Open
      BY <1>2, <1>3
    <3> QED BY <3>1
  <2> HIDE DEF opened
  <2>2. ASSUME NEW x \in Pairs(SEM, EntryLen), NEW y \in Pairs(SEM, EntryLen),
               opened[x] = opened[y]
        PROVE  x = y
    <3>1. PICK s \in SEM : \E i \in 1..EntryLen[s] : x = <<s, i>> /\ opened[x] = nth(s)[i]
      BY <1>3
    <3>2. PICK i \in 1..EntryLen[s] : x = <<s, i>> /\ opened[x] = nth(s)[i]
      BY <3>1
    <3>3. PICK t \in SEM : \E j \in 1..EntryLen[t] : y = <<t, j>> /\ opened[y] = nth(t)[j]
      BY <1>3
    <3>4. PICK j \in 1..EntryLen[t] : y = <<t, j>> /\ opened[y] = nth(t)[j]
      BY <3>3
    <3>5. s = t
      BY <1>2, <2>2, <3>2, <3>4
    <3>6. i = j
      BY <1>2, <2>2, <3>2, <3>4, <3>5
    <3> QED BY <3>2, <3>4, <3>5, <3>6
  <2> QED BY <2>1, <2>2, Fun_IsInj
<1> HIDE DEF opened
<1> QED BY <1>4, FS_Injection

(* Nobody who runs is in a queue: one caller less can be.                  *)
LEMMA QueuedFitCallers ==
  ASSUME SchedAssumption, SemAssumption, SemInv, running \in Callers
  PROVE  Cardinality(Pairs(SEM, QueueLen)) <= Cardinality(Callers) - 1
<1> USE DEF SemInv
<1> DEFINE others == Callers \ {running}
           who == [x \in Pairs(SEM, QueueLen) |-> Waiters(x[1])[x[2]]]
<1>1. ASSUME NEW x \in Pairs(SEM, QueueLen)
      PROVE  \E s \in SEM : \E i \in 1..Len(sem[s].waiting_descriptors) :
               x = <<s, i>> /\ who[x] = Waiters(s)[i]
  <2>1. PICK s \in SEM : \E i \in 1..QueueLen[s] : x = <<s, i>>
    BY DEF Pairs
  <2>2. PICK i \in 1..QueueLen[s] : x = <<s, i>>
    BY <2>1
  <2>3. who[x] = Waiters(s)[i] /\ QueueLen[s] = Len(sem[s].waiting_descriptors)
    BY <2>2 DEF QueueLen
  <2> QED BY <2>2, <2>3
<1>2. who = [x \in Pairs(SEM, QueueLen) |-> who[x]]
  OBVIOUS
<1> HIDE DEF who, others
<1>3. ASSUME NEW x \in Pairs(SEM, QueueLen) PROVE who[x] \in others
  <2>1. who[x] \in waiting_list
    BY <1>1 DEF SemBase, QueuedBlocked
  <2> QED BY <2>1 DEF others, SemBase, SchedBase, PlacedOnce, AllPlaced
<1>4. who \in Injection(Pairs(SEM, QueueLen), others)
  <2>1. who \in [Pairs(SEM, QueueLen) -> others]
    BY <1>2, <1>3
  <2>2. ASSUME NEW x \in Pairs(SEM, QueueLen), NEW y \in Pairs(SEM, QueueLen),
               who[x] = who[y]
        PROVE  x = y
    <3>1. PICK s \in SEM : \E i \in 1..Len(sem[s].waiting_descriptors) :
                              x = <<s, i>> /\ who[x] = Waiters(s)[i]
      BY <1>1
    <3>2. PICK i \in 1..Len(sem[s].waiting_descriptors) :
            x = <<s, i>> /\ who[x] = Waiters(s)[i]
      BY <3>1
    <3>3. PICK t \in SEM : \E j \in 1..Len(sem[t].waiting_descriptors) :
                              y = <<t, j>> /\ who[y] = Waiters(t)[j]
      BY <1>1
    <3>4. PICK j \in 1..Len(sem[t].waiting_descriptors) :
            y = <<t, j>> /\ who[y] = Waiters(t)[j]
      BY <3>3
    <3>5. s = t /\ i = j
      BY <2>2, <3>2, <3>4 DEF SemBase, QueuedBlocked
    <3> QED BY <3>2, <3>4, <3>5
  <2> QED BY <2>1, <2>2, Fun_IsInj
<1>5. IsFiniteSet(others) /\ Cardinality(others) = Cardinality(Callers) - 1
  BY CallersFinite, FS_RemoveElement DEF others
<1> QED BY <1>4, <1>5, FS_Injection

(* So a process that calls semWait finds a block, if the pool has enough.  *)
LEMMA PtrLeft ==
  ASSUME SchedAssumption, SemAssumption, SemInv, OpensBounded, running \in Callers,
         Cardinality(Callers) * (MAX_NUM_SEMDESCRIPTORS_PER_PROCESS + 1)
           <= NUM_SEMDESCRIPTORPTRS
  PROVE  sdp_free > 0
<1>0. SemBase
  BY DEF SemInv
<1> DEFINE M == MAX_NUM_SEMDESCRIPTORS_PER_PROCESS
           c == Cardinality(Callers)
           e == Cardinality(Pairs(SEM, EntryLen))
           q == Cardinality(Pairs(SEM, QueueLen))
           o == Cardinality(Open)
<1>1. M \in Nat /\ c \in Nat
  BY CallersFinite DEF SemAssumption
<1>2. o \in Nat /\ o <= c * M /\ e <= o
  BY <1>0, OpenFitsCallers, EntriesFitOpen, FS_CardinalityType
<1>3. e \in Nat /\ q \in Nat
  BY <1>0, FS_CardinalityType DEF SemBase
<1>4. q <= c - 1
  BY QueuedFitCallers
<1>5. /\ sdp_free \in Nat /\ NUM_SEMDESCRIPTORPTRS \in Nat
      /\ sdp_free + e + q = NUM_SEMDESCRIPTORPTRS
  BY <1>0 DEF SemBase, SemTypeOK, PtrsConserved, SemAssumption
<1>6. c * (M + 1) <= NUM_SEMDESCRIPTORPTRS
  OBVIOUS
<1> HIDE DEF M, c, e, q, o
<1>7. c * (M + 1) = c * M + c /\ c * M \in Nat
  BY <1>1
<1> QED BY <1>1, <1>2, <1>3, <1>4, <1>5, <1>6, <1>7

(* Nor can semWait fail to find a process to run: somebody makes no calls, *)
(* and it is ready, as it neither sleeps nor waits.                        *)
LEMMA ReadyLeft ==
  ASSUME SchedAssumption, SemInv, running \in Callers, Callers # PCB
  PROVE  ready_list # <<>>
<1>1. PICK p \in PCB : p \notin Callers
  BY DEF SchedAssumption
<1>2. p \in Elements(ready_list)
  BY <1>1 DEF SemInv, AllPlaced, Placed
<1>3. Elements(<<>>) = {}
  BY EmptySeq DEF Elements
<1> QED BY <1>2, <1>3

(* No handler dereferences NULL, for programs that open no semaphore with  *)
(* less than 0, when some process makes no calls (init, which only waits   *)
(* for its children, and a computing process in the tests) and when the    *)
(* pool has the blocks for all the descriptors of the callers and one      *)
(* place in a queue each.  Without the last condition semWait meets the    *)
(* NULL of SemDescriptorPtr_alloc, without the first semPost its own.      *)
THEOREM HandlersMeetNoNull ==
  ASSUME OpenCounts \subseteq Nat, Callers # PCB,
         Cardinality(Callers) * (MAX_NUM_SEMDESCRIPTORS_PER_PROCESS + 1)
           <= NUM_SEMDESCRIPTORPTRS
  PROVE  SemSpec => []NoFault
<1> USE SchedAssumption, SemAssumption
<1>1. SemInit => NoFault
  BY DEF SemInit, SchedInit, NoFault
<1>2. ASSUME SemInv, OpensBounded, SemPostFindsWaiter', NoFault, [SemNext]_semAll
      PROVE  NoFault'
  <2>1. CASE SemCall
    <3>1. PICK semnum \in SemNums : \/ SemOpenStep(semnum) \/ SemCloseStep(semnum)
                                    \/ SemWaitStep(semnum) \/ SemPostStep(semnum)
      BY <2>1 DEF SemCall
    <3>2. running \in Callers
      BY <2>1 DEF SemCall
    <3>3. sdp_free # 0
      <4>1. sdp_free > 0
        BY <1>2, <3>2, PtrLeft
      <4> QED BY <4>1
    <3>4. ready_list # <<>>
      BY <1>2, <3>2, ReadyLeft
    <3>5. CASE SemOpenStep(semnum)
      BY <1>2, <3>5 DEF SemOpenStep, SemOpenRefused, SemOpenWith, SemOpenNoDescriptor,
        SemOpenNoPtr, SemOpenDone, Refuse, NoFault
    <3>6. CASE SemCloseStep(semnum)
      BY <1>2, <3>6 DEF SemCloseStep, SemCloseRefused, SemPostRefused, SemClose,
        SemCloseLast, CloseDescriptor, Refuse, NoFault
    <3>7. CASE SemWaitStep(semnum)
      BY <1>2, <3>3, <3>4, <3>7 DEF SemWaitStep, SemWaitRefused, SemWaitPass, SemWaitBlock,
        SemWaitNoPtr, SemWaitNoReady, Refuse, NoFault
    <3>8. CASE SemPostStep(semnum)
      BY <1>2, <3>8 DEF SemPostStep, SemPostRefused, SemPostStore, SemPostHandOff,
        SemPostNoWaiter, Crash, SemPostFindsWaiter, Refuse, NoFault
    <3> QED BY <3>1, <3>5, <3>6, <3>7, <3>8
  <2>2. CASE (SchedNext /\ UNCHANGED semVars) \/ UNCHANGED semAll
    BY <1>2, <2>2 DEF SchedNext, SchedSleep, internal_sleep, internal_preempt,
      timerInterrupt, Refuse, semAll, schedVars, NoFault
  <2> QED BY <1>2, <2>1, <2>2 DEF SemNext
<1>3. SemInv /\ OpensBounded /\ SemPostFindsWaiter' /\ NoFault /\ [SemNext]_semAll
        => NoFault'
  BY <1>2
<1> QED BY <1>1, <1>3, BoundInvariant, PostFindsWaiter, PTL DEF SemSpec

-----------------------------------------------------------------------------
(***************************************************************************)
(* The refinement.  The abstract state, number by number: a number that is *)
(* listed has the units, the openings and the waiters of its semaphore,    *)
(* and any other one has none.                                             *)
(***************************************************************************)
absValue ==
  [n \in SemNums |-> LET i == SemaphoreList_byId(n)
                     IN IF i = 0 THEN 0 ELSE Units(semaphores_list[i])]
absHolders ==
  [n \in SemNums |-> LET i == SemaphoreList_byId(n)
                     IN IF i = 0 THEN 0 ELSE Holders(semaphores_list[i])]
absQueue ==
  [n \in SemNums |-> LET i == SemaphoreList_byId(n)
                     IN IF i = 0 THEN <<>> ELSE Waiters(semaphores_list[i])]

(* They are what the mapping of module Semaphores substitutes.             *)
LEMMA Mapping ==
  /\ OfLive(Units, 0) = absValue
  /\ OfLive(Holders, 0) = absHolders
  /\ OfLive(Waiters, <<>>) = absQueue
BY DEF OfLive, absValue, absHolders, absQueue

View ==
  /\ absValue = [n \in SemNums |-> absValue[n]]
  /\ absHolders = [n \in SemNums |-> absHolders[n]]
  /\ absQueue = [n \in SemNums |-> absQueue[n]]
  /\ \A s \in Elements(semaphores_list), n \in SemNums : sem[s].id = n =>
       /\ n \in LiveIds
       /\ absValue[n] = Units(s) /\ absHolders[n] = Holders(s) /\ absQueue[n] = Waiters(s)
  /\ \A n \in SemNums : n \notin LiveIds =>
       absValue[n] = 0 /\ absHolders[n] = 0 /\ absQueue[n] = <<>>

LEMMA Viewed == SemBase => View
<1> SUFFICES ASSUME SemBase PROVE View
  OBVIOUS
<1>1. /\ absValue = [n \in SemNums |-> absValue[n]]
      /\ absHolders = [n \in SemNums |-> absHolders[n]]
      /\ absQueue = [n \in SemNums |-> absQueue[n]]
  BY DEF absValue, absHolders, absQueue
<1>2. ASSUME NEW s \in Elements(semaphores_list), NEW n \in SemNums, sem[s].id = n
      PROVE  /\ n \in LiveIds
             /\ absValue[n] = Units(s) /\ absHolders[n] = Holders(s)
             /\ absQueue[n] = Waiters(s)
  <2>1. SemTypeOK
    BY DEF SemBase
  <2>2. Listed(n)
    BY <1>2, <2>1, NotListed
  <2>3. Found(n) \in Elements(semaphores_list) /\ sem[Found(n)].id = n
    BY <2>1, <2>2, ListedFound
  <2>4. Found(n) = s
    BY <1>2, <2>3 DEF SemBase, UniqueIds
  <2> QED BY <1>2, <2>2, <2>4 DEF LiveIds, absValue, absHolders, absQueue, Listed, Found
<1>3. ASSUME NEW n \in SemNums, n \notin LiveIds
      PROVE  absValue[n] = 0 /\ absHolders[n] = 0 /\ absQueue[n] = <<>>
  <2>1. ~Listed(n)
    BY <1>3, ListedFound DEF SemBase, LiveIds
  <2> QED BY <2>1 DEF absValue, absHolders, absQueue, Listed
<1> QED BY <1>1, <1>2, <1>3 DEF View

LEMMA ViewedNext == SemBase' => View'
BY Viewed, PTL

-----------------------------------------------------------------------------
(***************************************************************************)
(* A step that touches the block of one semaphore, of number n when it is  *)
(* listed, changes the abstract state at that number alone.                *)
(***************************************************************************)
Touches(s, n) ==
  /\ s \in SEM
  /\ s \in Elements(semaphores_list) => sem[s].id = n
  /\ s \in Elements(semaphores_list') => sem'[s].id = n
  /\ \A t \in SEM \ {s} : /\ sem'[t] = sem[t] /\ Waiters(t)' = Waiters(t)
                          /\ t \in Elements(semaphores_list')
                               <=> t \in Elements(semaphores_list)

OtherNamesAlone(n) ==
  /\ LiveIds' \ {n} = LiveIds \ {n}
  /\ \A m \in SemNums \ {n} : /\ absValue'[m] = absValue[m]
                              /\ absHolders'[m] = absHolders[m]
                              /\ absQueue'[m] = absQueue[m]

LEMMA TouchedOne ==
  ASSUME SemBase, SemBase', NEW n \in SemNums, NEW s, Touches(s, n)
  PROVE  OtherNamesAlone(n)
<1>1. Elements(semaphores_list) \subseteq SEM /\ Elements(semaphores_list') \subseteq SEM
  <2>1. semaphores_list \in Seq(SEM) /\ semaphores_list' \in Seq(SEM)
    BY DEF SemBase, SemTypeOK
  <2> QED BY <2>1, ElementOfSeq DEF Elements
<1>2. View /\ View'
  BY Viewed, ViewedNext
<1>3. ASSUME NEW t \in Elements(semaphores_list), sem[t].id # n
      PROVE  /\ t \in Elements(semaphores_list') /\ sem'[t].id = sem[t].id
             /\ Units(t)' = Units(t) /\ Holders(t)' = Holders(t) /\ Waiters(t)' = Waiters(t)
  <2>1. t \in SEM \ {s}
    BY <1>1, <1>3 DEF Touches
  <2>2. /\ sem'[t] = sem[t] /\ Waiters(t)' = Waiters(t) /\ t \in Elements(semaphores_list')
    BY <1>3, <2>1 DEF Touches
  <2>3. Holders(t) = Len(sem[t].descriptors) /\ Holders(t)' = Len(sem'[t].descriptors)
    BY <2>1 DEF SemBase, EntryPerOpen, Holders
  <2> QED BY <2>2, <2>3 DEF Units
<1>4. ASSUME NEW t \in Elements(semaphores_list'), sem'[t].id # n
      PROVE  t \in Elements(semaphores_list) /\ sem'[t].id = sem[t].id
  <2>1. t \in SEM \ {s}
    BY <1>1, <1>4 DEF Touches
  <2> QED BY <1>4, <2>1 DEF Touches
<1>5. LiveIds' \ {n} = LiveIds \ {n}
  BY <1>3, <1>4 DEF LiveIds
<1>6. ASSUME NEW m \in SemNums \ {n}
      PROVE  /\ absValue'[m] = absValue[m] /\ absHolders'[m] = absHolders[m]
             /\ absQueue'[m] = absQueue[m]
  <2>1. CASE m \in LiveIds
    <3>1. PICK t \in Elements(semaphores_list) : sem[t].id = m
      BY <2>1 DEF LiveIds
    <3>2. /\ t \in Elements(semaphores_list') /\ sem'[t].id = m
          /\ Units(t)' = Units(t) /\ Holders(t)' = Holders(t) /\ Waiters(t)' = Waiters(t)
      BY <1>3, <3>1
    <3>3. absValue[m] = Units(t) /\ absHolders[m] = Holders(t) /\ absQueue[m] = Waiters(t)
      BY <1>2, <3>1 DEF View
    <3>4. /\ absValue'[m] = Units(t)' /\ absHolders'[m] = Holders(t)'
          /\ absQueue'[m] = Waiters(t)'
      BY <1>2, <3>2 DEF View
    <3> QED BY <3>2, <3>3, <3>4
  <2>2. CASE m \notin LiveIds
    <3>1. m \notin LiveIds'
      BY <1>5, <2>2
    <3> QED BY <1>2, <2>2, <3>1 DEF View
  <2> QED BY <2>1, <2>2
<1> QED BY <1>5, <1>6 DEF OtherNamesAlone

(* So the abstract functions change at that number alone.                  *)
LEMMA NamedChanges ==
  ASSUME SemBase, SemBase', NEW n \in SemNums, OtherNamesAlone(n)
  PROVE  /\ absValue' = [absValue EXCEPT ![n] = absValue'[n]]
         /\ absHolders' = [absHolders EXCEPT ![n] = absHolders'[n]]
         /\ absQueue' = [absQueue EXCEPT ![n] = absQueue'[n]]
<1>1. /\ absValue = [m \in SemNums |-> absValue[m]]
      /\ absHolders = [m \in SemNums |-> absHolders[m]]
      /\ absQueue = [m \in SemNums |-> absQueue[m]]
  BY Viewed DEF View
<1>2. /\ absValue' = [m \in SemNums |-> absValue'[m]]
      /\ absHolders' = [m \in SemNums |-> absHolders'[m]]
      /\ absQueue' = [m \in SemNums |-> absQueue'[m]]
  BY ViewedNext DEF View
<1>3. \A m \in SemNums \ {n} : /\ absValue'[m] = absValue[m]
                               /\ absHolders'[m] = absHolders[m]
                               /\ absQueue'[m] = absQueue[m]
  BY DEF OtherNamesAlone
<1>4. absValue' = [absValue EXCEPT ![n] = absValue'[n]]
  BY <1>1, <1>2, <1>3
<1>5. absHolders' = [absHolders EXCEPT ![n] = absHolders'[n]]
  BY <1>1, <1>2, <1>3
<1>6. absQueue' = [absQueue EXCEPT ![n] = absQueue'[n]]
  BY <1>1, <1>2, <1>3
<1> QED BY <1>4, <1>5, <1>6

(* A semaphore that is listed, as its number sees it.                      *)
ListedView ==
  \A s \in Elements(semaphores_list), n \in SemNums : sem[s].id = n =>
    /\ n \in LiveIds
    /\ absValue[n] = Units(s)
    /\ absHolders[n] = Len(sem[s].descriptors)
    /\ absQueue[n] = Waiters(s)

LEMMA ListedViewed == SemBase => ListedView
<1> SUFFICES ASSUME SemBase, NEW s \in Elements(semaphores_list), NEW n \in SemNums,
                    sem[s].id = n
             PROVE  /\ n \in LiveIds
                    /\ absValue[n] = Units(s)
                    /\ absHolders[n] = Len(sem[s].descriptors)
                    /\ absQueue[n] = Waiters(s)
  BY DEF ListedView
<1>1. s \in SEM
  BY DescriptorTypes
<1>2. Holders(s) = Len(sem[s].descriptors)
  BY <1>1 DEF SemBase, EntryPerOpen, Holders
<1> QED BY <1>2, Viewed DEF View

LEMMA ListedViewNext == SemBase' => ListedView'
BY ListedViewed, PTL

(* The semaphore of a call that passes the checks is one of them, and open.*)
LEMMA CallView ==
  ASSUME SemAssumption, SemBase, UserMode, NEW n \in SemNums, Usable(n), NEW s, s = Found(n)
  PROVE  /\ s \in SEM /\ s \in Elements(semaphores_list) /\ sem[s].id = n
         /\ n \in LiveIds /\ running \in PCB
         /\ absValue[n] = Units(s) /\ absQueue[n] = Waiters(s)
         /\ absHolders[n] = Len(sem[s].descriptors)
         /\ absHolders[n] \in Nat /\ absHolders[n] > 0
<1>1. /\ s \in SEM /\ s \in Elements(semaphores_list) /\ sem[s].id = n
      /\ running \in PCB
  BY Lookup DEF UserMode
<1>2. /\ n \in LiveIds
      /\ absValue[n] = Units(s) /\ absQueue[n] = Waiters(s)
      /\ absHolders[n] = Len(sem[s].descriptors)
  BY <1>1, ListedViewed DEF ListedView
<1>3. Mine(n) \in OpenOn(s)
  BY Lookup DEF OpenOn, Open, UserMode
<1>4. IsFiniteSet(OpenOn(s))
  BY OpenFinite DEF SemBase
<1>5. Cardinality(OpenOn(s)) \in Nat /\ Cardinality(OpenOn(s)) # 0
  BY <1>3, <1>4, FS_CardinalityType, FS_EmptySet
<1>6. Len(sem[s].descriptors) = Cardinality(OpenOn(s))
  BY <1>1 DEF SemBase, EntryPerOpen
<1> QED BY <1>1, <1>2, <1>5, <1>6

(* A step that changes the block of that semaphore and no list of blocks.  *)
LEMMA CallViewNext ==
  ASSUME SemBase, SemBase', NEW n \in SemNums, NEW s \in SEM,
         s \in Elements(semaphores_list), sem[s].id = n,
         UNCHANGED semaphores_list, sem'[s].id = n,
         \A t \in SEM \ {s} : sem'[t] = sem[t] /\ Waiters(t)' = Waiters(t)
  PROVE  /\ LiveIds' = LiveIds
         /\ absValue' = [absValue EXCEPT ![n] = Units(s)']
         /\ absHolders' = [absHolders EXCEPT ![n] = Len(sem'[s].descriptors)]
         /\ absQueue' = [absQueue EXCEPT ![n] = Waiters(s)']
<1>1. Touches(s, n)
  BY DEF Touches
<1>2. OtherNamesAlone(n)
  BY <1>1, TouchedOne
<1>3. /\ n \in LiveIds' /\ absValue'[n] = Units(s)'
      /\ absHolders'[n] = Len(sem'[s].descriptors) /\ absQueue'[n] = Waiters(s)'
  BY ListedViewNext DEF ListedView
<1>4. n \in LiveIds
  BY ListedViewed DEF ListedView
<1>5. LiveIds' = LiveIds
  <2>1. LiveIds' \ {n} = LiveIds \ {n} /\ n \in LiveIds' /\ n \in LiveIds
    BY <1>2, <1>3, <1>4 DEF OtherNamesAlone
  <2> HIDE DEF LiveIds
  <2>2. ASSUME NEW m PROVE m \in LiveIds' <=> m \in LiveIds
    BY <2>1
  <2> QED BY <2>2
<1> QED BY <1>2, <1>3, <1>5, NamedChanges

-----------------------------------------------------------------------------
(***************************************************************************)
(* semWait and semPost that change the count alone.                        *)
(***************************************************************************)
LEMMA CountView ==
  ASSUME SemAssumption, SemBase, SemBase', NEW n \in SemNums, SemWaitPass(n) \/ SemPostStore(n),
         NEW s \in SEM, s \in Elements(semaphores_list), sem[s].id = n, NEW c \in Int,
         sem' = [sem EXCEPT ![s].count = c], UNCHANGED semaphores_list
  PROVE  /\ UNCHANGED <<LiveIds, absHolders, absQueue>>
         /\ absValue' = [absValue EXCEPT ![n] = IF c > 0 THEN c ELSE 0]
<1>1. /\ sem'[s] = [sem[s] EXCEPT !.count = c]
      /\ \A t \in SEM \ {s} : sem'[t] = sem[t]
  BY DescriptorTypes
<1>2. sem[s] \in [id : Int, count : Int, descriptors : Seq(SD), waiting_descriptors : Seq(SD)]
  BY DescriptorTypes
<1>3. sem'[s].id = n /\ sem'[s].descriptors = sem[s].descriptors /\ sem'[s].count = c
  BY <1>1, <1>2
<1>4. \A t \in SEM : Waiters(t)' = Waiters(t)
  BY CountQueues DEF QueuesStay
<1>5. Units(s)' = IF c > 0 THEN c ELSE 0
  BY <1>3 DEF Units
<1>6. /\ LiveIds' = LiveIds
      /\ absValue' = [absValue EXCEPT ![n] = Units(s)']
      /\ absHolders' = [absHolders EXCEPT ![n] = Len(sem'[s].descriptors)]
      /\ absQueue' = [absQueue EXCEPT ![n] = Waiters(s)']
  BY <1>1, <1>3, <1>4, CallViewNext
<1>7. absHolders[n] = Len(sem[s].descriptors) /\ absQueue[n] = Waiters(s)
  BY ListedViewed DEF ListedView
<1>8. absHolders' = absHolders /\ absQueue' = absQueue
  <2>1. /\ absHolders' = [absHolders EXCEPT ![n] = absHolders[n]]
        /\ absQueue' = [absQueue EXCEPT ![n] = absQueue[n]]
    BY <1>3, <1>4, <1>6, <1>7
  <2> QED BY <2>1, Viewed DEF View
<1> QED BY <1>5, <1>6, <1>8

LEMMA PassImplements ==
  ASSUME SemAssumption, SemBase, SemBase', NEW n \in SemNums, SemWaitPass(n)
  PROVE  Abs!AbsPass(n)
<1>1. UserMode /\ Usable(n)
  BY DEF SemWaitPass, SemWaitAccepted
<1>2. PICK s : s = Found(n)
  OBVIOUS
<1>3. /\ s \in SEM /\ s \in Elements(semaphores_list) /\ sem[s].id = n
      /\ n \in LiveIds /\ running \in PCB
      /\ absValue[n] = Units(s) /\ absHolders[n] > 0
  BY <1>1, <1>2, CallView
<1>4. PICK c \in Int : c = sem[s].count
  BY <1>3, QueueTypes
<1>5. /\ ~(c - 1 < 0) /\ sem' = [sem EXCEPT ![s].count = c - 1]
      /\ UNCHANGED <<semaphores_list, running>>
  BY <1>2, <1>4 DEF SemWaitPass, MustWait, placeVars
<1>6. absValue[n] = c /\ c > 0 /\ c - 1 \in Int
  BY <1>3, <1>4, <1>5 DEF Units
<1>7. /\ UNCHANGED <<LiveIds, absHolders, absQueue>>
      /\ absValue' = [absValue EXCEPT ![n] = IF c - 1 > 0 THEN c - 1 ELSE 0]
  BY <1>3, <1>5, <1>6, CountView
<1>8. absValue' = [absValue EXCEPT ![n] = absValue[n] - 1]
  <2>1. (IF c - 1 > 0 THEN c - 1 ELSE 0) = absValue[n] - 1
    BY <1>6
  <2> QED BY <1>7, <2>1
<1> QED BY <1>3, <1>5, <1>6, <1>7, <1>8
        DEF Abs!AbsPass, OfLive, absValue, absHolders, absQueue

(* Nobody waits where a count stays from 0 up: by CountInv.                *)
LEMMA StoreImplements ==
  ASSUME SemAssumption, SemBase, SemBase', CountInv, NEW n \in SemNums, SemPostStore(n)
  PROVE  Abs!AbsStore(n)
<1>1. UserMode /\ Usable(n)
  BY DEF SemPostStore, SemPostAccepted
<1>2. PICK s : s = Found(n)
  OBVIOUS
<1>3. /\ s \in SEM /\ s \in Elements(semaphores_list) /\ sem[s].id = n
      /\ n \in LiveIds /\ running \in PCB
      /\ absValue[n] = Units(s) /\ absHolders[n] > 0 /\ absQueue[n] = Waiters(s)
  BY <1>1, <1>2, CallView
<1>4. PICK c \in Int : c = sem[s].count
  BY <1>3, QueueTypes
<1>5. /\ ~(c + 1 <= 0) /\ sem' = [sem EXCEPT ![s].count = c + 1]
      /\ UNCHANGED <<semaphores_list, running>>
  BY <1>2, <1>4 DEF SemPostStore, MustWake, placeVars
<1>6. absValue[n] = c /\ c + 1 > 0 /\ c + 1 \in Int
  BY <1>3, <1>4, <1>5 DEF Units
<1>7. /\ UNCHANGED <<LiveIds, absHolders, absQueue>>
      /\ absValue' = [absValue EXCEPT ![n] = IF c + 1 > 0 THEN c + 1 ELSE 0]
  BY <1>3, <1>5, <1>6, CountView
<1>8. absValue' = [absValue EXCEPT ![n] = absValue[n] + 1]
  BY <1>6, <1>7
<1>9. absQueue[n] = <<>>
  <2>1. Len(sem[s].waiting_descriptors) = 0
    BY <1>3, <1>4, <1>5 DEF CountInv, Owing
  <2>2. Waiters(s) \in Seq(PCB) /\ Len(Waiters(s)) = 0
    BY <1>3, <2>1, WaitersSeq
  <2> QED BY <1>3, <2>2, EmptySeq
<1> QED BY <1>3, <1>5, <1>7, <1>8, <1>9
        DEF Abs!AbsStore, OfLive, absValue, absHolders, absQueue

-----------------------------------------------------------------------------
(***************************************************************************)
(* Who waits, in the abstract queues, is blocked.                          *)
(***************************************************************************)
LEMMA QueuedBlockedView ==
  ASSUME SemBase, NEW p \in Abs!Queued
  PROVE  p \in Blocked /\ \E s \in SEM : \E i \in 1..Len(Waiters(s)) : p = Waiters(s)[i]
<1>1. PICK n \in SemNums : p \in {absQueue[n][i] : i \in 1..Len(absQueue[n])}
  BY DEF Abs!Queued, OfLive, absQueue
<1>2. PICK i \in 1..Len(absQueue[n]) : p = absQueue[n][i]
  BY <1>1
<1>3. CASE n \in LiveIds
  <2>1. PICK s \in Elements(semaphores_list) : sem[s].id = n
    BY <1>3 DEF LiveIds
  <2>2. absQueue[n] = Waiters(s) /\ s \in SEM
    BY <2>1, ListedViewed, DescriptorTypes DEF ListedView
  <2> QED BY <1>2, <2>2, WaitersSeq
<1>4. CASE n \notin LiveIds
  <2>1. absQueue[n] = <<>>
    BY <1>4, Viewed DEF View
  <2> QED BY <1>2, <2>1, EmptySeq
<1> QED BY <1>3, <1>4

(* semWait that blocks and semPost that hands off change one queue, and a  *)
(* count that says there is no unit before and after.                      *)
LEMMA QueueView ==
  ASSUME SemAssumption, SemBase, SemBase', NEW n \in SemNums,
         NEW s \in SEM, s \in Elements(semaphores_list), sem[s].id = n, NEW c \in Int, c <= 0,
         sem[s].count <= 0, UNCHANGED semaphores_list, NEW w,
         sem' = [sem EXCEPT ![s].count = c, ![s].waiting_descriptors = w],
         \A t \in SEM \ {s} : Waiters(t)' = Waiters(t)
  PROVE  /\ UNCHANGED <<LiveIds, absHolders, absValue>>
         /\ absValue[n] = 0
         /\ absQueue' = [absQueue EXCEPT ![n] = Waiters(s)']
<1>1. /\ sem'[s] = [sem[s] EXCEPT !.count = c, !.waiting_descriptors = w]
      /\ \A t \in SEM \ {s} : sem'[t] = sem[t]
  BY DescriptorTypes
<1>2. sem[s] \in [id : Int, count : Int, descriptors : Seq(SD), waiting_descriptors : Seq(SD)]
  BY DescriptorTypes
<1>3. sem'[s].id = n /\ sem'[s].descriptors = sem[s].descriptors /\ sem'[s].count = c
  BY <1>1, <1>2
<1>4. Units(s) = 0 /\ Units(s)' = 0
  BY <1>2, <1>3 DEF Units
<1>5. /\ LiveIds' = LiveIds
      /\ absValue' = [absValue EXCEPT ![n] = Units(s)']
      /\ absHolders' = [absHolders EXCEPT ![n] = Len(sem'[s].descriptors)]
      /\ absQueue' = [absQueue EXCEPT ![n] = Waiters(s)']
  <2>1. \A t \in SEM \ {s} : sem'[t] = sem[t] /\ Waiters(t)' = Waiters(t)
    BY <1>1
  <2>2. UNCHANGED semaphores_list /\ sem'[s].id = n
    BY <1>3
  <2> QED BY <2>1, <2>2, CallViewNext
<1>6. absHolders[n] = Len(sem[s].descriptors) /\ absValue[n] = Units(s)
  BY ListedViewed DEF ListedView
<1>7. absHolders' = absHolders /\ absValue' = absValue
  <2>1. /\ absHolders' = [absHolders EXCEPT ![n] = absHolders[n]]
        /\ absValue' = [absValue EXCEPT ![n] = absValue[n]]
    BY <1>3, <1>4, <1>5, <1>6
  <2> QED BY <2>1, Viewed DEF View
<1> QED BY <1>4, <1>5, <1>6, <1>7

(* The caller joins its queue; the one that runs now is in none.           *)
LEMMA BlockImplements ==
  ASSUME SchedAssumption, SemAssumption, SemBase, SemBase', NEW n \in SemNums,
         SemWaitBlock(n)
  PROVE  Abs!AbsBlock(n)
<1>1. UserMode /\ Usable(n)
  BY DEF SemWaitBlock, SemWaitAccepted
<1>2. PICK s : s = Found(n)
  OBVIOUS
<1>3. /\ s \in SEM /\ s \in Elements(semaphores_list) /\ sem[s].id = n
      /\ n \in LiveIds /\ running \in PCB
      /\ absHolders[n] > 0 /\ absQueue[n] = Waiters(s)
  BY <1>1, <1>2, CallView
<1>4. PICK c \in Int : c = sem[s].count
  BY <1>3, QueueTypes
<1>5. PICK w : w = Append(sem[s].waiting_descriptors, Mine(n))
  OBVIOUS
<1>6. /\ c - 1 < 0
      /\ sem' = [sem EXCEPT ![s].count = c - 1, ![s].waiting_descriptors = w]
      /\ UNCHANGED semaphores_list
  BY <1>2, <1>4, <1>5 DEF SemWaitBlock, MustWait
<1>7. QueueGrows(s)
  BY <1>2, <1>3, BlockQueues
<1>8. /\ UNCHANGED <<LiveIds, absHolders, absValue>>
      /\ absValue[n] = 0
      /\ absQueue' = [absQueue EXCEPT ![n] = Waiters(s)']
  <2>1. \A t \in SEM \ {s} : Waiters(t)' = Waiters(t)
    BY <1>7 DEF QueueGrows
  <2>2. c <= 0 /\ c - 1 <= 0 /\ c - 1 \in Int
    BY <1>6
  <2> QED BY <1>3, <1>4, <1>6, <2>1, <2>2, QueueView
<1>9. absQueue' = [absQueue EXCEPT ![n] = Append(absQueue[n], running)]
  BY <1>3, <1>7, <1>8 DEF QueueGrows
<1>10. running' \in PCB /\ running' # running /\ running' \notin waiting_list
  <2>1. running' = Head(ready_list) /\ ready_list # <<>> /\ ready_list \in Seq(PCB)
    BY DEF SemWaitBlock, SemBase, SchedBase, SchedTypeOK
  <2>2. running' \in Elements(ready_list) /\ running' \in PCB
    BY <2>1, HeadTailElements, ElementOfSeq
  <2> QED BY <2>2 DEF SemBase, SchedBase, PlacedOnce
<1>11. running' \notin Abs!Queued
  BY <1>10, QueuedBlockedView DEF Blocked
<1> QED BY <1>3, <1>8, <1>9, <1>10, <1>11
        DEF Abs!AbsBlock, OfLive, absValue, absHolders, absQueue

(* The head of the queue takes the processor.                              *)
LEMMA HandOffImplements ==
  ASSUME SchedAssumption, SemAssumption, SemBase, SemBase', NEW n \in SemNums, SemPostHandOff(n)
  PROVE  Abs!AbsHandOff(n)
<1>1. UserMode /\ Usable(n)
  BY DEF SemPostHandOff, SemPostAccepted
<1>2. PICK s : s = Found(n)
  OBVIOUS
<1>3. /\ s \in SEM /\ s \in Elements(semaphores_list) /\ sem[s].id = n
      /\ n \in LiveIds /\ running \in PCB /\ absQueue[n] = Waiters(s)
  BY <1>1, <1>2, CallView
<1>4. PICK c \in Int : c = sem[s].count
  BY <1>3, QueueTypes
<1>5. PICK w : w = Tail(sem[s].waiting_descriptors)
  OBVIOUS
<1>6. /\ c + 1 <= 0
      /\ sem' = [sem EXCEPT ![s].count = c + 1, ![s].waiting_descriptors = w]
      /\ UNCHANGED semaphores_list
  BY <1>2, <1>4, <1>5 DEF SemPostHandOff, MustWake
<1>7. QueueShrinks(s) /\ running' = Head(Waiters(s))
  BY <1>2, <1>3, HandOffQueues
<1>8. /\ UNCHANGED <<LiveIds, absHolders, absValue>>
      /\ absQueue' = [absQueue EXCEPT ![n] = Waiters(s)']
  <2>1. \A t \in SEM \ {s} : Waiters(t)' = Waiters(t)
    BY <1>7 DEF QueueShrinks
  <2>2. c <= 0 /\ c + 1 \in Int
    BY <1>6
  <2> QED BY <1>3, <1>4, <1>6, <2>1, <2>2, QueueView
<1>9. /\ absQueue[n] # <<>>
      /\ absQueue' = [absQueue EXCEPT ![n] = Tail(absQueue[n])]
      /\ running' = Head(absQueue[n])
  BY <1>3, <1>7, <1>8 DEF QueueShrinks
<1> QED BY <1>3, <1>8, <1>9
        DEF Abs!AbsHandOff, OfLive, absValue, absHolders, absQueue

(* The timer and the sleeps only switch to a process that waits for none.  *)
LEMMA SwitchImplements ==
  ASSUME SemBase, SemBase', UNCHANGED <<semaphores_list, sem, sem_descriptors, sd>>
  PROVE  Abs!AbsSwitch
<1>1. UNCHANGED <<LiveIds, absValue, absHolders, absQueue>>
  BY DEF LiveIds, absValue, absHolders, absQueue, SemaphoreList_byId, Units, Holders,
    Waiters, OpenOn, Open, OpenBy
<1>2. running' \in PCB \cup {NULL}
  BY DEF SemBase, SchedBase, SchedTypeOK
<1>3. ASSUME running' \in Abs!Queued PROVE FALSE
  <2>1. PICK s \in SEM : \E i \in 1..Len(Waiters(s)) : running' = Waiters(s)[i]
    BY <1>3, QueuedBlockedView
  <2>2. PICK i \in 1..Len(Waiters(s)) : running' = Waiters(s)[i]
    BY <2>1
  <2>3. /\ Waiters(s)' = Waiters(s)
        /\ Len(Waiters(s)) = Len(sem'[s].waiting_descriptors)
    BY WaitersSeq DEF Waiters
  <2>4. Waiters(s)'[i] \in waiting_list'
    BY <2>2, <2>3 DEF SemBase, QueuedBlocked
  <2> QED BY <2>2, <2>3, <2>4 DEF SemBase, SchedBase, PlacedOnce
<1> QED BY <1>1, <1>2, <1>3 DEF Abs!AbsSwitch, OfLive, absValue, absHolders, absQueue

-----------------------------------------------------------------------------
(***************************************************************************)
(* semOpen and semClose change one list of entries, and which numbers are  *)
(* listed.                                                                 *)
(***************************************************************************)
(* The block semOpen works on, before and after.                           *)
LEMMA OpenedBlock ==
  ASSUME SemAssumption, SemBase, NEW n \in SemNums, NEW c \in Int, NEW entries \in Seq(SD),
         FindOrAlloc(n, c, entries), SemOpenError(n) = 0, NEW s, s = Target(n)
  PROVE  /\ Allotted(s, entries)
         /\ sem'[s].id = n
         /\ n \in LiveIds =>
              s \in Elements(semaphores_list) /\ sem[s].id = n /\ sem'[s].count = sem[s].count
         /\ n \notin LiveIds => s \notin Elements(semaphores_list) /\ sem'[s].count = c
<1>1. Allotted(s, entries)
  <2>1. n \in Int
    BY DEF SemAssumption
  <2> QED BY <2>1, FindOrAllocFacts
<1>2. s \in SEM
  BY <1>1 DEF Allotted
<1>3. sem[s] \in [id : Int, count : Int, descriptors : Seq(SD), waiting_descriptors : Seq(SD)]
  BY <1>2, DescriptorTypes
<1>4. sem'[s] = [Semaphore_alloc(n, c) EXCEPT !.descriptors = @ \o entries]
  BY <1>2, DescriptorTypes DEF FindOrAlloc
<1>5. CASE Listed(n)
  <2>1. s = Found(n) /\ s \in Elements(semaphores_list) /\ sem[s].id = n
    BY <1>5, ListedFound DEF Target, SemBase
  <2>2. n \in LiveIds
    BY <2>1 DEF LiveIds
  <2>3. sem'[s] = [sem[s] EXCEPT !.descriptors = @ \o entries]
    BY <1>4, <1>5, <2>1 DEF Semaphore_alloc
  <2>4. sem'[s].id = n /\ sem'[s].count = sem[s].count
    BY <1>3, <2>1, <2>3
  <2> QED BY <1>1, <2>1, <2>2, <2>4
<1>6. CASE ~Listed(n)
  <2>1. s = Head(sem_free) /\ n \notin LiveIds
    BY <1>6, NotListed DEF Target, SemBase, LiveIds
  <2>2. s \notin Elements(semaphores_list)
    <3>1. sem_free # <<>>
      BY <1>6 DEF SemOpenError, TOOMUCHSEM, TOOMUCHSEMDES, SEMNUMINVALID, SEMAPHOREALLOCFAILURE
    <3>2. s \in Elements(sem_free)
      BY <2>1, <3>1, DescriptorTypes, HeadTailElements
    <3> QED BY <3>2 DEF SemBase, BlocksApart
  <2>3. sem'[s] = [[sem[s] EXCEPT !.id = n, !.count = c, !.descriptors = <<>>]
                     EXCEPT !.descriptors = @ \o entries]
    BY <1>4, <1>6, <2>1 DEF Semaphore_alloc
  <2>4. sem'[s].id = n /\ sem'[s].count = c
    BY <1>3, <2>3
  <2> QED BY <1>1, <2>1, <2>2, <2>4
<1> QED BY <1>5, <1>6

(* A number that was not listed gets a semaphore of c units, nobody waits. *)
LEMMA OpenImplements ==
  ASSUME SchedAssumption, SemAssumption, OpenCounts \subseteq Nat, SemBase, SemBase',
         NEW n \in SemNums, NEW c \in OpenCounts, SemOpenWith(n, c)
  PROVE  Abs!AbsOpen(n, c)
<1>1. PICK entries \in Seq(SD) : /\ FindOrAlloc(n, c, entries) /\ UserMode
                                 /\ SemOpenError(n) = 0 /\ Len(entries) \in {0, 1}
  BY OpenEntries
<1>2. PICK s : s = Target(n)
  OBVIOUS
<1>3. c \in Int /\ c \in Nat
  OBVIOUS
<1>4. /\ Allotted(s, entries)
      /\ sem'[s].id = n
      /\ n \in LiveIds =>
           s \in Elements(semaphores_list) /\ sem[s].id = n /\ sem'[s].count = sem[s].count
      /\ n \notin LiveIds => s \notin Elements(semaphores_list) /\ sem'[s].count = c
  BY <1>1, <1>2, <1>3, OpenedBlock
<1>5. /\ s \in SEM
      /\ \A t \in SEM \ {s} : sem'[t] = sem[t]
      /\ sem'[s].descriptors = sem[s].descriptors \o entries
      /\ Elements(semaphores_list') = Elements(semaphores_list) \cup {s}
  BY <1>4 DEF Allotted
<1>6. \A t \in SEM : Waiters(t)' = Waiters(t)
  BY OpenQueues DEF QueuesStay
<1>7. OtherNamesAlone(n)
  <2>1. s \in Elements(semaphores_list) => sem[s].id = n
    BY <1>4
  <2>2. Touches(s, n)
    BY <1>4, <1>5, <1>6, <2>1 DEF Touches
  <2> QED BY <2>2, TouchedOne
<1>8. /\ n \in LiveIds' /\ absValue'[n] = Units(s)'
      /\ absHolders'[n] = Len(sem'[s].descriptors) /\ absQueue'[n] = Waiters(s)'
  BY <1>4, <1>5, ListedViewNext DEF ListedView
<1>9. /\ Len(sem'[s].descriptors) = Len(sem[s].descriptors) + Len(entries)
      /\ Len(sem[s].descriptors) \in Nat
  <2>1. sem[s].descriptors \in Seq(SD)
    BY <1>5, QueueTypes
  <2> QED BY <1>5, <2>1, ConcatProperties, LenProperties
<1>10. /\ absValue'[n] = (IF n \in LiveIds THEN absValue[n] ELSE c)
       /\ absHolders'[n] = absHolders[n] + Len(entries)
       /\ absQueue'[n] = absQueue[n]
  <2>1. CASE n \in LiveIds
    <3>1. /\ absValue[n] = Units(s) /\ absHolders[n] = Len(sem[s].descriptors)
          /\ absQueue[n] = Waiters(s)
      BY <1>4, <2>1, ListedViewed DEF ListedView
    <3>2. Units(s)' = Units(s)
      BY <1>4, <2>1 DEF Units
    <3> QED BY <1>6, <1>5, <1>8, <1>9, <2>1, <3>1, <3>2
  <2>2. CASE n \notin LiveIds
    <3>1. absHolders[n] = 0 /\ absQueue[n] = <<>>
      BY <2>2, Viewed DEF View
    <3>2. Units(s)' = c
      BY <1>3, <1>4, <2>2 DEF Units
    <3>3. sem[s].descriptors = <<>> /\ sem[s].waiting_descriptors = <<>>
      BY <1>4, <1>5, <2>2, UnlistedEmpty
    <3>4. Len(sem[s].descriptors) = 0 /\ Len(sem[s].waiting_descriptors) = 0
      BY <3>3, EmptySeq
    <3>5. Waiters(s) = <<>>
      <4>1. Waiters(s) \in Seq(PCB) /\ Len(Waiters(s)) = 0
        BY <1>5, <3>4, WaitersSeq
      <4> QED BY <4>1, EmptySeq
    <3> QED BY <1>5, <1>6, <1>8, <1>9, <2>2, <3>1, <3>2, <3>4, <3>5
  <2> QED BY <2>1, <2>2
<1>11. /\ absValue' = [absValue EXCEPT ![n] = IF n \in LiveIds THEN absValue[n] ELSE c]
       /\ absHolders' = [absHolders EXCEPT ![n] = absHolders[n] + Len(entries)]
       /\ absQueue' = absQueue
  <2>1. /\ absValue' = [absValue EXCEPT ![n] = absValue'[n]]
        /\ absHolders' = [absHolders EXCEPT ![n] = absHolders'[n]]
        /\ absQueue' = [absQueue EXCEPT ![n] = absQueue'[n]]
    BY <1>7, NamedChanges
  <2> QED BY <1>10, <2>1, Viewed DEF View
<1>12. LiveIds' = LiveIds \cup {n}
  <2>1. LiveIds' \ {n} = LiveIds \ {n} /\ n \in LiveIds'
    BY <1>7, <1>8 DEF OtherNamesAlone
  <2> HIDE DEF LiveIds
  <2>2. ASSUME NEW m PROVE m \in LiveIds' <=> m \in LiveIds \cup {n}
    BY <2>1
  <2> QED BY <2>2
<1>13. running \in PCB /\ running' = running
  BY <1>1 DEF UserMode, SemOpenWith, SemOpenNoDescriptor, SemOpenNoPtr, SemOpenDone, Refuse,
    placeVars
<1> QED BY <1>1, <1>11, <1>12, <1>13
        DEF Abs!AbsOpen, OfLive, absValue, absHolders, absQueue

(* A block that is not listed has no waiters, before a step and after it.  *)
UnlistedWaits ==
  \A s \in SEM : s \notin Elements(semaphores_list) => sem[s].waiting_descriptors = <<>>

LEMMA UnlistedWaitsNext == SemBase' => UnlistedWaits'
<1>1. SemBase => UnlistedWaits
  BY SemAssumption, UnlistedEmpty DEF UnlistedWaits
<1> QED BY <1>1, PTL

(* The semaphore goes with its last descriptor, and nobody waits then: who *)
(* waits holds one.                                                        *)
LEMMA CloseImplements ==
  ASSUME SchedAssumption, SemAssumption, SemBase, SemBase', NEW n \in SemNums,
         SemClose(n) \/ SemCloseLast(n)
  PROVE  Abs!AbsClose(n)
<1>1. /\ UserMode /\ Usable(n) /\ EntryByFd(n) # 0
      /\ sem' = [sem EXCEPT ![Found(n)].descriptors = EntriesLeft(n)]
      /\ running' = running
  BY DEF SemClose, SemCloseLast, SemCloseAccepted, CloseDescriptor, placeVars
<1>2. PICK s : s = Found(n)
  OBVIOUS
<1>3. /\ s \in SEM /\ s \in Elements(semaphores_list) /\ sem[s].id = n
      /\ n \in LiveIds /\ running \in PCB
      /\ absValue[n] = Units(s) /\ absQueue[n] = Waiters(s)
      /\ absHolders[n] = Len(sem[s].descriptors)
      /\ absHolders[n] \in Nat /\ absHolders[n] > 0
  BY <1>1, <1>2, CallView
<1>4. sem[s] \in [id : Int, count : Int, descriptors : Seq(SD), waiting_descriptors : Seq(SD)]
  BY <1>3, DescriptorTypes
<1>5. PICK left : left = EntriesLeft(n)
  OBVIOUS
<1>6. Len(left) = absHolders[n] - 1 /\ left \in Seq(SD)
  <2>1. PICK e \in 1..Len(sem[s].descriptors) : e = EntryByFd(n)
    BY <1>1, <1>2, <1>3, EntryFound DEF EntryByFd
  <2>2. sem[s].descriptors \in Seq(SD) /\ left = Detach(sem[s].descriptors, e)
    BY <1>2, <1>4, <1>5, <2>1 DEF EntriesLeft
  <2>3. left \in Seq(SD) /\ Len(left) = Len(sem[s].descriptors) - 1
    BY <2>1, <2>2, DetachProperties
  <2> QED BY <1>3, <2>3
<1>7. /\ sem'[s] = [sem[s] EXCEPT !.descriptors = left]
      /\ \A t \in SEM \ {s} : sem'[t] = sem[t]
  BY <1>1, <1>2, <1>3, <1>5, DescriptorTypes
<1>8. /\ sem'[s].id = n /\ sem'[s].count = sem[s].count /\ sem'[s].descriptors = left
      /\ sem'[s].waiting_descriptors = sem[s].waiting_descriptors
  BY <1>3, <1>4, <1>7
<1>9. \A t \in SEM : Waiters(t)' = Waiters(t)
  BY CloseQueues DEF QueuesStay
<1>10. CASE left # <<>>
  <2>1. UNCHANGED semaphores_list
    BY <1>5, <1>10 DEF SemClose, SemCloseLast
  <2>2. /\ LiveIds' = LiveIds
        /\ absValue' = [absValue EXCEPT ![n] = Units(s)']
        /\ absHolders' = [absHolders EXCEPT ![n] = Len(sem'[s].descriptors)]
        /\ absQueue' = [absQueue EXCEPT ![n] = Waiters(s)']
    <3>1. \A t \in SEM \ {s} : sem'[t] = sem[t] /\ Waiters(t)' = Waiters(t)
      BY <1>7, <1>9
    <3> QED BY <1>3, <1>8, <2>1, <3>1, CallViewNext
  <2>3. Units(s)' = Units(s)
    BY <1>8 DEF Units
  <2>4. /\ absHolders' = [absHolders EXCEPT ![n] = absHolders[n] - 1]
        /\ absValue' = absValue /\ absQueue' = absQueue
    <3>1. /\ absValue' = [absValue EXCEPT ![n] = absValue[n]]
          /\ absQueue' = [absQueue EXCEPT ![n] = absQueue[n]]
      BY <1>3, <1>9, <2>2, <2>3
    <3> QED BY <1>6, <1>8, <2>2, <3>1, Viewed DEF View
  <2>5. absHolders[n] > 1
    <3>1. Len(left) \in Nat /\ Len(left) # 0
      BY <1>6, <1>10, LenProperties, EmptySeq
    <3>2. PICK h \in Nat : h = absHolders[n]
      BY <1>3
    <3>3. Len(left) = h - 1
      BY <1>6, <3>2
    <3>4. h > 1
      BY <3>1, <3>3
    <3> QED BY <3>2, <3>4
  <2> QED BY <1>1, <1>3, <2>2, <2>4, <2>5
          DEF Abs!AbsClose, OfLive, absValue, absHolders, absQueue
<1>11. CASE left = <<>>
  <2>1. PICK i \in 1..Len(semaphores_list) :
          semaphores_list[i] = s /\ semaphores_list' = Detach(semaphores_list, i)
    <3>1. SemaphoreList_byId(n) \in 1..Len(semaphores_list)
      BY <1>1, Lookup
    <3> QED BY <1>2, <1>5, <1>11, <3>1 DEF SemClose, SemCloseLast, Found
  <2>2. Elements(semaphores_list') = Elements(semaphores_list) \ {s}
    <3>1. semaphores_list \in Seq(SEM) /\ NoRepeat(semaphores_list)
      BY DescriptorTypes DEF SemBase, BlocksApart
    <3> QED BY <2>1, <3>1, DetachElements
  <2>3. OtherNamesAlone(n)
    <3>1. Touches(s, n)
      BY <1>3, <1>7, <1>9, <2>2 DEF Touches
    <3> QED BY <3>1, TouchedOne
  <2>4. n \notin LiveIds'
    <3>1. SUFFICES ASSUME NEW t \in Elements(semaphores_list'), sem'[t].id = n PROVE FALSE
      BY DEF LiveIds
    <3>2. t \in Elements(semaphores_list) /\ t \in SEM \ {s}
      BY <2>2, DescriptorTypes
    <3>3. sem[t].id = n
      BY <1>7, <3>1, <3>2
    <3> QED BY <1>3, <3>2, <3>3 DEF SemBase, UniqueIds
  <2>5. absValue'[n] = 0 /\ absHolders'[n] = 0 /\ absQueue'[n] = <<>>
    BY <2>4, ViewedNext DEF View
  <2>6. absHolders[n] = 1
    <3>1. Len(left) = 0
      BY <1>11, EmptySeq
    <3> QED BY <1>3, <1>6, <3>1
  <2>7. absQueue[n] = <<>>
    <3>1. sem'[s].waiting_descriptors = <<>>
      <4>1. s \notin Elements(semaphores_list')
        BY <2>2
      <4> QED BY <1>3, <4>1, UnlistedWaitsNext DEF UnlistedWaits
    <3>2. Waiters(s) \in Seq(PCB) /\ Len(Waiters(s)) = 0
      BY <1>3, <1>8, <3>1, WaitersSeq, EmptySeq
    <3> QED BY <1>3, <3>2, EmptySeq
  <2>8. /\ absValue' = [absValue EXCEPT ![n] = 0]
        /\ absHolders' = [absHolders EXCEPT ![n] = absHolders[n] - 1]
        /\ absQueue' = absQueue
    <3>1. /\ absValue' = [absValue EXCEPT ![n] = 0]
          /\ absHolders' = [absHolders EXCEPT ![n] = 0]
          /\ absQueue' = [absQueue EXCEPT ![n] = absQueue[n]]
      BY <2>3, <2>5, <2>7, NamedChanges
    <3> QED BY <2>6, <3>1, Viewed DEF View
  <2>9. LiveIds' = LiveIds \ {n}
    <3>1. LiveIds' \ {n} = LiveIds \ {n} /\ n \notin LiveIds'
      BY <2>3, <2>4 DEF OtherNamesAlone
    <3> HIDE DEF LiveIds
    <3>2. ASSUME NEW m PROVE m \in LiveIds' <=> m \in LiveIds \ {n}
      BY <3>1
    <3> QED BY <3>2
  <2> QED BY <1>1, <1>3, <2>6, <2>7, <2>8, <2>9
          DEF Abs!AbsClose, OfLive, absValue, absHolders, absQueue
<1> QED BY <1>10, <1>11

-----------------------------------------------------------------------------
(* The kernel starts with a process that runs and no semaphore.            *)
LEMMA TablesImplement ==
  ASSUME SemBase, SemTablesInit, running \in PCB
  PROVE  Abs!AbsInit
<1>1. semaphores_list = <<>> /\ Len(semaphores_list) = 0
  BY EmptySeq DEF SemTablesInit
<1>2. LiveIds = {}
  BY <1>1 DEF LiveIds, Elements
<1>3. /\ absValue = [n \in SemNums |-> 0]
      /\ absHolders = [n \in SemNums |-> 0]
      /\ absQueue = [n \in SemNums |-> <<>>]
  BY <1>2, Viewed DEF View
<1> QED BY <1>2, <1>3 DEF Abs!AbsInit, OfLive, absValue, absHolders, absQueue

LEMMA InitImplements == SemInit => Abs!AbsInit
<1> SUFFICES ASSUME SemInit PROVE Abs!AbsInit
  OBVIOUS
<1>1. SemTablesInit /\ running \in PCB
  BY SchedAssumption DEF SemInit, SchedInit
<1>2. SemBase
  BY SchedAssumption, SemAssumption, SemInitInv DEF SemInv
<1> QED BY <1>1, <1>2, TablesImplement

(* A step that leaves the semaphores and the running process alone.        *)
LEMMA StutterImplements ==
  ASSUME UNCHANGED <<semVars, running>>
  PROVE  UNCHANGED Abs!absVars
BY DEF Abs!absVars, OfLive, semVars, LiveIds, SemaphoreList_byId, Units, Holders, Waiters,
  OpenOn, Open, OpenBy

(* Every call is a step of the abstract semaphores or none.                *)
LEMMA SemCallImplements ==
  ASSUME SchedAssumption, SemAssumption, OpenCounts \subseteq Nat, SemBase, SemBase', CountInv,
         CountInv', SemCall
  PROVE  [Abs!AbsNext]_(Abs!absVars)
<1>1. ASSUME UNCHANGED <<semVars, running>> PROVE UNCHANGED Abs!absVars
  BY <1>1, StutterImplements
<1>2. CASE SemCall
  <2>1. PICK n \in SemNums : \/ SemOpenStep(n) \/ SemCloseStep(n)
                             \/ SemWaitStep(n) \/ SemPostStep(n)
    BY <1>2 DEF SemCall
  <2>3. CASE SemOpenStep(n)
    <3>1. CASE SemOpenRefused(n)
      BY <1>1, <3>1 DEF SemOpenRefused, Refuse, placeVars
    <3>2. ASSUME NEW c \in OpenCounts, SemOpenWith(n, c) PROVE Abs!AbsNext
      BY <3>2, OpenImplements DEF Abs!AbsNext
    <3> QED BY <2>3, <3>1, <3>2 DEF SemOpenStep
  <2>4. CASE SemCloseStep(n)
    <3>1. CASE SemCloseRefused(n)
      BY <1>1, <3>1 DEF SemCloseRefused, SemPostRefused, Refuse, placeVars
    <3>2. CASE SemClose(n) \/ SemCloseLast(n)
      BY <3>2, CloseImplements DEF Abs!AbsNext
    <3> QED BY <2>4, <3>1, <3>2 DEF SemCloseStep
  <2>5. CASE SemWaitStep(n)
    <3>1. CASE SemWaitRefused(n) \/ SemWaitNoPtr(n) \/ SemWaitNoReady(n)
      BY <1>1, <3>1 DEF SemWaitRefused, SemWaitNoPtr, SemWaitNoReady, Refuse, Crash, placeVars
    <3>2. CASE SemWaitPass(n)
      BY <3>2, PassImplements DEF Abs!AbsNext
    <3>3. CASE SemWaitBlock(n)
      BY <3>3, BlockImplements DEF Abs!AbsNext
    <3> QED BY <2>5, <3>1, <3>2, <3>3 DEF SemWaitStep
  <2>6. CASE SemPostStep(n)
    <3>1. CASE SemPostRefused(n)
      BY <1>1, <3>1 DEF SemPostRefused, Refuse, placeVars
    <3>2. CASE SemPostStore(n)
      BY <3>2, StoreImplements DEF Abs!AbsNext
    <3>3. CASE SemPostHandOff(n)
      BY <3>3, HandOffImplements DEF Abs!AbsNext
    <3>4. CASE SemPostNoWaiter(n)
      BY <1>1, <3>4 DEF SemPostNoWaiter, Crash, placeVars
    <3> QED BY <2>6, <3>1, <3>2, <3>3, <3>4 DEF SemPostStep
  <2> QED BY <2>1, <2>3, <2>4, <2>5, <2>6
<1> QED BY <1>2

(* So is every step of the kernel.                                         *)
LEMMA StepImplements ==
  ASSUME SchedAssumption, SemAssumption, OpenCounts \subseteq Nat, SemBase, SemBase', CountInv,
         CountInv', [SemNext]_semAll
  PROVE  [Abs!AbsNext]_(Abs!absVars)
<1>1. CASE SemCall
  BY <1>1, SemCallImplements
<1>2. CASE SchedNext /\ UNCHANGED semVars
  BY <1>2, SwitchImplements DEF Abs!AbsNext, semVars
<1>3. CASE UNCHANGED semAll
  <2>1. UNCHANGED <<semVars, running>>
    BY <1>3 DEF semAll, schedVars, placeVars
  <2> QED BY <2>1, StutterImplements
<1> QED BY <1>1, <1>2, <1>3 DEF SemNext

(* The four handlers implement the abstract counting semaphores, whatever  *)
(* the programs call and whenever the timer switches, as long as none of   *)
(* them opens a semaphore with less than 0.                                *)
THEOREM SemaphoresImplement ==
  ASSUME OpenCounts \subseteq Nat
  PROVE  SemSpec => SemRefines
<1> USE SchedAssumption, SemAssumption
<1>1. SemBase /\ SemBase' /\ CountInv /\ CountInv' /\ [SemNext]_semAll
        => [Abs!AbsNext]_(Abs!absVars)
  BY StepImplements
<1> QED BY <1>1, InitImplements, CountInvariant, PTL DEF SemSpec, SemRefines, Abs!AbsSpec
=============================================================================
