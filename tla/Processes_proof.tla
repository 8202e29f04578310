-------------------------- MODULE Processes_proof --------------------------
(***************************************************************************)
(* Proofs about module Processes: where the PCBs are, whose children they  *)
(* are, what wait and exit find when they look for each other, and what    *)
(* becomes of the blocks of the two pools.                                 *)
(***************************************************************************)
EXTENDS Processes, Scheduler_proof, FiniteSetTheorems, FunctionTheorems

(***************************************************************************)
(* The scan of the timer list in exit finds nothing: a process that exits  *)
(* runs, and only processes that wait have timers.                         *)
(***************************************************************************)
LEMMA NoTimerToRelease ==
  ASSUME timer_list \in Seq(Timers), NEW p, p \notin Sleepers
  PROVE  TimersWithout(p) = timer_list
<1> DEFINE n == Len(timer_list)
           kept[i \in 0..n] ==
             IF i = 0 THEN <<>>
             ELSE IF timer_list[i].pcb = p THEN kept[i - 1]
             ELSE Append(kept[i - 1], timer_list[i])
           prefix == [i \in 0..n |-> SubSeq(timer_list, 1, i)]
<1>1. n \in Nat /\ \A i \in 1..n : timer_list[i] \in Timers /\ timer_list[i].pcb # p
  BY LenProperties, ElementOfSeq DEF Sleepers
<1>2. \A i \in 1..n : SubSeq(timer_list, 1, i) = Append(SubSeq(timer_list, 1, i - 1), timer_list[i])
  <2> SUFFICES ASSUME NEW i \in 1..n
               PROVE  SubSeq(timer_list, 1, i) = Append(SubSeq(timer_list, 1, i - 1), timer_list[i])
    OBVIOUS
  <2> QED  BY <1>1
<1>3. SubSeq(timer_list, 1, 0) = <<>> /\ SubSeq(timer_list, 1, n) = timer_list
  BY <1>1
<1>4. prefix = [i \in 0..n |->
                  IF i = 0 THEN <<>>
                  ELSE IF timer_list[i].pcb = p THEN prefix[i - 1]
                  ELSE Append(prefix[i - 1], timer_list[i])]
  <2> SUFFICES ASSUME NEW i \in 0..n
               PROVE  prefix[i] = IF i = 0 THEN <<>>
                                  ELSE IF timer_list[i].pcb = p THEN prefix[i - 1]
                                  ELSE Append(prefix[i - 1], timer_list[i])
    BY Zenon
  <2>1. i # 0 => i \in 1..n /\ i - 1 \in 0..n
    BY <1>1
  <2> QED  BY <2>1, <1>1, <1>2, <1>3
<1>5. kept = [i \in 0..n |->
                IF i = 0 THEN <<>>
                ELSE IF timer_list[i].pcb = p THEN kept[i - 1]
                ELSE Append(kept[i - 1], timer_list[i])]
  BY <1>4, Zenon
<1> HIDE DEF kept
<1>6. \A i \in 0..n : kept[i] = prefix[i]
  <2> DEFINE Wrong == {i \in 0..n : kept[i] # prefix[i]}
  <2> SUFFICES ASSUME Wrong # {}  PROVE FALSE
    OBVIOUS
  <2>1. Wrong \in SUBSET Nat
    BY <1>1
  <2>2. PICK i \in Wrong : \A j \in Wrong : i <= j
    BY <2>1, MinExists
  <2>3. i \in 0..n
    BY <2>2
  <2>4. i - 1 \notin Wrong
    <3> HIDE DEF Wrong, n
    <3> QED  BY <1>1, <2>2, <2>3
  <2>5. i # 0 => i \in 1..n /\ i - 1 \in 0..n /\ i - 1 \notin Wrong
    BY <1>1, <2>3, <2>4
  <2>6. i = 0 \/ kept[i - 1] = prefix[i - 1]
    BY <2>5
  <2>7. prefix[i] = IF i = 0 THEN <<>> ELSE Append(prefix[i - 1], timer_list[i])
    BY <1>1, <1>2, <1>3, <2>2, <2>5
  <2>8. kept[i] = IF i = 0 THEN <<>> ELSE Append(kept[i - 1], timer_list[i])
    BY <1>1, <1>5, <2>2, <2>5
  <2> QED  BY <2>2, <2>6, <2>7, <2>8
<1>7. kept[n] = timer_list
  BY <1>1, <1>3, <1>6
<1> QED  BY <1>7 DEF TimersWithout, kept

-----------------------------------------------------------------------------
(***************************************************************************)
(* Lists of children.  A forest gives every process a list of children,    *)
(* and no process is on two of them or twice on one.                       *)
(***************************************************************************)
KidsOf(lists) == UNION {Elements(lists[p]) : p \in PCB}

Forest(lists) ==
  /\ lists \in [PCB -> Seq(PCB)]
  /\ \A p \in PCB : NoRepeat(lists[p])
  /\ \A p, q \in PCB : p # q => Elements(lists[p]) \cap Elements(lists[q]) = {}

(***************************************************************************)
(* The three ways a handler changes the lists: a new child at the end of   *)
(* p's list; the item at position i off p's list; all of p's list to q's.  *)
(***************************************************************************)
Adopts(lists, after, p, c) ==
  /\ after \in [PCB -> Seq(PCB)]
  /\ after[p] = Append(lists[p], c)
  /\ \A q \in PCB \ {p} : after[q] = lists[q]

Separates(lists, after, p, i) ==
  /\ after \in [PCB -> Seq(PCB)]
  /\ after[p] = Detach(lists[p], i)
  /\ \A q \in PCB \ {p} : after[q] = lists[q]

Inherits(lists, after, p, q) ==
  /\ after \in [PCB -> Seq(PCB)]
  /\ after[p] = <<>>
  /\ after[q] = lists[q] \o lists[p]
  /\ \A r \in PCB \ {p, q} : after[r] = lists[r]

ListItems(lists) == UNION {{p} \X (1..Len(lists[p])) : p \in PCB}

(* The children are finitely many.                                         *)
LEMMA KidsFinite ==
  ASSUME SchedAssumption, NEW lists \in [PCB -> Seq(PCB)]
  PROVE  /\ KidsOf(lists) \subseteq PCB
         /\ IsFiniteSet(KidsOf(lists))
         /\ Cardinality(KidsOf(lists)) \in Nat
<1>1. KidsOf(lists) \subseteq PCB
  <2> SUFFICES ASSUME NEW p \in PCB, NEW i \in 1..Len(lists[p])
               PROVE  lists[p][i] \in PCB
    BY DEF KidsOf, Elements
  <2> QED  BY ElementOfSeq, LenProperties
<1>2. IsFiniteSet(PCB)
  BY FS_Interval DEF PCB, SchedAssumption
<1>3. IsFiniteSet(KidsOf(lists))
  BY <1>1, <1>2, FS_Subset
<1> QED  BY <1>1, <1>3, FS_CardinalityType

(* In a forest there are as many list items as children.                   *)
LEMMA ItemsAreKids ==
  ASSUME SchedAssumption, NEW lists, Forest(lists)
  PROVE  /\ Cardinality(ListItems(lists)) = Cardinality(KidsOf(lists))
         /\ Cardinality(KidsOf(lists)) \in Nat
<1> DEFINE I == ListItems(lists)
           K == KidsOf(lists)
           f == [x \in I |-> lists[x[1]][x[2]]]
<1>1. /\ \A p \in PCB : lists[p] \in Seq(PCB)
      /\ IsFiniteSet(K) /\ Cardinality(K) \in Nat
  BY KidsFinite DEF Forest
<1>2. \A x \in I : x[1] \in PCB /\ x[2] \in 1..Len(lists[x[1]]) /\ x = <<x[1], x[2]>>
  BY DEF ListItems
<1>3. \A x \in I : f[x] \in Elements(lists[x[1]])
  BY <1>2 DEF Elements
<1>4. f \in [I -> K]
  BY <1>2, <1>3 DEF KidsOf
<1>5. ASSUME NEW x \in I, NEW y \in I, f[x] = f[y]
      PROVE  x = y
  <2>1. x[1] = y[1]
    BY <1>2, <1>3, <1>5 DEF Forest
  <2>2. x[2] = y[2]
    BY <2>1, <1>2, <1>5 DEF Forest, NoRepeat
  <2> QED  BY <1>2, <2>1, <2>2
<1>6. ASSUME NEW c \in K
      PROVE  \E x \in I : f[x] = c
  <2>1. PICK p \in PCB : c \in Elements(lists[p])
    BY DEF KidsOf
  <2>2. PICK i \in 1..Len(lists[p]) : c = lists[p][i]
    BY <2>1 DEF Elements
  <2>3. <<p, i>> \in I
    BY DEF ListItems
  <2> QED  BY <2>2, <2>3
<1>7. f \in Bijection(I, K)
  <2> HIDE DEF f, I, K
  <2> QED  BY <1>4, <1>5, <1>6, Fun_IsBij
<1>8. Inverse(f, I, K) \in Bijection(K, I)
  BY <1>7, Fun_BijInverse
<1>9. ExistsBijection(K, I)
  BY <1>8, Fun_ExistsBij
<1> QED  BY <1>1, <1>9, FS_Bijection

(* A process without a list of its own becomes a child of p.               *)
LEMMA Adoption ==
  ASSUME SchedAssumption, NEW lists, Forest(lists), NEW p \in PCB, NEW c \in PCB,
         c \notin KidsOf(lists),
         NEW after, Adopts(lists, after, p, c)
  PROVE  /\ Forest(after)
         /\ \A q \in PCB : Elements(after[q]) = IF q = p THEN Elements(lists[p]) \cup {c}
                                                       ELSE Elements(lists[q])
         /\ after[p] # <<>>
         /\ KidsOf(after) = KidsOf(lists) \cup {c}
         /\ Cardinality(KidsOf(after)) = Cardinality(KidsOf(lists)) + 1
<1> USE DEF Adopts
<1>1. lists \in [PCB -> Seq(PCB)]
  BY DEF Forest
<1>2. c \notin Elements(lists[p]) /\ lists[p] \in Seq(PCB)
  BY <1>1 DEF KidsOf
<1>3. /\ Append(lists[p], c) \in Seq(PCB)
      /\ Elements(Append(lists[p], c)) = Elements(lists[p]) \cup {c}
      /\ NoRepeat(Append(lists[p], c))
  BY <1>2, AppendElements DEF Forest
<1>4. \A q \in PCB : Elements(after[q]) = IF q = p THEN Elements(lists[p]) \cup {c}
                                                 ELSE Elements(lists[q])
  BY <1>3
<1>5. \A q \in PCB : c \notin Elements(lists[q])
  BY DEF KidsOf
<1>6. Forest(after)
  <2>1. after \in [PCB -> Seq(PCB)] /\ \A q \in PCB : NoRepeat(after[q])
    BY <1>1, <1>3 DEF Forest
  <2>2. ASSUME NEW q \in PCB, NEW r \in PCB, q # r
        PROVE  Elements(after[q]) \cap Elements(after[r]) = {}
    <3>1. Elements(lists[q]) \cap Elements(lists[r]) = {}
      BY <2>2 DEF Forest
    <3> QED  BY <1>4, <1>5, <2>2, <3>1
  <2> QED  BY <2>1, <2>2 DEF Forest
<1>7. KidsOf(after) = KidsOf(lists) \cup {c}
  <2>1. \A x : x \in KidsOf(after) <=> \E q \in PCB : x \in Elements(after[q])
    BY DEF KidsOf
  <2>2. \A x : x \in KidsOf(lists) <=> \E q \in PCB : x \in Elements(lists[q])
    BY DEF KidsOf
  <2>3. \A x : x \in Elements(lists[p]) => \E q \in PCB : x \in Elements(lists[q])
    OBVIOUS
  <2>4. KidsOf(after) \subseteq KidsOf(lists) \cup {c}
    BY <1>4, <2>1, <2>2
  <2>5. c \in KidsOf(after)
    BY <1>4, <2>1
  <2>6. KidsOf(lists) \subseteq KidsOf(after)
    BY <1>4, <2>1, <2>2
  <2> QED  BY <2>4, <2>5, <2>6
<1>8. Cardinality(KidsOf(after)) = Cardinality(KidsOf(lists)) + 1
  BY <1>1, <1>7, KidsFinite, FS_AddElement
<1>9. after[p] # <<>>
  <2>1. Elements(<<>>) = {}
    BY EmptySeq DEF Elements
  <2> QED  BY <1>4, <2>1
<1> QED  BY <1>4, <1>6, <1>7, <1>8, <1>9

(* The item at position i leaves the list of p.                            *)
LEMMA Separation ==
  ASSUME SchedAssumption, NEW lists, Forest(lists), NEW p \in PCB, NEW i \in 1..Len(lists[p]),
         NEW after, Separates(lists, after, p, i)
  PROVE  /\ Forest(after)
         /\ lists[p][i] \in PCB /\ lists[p][i] \in Elements(lists[p])
         /\ \A x : \A q \in PCB :
              x \in Elements(after[q]) <=> x \in Elements(lists[q]) /\ x # lists[p][i]
         /\ KidsOf(after) = KidsOf(lists) \ {lists[p][i]}
         /\ Cardinality(KidsOf(after)) = Cardinality(KidsOf(lists)) - 1
<1> DEFINE c == lists[p][i]
<1> USE DEF Separates
<1>1. lists \in [PCB -> Seq(PCB)] /\ lists[p] \in Seq(PCB)
  BY DEF Forest
<1>2. c \in Elements(lists[p]) /\ c \in PCB
  BY <1>1, ElementOfSeq, LenProperties DEF Elements
<1> HIDE DEF c
<1>3. /\ Detach(lists[p], i) \in Seq(PCB)
      /\ Elements(Detach(lists[p], i)) = Elements(lists[p]) \ {c}
      /\ NoRepeat(Detach(lists[p], i))
  BY <1>1, DetachProperties, DetachElements DEF Forest, c
<1>4. \A q \in PCB \ {p} : c \notin Elements(lists[q])
  BY <1>2 DEF Forest
<1>5. \A q \in PCB : Elements(after[q]) = Elements(lists[q]) \ {c}
  BY <1>3, <1>4
<1>6. Forest(after)
  BY <1>1, <1>3, <1>5 DEF Forest
<1>7. KidsOf(after) = KidsOf(lists) \ {c}
  <2>1. \A x : x \in KidsOf(after) <=> \E q \in PCB : x \in Elements(after[q])
    BY DEF KidsOf
  <2>2. \A x : x \in KidsOf(lists) <=> \E q \in PCB : x \in Elements(lists[q])
    BY DEF KidsOf
  <2> QED  BY <1>5, <2>1, <2>2
<1>8. c \in KidsOf(lists)
  BY <1>2 DEF KidsOf
<1>9. Cardinality(KidsOf(after)) = Cardinality(KidsOf(lists)) - 1
  BY <1>1, <1>7, <1>8, KidsFinite, FS_RemoveElement
<1> QED  BY <1>2, <1>5, <1>6, <1>7, <1>9 DEF c

(* The children of p go to the end of the list of q.                       *)
LEMMA Inheritance ==
  ASSUME SchedAssumption, NEW lists, Forest(lists), NEW p \in PCB, NEW q \in PCB, p # q,
         NEW after, Inherits(lists, after, p, q)
  PROVE  /\ Forest(after)
         /\ Elements(after[p]) = {}
         /\ Elements(after[q]) = Elements(lists[q]) \cup Elements(lists[p])
         /\ lists[q] # <<>> => after[q] # <<>>
         /\ KidsOf(after) = KidsOf(lists)
<1> USE DEF Inherits
<1>1. lists \in [PCB -> Seq(PCB)] /\ lists[p] \in Seq(PCB) /\ lists[q] \in Seq(PCB)
  BY DEF Forest
<1>2. /\ lists[q] \o lists[p] \in Seq(PCB)
      /\ Elements(lists[q] \o lists[p]) = Elements(lists[q]) \cup Elements(lists[p])
      /\ NoRepeat(lists[q] \o lists[p])
  BY <1>1, ConcatElements DEF Forest
<1>3. <<>> \in Seq(PCB) /\ Elements(<<>>) = {} /\ NoRepeat(<<>>)
  BY EmptySeq DEF Elements, NoRepeat
<1>4. after[p] = <<>> /\ Elements(after[p]) = {}
  BY <1>3
<1>5. Elements(after[q]) = Elements(lists[q]) \cup Elements(lists[p])
  BY <1>2
<1>6. \A r \in PCB \ {p, q} : after[r] = lists[r]
  OBVIOUS
<1>7. after \in [PCB -> Seq(PCB)]
  BY <1>1, <1>2, <1>3
<1>8. \A r \in PCB : NoRepeat(after[r])
  BY <1>2, <1>3 DEF Forest
<1>9. Forest(after)
  <2> SUFFICES ASSUME NEW r \in PCB, NEW t \in PCB, r # t
               PROVE  Elements(after[r]) \cap Elements(after[t]) = {}
    BY <1>7, <1>8 DEF Forest
  <2>1. Elements(lists[r]) \cap Elements(lists[t]) = {}
    BY DEF Forest
  <2>2. r # p => Elements(lists[r]) \cap Elements(lists[p]) = {}
    BY DEF Forest
  <2>3. t # p => Elements(lists[t]) \cap Elements(lists[p]) = {}
    BY DEF Forest
  <2> QED  BY <1>4, <1>5, <1>6, <2>1, <2>2, <2>3
<1>10. lists[q] # <<>> => after[q] # <<>>
  <2> SUFFICES ASSUME lists[q] # <<>>  PROVE lists[q] \o lists[p] # <<>>
    OBVIOUS
  <2> QED  BY <1>1
<1>11. KidsOf(after) = KidsOf(lists)
  <2>1. \A r \in PCB : Elements(after[r]) \subseteq Elements(lists[r]) \cup Elements(lists[p])
    BY <1>4, <1>5, <1>6
  <2>2. \A r \in PCB : Elements(lists[r]) \subseteq Elements(after[r]) \cup Elements(after[q])
    BY <1>4, <1>5, <1>6
  <2> QED  BY <2>1, <2>2 DEF KidsOf
<1> QED  BY <1>4, <1>5, <1>6, <1>9, <1>10, <1>11

-----------------------------------------------------------------------------
(***************************************************************************)
(* The inductive invariant, part one: the process table.  A list of        *)
(* children holds no freed block, a process that is over has none, the     *)
(* parent field of a child is the list's owner unless the owner is an init *)
(* process, every process that has a parent is on some list, and the pids  *)
(* of the processes there are differ.                                      *)
(***************************************************************************)
TableTypeOK ==
  /\ init_pcb \in PCB
  /\ pcb_free \in Seq(PCB)
  /\ pcbptr_free \in 0..MAX_NUM_PROCESSES
  /\ last_pid \in 0..MaxPid
  /\ pid \in [PCB -> 0..MaxPid]
  /\ parent \in [PCB -> PCB \cup {NULL}]
  /\ zombie_list \subseteq PCB
  /\ made \subseteq PCB

ChildLists ==
  /\ Forest(children)
  /\ \A p \in PCB : Elements(children[p]) \cap Free = {}
  /\ \A p \in zombie_list \cup Free : children[p] = <<>>
  /\ pcbptr_free + Cardinality(KidsOf(children)) <= MAX_NUM_PROCESSES

ParentFields ==
  /\ \A q \in PCB : \A c \in Elements(children[q]) :
        parent[c] # NULL /\ (parent[c] = q \/ parent[q] = NULL)
  /\ \A p \in PCB \ Free : parent[p] # NULL => p \in KidsOf(children)
  /\ \A z \in zombie_list : parent[z] # NULL
  /\ init_pcb \notin zombie_list \cup Free /\ parent[init_pcb] = NULL
  /\ \A p \in PCB : parent[p] # p

PidsDistinct ==
  /\ \A p \in PCB \ Free : pid[p] < last_pid
  /\ \A p, q \in PCB \ Free : pid[p] = pid[q] => p = q

FreeBlocks == NoRepeat(pcb_free) /\ Free \cap zombie_list = {}

TableInv == TableTypeOK /\ FreeBlocks /\ ChildLists /\ ParentFields /\ PidsDistinct

(***************************************************************************)
(* Part two: the status of a process on a list says on which, as far as    *)
(* waiting and being a zombie goes, and who has a timer is not in wait.    *)
(* The status of who runs, or ran when init was booted anew, may still be  *)
(* Waiting where semaphores hand the processor over.                       *)
(***************************************************************************)
StatusPlaces ==
  /\ \A p \in waiting_list : status[p] = "Waiting"
  /\ \A p \in Elements(ready_list) \cup Free : status[p] # "Waiting"
  /\ \A p \in PCB : status[p] = "Zombie" => p \in zombie_list \cup Free
  /\ \A z \in zombie_list : status[z] = "Zombie"

CallsTypeOK == syscall \in [PCB -> [num : {"wait", "other"}, arg : WaitArgs \cup {0}]]

PlaceInv ==
  /\ SchedBase
  /\ CallsTypeOK
  /\ Placed \cap (zombie_list \cup Free) = {}
  /\ StatusPlaces
  /\ \A p \in Sleepers : syscall[p].num = "other"

ProcInv == TableInv /\ PlaceInv /\ WaitNotLost

(* What a step of the whole system has to establish.                       *)
GoodStep == ProcInv' /\ PtrLostAtExit /\ FreedWhenReported

LEMMA ProcInvTypes == ProcInv => ProcTypeOK
<1> SUFFICES ASSUME ProcInv  PROVE ProcTypeOK
  OBVIOUS
<1> QED  BY DEF ProcTypeOK, ProcInv, TableInv, TableTypeOK, ChildLists, Forest, PlaceInv,
                SchedBase, CallsTypeOK

(* The blocks of the PCBPtr pool, free or in use, counted by the children. *)
LEMMA PtrBlocksOfKids ==
  SchedAssumption /\ ProcInv
    => /\ PtrBlocks = pcbptr_free + Cardinality(KidsOf(children))
       /\ Cardinality(KidsOf(children)) \in Nat
BY ItemsAreKids DEF ProcInv, TableInv, ChildLists, PtrBlocks, ListItems

(* What the lists hold are PCBs.                                           *)
LEMMA ListsHoldPCBs ==
  ProcInv => /\ Elements(ready_list) \subseteq PCB /\ waiting_list \subseteq PCB
             /\ zombie_list \subseteq PCB /\ Free \subseteq PCB
<1> SUFFICES ASSUME ProcInv
             PROVE  /\ Elements(ready_list) \subseteq PCB /\ waiting_list \subseteq PCB
                    /\ zombie_list \subseteq PCB /\ Free \subseteq PCB
  OBVIOUS
<1>1. /\ ready_list \in Seq(PCB) /\ pcb_free \in Seq(PCB)
      /\ waiting_list \subseteq PCB /\ zombie_list \subseteq PCB
  BY DEF ProcInv, PlaceInv, SchedBase, SchedTypeOK, TableInv, TableTypeOK
<1> QED  BY <1>1, ElementOfSeq, LenProperties DEF Elements, Free

-----------------------------------------------------------------------------
(* Steps that leave the process table as it is.                            *)
LEMMA TableKept ==
  ASSUME ProcInv, UNCHANGED tableVars
  PROVE  TableInv' /\ PtrLostAtExit /\ FreedWhenReported
<1>1. TableTypeOK' /\ FreeBlocks' /\ PidsDistinct'
  BY DEF ProcInv, TableInv, TableTypeOK, FreeBlocks, PidsDistinct, Free, tableVars, familyVars
<1>2. ChildLists' /\ ParentFields'
  BY DEF ProcInv, TableInv, ChildLists, ParentFields, Free, tableVars, familyVars
<1>3. PtrLostAtExit /\ FreedWhenReported
  BY DEF PtrLostAtExit, FreedWhenReported, PtrBlocks, Free, tableVars, familyVars
<1> QED  BY <1>1, <1>2, <1>3 DEF TableInv

(* No one else starts to wait, and nothing changes for those who wait.     *)
LEMMA WaitKept ==
  ASSUME ProcInv, InWait' \subseteq InWait, zombie_list' \subseteq zombie_list,
         \A p \in InWait' : syscall'[p] = syscall[p] /\ children'[p] = children[p],
         \A c \in PCB \ Free : pid'[c] = pid[c] /\ parent'[c] = parent[c]
  PROVE  WaitNotLost'
<1> SUFFICES ASSUME NEW p \in InWait'
             PROVE  /\ children'[p] # <<>>
                    /\ \A child \in Elements(children'[p]) :
                         Accepts(p, child)' /\ parent'[child] = p => child \notin zombie_list'
  BY DEF WaitNotLost
<1>1. p \in InWait /\ p \in PCB
  BY DEF InWait, ProcInv, PlaceInv, SchedBase, SchedTypeOK
<1>2. \A c \in Elements(children[p]) : c \in PCB \ Free
  BY <1>1, KidsFinite, SchedAssumption DEF ProcInv, TableInv, ChildLists, Forest, KidsOf
<1>3. /\ children[p] # <<>>
      /\ \A child \in Elements(children[p]) :
            Accepts(p, child) /\ parent[child] = p => child \notin zombie_list
  BY <1>1 DEF ProcInv, WaitNotLost
<1> QED  BY <1>1, <1>2, <1>3 DEF Accepts

(* The program ends: whatever the reason, nothing else changes.            *)
LEMMA CrashStep ==
  ASSUME ProcInv, fault' \in Faults,
         UNCHANGED <<placeVars, timer_list, syscall_retvalue, procVars>>
  PROVE  GoodStep
<1>1. UNCHANGED <<placeVars, timer_list, tableVars, syscall, syscall_retvalue>> /\ fault' \in Faults
  BY DEF procVars, tableVars
<1>2. TableInv' /\ PtrLostAtExit /\ FreedWhenReported
  BY <1>1, TableKept
<1>3. SchedBase'
  BY <1>1 DEF ProcInv, PlaceInv, SchedBase, SchedTypeOK, PlacedOnce, TimersSorted, Sleepers, placeVars
<1>4. PlaceInv'
  BY <1>1, <1>3 DEF ProcInv, PlaceInv, CallsTypeOK, StatusPlaces, Sleepers, Placed, Free, placeVars,
                    tableVars
<1>5. WaitNotLost'
  BY <1>1, WaitKept DEF InWait, placeVars, tableVars, familyVars
<1> QED  BY <1>2, <1>4, <1>5 DEF GoodStep, ProcInv

(* Preemption and the tick: processes are woken, no call is made.          *)
LEMMA ScheduleStep ==
  ASSUME ProcInv, UserMode, NEW timers, Shifted(timers), internal_schedule(timers),
         UNCHANGED <<syscall_retvalue, fault, tableVars>>, CallsTypeOK',
         \A p \in PCB \ {running} : syscall'[p] = syscall[p]
  PROVE  GoodStep
<1>1. TableInv' /\ PtrLostAtExit /\ FreedWhenReported
  BY TableKept
<1>2. SchedBase
  BY DEF ProcInv, PlaceInv
<1>3. /\ SchedBase'
      /\ waiting_list' \ Sleepers' = waiting_list \ Sleepers
      /\ waiting_list' \subseteq waiting_list
      /\ Placed' = Placed
      /\ \A p \in PCB :
           \/ /\ status'[p] = status[p] /\ p \notin waiting_list \ waiting_list'
              /\ p \in Elements(ready_list') => p \in Elements(ready_list)
           \/ p \in Placed \ waiting_list' /\ status'[p] \in {"Ready", "Running"}
  BY <1>2, ScheduleBase
<1>4. Sleepers' \subseteq Sleepers
  BY <1>3 DEF SchedBase
<1>5. zombie_list' = zombie_list /\ Free' = Free
  BY DEF tableVars, Free
<1>6. /\ Placed \cap (zombie_list \cup Free) = {} /\ StatusPlaces /\ zombie_list \subseteq PCB
      /\ Free \subseteq PCB /\ waiting_list \subseteq PCB
  BY ListsHoldPCBs DEF ProcInv, PlaceInv
<1>7. StatusPlaces'
  <2>1. ASSUME NEW p \in waiting_list'  PROVE status'[p] = "Waiting"
    BY <1>3, <1>6 DEF StatusPlaces
  <2>4. ASSUME NEW p \in Elements(ready_list')  PROVE status'[p] # "Waiting"
    <3>1. p \in PCB
      BY <1>3, ElementOfSeq, LenProperties DEF SchedBase, SchedTypeOK, Elements
    <3> QED  BY <1>3, <1>6, <3>1 DEF StatusPlaces
  <2>5. ASSUME NEW p \in Free  PROVE status'[p] # "Waiting"
    BY <1>3, <1>6 DEF StatusPlaces
  <2>2. ASSUME NEW p \in PCB  PROVE status'[p] = "Zombie" => p \in zombie_list \cup Free
    BY <1>3, <1>6 DEF StatusPlaces
  <2>3. ASSUME NEW z \in zombie_list  PROVE status'[z] = "Zombie"
    BY <1>3, <1>6 DEF StatusPlaces
  <2> QED  BY <1>5, <2>1, <2>2, <2>3, <2>4, <2>5 DEF StatusPlaces
<1>8. running \notin waiting_list /\ waiting_list \subseteq PCB /\ Sleepers \subseteq waiting_list
  BY <1>2 DEF SchedBase, PlacedOnce, SchedTypeOK
<1>9. PlaceInv'
  <2>1. \A p \in Sleepers' : syscall'[p].num = "other"
    BY <1>4, <1>8 DEF ProcInv, PlaceInv
  <2> QED  BY <1>3, <1>5, <1>6, <1>7, <2>1 DEF PlaceInv
<1>10. WaitNotLost'
  <2>1. InWait' \subseteq InWait /\ \A p \in InWait' : syscall'[p] = syscall[p]
    BY <1>3, <1>8 DEF InWait
  <2> QED  BY <2>1, WaitKept DEF tableVars, familyVars
<1> QED  BY <1>1, <1>9, <1>10 DEF GoodStep, ProcInv

(* A call that is not a wait keeps the types of the calls.                 *)
LEMMA CallTypes ==
  ASSUME CallsTypeOK, running \in PCB, NEW call, Called(call),
         \/ call = OtherCall
         \/ \E arg \in WaitArgs : call = WaitFor(arg)
  PROVE  /\ CallsTypeOK'
         /\ syscall'[running] = call
         /\ \A p \in PCB \ {running} : syscall'[p] = syscall[p]
<1>1. call \in [num : {"wait", "other"}, arg : WaitArgs \cup {0}]
  BY DEF OtherCall, WaitFor
<1> QED  BY <1>1 DEF CallsTypeOK, Called

LEMMA PreemptStep == SchedAssumption /\ ProcInv /\ Preempt => GoodStep
<1> SUFFICES ASSUME SchedAssumption, ProcInv, Preempt  PROVE GoodStep
  OBVIOUS
<1>1. SchedBase /\ CallsTypeOK /\ UserMode /\ running \in PCB
  BY DEF ProcInv, PlaceInv, Preempt, ProcUser, UserMode
<1>2. CallsTypeOK' /\ \A p \in PCB \ {running} : syscall'[p] = syscall[p]
  BY <1>1, CallTypes DEF Preempt
<1>3. internal_schedule(timer_list) /\ UNCHANGED <<syscall_retvalue, fault, tableVars>>
  BY DEF Preempt, internal_preempt
<1> QED  BY <1>1, <1>2, <1>3, TickShifts, ScheduleStep

LEMMA TickStep == SchedAssumption /\ ProcInv /\ Tick => GoodStep
<1> SUFFICES ASSUME SchedAssumption, ProcInv, Tick  PROVE GoodStep
  OBVIOUS
<1>1. SchedBase /\ CallsTypeOK /\ UserMode
  BY DEF ProcInv, PlaceInv, Tick, ProcUser
<1>2. syscall' = syscall /\ UNCHANGED <<syscall_retvalue, fault, tableVars>>
  BY DEF Tick, timerInterrupt, procVars, tableVars
<1>3. CallsTypeOK'
  BY <1>1, <1>2 DEF CallsTypeOK
<1>4. internal_schedule(Ticked)
  BY DEF Tick, timerInterrupt
<1> QED  BY <1>1, <1>2, <1>3, <1>4, TickShifts, ScheduleStep

LEMMA SleepStep ==
  ASSUME SchedAssumption, ProcInv, NEW cycles \in SleepTimes, Sleep(cycles)
  PROVE  GoodStep
<1>1. SchedBase /\ CallsTypeOK /\ UserMode /\ running \in PCB /\ cycles \in Nat
  BY DEF ProcInv, PlaceInv, Sleep, ProcUser, UserMode, SchedAssumption
<1>2. /\ CallsTypeOK' /\ syscall'[running] = OtherCall
      /\ \A p \in PCB \ {running} : syscall'[p] = syscall[p]
  BY <1>1, CallTypes DEF Sleep
<1>3. UNCHANGED tableVars /\ internal_sleep(cycles)
  BY DEF Sleep
<1>4. TableInv' /\ PtrLostAtExit /\ FreedWhenReported
  BY <1>3, TableKept
<1>5. zombie_list' = zombie_list /\ Free' = Free
  BY <1>3 DEF tableVars, Free
<1>6. /\ Placed \cap (zombie_list \cup Free) = {} /\ StatusPlaces
      /\ \A p \in Sleepers : syscall[p].num = "other"
      /\ Elements(ready_list) \cup zombie_list \cup Free \subseteq PCB
  BY ListsHoldPCBs DEF ProcInv, PlaceInv
<1>7. /\ SchedBase'
      /\ \/ UNCHANGED <<placeVars, timer_list>>
         \/ /\ waiting_list' = waiting_list \cup {running}
            /\ Sleepers' = Sleepers \cup {running}
            /\ status' = [status EXCEPT ![running] = "Waiting"]
            /\ Elements(ready_list') \subseteq Elements(ready_list)
            /\ \/ ready_list = <<>> /\ running' = NULL
               \/ running' \in Elements(ready_list)
  BY <1>1, <1>3, SleepBase
<1>8. /\ running \notin waiting_list /\ waiting_list \subseteq PCB /\ Sleepers \subseteq waiting_list
      /\ status \in [PCB -> Statuses] /\ running \notin Elements(ready_list)
  BY <1>1 DEF SchedBase, PlacedOnce, SchedTypeOK
<1>9. OtherCall.num = "other"
  BY DEF OtherCall
<1>10. /\ Placed' \cap (zombie_list \cup Free) = {}
       /\ StatusPlaces'
       /\ \A p \in Sleepers' : syscall'[p].num = "other"
       /\ \A p \in waiting_list' : p \in waiting_list \/ p = running
  <2>1. CASE UNCHANGED <<placeVars, timer_list>>
    <3>1. /\ Sleepers' = Sleepers /\ waiting_list' = waiting_list /\ status' = status
          /\ Placed' = Placed
      BY <2>1 DEF placeVars, Sleepers, Placed
    <3>2. ready_list' = ready_list
      BY <2>1 DEF placeVars
    <3> QED  BY <3>1, <3>2, <1>2, <1>5, <1>6, <1>8 DEF StatusPlaces
  <2>2. CASE /\ waiting_list' = waiting_list \cup {running}
             /\ Sleepers' = Sleepers \cup {running}
             /\ status' = [status EXCEPT ![running] = "Waiting"]
             /\ Elements(ready_list') \subseteq Elements(ready_list)
             /\ \/ ready_list = <<>> /\ running' = NULL
                \/ running' \in Elements(ready_list)
    <3>1. Placed' \subseteq Placed \cup {NULL}
      BY <2>2 DEF Placed
    <3>2. NULL \notin zombie_list \cup Free
      BY DEF ProcInv, TableInv, TableTypeOK, Free, NULL, PCB, Elements
    <3>3. running \in Placed
      BY DEF Placed
    <3>4. \A p \in PCB : status'[p] = IF p = running THEN "Waiting" ELSE status[p]
      BY <1>8, <2>2
    <3>5. StatusPlaces'
      <4>1. running \notin zombie_list \cup Free
        BY <1>6, <3>3
      <4>2. \A p \in waiting_list' : status'[p] = "Waiting"
        BY <1>1, <1>6, <1>8, <2>2, <3>4 DEF StatusPlaces
      <4>3. \A p \in Elements(ready_list') \cup Free' : status'[p] # "Waiting"
        BY <1>5, <1>6, <1>8, <2>2, <3>4, <4>1 DEF StatusPlaces
      <4>4. \A p \in PCB : status'[p] = "Zombie" => p \in zombie_list' \cup Free'
        BY <1>5, <1>6, <3>4 DEF StatusPlaces
      <4>5. \A z \in zombie_list' : status'[z] = "Zombie"
        BY <1>5, <1>6, <3>4, <4>1 DEF StatusPlaces
      <4> QED  BY <4>2, <4>3, <4>4, <4>5 DEF StatusPlaces
    <3>6. \A p \in Sleepers' : syscall'[p].num = "other"
      BY <1>2, <1>6, <1>8, <1>9, <2>2
    <3> QED  BY <1>6, <2>2, <3>1, <3>2, <3>5, <3>6
  <2> QED  BY <1>7, <2>1, <2>2
<1>11. PlaceInv'
  BY <1>2, <1>5, <1>7, <1>10 DEF PlaceInv
<1>12. WaitNotLost'
  <2>1. InWait' \subseteq InWait /\ \A p \in InWait' : syscall'[p] = syscall[p]
    BY <1>2, <1>8, <1>9, <1>10 DEF InWait
  <2> QED  BY <1>3, <2>1, WaitKept DEF tableVars, familyVars
<1> QED  BY <1>4, <1>11, <1>12 DEF GoodStep, ProcInv

(* A call that returns to its caller, or crashes, and leaves the table.    *)
LEMMA CallStep ==
  ASSUME ProcInv, running \in PCB,
         NEW call, Called(call), call = OtherCall \/ \E arg \in WaitArgs : call = WaitFor(arg),
         syscall_retvalue' \in [PCB -> Int], fault' \in Faults,
         UNCHANGED <<placeVars, timer_list, tableVars>>
  PROVE  GoodStep
<1>1. CallsTypeOK' /\ \A p \in PCB \ {running} : syscall'[p] = syscall[p]
  BY CallTypes DEF ProcInv, PlaceInv
<1>2. TableInv' /\ PtrLostAtExit /\ FreedWhenReported
  BY TableKept
<1>3. SchedBase'
  BY DEF ProcInv, PlaceInv, SchedBase, SchedTypeOK, PlacedOnce, TimersSorted, Sleepers, placeVars
<1>4. Sleepers' = Sleepers /\ Placed' = Placed /\ Free' = Free /\ UNCHANGED <<waiting_list, zombie_list>>
  BY DEF Sleepers, Placed, Free, placeVars, tableVars
<1>5. running \notin waiting_list /\ waiting_list \subseteq PCB /\ Sleepers \subseteq waiting_list
  BY DEF ProcInv, PlaceInv, SchedBase, PlacedOnce, SchedTypeOK
<1>6. PlaceInv'
  <2>1. StatusPlaces'
    BY <1>4 DEF ProcInv, PlaceInv, StatusPlaces, placeVars
  <2> QED  BY <1>1, <1>3, <1>4, <1>5, <2>1 DEF ProcInv, PlaceInv
<1>7. WaitNotLost'
  <2>1. InWait' \subseteq InWait /\ \A p \in InWait' : syscall'[p] = syscall[p]
    BY <1>1, <1>4, <1>5 DEF InWait
  <2> QED  BY <2>1, WaitKept DEF tableVars, familyVars
<1> QED  BY <1>2, <1>6, <1>7 DEF GoodStep, ProcInv

(* The handler of wait only reports the error.                             *)
LEMMA WaitRefusedStep ==
  ASSUME ProcInv, NEW arg \in WaitArgs, WaitRefused(arg)
  PROVE  GoodStep
<1>1. running \in PCB /\ Called(WaitFor(arg)) /\ UNCHANGED <<placeVars, timer_list, fault, tableVars>>
  BY DEF WaitRefused, Refuse, ProcUser, UserMode
<1>2. syscall_retvalue' \in [PCB -> Int] /\ fault' \in Faults
  BY <1>1 DEF WaitRefused, Refuse, Return, EWAIT, ProcInv, PlaceInv, SchedBase, SchedTypeOK
<1> QED  BY <1>1, <1>2, CallStep

-----------------------------------------------------------------------------
(***************************************************************************)
(* Steps that take a block from the PCB pool.  Nothing else refers to the  *)
(* block: it is on no list, has no children, and its pid will be new.      *)
(***************************************************************************)
LEMMA AllocatedBlock ==
  ASSUME SchedAssumption, ProcAssumption, ProcInv, pcb_free # <<>>, last_pid < MaxPid,
         NEW father \in PCB \cup {NULL}, PCB_alloc(father), NEW new, new = Head(pcb_free)
  PROVE  /\ new \in PCB /\ new \in Free /\ Free' = Free \ {new}
         /\ new \notin Placed /\ new \notin zombie_list
         /\ children[new] = <<>> /\ new \notin KidsOf(children)
         /\ pcb_free' \in Seq(PCB) /\ NoRepeat(pcb_free')
         /\ last_pid' \in 0..MaxPid /\ pid' \in [PCB -> 0..MaxPid]
         /\ parent' \in [PCB -> PCB \cup {NULL}]
         /\ parent'[new] = father
         /\ \A p \in PCB \ {new} : pid'[p] = pid[p] /\ parent'[p] = parent[p]
         /\ PidsDistinct'
<1>1. /\ pcb_free \in Seq(PCB) /\ last_pid \in 0..MaxPid /\ pid \in [PCB -> 0..MaxPid]
      /\ parent \in [PCB -> PCB \cup {NULL}] /\ NoRepeat(pcb_free) /\ Free \cap zombie_list = {}
      /\ MaxPid \in Nat /\ MAX_NUM_PROCESSES \in Nat
  BY DEF ProcInv, TableInv, TableTypeOK, FreeBlocks, ProcAssumption, SchedAssumption
<1>2. /\ new \in PCB /\ new \in Free /\ pcb_free' \in Seq(PCB) /\ NoRepeat(pcb_free')
      /\ Free' = Free \ {new}
  BY <1>1, HeadTailElements DEF PCB_alloc, Free
<1>3. new \notin Placed /\ children[new] = <<>>
  BY <1>2 DEF ProcInv, PlaceInv, TableInv, ChildLists
<1>4. new \notin KidsOf(children)
  BY <1>2 DEF ProcInv, TableInv, ChildLists, KidsOf
<1>5. /\ pid' = [pid EXCEPT ![new] = last_pid] /\ last_pid' = last_pid + 1
      /\ parent' = [parent EXCEPT ![new] = father]
  BY DEF PCB_alloc
<1>6. /\ last_pid' \in 0..MaxPid /\ pid' \in [PCB -> 0..MaxPid]
      /\ parent' \in [PCB -> PCB \cup {NULL}] /\ parent'[new] = father
      /\ \A p \in PCB \ {new} : pid'[p] = pid[p] /\ parent'[p] = parent[p]
  BY <1>1, <1>2, <1>5
<1>7. PidsDistinct'
  <2>1. /\ \A p \in PCB \ Free : pid[p] < last_pid
        /\ \A p, q \in PCB \ Free : pid[p] = pid[q] => p = q
    BY DEF ProcInv, TableInv, PidsDistinct
  <2>2. pid'[new] = last_pid
    BY <1>1, <1>2, <1>5
  <2>3. \A p \in PCB \ Free' : p = new \/ (p \in PCB \ Free /\ pid'[p] = pid[p])
    BY <1>2, <1>6
  <2>4. \A p \in PCB \ Free : pid[p] \in Int /\ pid[p] # last_pid
    BY <1>1, <2>1
  <2>5. \A p \in PCB \ Free' : pid'[p] < last_pid'
    BY <1>1, <1>5, <2>1, <2>2, <2>3, <2>4
  <2>6. ASSUME NEW p \in PCB \ Free', NEW q \in PCB \ Free', pid'[p] = pid'[q]
        PROVE  p = q
    BY <2>1, <2>2, <2>3, <2>4, <2>6
  <2> QED  BY <2>5, <2>6 DEF PidsDistinct
<1> QED  BY <1>1, <1>2, <1>3, <1>4, <1>6, <1>7

(* spawn and fork: the new process is ready, and a child of its creator.   *)
LEMMA CreateStep ==
  ASSUME SchedAssumption, ProcAssumption, ProcInv, Create, made' \subseteq PCB
  PROVE  GoodStep
<1> DEFINE new == Head(pcb_free)
<1>1. /\ running \in PCB /\ pcb_free # <<>> /\ last_pid < MaxPid /\ pcbptr_free > 0
      /\ PCB_alloc(running) /\ pcbptr_free' = pcbptr_free - 1 /\ Called(OtherCall)
      /\ children' = [children EXCEPT ![running] = Append(@, new), ![new] = <<>>]
      /\ status' = [status EXCEPT ![new] = "Ready"] /\ ready_list' = Append(ready_list, new)
      /\ UNCHANGED <<running, waiting_list, timer_list, fault, init_pcb, zombie_list>>
  BY DEF Create, ProcUser, UserMode, PCBPtr_alloc, Adopted
<1>2. /\ new \in PCB /\ new \in Free /\ Free' = Free \ {new}
      /\ new \notin Placed /\ new \notin zombie_list
      /\ children[new] = <<>> /\ new \notin KidsOf(children)
      /\ pcb_free' \in Seq(PCB) /\ NoRepeat(pcb_free')
      /\ last_pid' \in 0..MaxPid /\ pid' \in [PCB -> 0..MaxPid]
      /\ parent' \in [PCB -> PCB \cup {NULL}]
      /\ parent'[new] = running
      /\ \A p \in PCB \ {new} : pid'[p] = pid[p] /\ parent'[p] = parent[p]
      /\ PidsDistinct'
  <2> HIDE DEF new
  <2> QED  BY <1>1, AllocatedBlock DEF new
<1> HIDE DEF new
<1>3. /\ SchedBase /\ CallsTypeOK /\ Placed \cap (zombie_list \cup Free) = {} /\ StatusPlaces
      /\ \A p \in Sleepers : syscall[p].num = "other"
      /\ TableTypeOK /\ FreeBlocks /\ ChildLists /\ ParentFields /\ Forest(children)
  BY DEF ProcInv, PlaceInv, TableInv, ChildLists
<1>4. running # new /\ running \notin zombie_list \cup Free
  BY <1>2, <1>3 DEF Placed
<1>5. /\ children' \in [PCB -> Seq(PCB)]
      /\ children'[running] = Append(children[running], new)
      /\ \A q \in PCB \ {running} : children'[q] = children[q]
  <2>1. children \in [PCB -> Seq(PCB)] /\ Append(children[running], new) \in Seq(PCB)
    BY <1>1, <1>2, <1>3, AppendElements DEF Forest
  <2> QED  BY <1>1, <1>2, <1>4, <2>1
<1>6. /\ Forest(children')
      /\ \A q \in PCB : Elements(children'[q]) =
           IF q = running THEN Elements(children[running]) \cup {new} ELSE Elements(children[q])
      /\ children'[running] # <<>>
      /\ KidsOf(children') = KidsOf(children) \cup {new}
      /\ Cardinality(KidsOf(children')) = Cardinality(KidsOf(children)) + 1
  <2>1. Forest(children) /\ running \in PCB /\ new \in PCB /\ new \notin KidsOf(children)
    BY <1>1, <1>2, <1>3
  <2>2. Adopts(children, children', running, new)
    BY <1>5 DEF Adopts
  <2> QED  BY <2>1, <2>2, Adoption
<1>7. Cardinality(KidsOf(children)) \in Nat /\ pcbptr_free \in Nat /\ MAX_NUM_PROCESSES \in Nat
  BY <1>3, KidsFinite DEF Forest, TableTypeOK, SchedAssumption
<1>8. TableTypeOK' /\ FreeBlocks'
  BY <1>1, <1>2, <1>3, <1>7 DEF TableTypeOK, FreeBlocks
<1>9. ChildLists'
  <2>1. \A p \in PCB : Elements(children'[p]) \cap Free' = {}
    BY <1>2, <1>3, <1>6 DEF ChildLists
  <2>2. \A p \in zombie_list' \cup Free' : children'[p] = <<>>
    <3>1. zombie_list \cup Free \subseteq PCB
      BY <1>3, ElementOfSeq, LenProperties DEF TableTypeOK, Free, Elements
    <3> QED  BY <1>1, <1>2, <1>3, <1>4, <1>5, <3>1 DEF ChildLists
  <2>3. pcbptr_free' + Cardinality(KidsOf(children')) <= MAX_NUM_PROCESSES
    BY <1>1, <1>3, <1>6, <1>7 DEF ChildLists
  <2> QED  BY <1>6, <2>1, <2>2, <2>3 DEF ChildLists
<1>10. ParentFields'
  <2>1. \A q \in PCB : Elements(children[q]) \subseteq PCB \ {new}
    BY <1>2, <1>3, KidsFinite DEF Forest, KidsOf
  <2>2. ASSUME NEW q \in PCB, NEW c \in Elements(children'[q])
        PROVE  parent'[c] # NULL /\ (parent'[c] = q \/ parent'[q] = NULL)
    <3>1. CASE c = new
      <4>1. q = running
        BY <1>2, <1>6, <2>1, <2>2, <3>1
      <4> QED  BY <1>1, <1>2, <3>1, <4>1 DEF NULL, PCB
    <3>2. CASE c # new
      <4>1. c \in Elements(children[q]) /\ c \in PCB \ {new}
        BY <1>6, <2>1, <2>2, <3>2
      <4>2. q # new
        BY <1>2, <4>1, EmptySeq DEF Elements
      <4> QED  BY <1>2, <1>3, <4>1, <4>2 DEF ParentFields
    <3> QED  BY <3>1, <3>2
  <2>3. \A p \in PCB \ Free' : parent'[p] # NULL => p \in KidsOf(children')
    BY <1>2, <1>3, <1>6 DEF ParentFields
  <2>4. \A z \in zombie_list' : parent'[z] # NULL
    BY <1>1, <1>2, <1>3 DEF ParentFields, TableTypeOK
  <2>5. init_pcb' \notin zombie_list' \cup Free' /\ parent'[init_pcb'] = NULL
    BY <1>1, <1>2, <1>3 DEF ParentFields, TableTypeOK
  <2>6. \A p \in PCB : parent'[p] # p
    BY <1>2, <1>3, <1>4 DEF ParentFields
  <2> QED  BY <2>2, <2>3, <2>4, <2>5, <2>6 DEF ParentFields
<1>11. TableInv'
  BY <1>2, <1>8, <1>9, <1>10 DEF TableInv
<1>12. /\ ready_list' \in Seq(PCB) /\ Elements(ready_list') = Elements(ready_list) \cup {new}
       /\ NoRepeat(ready_list')
  BY <1>1, <1>2, <1>3, AppendElements DEF SchedBase, SchedTypeOK, PlacedOnce, Placed
<1>13. SchedBase'
  <2>1. SchedTypeOK'
    BY <1>1, <1>2, <1>3, <1>12, SMTT(60)
       DEF SchedBase, SchedTypeOK, Statuses, Create, Return, TableTypeOK, ProcAssumption
  <2>2. PlacedOnce'
    BY <1>1, <1>2, <1>3, <1>12 DEF SchedBase, PlacedOnce, Placed
  <2>3. TimersSorted' /\ Sleepers' = Sleepers
    BY <1>1, <1>3 DEF SchedBase, TimersSorted, Sleepers
  <2> QED  BY <1>1, <1>3, <2>1, <2>2, <2>3 DEF SchedBase
<1>14. /\ CallsTypeOK' /\ \A p \in PCB \ {running} : syscall'[p] = syscall[p]
  BY <1>1, <1>3, CallTypes
<1>15. running \notin waiting_list /\ waiting_list \subseteq PCB /\ Sleepers \subseteq waiting_list
  BY <1>3 DEF SchedBase, PlacedOnce, SchedTypeOK
<1>16. PlaceInv'
  <2>1. Placed' \cap (zombie_list' \cup Free') = {}
    BY <1>1, <1>2, <1>3, <1>12 DEF Placed
  <2>2. \A p \in PCB : status'[p] = IF p = new THEN "Ready" ELSE status[p]
    BY <1>1, <1>2, <1>3 DEF SchedBase, SchedTypeOK
  <2>3. StatusPlaces'
    <3>1. /\ Elements(ready_list) \cup waiting_list \cup zombie_list \cup Free \subseteq PCB
          /\ new \notin Elements(ready_list) \cup waiting_list
      BY <1>2, ListsHoldPCBs DEF Placed
    <3>2. \A p \in waiting_list' : status'[p] = "Waiting"
      BY <1>1, <1>3, <2>2, <3>1 DEF StatusPlaces
    <3>3. \A p \in Elements(ready_list') \cup Free' : status'[p] # "Waiting"
      BY <1>2, <1>3, <1>12, <2>2, <3>1 DEF StatusPlaces
    <3>4. \A p \in PCB : status'[p] = "Zombie" => p \in zombie_list' \cup Free'
      BY <1>1, <1>2, <1>3, <2>2 DEF StatusPlaces
    <3>5. \A z \in zombie_list' : status'[z] = "Zombie"
      BY <1>1, <1>2, <1>3, <2>2, <3>1 DEF StatusPlaces
    <3> QED  BY <3>2, <3>3, <3>4, <3>5 DEF StatusPlaces
  <2>4. Sleepers' = Sleepers
    BY <1>1 DEF Sleepers
  <2> QED  BY <1>3, <1>13, <1>14, <1>15, <2>1, <2>3, <2>4 DEF PlaceInv
<1>17. WaitNotLost'
  <2>1. InWait' \subseteq InWait /\ \A p \in InWait' : syscall'[p] = syscall[p]
    BY <1>1, <1>14, <1>15 DEF InWait
  <2>2. \A p \in InWait' : children'[p] = children[p]
    BY <1>1, <1>5, <1>15 DEF InWait
  <2> QED  BY <1>1, <1>2, <2>1, <2>2, WaitKept
<1>18. PtrLostAtExit
  <2>1. (PtrBlocks = pcbptr_free + Cardinality(KidsOf(children)))'
    BY <1>6, ItemsAreKids DEF PtrBlocks, ListItems
  <2>2. running \notin Free'
    BY <1>2, <1>4
  <2> QED  BY <1>1, <1>6, <1>7, <2>1, <2>2, PtrBlocksOfKids DEF PtrLostAtExit
<1>19. FreedWhenReported
  BY <1>2 DEF FreedWhenReported
<1> QED  BY <1>11, <1>16, <1>17, <1>18, <1>19 DEF GoodStep, ProcInv

(***************************************************************************)
(* A new init process takes the place of the one that runs, whatever the   *)
(* lists of the old system hold.  Who ran before is on no list any more.   *)
(***************************************************************************)
LEMMA BootStep == SchedAssumption /\ ProcAssumption /\ ProcInv /\ Boot => GoodStep
<1> SUFFICES ASSUME SchedAssumption, ProcAssumption, ProcInv, Boot  PROVE GoodStep
  OBVIOUS
<1> DEFINE new == Head(pcb_free)
<1>1. /\ pcb_free # <<>> /\ last_pid < MaxPid /\ PCB_alloc(NULL)
      /\ children' = [children EXCEPT ![new] = <<>>]
      /\ status' = [status EXCEPT ![new] = "Running"]
      /\ running' = new /\ init_pcb' = new /\ made' = made \cup {new}
      /\ UNCHANGED <<ready_list, waiting_list, timer_list, syscall_retvalue, fault, pcbptr_free,
                     syscall, zombie_list>>
  BY DEF Boot
<1>2. /\ new \in PCB /\ new \in Free /\ Free' = Free \ {new}
      /\ new \notin Placed /\ new \notin zombie_list
      /\ children[new] = <<>> /\ new \notin KidsOf(children)
      /\ pcb_free' \in Seq(PCB) /\ NoRepeat(pcb_free')
      /\ last_pid' \in 0..MaxPid /\ pid' \in [PCB -> 0..MaxPid]
      /\ parent' \in [PCB -> PCB \cup {NULL}]
      /\ parent'[new] = NULL
      /\ \A p \in PCB \ {new} : pid'[p] = pid[p] /\ parent'[p] = parent[p]
      /\ PidsDistinct'
  <2> HIDE DEF new
  <2> QED  BY <1>1, AllocatedBlock DEF new
<1> HIDE DEF new
<1>3. /\ SchedBase /\ CallsTypeOK /\ Placed \cap (zombie_list \cup Free) = {} /\ StatusPlaces
      /\ \A p \in Sleepers : syscall[p].num = "other"
      /\ TableTypeOK /\ FreeBlocks /\ ChildLists /\ ParentFields /\ Forest(children)
  BY DEF ProcInv, PlaceInv, TableInv, ChildLists
<1>4. children' = children
  BY <1>1, <1>2, <1>3 DEF Forest
<1>5. TableTypeOK' /\ FreeBlocks' /\ ChildLists'
  <2>1. TableTypeOK' /\ FreeBlocks'
    BY <1>1, <1>2, <1>3 DEF TableTypeOK, FreeBlocks
  <2>2. ChildLists'
    BY <1>1, <1>2, <1>3, <1>4 DEF ChildLists
  <2> QED  BY <2>1, <2>2
<1>6. ParentFields'
  <2>1. \A q \in PCB : Elements(children[q]) \subseteq PCB \ {new}
    BY <1>2, <1>3, KidsFinite DEF Forest, KidsOf
  <2>2. ASSUME NEW q \in PCB, NEW c \in Elements(children[q])
        PROVE  parent'[c] # NULL /\ (parent'[c] = q \/ parent'[q] = NULL)
    BY <1>2, <1>3, <2>1 DEF ParentFields
  <2>3. \A p \in PCB \ Free' : parent'[p] # NULL => p \in KidsOf(children)
    BY <1>2, <1>3 DEF ParentFields
  <2>4. \A z \in zombie_list : parent'[z] # NULL
    BY <1>2, <1>3 DEF ParentFields, TableTypeOK
  <2>5. \A p \in PCB : parent'[p] # p
    BY <1>2, <1>3 DEF ParentFields, NULL, PCB
  <2> QED  BY <1>1, <1>2, <1>4, <2>2, <2>3, <2>4, <2>5 DEF ParentFields
<1>7. SchedBase'
  <2>1. SchedTypeOK'
    BY <1>1, <1>2, <1>3 DEF SchedBase, SchedTypeOK, Statuses
  <2>2. PlacedOnce'
    BY <1>1, <1>2, <1>3 DEF SchedBase, PlacedOnce, Placed
  <2>3. TimersSorted' /\ Sleepers' = Sleepers
    BY <1>1, <1>3 DEF SchedBase, TimersSorted, Sleepers
  <2> QED  BY <1>1, <1>3, <2>1, <2>2, <2>3 DEF SchedBase
<1>8. PlaceInv'
  <2>1. Placed' \cap (zombie_list' \cup Free') = {}
    BY <1>1, <1>2, <1>3 DEF Placed
  <2>2. \A p \in PCB : status'[p] = IF p = new THEN "Running" ELSE status[p]
    BY <1>1, <1>2, <1>3 DEF SchedBase, SchedTypeOK
  <2>3. StatusPlaces'
    <3>1. /\ Elements(ready_list) \cup waiting_list \cup zombie_list \cup Free \subseteq PCB
          /\ new \notin Elements(ready_list) \cup waiting_list
      BY <1>2, ListsHoldPCBs DEF Placed
    <3>2. \A p \in waiting_list' : status'[p] = "Waiting"
      BY <1>1, <1>3, <2>2, <3>1 DEF StatusPlaces
    <3>3. \A p \in Elements(ready_list') \cup Free' : status'[p] # "Waiting"
      BY <1>1, <1>2, <1>3, <2>2, <3>1 DEF StatusPlaces
    <3>4. \A p \in PCB : status'[p] = "Zombie" => p \in zombie_list' \cup Free'
      BY <1>1, <1>2, <1>3, <2>2 DEF StatusPlaces
    <3>5. \A z \in zombie_list' : status'[z] = "Zombie"
      BY <1>1, <1>2, <1>3, <2>2, <3>1 DEF StatusPlaces
    <3> QED  BY <3>2, <3>3, <3>4, <3>5 DEF StatusPlaces
  <2>4. Sleepers' = Sleepers
    BY <1>1 DEF Sleepers
  <2> QED  BY <1>1, <1>3, <1>7, <2>1, <2>3, <2>4 DEF PlaceInv, CallsTypeOK
<1>9. WaitNotLost'
  <2>1. InWait' = InWait
    BY <1>1 DEF InWait
  <2> QED  BY <1>1, <1>2, <1>4, <2>1, WaitKept
<1>10. PtrLostAtExit
  <2>1. running \notin Free'
    BY <1>2, <1>3 DEF Placed
  <2> QED  BY <1>1, <1>4, <2>1 DEF PtrLostAtExit, PtrBlocks
<1>11. FreedWhenReported
  BY <1>2 DEF FreedWhenReported
<1> QED  BY <1>2, <1>5, <1>6, <1>8, <1>9, <1>10, <1>11 DEF GoodStep, ProcInv, TableInv

-----------------------------------------------------------------------------
(* The place in the list that the scan of wait stops at.                   *)
LEMMA AwaitedChild ==
  ASSUME SchedAssumption, ProcInv, running \in PCB, NEW arg, children[running] # <<>>
  PROVE  /\ Awaited(arg) \in 1..Len(children[running])
         /\ \A i \in 1..Len(children[running]) :
              arg = 0 /\ status[children[running][i]] = "Zombie"
                => status[children[running][Awaited(arg)]] = "Zombie"
         /\ \A i \in 1..Len(children[running]) :
              arg # 0 /\ pid[children[running][i]] = arg => Awaited(arg) = i
<1> DEFINE list == children[running]
           n == Len(list)
           Match(i) == IF arg = 0 THEN status[list[i]] = "Zombie" ELSE pid[list[i]] = arg
           I == {i \in 1..n : Match(i)}
<1>1. /\ list \in Seq(PCB) /\ n \in Nat /\ n # 0 /\ NoRepeat(list)
      /\ \A i \in 1..n : list[i] \in PCB \ Free
  <2>1. list \in Seq(PCB) /\ NoRepeat(list) /\ Elements(list) \cap Free = {}
    BY DEF ProcInv, TableInv, ChildLists, Forest
  <2>2. \A i \in 1..n : list[i] \in PCB /\ list[i] \in Elements(list)
    BY <2>1, ElementOfSeq, LenProperties DEF Elements
  <2> QED  BY <2>1, <2>2, EmptySeq, LenProperties
<1>2. Asked(arg) = FirstOf(I)
  BY DEF Asked
<1>3. \A p, q \in PCB \ Free : pid[p] = pid[q] => p = q
  BY DEF ProcInv, TableInv, PidsDistinct
<1>4. \A i, j \in 1..n : pid[list[i]] = pid[list[j]] => i = j
  BY <1>1, <1>3 DEF NoRepeat
<1> HIDE DEF list, n
<1>5. /\ FirstOf(I) \in 0..n
      /\ FirstOf(I) # 0 => FirstOf(I) \in I
      /\ FirstOf(I) = 0 => I = {}
  <2> HIDE DEF I
  <2>1. I \subseteq 1..n
    BY DEF I
  <2> QED  BY <1>1, <2>1, FirstOfProperties
<1>6. Awaited(arg) = IF FirstOf(I) # 0 THEN FirstOf(I) ELSE n
  BY <1>2 DEF Awaited, list, n
<1>7. Awaited(arg) \in 1..n
  BY <1>1, <1>5, <1>6
<1>8. ASSUME NEW i \in 1..n, Match(i)
      PROVE  Awaited(arg) \in 1..n /\ Match(Awaited(arg))
  <2>1. i \in I
    BY <1>8
  <2>2. FirstOf(I) # 0 /\ FirstOf(I) \in I
    BY <1>5, <2>1
  <2> QED  BY <1>6, <2>2
<1>9. \A i \in 1..n : arg = 0 /\ status[list[i]] = "Zombie" => status[list[Awaited(arg)]] = "Zombie"
  BY <1>8
<1>10. \A i \in 1..n : arg # 0 /\ pid[list[i]] = arg => Awaited(arg) = i
  BY <1>4, <1>8
<1> QED  BY <1>7, <1>9, <1>10 DEF list, n

(***************************************************************************)
(* wait finds the child alive and blocks: at that instant none of those it *)
(* accepts is a zombie, as no two processes have one pid.                  *)
(***************************************************************************)
LEMMA WaitBlockStep ==
  ASSUME SchedAssumption, ProcInv, NEW arg \in WaitArgs, WaitBlock(arg)
  PROVE  GoodStep
<1>1. /\ running \in PCB /\ children[running] # <<>> /\ ready_list # <<>>
      /\ status[children[running][Awaited(arg)]] # "Zombie"
      /\ status' = [status EXCEPT ![running] = "Waiting"]
      /\ waiting_list' = waiting_list \cup {running}
      /\ Called(WaitFor(arg)) /\ running' = Head(ready_list) /\ ready_list' = Tail(ready_list)
      /\ UNCHANGED <<timer_list, syscall_retvalue, fault, tableVars>>
  BY DEF WaitBlock, MustWaitFor, ProcUser, UserMode
<1>2. TableInv' /\ PtrLostAtExit /\ FreedWhenReported
  BY <1>1, TableKept
<1>3. zombie_list' = zombie_list /\ Free' = Free /\ children' = children /\ pid' = pid /\ parent' = parent
  BY <1>1 DEF tableVars, familyVars, Free
<1>4. /\ SchedBase /\ CallsTypeOK /\ Placed \cap (zombie_list \cup Free) = {} /\ StatusPlaces
      /\ \A p \in Sleepers : syscall[p].num = "other"
      /\ zombie_list \subseteq PCB /\ Forest(children) /\ WaitNotLost
  BY DEF ProcInv, PlaceInv, TableInv, TableTypeOK, ChildLists
<1>5. /\ CallsTypeOK' /\ syscall'[running] = WaitFor(arg)
      /\ \A p \in PCB \ {running} : syscall'[p] = syscall[p]
  BY <1>1, <1>4, CallTypes
<1>6. /\ ready_list \in Seq(PCB) /\ NoRepeat(ready_list) /\ waiting_list \subseteq PCB
      /\ running \notin Elements(ready_list) \cup waiting_list
      /\ Elements(ready_list) \cap waiting_list = {} /\ Sleepers \subseteq waiting_list
      /\ status \in [PCB -> Statuses]
  BY <1>4 DEF SchedBase, SchedTypeOK, PlacedOnce
<1>7. /\ running' \in PCB /\ ready_list' \in Seq(PCB) /\ NoRepeat(ready_list')
      /\ Elements(ready_list) = Elements(ready_list') \cup {running'}
      /\ running' \notin Elements(ready_list')
  BY <1>1, <1>6, HeadTailElements
<1>8. SchedBase'
  <2>1. SchedTypeOK'
    BY <1>1, <1>4, <1>7 DEF SchedBase, SchedTypeOK, Statuses
  <2>2. PlacedOnce'
    BY <1>1, <1>6, <1>7 DEF PlacedOnce
  <2>3. TimersSorted' /\ Sleepers' = Sleepers
    BY <1>1, <1>4 DEF SchedBase, TimersSorted, Sleepers
  <2> QED  BY <1>1, <1>6, <2>1, <2>2, <2>3 DEF SchedBase
<1>9. PlaceInv'
  <2>1. Placed' = Placed
    BY <1>1, <1>7 DEF Placed
  <2>2. \A p \in PCB : status'[p] = IF p = running THEN "Waiting" ELSE status[p]
    BY <1>1, <1>6
  <2>3. running \notin zombie_list \cup Free
    BY <1>4 DEF Placed
  <2>4. StatusPlaces'
    <3>1. Elements(ready_list) \cup waiting_list \cup zombie_list \cup Free \subseteq PCB
      BY ListsHoldPCBs
    <3>2. \A p \in waiting_list' : status'[p] = "Waiting"
      BY <1>1, <1>4, <2>2, <3>1 DEF StatusPlaces
    <3>3. \A p \in Elements(ready_list') \cup Free' : status'[p] # "Waiting"
      BY <1>3, <1>4, <1>6, <1>7, <2>2, <2>3, <3>1 DEF StatusPlaces
    <3>4. \A p \in PCB : status'[p] = "Zombie" => p \in zombie_list' \cup Free'
      BY <1>3, <1>4, <2>2 DEF StatusPlaces
    <3>5. \A z \in zombie_list' : status'[z] = "Zombie"
      BY <1>3, <1>4, <2>2, <2>3, <3>1 DEF StatusPlaces
    <3> QED  BY <3>2, <3>3, <3>4, <3>5 DEF StatusPlaces
  <2>5. Sleepers' = Sleepers
    BY <1>1 DEF Sleepers
  <2>6. \A p \in Sleepers : syscall'[p].num = "other"
    BY <1>4, <1>5, <1>6
  <2> QED  BY <1>3, <1>4, <1>5, <1>8, <2>1, <2>4, <2>5, <2>6 DEF PlaceInv
<1>10. ASSUME NEW child \in Elements(children[running]), arg = 0 \/ pid[child] = arg
       PROVE  child \notin zombie_list
  <2>1. PICK i \in 1..Len(children[running]) : child = children[running][i]
    BY DEF Elements
  <2>2. status[child] # "Zombie"
    <3>1. CASE arg = 0
      BY <1>1, <2>1, <3>1, AwaitedChild
    <3>2. CASE arg # 0
      BY <1>1, <1>10, <2>1, <3>2, AwaitedChild
    <3> QED  BY <3>1, <3>2
  <2> QED  BY <1>4, <2>2 DEF StatusPlaces
<1>11. WaitNotLost'
  <2>1. \A p \in InWait' : p \in PCB
    BY <1>1, <1>6 DEF InWait
  <2>2. \A p \in InWait' : p # running => p \in InWait /\ syscall'[p] = syscall[p]
    BY <1>1, <1>5, <1>6 DEF InWait
  <2>3. WaitFor(arg).arg = arg
    BY DEF WaitFor
  <2>4. ASSUME NEW p \in InWait'
        PROVE  /\ children[p] # <<>>
               /\ \A child \in Elements(children[p]) :
                    syscall'[p].arg \in {0, pid[child]} /\ parent[child] = p => child \notin zombie_list
    <3>1. CASE p = running
      BY <1>1, <1>5, <1>10, <2>3, <3>1
    <3>2. CASE p # running
      BY <1>4, <2>2, <3>2 DEF WaitNotLost, Accepts
    <3> QED  BY <3>1, <3>2
  <2> QED  BY <1>3, <2>4 DEF WaitNotLost, Accepts
<1> QED  BY <1>2, <1>9, <1>11 DEF GoodStep, ProcInv

(* A block goes back to the head of the free list of the pool.             *)
LEMMA FreedBlock ==
  ASSUME ProcInv, NEW p \in PCB \ Free, pcb_free' = <<p>> \o pcb_free
  PROVE  pcb_free' \in Seq(PCB) /\ NoRepeat(pcb_free') /\ Free' = Free \cup {p}
<1>1. pcb_free \in Seq(PCB) /\ NoRepeat(pcb_free)
  BY DEF ProcInv, TableInv, TableTypeOK, FreeBlocks
<1>2. <<p>> \in Seq(PCB) /\ Elements(<<p>>) = {p} /\ NoRepeat(<<p>>)
  BY DEF Elements, NoRepeat
<1>3. Elements(<<p>>) \cap Elements(pcb_free) = {}
  BY <1>2 DEF Free
<1>4. /\ <<p>> \o pcb_free \in Seq(PCB) /\ NoRepeat(<<p>> \o pcb_free)
      /\ Elements(<<p>> \o pcb_free) = Elements(<<p>>) \cup Elements(pcb_free)
  <2> DEFINE one == <<p>>
  <2>1. one \in Seq(PCB) /\ NoRepeat(one) /\ Elements(one) \cap Elements(pcb_free) = {}
    BY <1>2, <1>3
  <2> HIDE DEF one
  <2>2. /\ one \o pcb_free \in Seq(PCB) /\ NoRepeat(one \o pcb_free)
        /\ Elements(one \o pcb_free) = Elements(one) \cup Elements(pcb_free)
    BY <1>1, <2>1, ConcatElements
  <2> QED  BY <2>2 DEF one
<1> QED  BY <1>2, <1>4 DEF Free

(***************************************************************************)
(* wait finds a zombie: it is the child at that place of the list, it goes *)
(* off the list of zombies, and its block and its PCBPtr are free.         *)
(***************************************************************************)
LEMMA WaitReapStep ==
  ASSUME SchedAssumption, ProcAssumption, ProcInv, NEW arg \in WaitArgs, WaitReap(arg)
  PROVE  GoodStep
<1> DEFINE i == Awaited(arg)
           child == children[running][i]
<1>1. /\ running \in PCB /\ children[running] # <<>> /\ status[child] = "Zombie"
      /\ children' = [children EXCEPT ![running] = Detach(@, i)]
      /\ pcbptr_free' = pcbptr_free + 1 /\ zombie_list' = zombie_list \ {child}
      /\ syscall_retvalue' = [syscall_retvalue EXCEPT ![running] = pid[child]]
      /\ pcb_free' = <<child>> \o pcb_free /\ Called(WaitFor(arg))
      /\ UNCHANGED <<placeVars, timer_list, fault, init_pcb, pid, parent, last_pid, made>>
  BY DEF WaitReap, ProcUser, UserMode, PCBPtr_free, Report
<1>2. i \in 1..Len(children[running])
  BY <1>1, AwaitedChild
<1>3. /\ SchedBase /\ CallsTypeOK /\ Placed \cap (zombie_list \cup Free) = {} /\ StatusPlaces
      /\ \A p \in Sleepers : syscall[p].num = "other"
      /\ TableTypeOK /\ FreeBlocks /\ ChildLists /\ ParentFields /\ Forest(children)
      /\ PidsDistinct
  BY DEF ProcInv, PlaceInv, TableInv, ChildLists
<1> HIDE DEF i
<1>4. Separates(children, children', running, i)
  <2>1. children \in [PCB -> Seq(PCB)] /\ Detach(children[running], i) \in Seq(PCB)
    BY <1>1, <1>2, <1>3, DetachProperties DEF Forest
  <2> QED  BY <1>1, <2>1 DEF Separates
<1>5. /\ Forest(children')
      /\ child \in PCB /\ child \in Elements(children[running])
      /\ \A q \in PCB : Elements(children'[q]) = Elements(children[q]) \ {child}
      /\ KidsOf(children') = KidsOf(children) \ {child}
      /\ Cardinality(KidsOf(children')) = Cardinality(KidsOf(children)) - 1
  <2>1. Forest(children) /\ running \in PCB
    BY <1>1, <1>3
  <2>2. Forest(children')
    BY <1>2, <1>4, <2>1, Separation
  <2>3. child \in PCB /\ child \in Elements(children[running])
    BY <1>2, <1>4, <2>1, Separation
  <2>4. \A q \in PCB : Elements(children'[q]) = Elements(children[q]) \ {child}
    <3> SUFFICES ASSUME NEW q \in PCB
                 PROVE  Elements(children'[q]) = Elements(children[q]) \ {child}
      OBVIOUS
    <3>1. \A x : x \in Elements(children'[q]) <=> x \in Elements(children[q]) /\ x # child
      BY <1>2, <1>4, <2>1, Separation
    <3> QED  BY <3>1
  <2>5. KidsOf(children') = KidsOf(children) \ {child}
    BY <1>2, <1>4, <2>1, Separation
  <2>6. Cardinality(KidsOf(children')) = Cardinality(KidsOf(children)) - 1
    BY <1>2, <1>4, <2>1, Separation
  <2> QED  BY <2>2, <2>3, <2>4, <2>5, <2>6
<1> HIDE DEF child
<1>6. \A q \in PCB \ {running} : children'[q] = children[q]
  BY <1>4 DEF Separates
<1>7. child \in zombie_list /\ child \notin Free /\ child # running
  <2>1. child \notin Free
    BY <1>1, <1>3, <1>5 DEF ChildLists
  <2>2. child \in zombie_list
    BY <1>1, <1>3, <1>5, <2>1 DEF StatusPlaces
  <2> QED  BY <1>3, <2>1, <2>2 DEF Placed
<1>8. pcb_free' \in Seq(PCB) /\ NoRepeat(pcb_free') /\ Free' = Free \cup {child}
  BY <1>1, <1>5, <1>7, FreedBlock
<1>9. Cardinality(KidsOf(children)) \in Nat /\ pcbptr_free \in Nat /\ MAX_NUM_PROCESSES \in Nat
      /\ Cardinality(KidsOf(children')) \in Nat
  <2>1. Cardinality(KidsOf(children)) \in Nat /\ Cardinality(KidsOf(children')) \in Nat
    BY <1>3, <1>5, ItemsAreKids
  <2> QED  BY <1>3, <2>1 DEF TableTypeOK, SchedAssumption
<1>10. pcbptr_free' + Cardinality(KidsOf(children')) <= MAX_NUM_PROCESSES
  BY <1>1, <1>3, <1>5, <1>9 DEF ChildLists
<1>11. TableTypeOK' /\ FreeBlocks'
  BY <1>1, <1>3, <1>8, <1>9, <1>10 DEF TableTypeOK, FreeBlocks
<1>12. ChildLists'
  <2>1. \A p \in PCB : Elements(children'[p]) \cap Free' = {}
    BY <1>3, <1>5, <1>8 DEF ChildLists
  <2>2. \A p \in zombie_list' \cup Free' : children'[p] = <<>>
    <3>1. \A p \in zombie_list' \cup Free' : p \in zombie_list \cup Free
      BY <1>1, <1>7, <1>8
    <3>2. zombie_list \cup Free \subseteq PCB \ {running}
      BY <1>3, ElementOfSeq, LenProperties DEF TableTypeOK, Free, Elements, Placed
    <3> QED  BY <1>3, <1>6, <3>1, <3>2 DEF ChildLists
  <2> QED  BY <1>5, <1>10, <2>1, <2>2 DEF ChildLists
<1>13. ParentFields'
  <2>1. \A q \in PCB : \A c \in Elements(children'[q]) :
          parent[c] # NULL /\ (parent[c] = q \/ parent[q] = NULL)
    BY <1>3, <1>5 DEF ParentFields
  <2>2. \A p \in PCB \ Free' : parent[p] # NULL => p \in KidsOf(children')
    BY <1>3, <1>5, <1>8 DEF ParentFields
  <2>3. \A z \in zombie_list' : parent[z] # NULL
    BY <1>1, <1>3 DEF ParentFields
  <2>4. init_pcb \notin zombie_list' \cup Free' /\ parent[init_pcb] = NULL
    BY <1>1, <1>3, <1>7, <1>8 DEF ParentFields
  <2> QED  BY <1>1, <1>3, <2>1, <2>2, <2>3, <2>4 DEF ParentFields
<1>14. PidsDistinct'
  BY <1>1, <1>3, <1>8 DEF PidsDistinct
<1>15. CallsTypeOK' /\ \A p \in PCB \ {running} : syscall'[p] = syscall[p]
  BY <1>1, <1>3, CallTypes
<1>16. syscall_retvalue' \in [PCB -> Int]
  BY <1>1, <1>3, <1>5 DEF SchedBase, SchedTypeOK, TableTypeOK, ProcAssumption
<1>17. SchedBase'
  BY <1>1, <1>3, <1>16 DEF SchedBase, SchedTypeOK, PlacedOnce, TimersSorted, Sleepers, placeVars
<1>18. /\ Sleepers' = Sleepers /\ Placed' = Placed /\ UNCHANGED <<waiting_list, status>>
       /\ running \notin waiting_list /\ waiting_list \subseteq PCB /\ Sleepers \subseteq waiting_list
  BY <1>1, <1>3 DEF Sleepers, Placed, placeVars, SchedBase, PlacedOnce, SchedTypeOK
<1>19. PlaceInv'
  <2>1. StatusPlaces'
    <3>1. status[child] = "Zombie" /\ ready_list' = ready_list
      BY <1>1 DEF placeVars
    <3> QED  BY <1>1, <1>3, <1>7, <1>8, <1>18, <3>1 DEF StatusPlaces
  <2>2. Placed' \cap (zombie_list' \cup Free') = {}
    BY <1>1, <1>3, <1>7, <1>8, <1>18
  <2> QED  BY <1>3, <1>15, <1>17, <1>18, <2>1, <2>2 DEF PlaceInv
<1>20. WaitNotLost'
  <2>1. InWait' \subseteq InWait /\ \A p \in InWait' : syscall'[p] = syscall[p]
    BY <1>15, <1>18 DEF InWait
  <2>2. \A p \in InWait' : children'[p] = children[p]
    BY <1>6, <1>18 DEF InWait
  <2> QED  BY <1>1, <2>1, <2>2, WaitKept
<1>21. PtrLostAtExit
  <2>1. (PtrBlocks = pcbptr_free + Cardinality(KidsOf(children)))'
    BY <1>5, ItemsAreKids DEF PtrBlocks, ListItems
  <2>2. running \notin Free'
    BY <1>3, <1>7, <1>8 DEF Placed
  <2> QED  BY <1>1, <1>5, <1>9, <2>1, <2>2, PtrBlocksOfKids DEF PtrLostAtExit
<1>22. FreedWhenReported
  <2>1. running' = running /\ syscall_retvalue'[running] = pid[child]
    BY <1>1, <1>3 DEF placeVars, SchedBase, SchedTypeOK
  <2>2. child \in Elements(children[running']) /\ child \notin Elements(children'[running'])
    BY <1>1, <1>5, <2>1
  <2>3. running' \in PCB /\ syscall_retvalue'[running'] = pid[child]
    BY <1>1, <2>1
  <2> QED  BY <1>8, <2>2, <2>3 DEF FreedWhenReported
<1> QED  BY <1>11, <1>12, <1>13, <1>14, <1>19, <1>20, <1>21, <1>22 DEF GoodStep, ProcInv, TableInv

-----------------------------------------------------------------------------
(***************************************************************************)
(* The lists of children as exit leaves them, before the process that      *)
(* exits is taken off a list itself.  Those it hands to init have another  *)
(* parent field than init, so init's wait is not about them.               *)
(***************************************************************************)
LEMMA Orphans ==
  ASSUME SchedAssumption, ProcInv, running \in PCB, parent[running] # NULL
  PROVE  /\ running # init_pcb
         /\ Forest(Reparented) /\ KidsOf(Reparented) = KidsOf(children)
         /\ \A p \in PCB : Elements(Reparented[p]) \cap Free = {}
         /\ \A p \in zombie_list \cup Free \cup {running} : Reparented[p] = <<>>
         /\ \A q \in PCB : \A c \in Elements(Reparented[q]) :
              parent[c] # NULL /\ (parent[c] = q \/ parent[q] = NULL)
         /\ \A p \in InWait :
              /\ Reparented[p] # <<>>
              /\ \A c \in Elements(Reparented[p]) : parent[c] = p => c \in Elements(children[p])
         /\ \A q \in PCB : running \in Elements(Reparented[q]) => running \in Elements(children[q])
<1>1. /\ TableTypeOK /\ ChildLists /\ ParentFields /\ Forest(children) /\ WaitNotLost
      /\ Placed \cap (zombie_list \cup Free) = {} /\ SchedBase
  BY DEF ProcInv, TableInv, ChildLists, PlaceInv
<1>2. running # init_pcb /\ init_pcb \in PCB
  BY <1>1 DEF ParentFields, TableTypeOK
<1>3. Inherits(children, Reparented, running, init_pcb)
  <2>1. /\ children \in [PCB -> Seq(PCB)] /\ children[init_pcb] \o children[running] \in Seq(PCB)
        /\ <<>> \in Seq(PCB)
    BY <1>1, <1>2 DEF Forest
  <2> QED  BY <1>2, <2>1 DEF Inherits, Reparented
<1>4. /\ Forest(Reparented) /\ KidsOf(Reparented) = KidsOf(children)
      /\ Elements(Reparented[running]) = {}
      /\ Elements(Reparented[init_pcb]) = Elements(children[init_pcb]) \cup Elements(children[running])
      /\ children[init_pcb] # <<>> => Reparented[init_pcb] # <<>>
  BY <1>1, <1>2, <1>3, Inheritance
<1>5. Reparented[running] = <<>> /\ \A p \in PCB \ {running, init_pcb} : Reparented[p] = children[p]
  BY <1>3 DEF Inherits
<1>6. \A p \in PCB : Elements(Reparented[p]) \cap Free = {}
  BY <1>1, <1>2, <1>4, <1>5 DEF ChildLists
<1>7. \A p \in zombie_list \cup Free \cup {running} : Reparented[p] = <<>>
  <2>1. zombie_list \cup Free \subseteq PCB \ {running, init_pcb}
    BY <1>1, ElementOfSeq, LenProperties DEF TableTypeOK, Free, Elements, Placed, ParentFields
  <2> QED  BY <1>1, <1>5, <2>1 DEF ChildLists
<1>8. ASSUME NEW q \in PCB, NEW c \in Elements(Reparented[q])
      PROVE  parent[c] # NULL /\ (parent[c] = q \/ parent[q] = NULL)
  <2>1. CASE q = init_pcb
    BY <1>1, <1>2, <1>4, <1>8, <2>1 DEF ParentFields
  <2>2. CASE q # init_pcb
    BY <1>1, <1>4, <1>5, <1>8, <2>2 DEF ParentFields
  <2> QED  BY <2>1, <2>2
<1>9. ASSUME NEW p \in InWait
      PROVE  /\ Reparented[p] # <<>>
             /\ \A c \in Elements(Reparented[p]) : parent[c] = p => c \in Elements(children[p])
  <2>1. p \in PCB \ {running} /\ children[p] # <<>>
    BY <1>1 DEF InWait, SchedBase, SchedTypeOK, PlacedOnce, WaitNotLost
  <2>2. CASE p # init_pcb
    BY <1>5, <2>1, <2>2
  <2>3. CASE p = init_pcb
    <3>1. \A c \in Elements(children[running]) : parent[c] = running
      BY <1>1 DEF ParentFields
    <3> QED  BY <1>2, <1>4, <2>1, <2>3, <3>1
  <2> QED  BY <2>2, <2>3
<1>10. ASSUME NEW q \in PCB, running \in Elements(Reparented[q])
       PROVE  running \in Elements(children[q])
  <2>1. running \notin Elements(children[running])
    BY <1>1 DEF ParentFields
  <2>2. CASE q = running
    BY <1>4, <1>10, <2>2
  <2>3. CASE q = init_pcb
    BY <1>4, <1>10, <2>1, <2>3
  <2>4. CASE q \notin {running, init_pcb}
    BY <1>5, <1>10, <2>4
  <2> QED  BY <2>2, <2>3, <2>4
<1> QED  BY <1>2, <1>4, <1>6, <1>7, <1>8, <1>9, <1>10

(***************************************************************************)
(* Nobody waits for the process that exits: it becomes a zombie on the     *)
(* list of its parent or of an init process.                               *)
(***************************************************************************)
LEMMA ExitZombieStep == SchedAssumption /\ ProcInv /\ ExitZombie => GoodStep
<1> SUFFICES ASSUME SchedAssumption, ProcInv, ExitZombie  PROVE GoodStep
  OBVIOUS
<1> DEFINE next == Head(ready_list)
<1>1. /\ running \in PCB /\ parent[running] # NULL /\ ~ParentWaits /\ ready_list # <<>>
      /\ children' = Reparented /\ zombie_list' = zombie_list \cup {running}
      /\ running' = next /\ ready_list' = Tail(ready_list)
      /\ status' = [status EXCEPT ![running] = "Zombie", ![next] = "Running"]
      /\ Called(OtherCall)
      /\ UNCHANGED <<waiting_list, timer_list, syscall_retvalue, fault, init_pcb, pid, parent,
                     last_pid, made, pcb_free, pcbptr_free>>
  BY DEF ExitZombie, CanExit, ProcUser, UserMode
<1>2. /\ SchedBase /\ CallsTypeOK /\ Placed \cap (zombie_list \cup Free) = {} /\ StatusPlaces
      /\ \A p \in Sleepers : syscall[p].num = "other"
      /\ TableTypeOK /\ FreeBlocks /\ ChildLists /\ ParentFields /\ Forest(children)
      /\ PidsDistinct /\ WaitNotLost
  BY DEF ProcInv, PlaceInv, TableInv, ChildLists
<1>3. /\ running # init_pcb
      /\ Forest(Reparented) /\ KidsOf(Reparented) = KidsOf(children)
      /\ \A p \in PCB : Elements(Reparented[p]) \cap Free = {}
      /\ \A p \in zombie_list \cup Free \cup {running} : Reparented[p] = <<>>
      /\ \A q \in PCB : \A c \in Elements(Reparented[q]) :
           parent[c] # NULL /\ (parent[c] = q \/ parent[q] = NULL)
      /\ \A p \in InWait :
           /\ Reparented[p] # <<>>
           /\ \A c \in Elements(Reparented[p]) : parent[c] = p => c \in Elements(children[p])
  BY <1>1, Orphans
<1>4. /\ ready_list \in Seq(PCB) /\ NoRepeat(ready_list) /\ waiting_list \subseteq PCB
      /\ running \notin Elements(ready_list) \cup waiting_list
      /\ Elements(ready_list) \cap waiting_list = {} /\ Sleepers \subseteq waiting_list
      /\ status \in [PCB -> Statuses]
  BY <1>2 DEF SchedBase, SchedTypeOK, PlacedOnce
<1>5. /\ next \in PCB /\ ready_list' \in Seq(PCB) /\ NoRepeat(ready_list')
      /\ Elements(ready_list) = Elements(ready_list') \cup {next}
      /\ next \notin Elements(ready_list')
  BY <1>1, <1>4, HeadTailElements
<1> HIDE DEF next
<1>6. Free' = Free /\ running \notin zombie_list \cup Free
  BY <1>1, <1>2 DEF Free, Placed
<1>7. TableTypeOK' /\ FreeBlocks' /\ PidsDistinct'
  BY <1>1, <1>2, <1>6 DEF TableTypeOK, FreeBlocks, PidsDistinct
<1>8. ChildLists'
  BY <1>1, <1>2, <1>3, <1>6 DEF ChildLists
<1>9. ParentFields'
  BY <1>1, <1>2, <1>3, <1>6 DEF ParentFields
<1>10. CallsTypeOK' /\ \A p \in PCB \ {running} : syscall'[p] = syscall[p]
  BY <1>1, <1>2, CallTypes
<1>11. SchedBase'
  <2>1. SchedTypeOK'
    BY <1>1, <1>2, <1>4, <1>5 DEF SchedBase, SchedTypeOK, Statuses
  <2>2. PlacedOnce'
    BY <1>1, <1>4, <1>5 DEF PlacedOnce
  <2>3. TimersSorted' /\ Sleepers' = Sleepers
    BY <1>1, <1>2 DEF SchedBase, TimersSorted, Sleepers
  <2> QED  BY <1>1, <1>4, <2>1, <2>2, <2>3 DEF SchedBase
<1>12. PlaceInv'
  <2>1. Placed' \cap (zombie_list' \cup Free') = {}
    BY <1>1, <1>2, <1>4, <1>5, <1>6 DEF Placed
  <2>2. \A p \in PCB : status'[p] = IF p = next THEN "Running"
                                   ELSE IF p = running THEN "Zombie" ELSE status[p]
    BY <1>1, <1>4
  <2>3. next \notin zombie_list /\ next \notin waiting_list /\ next # running
    BY <1>2, <1>4, <1>5 DEF Placed
  <2>4. StatusPlaces'
    <3>4. Elements(ready_list) \cup zombie_list \cup Free \subseteq PCB
      BY ListsHoldPCBs
    <3>1. \A p \in waiting_list' : status'[p] = "Waiting"
      BY <1>1, <1>2, <1>4, <2>2, <2>3 DEF StatusPlaces
    <3>5. \A p \in Elements(ready_list') \cup Free' : status'[p] # "Waiting"
      BY <1>2, <1>5, <1>6, <2>2, <3>4 DEF StatusPlaces
    <3>2. \A p \in PCB : status'[p] = "Zombie" => p \in zombie_list' \cup Free'
      BY <1>1, <1>2, <1>6, <2>2 DEF StatusPlaces
    <3>3. \A z \in zombie_list' : status'[z] = "Zombie"
      BY <1>1, <1>2, <2>2, <2>3 DEF StatusPlaces, TableTypeOK
    <3> QED  BY <3>1, <3>2, <3>3, <3>5 DEF StatusPlaces
  <2>5. Sleepers' = Sleepers
    BY <1>1 DEF Sleepers
  <2> QED  BY <1>2, <1>4, <1>10, <1>11, <2>1, <2>4, <2>5 DEF PlaceInv
<1>13. WaitNotLost'
  <2>1. ASSUME NEW p \in InWait'
        PROVE  p \in InWait /\ p \in PCB /\ p # running /\ syscall'[p] = syscall[p]
    BY <1>1, <1>4, <1>10 DEF InWait
  <2>2. ASSUME NEW p \in InWait', NEW c \in Elements(Reparented[p]),
               syscall[p].arg \in {0, pid[c]}, parent[c] = p
        PROVE  c \notin zombie_list \cup {running}
    <3>1. c \in Elements(children[p])
      BY <1>3, <2>1, <2>2
    <3>2. c \notin zombie_list
      BY <1>2, <2>1, <2>2, <3>1 DEF WaitNotLost, Accepts
    <3>3. c # running
      <4> SUFFICES ASSUME c = running  PROVE FALSE
        OBVIOUS
      <4>1. status[p] = "Waiting" /\ syscall[p].num = "wait"
        BY <1>2, <2>1 DEF InWait, StatusPlaces
      <4>2. syscall[p] \in {WaitFor(0), WaitFor(pid[running])}
        BY <1>2, <2>1, <2>2, <4>1 DEF CallsTypeOK, WaitFor
      <4> QED  BY <1>1, <2>2, <4>1, <4>2 DEF ParentWaits
    <3> QED  BY <3>2, <3>3
  <2> QED  BY <1>1, <1>3, <2>1, <2>2 DEF WaitNotLost, Accepts
<1>14. PtrLostAtExit
  <2>1. (PtrBlocks = pcbptr_free + Cardinality(KidsOf(children)))'
    BY <1>1, <1>3, ItemsAreKids DEF PtrBlocks, ListItems
  <2> QED  BY <1>1, <1>3, <1>6, <2>1, PtrBlocksOfKids DEF PtrLostAtExit
<1>15. FreedWhenReported
  BY <1>6 DEF FreedWhenReported
<1> QED  BY <1>7, <1>8, <1>9, <1>12, <1>13, <1>14, <1>15 DEF GoodStep, ProcInv, TableInv

(***************************************************************************)
(* The parent waits: it leaves the waiting list with the pid as its        *)
(* result, and the block of the process that exits is free at once.        *)
(***************************************************************************)
LEMMA ExitAwaitedStep == SchedAssumption /\ ProcAssumption /\ ProcInv /\ ExitAwaited => GoodStep
<1> SUFFICES ASSUME SchedAssumption, ProcAssumption, ProcInv, ExitAwaited  PROVE GoodStep
  OBVIOUS
<1> DEFINE up == parent[running]
           i == PlaceInParent
<1>1. /\ running \in PCB /\ up # NULL /\ ParentWaits /\ i # 0
      /\ children' = [Reparented EXCEPT ![up] = Detach(@, i)]
      /\ waiting_list' = waiting_list \ {up}
      /\ status' = [status EXCEPT ![running] = "Zombie", ![up] = "Running"]
      /\ syscall_retvalue' = [syscall_retvalue EXCEPT ![up] = pid[running]]
      /\ timer_list' = TimersWithout(running) /\ pcb_free' = <<running>> \o pcb_free
      /\ running' = up /\ Called(OtherCall)
      /\ UNCHANGED <<ready_list, fault, init_pcb, pid, parent, last_pid, made, pcbptr_free,
                     zombie_list>>
  BY DEF ExitAwaited, CanExit, ProcUser, UserMode, Report
<1>2. /\ SchedBase /\ CallsTypeOK /\ Placed \cap (zombie_list \cup Free) = {} /\ StatusPlaces
      /\ \A p \in Sleepers : syscall[p].num = "other"
      /\ TableTypeOK /\ FreeBlocks /\ ChildLists /\ ParentFields /\ Forest(children)
      /\ PidsDistinct /\ WaitNotLost
  BY DEF ProcInv, PlaceInv, TableInv, ChildLists
<1>3. /\ running # init_pcb
      /\ Forest(Reparented) /\ KidsOf(Reparented) = KidsOf(children)
      /\ \A p \in PCB : Elements(Reparented[p]) \cap Free = {}
      /\ \A p \in zombie_list \cup Free \cup {running} : Reparented[p] = <<>>
      /\ \A q \in PCB : \A c \in Elements(Reparented[q]) :
           parent[c] # NULL /\ (parent[c] = q \/ parent[q] = NULL)
      /\ \A p \in InWait :
           /\ Reparented[p] # <<>>
           /\ \A c \in Elements(Reparented[p]) : parent[c] = p => c \in Elements(children[p])
      /\ \A q \in PCB : running \in Elements(Reparented[q]) => running \in Elements(children[q])
  BY <1>1, Orphans
<1>4. /\ ready_list \in Seq(PCB) /\ NoRepeat(ready_list) /\ waiting_list \subseteq PCB
      /\ running \notin Elements(ready_list) \cup waiting_list
      /\ Elements(ready_list) \cap waiting_list = {} /\ Sleepers \subseteq waiting_list
      /\ status \in [PCB -> Statuses] /\ timer_list \in Seq(Timers)
  BY <1>2 DEF SchedBase, SchedTypeOK, PlacedOnce
<1>5. /\ up \in PCB /\ up # running /\ up \notin Sleepers
      /\ up \notin Elements(ready_list) \cup zombie_list \cup Free
  <2>1. up \in PCB /\ up # running
    BY <1>1, <1>2 DEF TableTypeOK, ParentFields
  <2>2. status[up] = "Waiting" /\ syscall[up].num = "wait"
    BY <1>1 DEF ParentWaits, WaitFor
  <2> QED  BY <1>2, <2>1, <2>2 DEF StatusPlaces
<1> HIDE DEF i
<1>6. i \in 1..Len(Reparented[up]) /\ Reparented[up][i] = running
  <2> DEFINE n == Len(Reparented[up])
             I == {j \in 1..n : Reparented[up][j] = running}
  <2>1. i = FirstOf(I)
    BY DEF i, PlaceInParent
  <2>2. n \in Nat
    BY <1>3, <1>5, LenProperties DEF Forest
  <2>3. i # 0 => i \in I
    <3> HIDE DEF I, n
    <3>1. I \subseteq 1..n
      BY DEF I
    <3> QED  BY <2>1, <2>2, <3>1, FirstOfProperties
  <2> QED  BY <1>1, <2>3
<1>7. Separates(Reparented, children', up, i)
  <2>1. Reparented \in [PCB -> Seq(PCB)] /\ Detach(Reparented[up], i) \in Seq(PCB)
    BY <1>3, <1>5, <1>6, DetachProperties DEF Forest
  <2> QED  BY <1>1, <1>5, <2>1 DEF Separates
<1> HIDE DEF up
<1>8. /\ Forest(children')
      /\ running \in Elements(Reparented[up])
      /\ KidsOf(children') = KidsOf(Reparented) \ {running}
      /\ Cardinality(KidsOf(children')) = Cardinality(KidsOf(Reparented)) - 1
      /\ \A x : \A q \in PCB :
           x \in Elements(children'[q]) <=> x \in Elements(Reparented[q]) /\ x # running
  <2>1. Forest(Reparented)
    BY <1>3
  <2>2. Forest(children') /\ Reparented[up][i] \in Elements(Reparented[up])
    BY <1>5, <1>6, <1>7, <2>1, Separation
  <2>3. KidsOf(children') = KidsOf(Reparented) \ {Reparented[up][i]}
    BY <1>5, <1>6, <1>7, <2>1, Separation
  <2>4. Cardinality(KidsOf(children')) = Cardinality(KidsOf(Reparented)) - 1
    BY <1>5, <1>6, <1>7, <2>1, Separation
  <2>5. ASSUME NEW q \in PCB
        PROVE  \A x : x \in Elements(children'[q]) <=> x \in Elements(Reparented[q]) /\ x # Reparented[up][i]
    BY <1>5, <1>6, <1>7, <2>1, Separation
  <2> QED  BY <1>6, <2>2, <2>3, <2>4, <2>5
<1>9. \A q \in PCB \ {up} : children'[q] = Reparented[q]
  BY <1>7 DEF Separates
<1>10. running \notin zombie_list \cup Free /\ up \notin zombie_list \cup Free
  BY <1>2, <1>5 DEF Placed
<1>11. pcb_free' \in Seq(PCB) /\ NoRepeat(pcb_free') /\ Free' = Free \cup {running}
  BY <1>1, <1>10, FreedBlock
<1>12. Cardinality(KidsOf(children)) \in Nat /\ pcbptr_free \in Nat /\ MAX_NUM_PROCESSES \in Nat
  <2>1. Cardinality(KidsOf(children)) \in Nat
    BY <1>2, ItemsAreKids
  <2> QED  BY <1>2, <2>1 DEF TableTypeOK, SchedAssumption
<1>13. TableTypeOK' /\ FreeBlocks' /\ PidsDistinct'
  BY <1>1, <1>2, <1>10, <1>11 DEF TableTypeOK, FreeBlocks, PidsDistinct
<1>14. ChildLists'
  <2>1. \A p \in PCB : Elements(children'[p]) \cap Free' = {}
    BY <1>3, <1>8, <1>11
  <2>2. \A p \in zombie_list' \cup Free' : children'[p] = <<>>
    <3>1. zombie_list \cup Free \cup {running} \subseteq PCB \ {up}
      BY <1>1, <1>2, <1>5, <1>10, ElementOfSeq, LenProperties DEF TableTypeOK, Free, Elements
    <3> QED  BY <1>1, <1>3, <1>9, <1>11, <3>1
  <2>3. pcbptr_free' + Cardinality(KidsOf(children')) <= MAX_NUM_PROCESSES
    BY <1>1, <1>2, <1>3, <1>8, <1>12 DEF ChildLists
  <2> QED  BY <1>8, <2>1, <2>2, <2>3 DEF ChildLists
<1>15. ParentFields'
  <2>1. \A q \in PCB : \A c \in Elements(children'[q]) :
          parent[c] # NULL /\ (parent[c] = q \/ parent[q] = NULL)
    BY <1>3, <1>8
  <2>2. \A p \in PCB \ Free' : parent[p] # NULL => p \in KidsOf(children')
    BY <1>2, <1>3, <1>8, <1>11 DEF ParentFields
  <2>3. init_pcb \notin zombie_list \cup Free'
    BY <1>2, <1>3, <1>11 DEF ParentFields
  <2> QED  BY <1>1, <1>2, <2>1, <2>2, <2>3 DEF ParentFields
<1>16. CallsTypeOK' /\ \A p \in PCB \ {running} : syscall'[p] = syscall[p]
  BY <1>1, <1>2, CallTypes
<1>17. timer_list' = timer_list /\ Sleepers' = Sleepers
  <2>1. timer_list' = timer_list
    BY <1>1, <1>4, NoTimerToRelease
  <2> QED  BY <2>1 DEF Sleepers
<1>18. syscall_retvalue' \in [PCB -> Int] /\ syscall_retvalue'[up] = pid[running]
  BY <1>1, <1>2, <1>5 DEF SchedBase, SchedTypeOK, TableTypeOK, ProcAssumption
<1>19. SchedBase'
  <2>1. SchedTypeOK'
    BY <1>1, <1>2, <1>4, <1>5, <1>17, <1>18 DEF SchedBase, SchedTypeOK, Statuses
  <2>2. PlacedOnce'
    BY <1>1, <1>4, <1>5 DEF PlacedOnce
  <2>3. TimersSorted'
    BY <1>2, <1>17 DEF SchedBase, TimersSorted
  <2> QED  BY <1>1, <1>4, <1>5, <1>17, <2>1, <2>2, <2>3 DEF SchedBase
<1>20. PlaceInv'
  <2>1. Placed' \cap (zombie_list' \cup Free') = {}
    BY <1>1, <1>2, <1>4, <1>5, <1>11 DEF Placed
  <2>2. \A p \in PCB : status'[p] = IF p = up THEN "Running"
                                   ELSE IF p = running THEN "Zombie" ELSE status[p]
    BY <1>1, <1>4
  <2>3. StatusPlaces'
    <3>4. Elements(ready_list) \cup zombie_list \cup Free \subseteq PCB
      BY ListsHoldPCBs
    <3>1. \A p \in waiting_list' : status'[p] = "Waiting"
      BY <1>1, <1>2, <1>4, <2>2 DEF StatusPlaces
    <3>5. \A p \in Elements(ready_list') \cup Free' : status'[p] # "Waiting"
      <4>1. \A p \in Elements(ready_list) \cup Free : status[p] # "Waiting" /\ p \in PCB
        BY <1>2, <3>4 DEF StatusPlaces
      <4>2. Elements(ready_list') \cup Free' = Elements(ready_list) \cup Free \cup {running}
        BY <1>1, <1>11
      <4>3. running \in PCB
        BY <1>1
      <4>4. status'[running] # "Waiting"
        BY <2>2, <4>3
      <4> QED  BY <2>2, <4>1, <4>2, <4>4
    <3>2. \A p \in PCB : status'[p] = "Zombie" => p \in zombie_list' \cup Free'
      BY <1>1, <1>2, <1>11, <2>2 DEF StatusPlaces
    <3>3. \A z \in zombie_list' : status'[z] = "Zombie"
      BY <1>1, <1>2, <1>10, <2>2 DEF StatusPlaces, TableTypeOK
    <3> QED  BY <3>1, <3>2, <3>3, <3>5 DEF StatusPlaces
  <2> QED  BY <1>2, <1>4, <1>16, <1>17, <1>19, <2>1, <2>3 DEF PlaceInv
<1>21. WaitNotLost'
  <2>1. ASSUME NEW p \in InWait'
        PROVE  /\ p \in InWait /\ p \in PCB \ {up} /\ syscall'[p] = syscall[p]
               /\ children'[p] = Reparented[p]
    BY <1>1, <1>4, <1>9, <1>16 DEF InWait
  <2>2. ASSUME NEW p \in InWait', NEW c \in Elements(Reparented[p]),
               syscall[p].arg \in {0, pid[c]}, parent[c] = p
        PROVE  c \notin zombie_list
    <3>1. c \in Elements(children[p])
      BY <1>3, <2>1, <2>2
    <3> QED  BY <1>2, <2>1, <2>2, <3>1 DEF WaitNotLost, Accepts
  <2> QED  BY <1>1, <1>3, <2>1, <2>2 DEF WaitNotLost, Accepts
<1>22. PtrLostAtExit
  <2>1. (PtrBlocks = pcbptr_free + Cardinality(KidsOf(children)))'
    BY <1>8, ItemsAreKids DEF PtrBlocks, ListItems
  <2>2. running \in Free' /\ running \notin Free
    BY <1>10, <1>11
  <2> QED  BY <1>1, <1>3, <1>8, <1>12, <2>1, <2>2, PtrBlocksOfKids DEF PtrLostAtExit
<1>23. FreedWhenReported
  <2>1. running \in Elements(children[up])
    BY <1>3, <1>5, <1>8
  <2>2. running' = up /\ running \notin Elements(children'[up])
    BY <1>1, <1>5, <1>8
  <2>3. \A p \in PCB : p \notin Free /\ p \in Free' => p = running
    BY <1>11
  <2>4. up \in PCB /\ syscall_retvalue'[up] = pid[running]
    BY <1>5, <1>18
  <2> QED  BY <2>1, <2>2, <2>3, <2>4 DEF FreedWhenReported
<1> QED  BY <1>13, <1>14, <1>15, <1>20, <1>21, <1>22, <1>23 DEF GoodStep, ProcInv, TableInv

-----------------------------------------------------------------------------
(* init runs, the other blocks are free, and nobody has a child.           *)
LEMMA ProcInitInv == SchedAssumption /\ ProcAssumption /\ ProcInit => ProcInv
<1> SUFFICES ASSUME SchedAssumption, ProcAssumption, ProcInit  PROVE ProcInv
  OBVIOUS
<1> DEFINE n == MAX_NUM_PROCESSES
<1>1. n \in Nat /\ n > 0 /\ 1 \in PCB /\ MaxPid \in Nat /\ MaxPid > 0
  BY DEF SchedAssumption, ProcAssumption, PCB
<1>2. /\ pcb_free \in Seq(PCB) /\ Len(pcb_free) = n - 1
      /\ \A i \in 1..(n - 1) : pcb_free[i] = i + 1
  BY <1>1 DEF ProcInit, PCB
<1>3. NoRepeat(pcb_free) /\ Free = PCB \ {1}
  <2>1. NoRepeat(pcb_free)
    BY <1>1, <1>2 DEF NoRepeat
  <2>2. \A p \in Free : p \in PCB \ {1}
    BY <1>1, <1>2 DEF Free, Elements, PCB
  <2>3. ASSUME NEW p \in PCB \ {1}  PROVE p \in Free
    <3>1. p - 1 \in 1..(n - 1) /\ pcb_free[p - 1] = p
      BY <1>1, <1>2 DEF PCB
    <3> QED  BY <1>2, <3>1 DEF Free, Elements
  <2> QED  BY <2>1, <2>2, <2>3
<1>4. /\ <<>> \in Seq(PCB) /\ Elements(<<>>) = {} /\ NoRepeat(<<>>) /\ Len(<<>>) = 0
      /\ <<>> \in Seq(Timers)
  BY EmptySeq DEF Elements, NoRepeat
<1>5. Forest(children) /\ KidsOf(children) = {} /\ Cardinality(KidsOf(children)) = 0
  <2>1. \A p \in PCB : children[p] = <<>>
    BY DEF ProcInit
  <2>2. children \in [PCB -> Seq(PCB)]
    BY <1>4 DEF ProcInit
  <2>3. Forest(children) /\ KidsOf(children) = {}
    BY <1>4, <2>1, <2>2 DEF Forest, KidsOf
  <2> QED  BY <2>3, FS_EmptySet
<1>6. TableInv
  <2>1. TableTypeOK /\ FreeBlocks
    BY <1>1, <1>2, <1>3 DEF TableTypeOK, FreeBlocks, ProcInit, NULL
  <2>2. ChildLists
    <3>1. \A p \in PCB : Elements(children[p]) \cap Free = {}
      BY <1>4 DEF ProcInit
    <3>2. \A p \in zombie_list \cup Free : children[p] = <<>>
      BY <1>3 DEF ProcInit
    <3> QED  BY <1>1, <1>5, <3>1, <3>2 DEF ChildLists, ProcInit
  <2>3. ParentFields
    BY <1>1, <1>3, <1>4 DEF ParentFields, ProcInit, NULL, PCB
  <2>4. PidsDistinct
    BY <1>1, <1>3 DEF PidsDistinct, ProcInit
  <2> QED  BY <2>1, <2>2, <2>3, <2>4 DEF TableInv
<1>7. Sleepers = {} /\ Placed = {1}
  BY <1>4 DEF Sleepers, Placed, ProcInit
<1>8. SchedBase
  <2>1. SchedTypeOK
    BY <1>1, <1>4 DEF SchedTypeOK, ProcInit, Statuses, Faults
  <2>2. PlacedOnce /\ TimersSorted
    BY <1>4 DEF PlacedOnce, TimersSorted, ProcInit
  <2> QED  BY <1>7, <2>1, <2>2 DEF SchedBase
<1>9. PlaceInv
  <2>1. CallsTypeOK
    BY DEF CallsTypeOK, OtherCall, ProcInit
  <2>2. StatusPlaces
    BY <1>3, <1>4 DEF StatusPlaces, ProcInit
  <2> QED  BY <1>3, <1>7, <1>8, <2>1, <2>2 DEF PlaceInv, ProcInit
<1>10. WaitNotLost
  BY DEF WaitNotLost, InWait, ProcInit
<1> QED  BY <1>6, <1>9, <1>10 DEF ProcInv

(* The nine handlers, the interrupts and the ways the program ends.        *)
LEMMA ProcStep == SchedAssumption /\ ProcAssumption /\ ProcInv /\ [ProcNext]_procAll => GoodStep
<1> SUFFICES ASSUME SchedAssumption, ProcAssumption, ProcInv, [ProcNext]_procAll  PROVE GoodStep
  OBVIOUS
<1>1. TableTypeOK /\ SchedTypeOK
  BY DEF ProcInv, TableInv, PlaceInv, SchedBase
<1>2. CASE Create /\ (Fork \/ Spawn)
  <2>1. Head(pcb_free) \in PCB
    BY <1>1, <1>2, HeadTailElements DEF Create, TableTypeOK
  <2>2. made' \subseteq PCB
    BY <1>1, <1>2, <2>1 DEF Fork, Spawn, TableTypeOK
  <2> QED  BY <1>2, <2>2, CreateStep
<1>3. CASE \E where \in Faults : Crash(where) /\ UNCHANGED procVars
  <2>1. fault' \in Faults /\ UNCHANGED <<placeVars, timer_list, syscall_retvalue, procVars>>
    BY <1>3 DEF Crash
  <2> QED  BY <2>1, CrashStep
<1>4. ASSUME NEW arg \in WaitArgs, Wait(arg)
      PROVE  GoodStep
  <2>1. CASE WaitRefused(arg)
    BY <2>1, WaitRefusedStep
  <2>2. CASE WaitReap(arg)
    BY <2>2, WaitReapStep
  <2>3. CASE WaitBlock(arg)
    BY <2>3, WaitBlockStep
  <2>4. CASE WaitNoReady(arg)
    BY <1>3, <2>4 DEF WaitNoReady, Faults
  <2> QED  BY <1>4, <2>1, <2>2, <2>3, <2>4 DEF Wait
<1>5. CASE Exit
  <2>1. CASE ExitAwaited
    BY <2>1, ExitAwaitedStep
  <2>2. CASE ExitZombie
    BY <2>2, ExitZombieStep
  <2>3. CASE ExitLoops \/ ExitNoParent \/ ExitNotAChild \/ ExitNoReady
    BY <1>3, <2>3 DEF ExitLoops, ExitNoParent, ExitNotAChild, ExitNoReady, Faults
  <2> QED  BY <1>5, <2>1, <2>2, <2>3 DEF Exit, ExitUnawaited
<1>6. CASE CreateNoBlock \/ RunUnmade \/ BootNoBlock \/ TickIdle \/ Shutdown
  BY <1>3, <1>6 DEF CreateNoBlock, RunUnmade, BootNoBlock, TickIdle, Shutdown, Faults
<1>7. CASE UNCHANGED procAll
  BY <1>1, <1>7, CrashStep DEF procAll, schedVars, SchedTypeOK
<1>8. Fork \/ Spawn => Create
  BY DEF Fork, Spawn
<1> QED  BY <1>2, <1>4, <1>5, <1>6, <1>7, <1>8, BootStep, SleepStep, PreemptStep, TickStep DEF ProcNext

LEMMA ProcInvariant == ProcSpec => []ProcInv
<1>1. ProcInit => ProcInv
  BY SchedAssumption, ProcAssumption, ProcInitInv
<1>2. ProcInv /\ [ProcNext]_procAll => ProcInv'
  BY SchedAssumption, ProcAssumption, ProcStep DEF GoodStep
<1> QED  BY <1>1, <1>2, PTL DEF ProcSpec

-----------------------------------------------------------------------------
(***************************************************************************)
(* No PCB is lost as long as the first init is the one orphans go to: PCB  *)
(* 1 has no parent, so that it is on no list of children and is never      *)
(* freed, and a handler that takes a PCB off one list puts it on another,  *)
(* lets it run or frees it.                                                *)
(***************************************************************************)
Known == Placed \cup zombie_list \cup Free

Whereabouts ==
  /\ 1 \notin Free /\ parent[1] = NULL
  /\ init_pcb = 1 => PCB \subseteq Known

LEMMA WhereaboutsKept ==
  ASSUME Whereabouts, Known \subseteq Known',
         init_pcb' = init_pcb, 1 \notin Free', parent'[1] = NULL
  PROVE  Whereabouts'
BY DEF Whereabouts

(* The process table is left as it is.                                     *)
LEMMA WhereaboutsOfPlaced ==
  ASSUME Whereabouts, UNCHANGED tableVars, Placed \subseteq Placed'
  PROVE  Whereabouts'
<1>1. /\ Free' = Free /\ zombie_list' = zombie_list /\ init_pcb' = init_pcb /\ parent' = parent
  BY DEF tableVars, familyVars, Free
<1>2. Known \subseteq Known'
  BY <1>1 DEF Known
<1>3. 1 \notin Free' /\ parent'[1] = NULL
  BY <1>1 DEF Whereabouts
<1> QED  BY <1>1, <1>2, <1>3, WhereaboutsKept

LEMMA CreateWhereabouts ==
  ASSUME SchedAssumption, ProcAssumption, ProcInv, Whereabouts, Create
  PROVE  Whereabouts'
<1> DEFINE new == Head(pcb_free)
<1>1. /\ running \in PCB /\ pcb_free # <<>> /\ last_pid < MaxPid /\ PCB_alloc(running)
      /\ ready_list' = Append(ready_list, new)
      /\ UNCHANGED <<running, waiting_list, init_pcb, zombie_list>>
  BY DEF Create, ProcUser, UserMode
<1>2. /\ new \in PCB /\ new \in Free /\ Free' = Free \ {new}
      /\ \A p \in PCB \ {new} : parent'[p] = parent[p]
  <2> HIDE DEF new
  <2> QED  BY <1>1, AllocatedBlock DEF new
<1> HIDE DEF new
<1>3. Elements(ready_list') = Elements(ready_list) \cup {new}
  <2>1. ready_list \in Seq(PCB)
    BY DEF ProcInv, PlaceInv, SchedBase, SchedTypeOK
  <2> QED  BY <1>1, <1>2, <2>1, AppendElements
<1>4. Known \subseteq Known'
  BY <1>1, <1>2, <1>3 DEF Known, Placed
<1>5. 1 \in PCB
  BY DEF PCB, SchedAssumption
<1>6. 1 \notin Free' /\ parent'[1] = NULL
  BY <1>2, <1>5 DEF Whereabouts
<1> QED  BY <1>1, <1>4, <1>6, WhereaboutsKept

(* The new init is another PCB than the first, which has not been freed.   *)
LEMMA BootWhereabouts ==
  ASSUME SchedAssumption, ProcAssumption, ProcInv, Whereabouts, Boot
  PROVE  Whereabouts'
<1> DEFINE new == Head(pcb_free)
<1>1. /\ pcb_free # <<>> /\ last_pid < MaxPid /\ PCB_alloc(NULL) /\ init_pcb' = new
  BY DEF Boot
<1>2. /\ new \in PCB /\ new \in Free /\ Free' = Free \ {new}
      /\ \A p \in PCB \ {new} : parent'[p] = parent[p]
  <2> HIDE DEF new
  <2>1. NULL \in PCB \cup {NULL}
    OBVIOUS
  <2> QED  BY <1>1, <2>1, AllocatedBlock DEF new
<1> HIDE DEF new
<1>3. 1 \in PCB
  BY DEF PCB, SchedAssumption
<1> QED  BY <1>1, <1>2, <1>3 DEF Whereabouts

(* The child goes from the zombies to the free blocks.                     *)
LEMMA WaitReapWhereabouts ==
  ASSUME SchedAssumption, ProcInv, Whereabouts, NEW arg \in WaitArgs, WaitReap(arg)
  PROVE  Whereabouts'
<1> DEFINE i == Awaited(arg)
           child == children[running][i]
<1>1. /\ running \in PCB /\ children[running] # <<>> /\ zombie_list' = zombie_list \ {child}
      /\ pcb_free' = <<child>> \o pcb_free
      /\ UNCHANGED <<placeVars, init_pcb, parent>>
  BY DEF WaitReap, ProcUser, UserMode
<1>2. i \in 1..Len(children[running])
  BY <1>1, AwaitedChild
<1> HIDE DEF i
<1>3. child \in Elements(children[running])
  BY <1>2 DEF Elements
<1> HIDE DEF child
<1>4. child \in PCB \ Free /\ parent[child] # NULL
  <2>1. child \notin Free /\ parent[child] # NULL
    BY <1>1, <1>3 DEF ProcInv, TableInv, ChildLists, ParentFields
  <2>2. Elements(children[running]) \subseteq PCB
    BY <1>1, KidsFinite DEF ProcInv, TableInv, ChildLists, Forest, KidsOf
  <2> QED  BY <1>3, <2>1, <2>2
<1>5. Free' = Free \cup {child}
  BY <1>1, <1>4, FreedBlock
<1>6. Known \subseteq Known'
  BY <1>1, <1>5 DEF Known, Placed, placeVars
<1>7. 1 \notin Free' /\ parent'[1] = NULL
  BY <1>1, <1>4, <1>5 DEF Whereabouts
<1> QED  BY <1>1, <1>6, <1>7, WhereaboutsKept

(* Who exits has a parent: it is not PCB 1.                                *)
LEMMA ExitWhereabouts ==
  ASSUME SchedAssumption, ProcInv, Whereabouts, ExitAwaited \/ ExitZombie
  PROVE  Whereabouts'
<1>1. /\ ready_list \in Seq(PCB) /\ running \notin zombie_list \cup Free
      /\ parent[running] # NULL /\ running \in PCB
  BY DEF ProcInv, PlaceInv, SchedBase, SchedTypeOK, Placed, ExitAwaited, ExitZombie, CanExit,
         ProcUser, UserMode
<1>2. UNCHANGED <<init_pcb, parent>>
  BY DEF ExitAwaited, ExitZombie
<1>3. CASE ExitAwaited
  <2>1. /\ pcb_free' = <<running>> \o pcb_free /\ running' = parent[running]
        /\ waiting_list' = waiting_list \ {parent[running]}
        /\ UNCHANGED <<ready_list, zombie_list>>
    BY <1>3 DEF ExitAwaited
  <2>2. Free' = Free \cup {running}
    BY <1>1, <2>1, FreedBlock
  <2>3. Known \subseteq Known'
    BY <2>1, <2>2 DEF Known, Placed
  <2>4. 1 \notin Free' /\ parent'[1] = NULL
    BY <1>1, <1>2, <2>2 DEF Whereabouts
  <2> QED  BY <1>2, <2>3, <2>4, WhereaboutsKept
<1>4. CASE ExitZombie
  <2>1. /\ ready_list # <<>> /\ zombie_list' = zombie_list \cup {running}
        /\ running' = Head(ready_list) /\ ready_list' = Tail(ready_list)
        /\ UNCHANGED <<waiting_list, pcb_free>>
    BY <1>4 DEF ExitZombie
  <2>2. Elements(ready_list) = Elements(ready_list') \cup {running'}
    BY <1>1, <2>1, HeadTailElements
  <2>3. Free' = Free
    BY <2>1 DEF Free
  <2>4. Known \subseteq Known'
    BY <2>1, <2>2, <2>3 DEF Known, Placed
  <2>5. 1 \notin Free' /\ parent'[1] = NULL
    BY <1>2, <2>3 DEF Whereabouts
  <2> QED  BY <1>2, <2>4, <2>5, WhereaboutsKept
<1> QED  BY <1>3, <1>4

(* The calls and the interrupt that move processes between the three lists *)
(* of the scheduler only.                                                  *)
LEMMA BlockingWhereabouts ==
  ASSUME SchedAssumption, ProcInv, Whereabouts,
         \/ \E cycles \in SleepTimes : Sleep(cycles)
         \/ \E arg \in WaitArgs : WaitBlock(arg)
         \/ Preempt \/ Tick
  PROVE  Whereabouts'
<1>1. SchedBase /\ ready_list \in Seq(PCB)
  BY DEF ProcInv, PlaceInv, SchedBase, SchedTypeOK
<1>2. ASSUME NEW cycles \in SleepTimes, Sleep(cycles)
      PROVE  Whereabouts'
  <2>1. cycles \in Nat /\ internal_sleep(cycles) /\ UNCHANGED tableVars
    BY <1>2 DEF Sleep, SchedAssumption
  <2>2. \/ UNCHANGED <<placeVars, timer_list>>
        \/ /\ waiting_list' = waiting_list \cup {running}
           /\ Elements(ready_list) \subseteq Elements(ready_list') \cup {running'}
    BY <1>1, <2>1, SleepBase
  <2>3. Placed \subseteq Placed'
    BY <2>2 DEF Placed, placeVars
  <2> QED  BY <2>1, <2>3, WhereaboutsOfPlaced
<1>3. ASSUME NEW arg \in WaitArgs, WaitBlock(arg)
      PROVE  Whereabouts'
  <2>1. /\ ready_list # <<>> /\ waiting_list' = waiting_list \cup {running}
        /\ running' = Head(ready_list) /\ ready_list' = Tail(ready_list) /\ UNCHANGED tableVars
    BY <1>3 DEF WaitBlock
  <2>2. Elements(ready_list) = Elements(ready_list') \cup {running'}
    BY <1>1, <2>1, HeadTailElements
  <2>3. Placed \subseteq Placed'
    BY <2>1, <2>2 DEF Placed
  <2> QED  BY <2>1, <2>3, WhereaboutsOfPlaced
<1>4. CASE Preempt
  <2>1. UserMode /\ internal_schedule(timer_list) /\ UNCHANGED <<syscall_retvalue, fault, tableVars>>
    BY <1>4 DEF Preempt, ProcUser, internal_preempt
  <2>2. Placed' = Placed
    BY <1>1, <2>1, TickShifts, ScheduleBase
  <2> QED  BY <2>1, <2>2, WhereaboutsOfPlaced
<1>5. CASE Tick
  <2>1. UserMode /\ internal_schedule(Ticked) /\ UNCHANGED <<syscall_retvalue, fault, tableVars>>
    BY <1>5 DEF Tick, ProcUser, timerInterrupt, procVars, tableVars
  <2>2. Placed' = Placed
    BY <1>1, <2>1, TickShifts, ScheduleBase
  <2> QED  BY <2>1, <2>2, WhereaboutsOfPlaced
<1> QED  BY <1>2, <1>3, <1>4, <1>5

LEMMA WhereaboutsStep ==
  ASSUME SchedAssumption, ProcAssumption, ProcInv, Whereabouts, [ProcNext]_procAll
  PROVE  Whereabouts'
<1>1. CASE UNCHANGED <<placeVars, tableVars>>
  BY <1>1, WhereaboutsOfPlaced DEF Placed, placeVars
<1>2. CASE \E where \in Faults : Crash(where) /\ UNCHANGED procVars
  BY <1>1, <1>2 DEF Crash, procVars, tableVars
<1>3. ASSUME NEW arg \in WaitArgs, Wait(arg)
      PROVE  Whereabouts'
  <2>1. CASE WaitRefused(arg)
    BY <1>1, <2>1 DEF WaitRefused, Refuse
  <2>2. CASE WaitReap(arg)
    BY <2>2, WaitReapWhereabouts
  <2>3. CASE WaitBlock(arg)
    BY <2>3, BlockingWhereabouts
  <2>4. CASE WaitNoReady(arg)
    BY <1>2, <2>4 DEF WaitNoReady, Faults
  <2> QED  BY <1>3, <2>1, <2>2, <2>3, <2>4 DEF Wait
<1>4. CASE Exit
  <2>1. CASE ExitAwaited \/ ExitZombie
    BY <2>1, ExitWhereabouts
  <2>2. CASE ExitLoops \/ ExitNoParent \/ ExitNotAChild \/ ExitNoReady
    BY <1>2, <2>2 DEF ExitLoops, ExitNoParent, ExitNotAChild, ExitNoReady, Faults
  <2> QED  BY <1>4, <2>1, <2>2 DEF Exit, ExitUnawaited
<1>5. CASE CreateNoBlock \/ RunUnmade \/ BootNoBlock \/ TickIdle \/ Shutdown
  BY <1>2, <1>5 DEF CreateNoBlock, RunUnmade, BootNoBlock, TickIdle, Shutdown, Faults
<1>6. CASE UNCHANGED procAll
  BY <1>1, <1>6 DEF procAll, schedVars, procVars, tableVars
<1>7. CASE Fork \/ Spawn
  BY <1>7, CreateWhereabouts DEF Fork, Spawn
<1>8. CASE Boot
  BY <1>8, BootWhereabouts
<1>9. CASE (\E cycles \in SleepTimes : Sleep(cycles)) \/ Preempt \/ Tick
  BY <1>9, BlockingWhereabouts
<1> QED  BY <1>3, <1>4, <1>5, <1>6, <1>7, <1>8, <1>9 DEF ProcNext

(* Init runs, and every other block is free.                               *)
LEMMA WhereaboutsInit == SchedAssumption /\ ProcAssumption /\ ProcInit => Whereabouts
<1> SUFFICES ASSUME SchedAssumption, ProcAssumption, ProcInit  PROVE Whereabouts
  OBVIOUS
<1>1. Placed \cap Free = {} /\ 1 \in Placed
  BY ProcInitInv DEF ProcInv, PlaceInv, Placed, ProcInit
<1>2. ASSUME NEW p \in PCB \ {1}  PROVE p \in Free
  <2>1. /\ MAX_NUM_PROCESSES \in Nat \ {0} /\ p \in Nat /\ 1 < p /\ p <= MAX_NUM_PROCESSES
    BY DEF PCB, SchedAssumption
  <2>2. pcb_free = [i \in 1..(MAX_NUM_PROCESSES - 1) |-> i + 1]
    BY DEF ProcInit
  <2>3. p - 1 \in 1..(MAX_NUM_PROCESSES - 1) /\ pcb_free[p - 1] = p
    BY <2>1, <2>2
  <2>4. Len(pcb_free) = MAX_NUM_PROCESSES - 1
    BY <2>1, <2>2
  <2> QED  BY <2>3, <2>4 DEF Free, Elements
<1>3. parent[1] = NULL
  BY DEF ProcInit, PCB, SchedAssumption
<1> QED  BY <1>1, <1>2, <1>3 DEF Whereabouts, Known

LEMMA OnePlaceHolds == ProcInv /\ Whereabouts => OnePlace
<1> SUFFICES ASSUME ProcInv, Whereabouts  PROVE OnePlace
  OBVIOUS
<1>1. init_pcb = 1 => PCB \subseteq Placed \cup zombie_list \cup Free
  BY DEF Whereabouts, Known
<1> QED  BY <1>1 DEF OnePlace, ProcInv, TableInv, FreeBlocks, PlaceInv, SchedBase, Placed

(* Every zombie is on a list, and the owner of a list is not over.         *)
LEMMA FamilyTreeHolds == ProcInv /\ Whereabouts => FamilyTree
<1> SUFFICES ASSUME ProcInv, Whereabouts  PROVE FamilyTree
  OBVIOUS
<1>1. ASSUME NEW z \in zombie_list
      PROVE  \E p \in PCB \ (zombie_list \cup Free) :
               z \in Elements(children[p]) /\ (init_pcb = 1 => p \in Placed)
  <2>1. z \in PCB \ Free /\ parent[z] # NULL
    BY DEF ProcInv, TableInv, TableTypeOK, FreeBlocks, ParentFields
  <2>2. PICK p \in PCB : z \in Elements(children[p])
    BY <2>1 DEF ProcInv, TableInv, ParentFields, KidsOf
  <2>3. children[p] # <<>>
    BY <2>2, EmptySeq DEF Elements
  <2>4. p \notin zombie_list \cup Free
    BY <2>3 DEF ProcInv, TableInv, ChildLists
  <2>5. init_pcb = 1 => p \in Placed
    BY <2>4 DEF Whereabouts, Known
  <2> QED  BY <2>2, <2>4, <2>5
<1>2. /\ \A p \in PCB : Elements(children[p]) \cap Free = {} /\ NoRepeat(children[p])
      /\ \A p, q \in PCB : p # q => Elements(children[p]) \cap Elements(children[q]) = {}
  BY DEF ProcInv, TableInv, ChildLists, Forest
<1> QED  BY <1>1, <1>2 DEF FamilyTree

LEMMA WhereaboutsInvariant == ProcSpec => []Whereabouts
<1>1. ProcInit => Whereabouts
  BY SchedAssumption, ProcAssumption, WhereaboutsInit
<1>2. ProcInv /\ Whereabouts /\ [ProcNext]_procAll => Whereabouts'
  BY SchedAssumption, ProcAssumption, WhereaboutsStep
<1> QED  BY <1>1, <1>2, ProcInvariant, PTL DEF ProcSpec

-----------------------------------------------------------------------------
(* The structures of the process table keep their types.                   *)
THEOREM ProcTypeCorrect == ProcSpec => []ProcTypeOK
BY ProcInvariant, ProcInvTypes, PTL

(***************************************************************************)
(* spawn, fork, wait, exit, sleep, preemption and reboot never put a PCB   *)
(* on two lists, nor on one while its block is free, and none is lost      *)
(* before a second init is booted.                                         *)
(***************************************************************************)
THEOREM EveryPCBInOnePlace == ProcSpec => []OnePlace
BY ProcInvariant, WhereaboutsInvariant, OnePlaceHolds, PTL

(***************************************************************************)
(* Every zombie is on the list of children of a process that has not       *)
(* exited, and which, until a second init is booted, runs, is ready or     *)
(* waits: it can still wait for the zombie.                                *)
(***************************************************************************)
THEOREM FamilyTreeSound == ProcSpec => []FamilyTree
BY ProcInvariant, WhereaboutsInvariant, FamilyTreeHolds, PTL

(***************************************************************************)
(* Nobody stays blocked in wait beside a zombie it would take and whose    *)
(* parent field names it; an orphan's, which init has taken over, does not.*)
(***************************************************************************)
THEOREM NoWaitIsLost == ProcSpec => []WaitNotLost
<1>1. ProcInv => WaitNotLost
  BY DEF ProcInv
<1> QED  BY <1>1, ProcInvariant, PTL

(***************************************************************************)
(* A PCB is freed only when its pid is reported to the process that had it *)
(* on its list of children, which runs next and has it there no more.      *)
(***************************************************************************)
THEOREM NobodyFreedUnreported == ProcSpec => NoSilentFree
<1>1. ProcInv /\ [ProcNext]_procAll => [FreedWhenReported]_procAll
  BY SchedAssumption, ProcAssumption, ProcStep DEF GoodStep
<1> QED  BY <1>1, ProcInvariant, PTL DEF ProcSpec, NoSilentFree

(* A PCBPtr block is lost exactly when a process that is awaited exits.    *)
THEOREM PtrsLostOnlyAtExits == ProcSpec => PtrsLostAtExits
<1>1. ProcInv /\ [ProcNext]_procAll => [PtrLostAtExit]_procAll
  BY SchedAssumption, ProcAssumption, ProcStep DEF GoodStep
<1> QED  BY <1>1, ProcInvariant, PTL DEF ProcSpec, PtrsLostAtExits
=============================================================================
