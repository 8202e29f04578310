--------------------------- MODULE Resources_proof ---------------------------
(***************************************************************************)
(* Proofs about module Resources: the open descriptors of a process, the   *)
(* resources they point to and the three pools agree, and the one NULL     *)
(* that open does not look for never comes.                                *)
(***************************************************************************)
EXTENDS Resources, Processes_proof

-----------------------------------------------------------------------------
(***************************************************************************)
(* The three pools, with what PoolAllocator_proof says of them.            *)
(***************************************************************************)
ResP == INSTANCE PoolAllocator_proof WITH num_items <- MAX_NUM_RESOURCES, pool <- res_pool
DesP == INSTANCE PoolAllocator_proof WITH num_items <- NUM_DESCRIPTORS, pool <- des_pool
PtrP == INSTANCE PoolAllocator_proof WITH num_items <- NUM_DESCRIPTORPTRS, pool <- ptr_pool

ResStacked(a) == ResP!Stacked(a)
DesStacked(a) == DesP!Stacked(a)
PtrStacked(a) == PtrP!Stacked(a)

LEMMA PoolSizes ==
  ASSUME ResAssumption
  PROVE  /\ MAX_NUM_RESOURCES \in Nat \ {0} /\ NUM_DESCRIPTORS \in Nat \ {0}
         /\ NUM_DESCRIPTORPTRS \in Nat \ {0}
         /\ 0 \in RES /\ 0 \in DES /\ 0 \in PTR
BY DEF ResAssumption, RES, DES, PTR, ResPool!Blocks, DesPool!Blocks, PtrPool!Blocks

(* The operators of the instances of the model and of the proofs agree.    *)
LEMMA SameResPool ==
  /\ \A a : ResP!InUse(a) = ResPool!InUse(a) /\ ResP!Got(a) = ResPool!Got(a)
  /\ \A a, b : ResP!Released(a, b) = ResPool!Released(a, b)
  /\ ResP!Blocks = RES /\ ResP!NullIdx = ResPool!NullIdx
  /\ ResP!PoolAllocator_init = ResPool!PoolAllocator_init
BY DEF ResP!InUse, ResPool!InUse, ResP!Got, ResPool!Got, ResP!Released, ResPool!Released,
       ResP!Result, ResPool!Result, ResP!Blocks, ResPool!Blocks, RES, ResP!NullIdx,
       ResPool!NullIdx, ResP!DetachedIdx, ResPool!DetachedIdx, ResP!PoolAllocator_init,
       ResPool!PoolAllocator_init

LEMMA SameDesPool ==
  /\ \A a : DesP!InUse(a) = DesPool!InUse(a) /\ DesP!Got(a) = DesPool!Got(a)
  /\ \A a, bs : DesP!ReleasedAll(a, bs) = DesPool!ReleasedAll(a, bs)
  /\ DesP!Blocks = DES /\ DesP!NullIdx = DesPool!NullIdx
  /\ DesP!PoolAllocator_init = DesPool!PoolAllocator_init
BY DEF DesP!InUse, DesPool!InUse, DesP!Got, DesPool!Got, DesP!ReleasedAll, DesPool!ReleasedAll,
       DesP!Released, DesPool!Released, DesP!Result, DesPool!Result, DesP!Blocks,
       DesPool!Blocks, DES, DesP!NullIdx, DesPool!NullIdx, DesP!DetachedIdx,
       DesPool!DetachedIdx, DesP!PoolAllocator_init, DesPool!PoolAllocator_init

LEMMA SamePtrPool ==
  /\ \A a : PtrP!InUse(a) = PtrPool!InUse(a) /\ PtrP!Got(a) = PtrPool!Got(a)
  /\ \A a, bs : PtrP!ReleasedAll(a, bs) = PtrPool!ReleasedAll(a, bs)
  /\ PtrP!Blocks = PTR /\ PtrP!NullIdx = PtrPool!NullIdx
  /\ PtrP!PoolAllocator_init = PtrPool!PoolAllocator_init
BY DEF PtrP!InUse, PtrPool!InUse, PtrP!Got, PtrPool!Got, PtrP!ReleasedAll, PtrPool!ReleasedAll,
       PtrP!Released, PtrPool!Released, PtrP!Result, PtrPool!Result, PtrP!Blocks,
       PtrPool!Blocks, PTR, PtrP!NullIdx, PtrPool!NullIdx, PtrP!DetachedIdx,
       PtrPool!DetachedIdx, PtrP!PoolAllocator_init, PtrPool!PoolAllocator_init

LEMMA StackedPoolsSound ==
  ASSUME ResStacked(res_pool), DesStacked(des_pool), PtrStacked(ptr_pool)
  PROVE  ResPool!Sound /\ DesPool!Sound /\ PtrPool!Sound
<1>1. ResP!Sound /\ DesP!Sound /\ PtrP!Sound
  BY ResP!StackedSound, DesP!StackedSound, PtrP!StackedSound DEF ResStacked, DesStacked, PtrStacked
<1>2. ResPool!Sound
  BY <1>1 DEF ResP!Sound, ResPool!Sound, ResP!Spells, ResPool!Spells, ResP!Successor,
              ResPool!Successor, ResP!Blocks, ResPool!Blocks, ResP!NoRepeat, ResPool!NoRepeat,
              ResP!Elements, ResPool!Elements, ResP!NullIdx, ResPool!NullIdx,
              ResP!DetachedIdx, ResPool!DetachedIdx
<1>3. DesPool!Sound
  BY <1>1 DEF DesP!Sound, DesPool!Sound, DesP!Spells, DesPool!Spells, DesP!Successor,
              DesPool!Successor, DesP!Blocks, DesPool!Blocks, DesP!NoRepeat, DesPool!NoRepeat,
              DesP!Elements, DesPool!Elements, DesP!NullIdx, DesPool!NullIdx,
              DesP!DetachedIdx, DesPool!DetachedIdx
<1>4. PtrPool!Sound
  BY <1>1 DEF PtrP!Sound, PtrPool!Sound, PtrP!Spells, PtrPool!Spells, PtrP!Successor,
              PtrPool!Successor, PtrP!Blocks, PtrPool!Blocks, PtrP!NoRepeat, PtrPool!NoRepeat,
              PtrP!Elements, PtrPool!Elements, PtrP!NullIdx, PtrPool!NullIdx,
              PtrP!DetachedIdx, PtrPool!DetachedIdx
<1> QED BY <1>2, <1>3, <1>4

(* Nothing is in use in a new pool.                                        *)
LEMMA PoolsInit ==
  ASSUME ResAssumption, ResPool!PoolInit, DesPool!PoolInit, PtrPool!PoolInit
  PROVE  /\ ResStacked(res_pool) /\ ResPool!InUse(res_pool) = {}
         /\ DesStacked(des_pool) /\ DesPool!InUse(des_pool) = {} /\ des_pool.size = NUM_DESCRIPTORS
         /\ PtrStacked(ptr_pool) /\ PtrPool!InUse(ptr_pool) = {} /\ ptr_pool.size = NUM_DESCRIPTORPTRS
<1>1. /\ res_pool = ResP!PoolAllocator_init /\ des_pool = DesP!PoolAllocator_init
      /\ ptr_pool = PtrP!PoolAllocator_init
  BY SameResPool, SameDesPool, SamePtrPool DEF ResPool!PoolInit, DesPool!PoolInit, PtrPool!PoolInit
<1>2. ResStacked(res_pool) /\ ResP!InUse(res_pool) = {}
  BY <1>1, PoolSizes, ResP!InitStacked DEF ResStacked
<1>3. DesStacked(des_pool) /\ DesP!InUse(des_pool) = {} /\ des_pool.size = NUM_DESCRIPTORS
  BY <1>1, PoolSizes, DesP!InitStacked DEF DesStacked
<1>4. PtrStacked(ptr_pool) /\ PtrP!InUse(ptr_pool) = {} /\ ptr_pool.size = NUM_DESCRIPTORPTRS
  BY <1>1, PoolSizes, PtrP!InitStacked DEF PtrStacked
<1> QED BY <1>2, <1>3, <1>4, SameResPool, SameDesPool, SamePtrPool

(* The sizes of two pools, which are only ever used in pairs.              *)
LEMMA PoolsSized ==
  ASSUME ResAssumption, DesStacked(des_pool), PtrStacked(ptr_pool)
  PROVE  /\ des_pool.size \in Nat /\ (DesPool!Exhausted <=> des_pool.size = 0)
         /\ ptr_pool.size \in Nat /\ (PtrPool!Exhausted <=> ptr_pool.size = 0)
<1>1. des_pool.size \in Nat /\ (des_pool.first_idx = DesP!NullIdx <=> des_pool.size = 0)
  BY PoolSizes, DesP!StackedSize DEF DesStacked
<1>2. ptr_pool.size \in Nat /\ (ptr_pool.first_idx = PtrP!NullIdx <=> ptr_pool.size = 0)
  BY PoolSizes, PtrP!StackedSize DEF PtrStacked
<1> QED BY <1>1, <1>2, SameDesPool, SamePtrPool DEF DesPool!Exhausted, PtrPool!Exhausted

(* A block that is given out was free.                                     *)
LEMMA ResGot ==
  ASSUME ResAssumption, ResStacked(res_pool), ResPool!getBlock
  PROVE  /\ ResStacked(res_pool')
         /\ res_pool.first_idx \in RES \ ResPool!InUse(res_pool)
         /\ ResPool!InUse(res_pool') = ResPool!InUse(res_pool) \cup {res_pool.first_idx}
<1>1. res_pool.first_idx # ResP!NullIdx /\ res_pool' = ResP!Got(res_pool)
  BY SameResPool DEF ResPool!getBlock, ResPool!Exhausted
<1>2. /\ ResP!Stacked(res_pool')
      /\ res_pool.first_idx \in ResP!Blocks \ ResP!InUse(res_pool)
      /\ ResP!InUse(res_pool') = ResP!InUse(res_pool) \cup {res_pool.first_idx}
  BY <1>1, PoolSizes, ResP!GetStacked DEF ResStacked
<1> QED BY <1>2, SameResPool DEF ResStacked

LEMMA DesGot ==
  ASSUME ResAssumption, DesStacked(des_pool), DesPool!getBlock
  PROVE  /\ DesStacked(des_pool') /\ des_pool'.size = des_pool.size - 1
         /\ des_pool.first_idx \in DES \ DesPool!InUse(des_pool)
         /\ DesPool!InUse(des_pool') = DesPool!InUse(des_pool) \cup {des_pool.first_idx}
<1>1. des_pool.first_idx # DesP!NullIdx /\ des_pool' = DesP!Got(des_pool)
  BY SameDesPool DEF DesPool!getBlock, DesPool!Exhausted
<1>2. /\ DesP!Stacked(des_pool') /\ des_pool'.size = des_pool.size - 1
      /\ des_pool.first_idx \in DesP!Blocks \ DesP!InUse(des_pool)
      /\ DesP!InUse(des_pool') = DesP!InUse(des_pool) \cup {des_pool.first_idx}
  BY <1>1, PoolSizes, DesP!GetStacked DEF DesStacked
<1> QED BY <1>2, SameDesPool DEF DesStacked

LEMMA PtrGot ==
  ASSUME ResAssumption, PtrStacked(ptr_pool), PtrPool!getBlock
  PROVE  /\ PtrStacked(ptr_pool') /\ ptr_pool'.size = ptr_pool.size - 1
         /\ ptr_pool.first_idx \in PTR \ PtrPool!InUse(ptr_pool)
         /\ PtrPool!InUse(ptr_pool') = PtrPool!InUse(ptr_pool) \cup {ptr_pool.first_idx}
<1>1. ptr_pool.first_idx # PtrP!NullIdx /\ ptr_pool' = PtrP!Got(ptr_pool)
  BY SamePtrPool DEF PtrPool!getBlock, PtrPool!Exhausted
<1>2. /\ PtrP!Stacked(ptr_pool') /\ ptr_pool'.size = ptr_pool.size - 1
      /\ ptr_pool.first_idx \in PtrP!Blocks \ PtrP!InUse(ptr_pool)
      /\ PtrP!InUse(ptr_pool') = PtrP!InUse(ptr_pool) \cup {ptr_pool.first_idx}
  BY <1>1, PoolSizes, PtrP!GetStacked DEF PtrStacked
<1> QED BY <1>2, SamePtrPool DEF PtrStacked

(* Blocks in use that are released, each once, are free.                   *)
LEMMA ResReleased ==
  ASSUME ResAssumption, ResStacked(res_pool), NEW b \in ResPool!InUse(res_pool),
         res_pool' = ResPool!Released(res_pool, b)
  PROVE  ResStacked(res_pool') /\ ResPool!InUse(res_pool') = ResPool!InUse(res_pool) \ {b}
<1>1. b \in ResP!InUse(res_pool) /\ res_pool' = ResP!Released(res_pool, b)
  BY SameResPool
<1>2. ResP!Stacked(res_pool') /\ ResP!InUse(res_pool') = ResP!InUse(res_pool) \ {b}
  BY <1>1, PoolSizes, ResP!ReleaseStacked DEF ResStacked
<1> QED BY <1>2, SameResPool DEF ResStacked

LEMMA DesReleased ==
  ASSUME ResAssumption, DesStacked(des_pool), NEW bs \in Seq(DesPool!InUse(des_pool)), NoRepeat(bs),
         des_pool' = DesPool!ReleasedAll(des_pool, bs)
  PROVE  /\ DesStacked(des_pool') /\ des_pool'.size = des_pool.size + Len(bs)
         /\ DesPool!InUse(des_pool') = DesPool!InUse(des_pool) \ Elements(bs)
<1>1. /\ bs \in Seq(DesP!InUse(des_pool)) /\ DesP!NoRepeat(bs) /\ DesP!Elements(bs) = Elements(bs)
      /\ des_pool' = DesP!ReleasedAll(des_pool, bs)
  BY SameDesPool DEF DesP!NoRepeat, NoRepeat, DesP!Elements, Elements
<1>2. /\ DesP!Stacked(des_pool') /\ des_pool'.size = des_pool.size + Len(bs)
      /\ DesP!InUse(des_pool') = DesP!InUse(des_pool) \ DesP!Elements(bs)
  BY <1>1, PoolSizes, DesP!ReleaseAllStacked DEF DesStacked
<1> QED BY <1>1, <1>2, SameDesPool DEF DesStacked

LEMMA PtrReleased ==
  ASSUME ResAssumption, PtrStacked(ptr_pool), NEW bs \in Seq(PtrPool!InUse(ptr_pool)), NoRepeat(bs),
         ptr_pool' = PtrPool!ReleasedAll(ptr_pool, bs)
  PROVE  /\ PtrStacked(ptr_pool') /\ ptr_pool'.size = ptr_pool.size + Len(bs)
         /\ PtrPool!InUse(ptr_pool') = PtrPool!InUse(ptr_pool) \ Elements(bs)
<1>1. /\ bs \in Seq(PtrP!InUse(ptr_pool)) /\ PtrP!NoRepeat(bs) /\ PtrP!Elements(bs) = Elements(bs)
      /\ ptr_pool' = PtrP!ReleasedAll(ptr_pool, bs)
  BY SamePtrPool DEF PtrP!NoRepeat, NoRepeat, PtrP!Elements, Elements
<1>2. /\ PtrP!Stacked(ptr_pool') /\ ptr_pool'.size = ptr_pool.size + Len(bs)
      /\ PtrP!InUse(ptr_pool') = PtrP!InUse(ptr_pool) \ PtrP!Elements(bs)
  BY <1>1, PoolSizes, PtrP!ReleaseAllStacked DEF PtrStacked
<1> QED BY <1>1, <1>2, SamePtrPool DEF PtrStacked

-----------------------------------------------------------------------------
(***************************************************************************)
(* The inductive invariant.  What a process has open is in use, listed,    *)
(* below the next number and nobody else's; Descriptors and DescriptorPtrs *)
(* are taken and given back together, so the sizes of their pools differ   *)
(* by what they differed by at first.                                      *)
(***************************************************************************)
ResTypeOK ==
  /\ resources_list \in Seq(RES)
  /\ res \in [RES -> [id : Int, type : Int, descriptors : SUBSET PTR]]
  /\ descriptors \in [PCB -> Seq(DES)]
  /\ last_fd \in [PCB -> Nat]
  /\ des \in [DES -> [fd : Nat, resource : RES, ptr : PTR]]

PoolsOK ==
  /\ ResStacked(res_pool) /\ DesStacked(des_pool) /\ PtrStacked(ptr_pool)
  /\ NUM_DESCRIPTORPTRS + des_pool.size = NUM_DESCRIPTORS + ptr_pool.size

ListOK == NoRepeat(resources_list) /\ Elements(resources_list) = ResPool!InUse(res_pool)

OpenAt(p, d) ==
  /\ d \in DesPool!InUse(des_pool)
  /\ des[d].ptr \in PtrPool!InUse(ptr_pool)
  /\ des[d].resource \in Elements(resources_list)
  /\ des[d].ptr \in res[des[d].resource].descriptors
  /\ des[d].fd < last_fd[p]

OpenOK ==
  \A p \in Alive : NoRepeat(descriptors[p]) /\ \A d \in DescriptorsOf(p) : OpenAt(p, d)

OneOwner ==
  \A p, q \in Alive : \A d \in DescriptorsOf(p), e \in DescriptorsOf(q) :
    d = e \/ des[d].ptr = des[e].ptr => p = q /\ d = e

ResInv == ResTypeOK /\ PoolsOK /\ ListOK /\ OpenOK /\ OneOwner /\ FdsDistinct

LEMMA ResInvGives == ResInv => OpenResourceListed /\ FdsDistinct /\ PoolsSound
<1> SUFFICES ASSUME ResInv PROVE OpenResourceListed /\ FdsDistinct /\ PoolsSound
  OBVIOUS
<1>1. ResPool!Sound /\ DesPool!Sound /\ PtrPool!Sound
  BY StackedPoolsSound DEF ResInv, PoolsOK
<1>2. PoolsSound
  BY <1>1 DEF PoolsSound, ResInv, ListOK, OpenOK, OpenAt
<1>3. OpenResourceListed
  BY DEF OpenResourceListed, ResInv, OpenOK, OpenAt, OneOwner
<1> QED BY <1>2, <1>3 DEF ResInv

(* What is open is a Descriptor with a DescriptorPtr and a resource.       *)
LEMMA OpenTypes ==
  ASSUME ResTypeOK, NEW p \in PCB, NEW d \in DescriptorsOf(p)
  PROVE  /\ p \in PCB /\ d \in DES /\ descriptors[p] \in Seq(DES) /\ last_fd[p] \in Nat
         /\ des[d].fd \in Nat /\ des[d].resource \in RES /\ des[d].ptr \in PTR
<1>1. descriptors[p] \in Seq(DES) /\ last_fd[p] \in Nat
  BY DEF ResTypeOK
<1>2. d \in DES
  BY <1>1, ElementOfSeq, LenProperties DEF DescriptorsOf, Elements
<1> QED BY <1>1, <1>2 DEF ResTypeOK

(* Nobody begins to hold descriptors, and none is touched.                 *)
LEMMA Untouched ==
  ASSUME ResInv, Alive' \subseteq Alive, UNCHANGED resVars
  PROVE  ResInv'
<1>1. UNCHANGED <<resources_list, res, res_pool, descriptors, last_fd, des, des_pool, ptr_pool>>
  BY DEF resVars, openVars
<1>2. ResTypeOK'
  BY <1>1 DEF ResInv, ResTypeOK
<1>3. PoolsOK' /\ ListOK'
  BY <1>1 DEF ResInv, PoolsOK, ListOK
<1>4. \A p \in Alive' : p \in Alive /\ DescriptorsOf(p)' = DescriptorsOf(p)
  BY <1>1 DEF DescriptorsOf
<1>5. OpenOK'
  BY <1>1, <1>4 DEF ResInv, OpenOK, OpenAt
<1>6. OneOwner' /\ FdsDistinct'
  BY <1>1, <1>4 DEF ResInv, OneOwner, FdsDistinct
<1> QED BY <1>2, <1>3, <1>5, <1>6 DEF ResInv

(* A new PCB has nothing open, whatever the block held before.             *)
LEMMA Emptied ==
  ASSUME ResInv, NEW p \in PCB, Alive' \subseteq Alive \cup {p},
         descriptors' = [descriptors EXCEPT ![p] = <<>>],
         last_fd' = [last_fd EXCEPT ![p] = 0],
         UNCHANGED <<resources_list, res, res_pool, des, des_pool, ptr_pool>>
  PROVE  ResInv'
<1>1. ResTypeOK'
  BY DEF ResInv, ResTypeOK
<1>2. PoolsOK' /\ ListOK'
  BY DEF ResInv, PoolsOK, ListOK
<1>3. DescriptorsOf(p)' = {} /\ NoRepeat(descriptors'[p])
  BY DEF ResInv, ResTypeOK, DescriptorsOf, Elements, NoRepeat
<1>4. ASSUME NEW q \in Alive', q # p
      PROVE  /\ q \in Alive /\ DescriptorsOf(q)' = DescriptorsOf(q) /\ last_fd'[q] = last_fd[q]
             /\ descriptors'[q] = descriptors[q]
  BY <1>4 DEF ResInv, ResTypeOK, DescriptorsOf, Alive
<1>5. OpenOK'
  BY <1>3, <1>4 DEF ResInv, OpenOK, OpenAt
<1>6. OneOwner' /\ FdsDistinct'
  BY <1>3, <1>4 DEF ResInv, OneOwner, FdsDistinct
<1> QED BY <1>1, <1>2, <1>5, <1>6 DEF ResInv

(***************************************************************************)
(* close and exit.  The DescriptorPtrs that leave the lists of the         *)
(* resources are those of the descriptors released and of no other, since  *)
(* no two share one.                                                       *)
(***************************************************************************)
LEMMA Closed ==
  ASSUME ResAssumption, ResInv, NEW me \in Alive, Alive' \subseteq Alive,
         NEW ds \in Seq(DES), NoRepeat(ds), Elements(ds) \subseteq DescriptorsOf(me), Release(ds),
         NEW rest \in Seq(DES), NoRepeat(rest),
         Elements(rest) \subseteq DescriptorsOf(me) \ Elements(ds),
         descriptors' = [descriptors EXCEPT ![me] = rest],
         UNCHANGED <<resources_list, res_pool, last_fd, des>>
  PROVE  ResInv'
<1> DEFINE ptrs == [i \in 1..Len(ds) |-> des[ds[i]].ptr]
           gone == {des[d].ptr : d \in Elements(ds)}
<1>1. /\ ResTypeOK /\ PoolsOK /\ ListOK /\ OpenOK /\ OneOwner /\ FdsDistinct
      /\ me \in PCB
  BY DEF ResInv, Alive
<1>2. Len(ds) \in Nat /\ \A i \in 1..Len(ds) : ds[i] \in Elements(ds) /\ ds[i] \in DescriptorsOf(me)
  BY LenProperties DEF Elements
<1>3. \A d \in Elements(ds) : /\ d \in DesPool!InUse(des_pool)
                              /\ des[d].ptr \in PtrPool!InUse(ptr_pool)
  BY <1>1 DEF OpenOK, OpenAt
<1>4. ds \in Seq(DesPool!InUse(des_pool))
  <2>1. ds \in [1..Len(ds) -> DES]
    BY SeqDef, LenProperties
  <2>2. ds \in [1..Len(ds) -> DesPool!InUse(des_pool)]
    BY <1>2, <1>3, <2>1
  <2> QED BY <1>2, <2>2, SeqDef
<1>5. /\ ptrs \in Seq(PtrPool!InUse(ptr_pool)) /\ Len(ptrs) = Len(ds)
      /\ \A i \in 1..Len(ds) : ptrs[i] = des[ds[i]].ptr
  <2>1. ptrs \in [1..Len(ds) -> PtrPool!InUse(ptr_pool)]
    BY <1>2, <1>3
  <2> QED BY <1>2, <2>1
<1>6. NoRepeat(ptrs)
  <2> SUFFICES ASSUME NEW i \in 1..Len(ds), NEW j \in 1..Len(ds), des[ds[i]].ptr = des[ds[j]].ptr
               PROVE  i = j
    BY <1>5 DEF NoRepeat
  <2>1. ds[i] = ds[j]
    BY <1>1, <1>2 DEF OneOwner
  <2> QED BY <2>1 DEF NoRepeat
<1>7. Elements(ptrs) = gone
  <2> HIDE DEF ptrs
  <2>1. Elements(ptrs) = {ptrs[i] : i \in 1..Len(ds)}
    BY <1>5 DEF Elements
  <2>2. Elements(ptrs) \subseteq gone
    BY <1>2, <1>5, <2>1
  <2>3. ASSUME NEW d \in Elements(ds)
        PROVE  des[d].ptr \in Elements(ptrs)
    <3>1. PICK i \in 1..Len(ds) : ds[i] = d
      BY DEF Elements
    <3> QED BY <1>5, <2>1, <3>1
  <2> QED BY <2>2, <2>3
<1>8. /\ res' = Unlisted(ds) /\ des_pool' = DesPool!ReleasedAll(des_pool, ds)
      /\ ptr_pool' = PtrPool!ReleasedAll(ptr_pool, ptrs)
  BY DEF Release
<1>9. /\ DesStacked(des_pool') /\ des_pool'.size = des_pool.size + Len(ds)
      /\ DesPool!InUse(des_pool') = DesPool!InUse(des_pool) \ Elements(ds)
  BY <1>1, <1>4, <1>8, DesReleased DEF PoolsOK
<1> HIDE DEF ptrs
<1>10. /\ PtrStacked(ptr_pool') /\ ptr_pool'.size = ptr_pool.size + Len(ds)
       /\ PtrPool!InUse(ptr_pool') = PtrPool!InUse(ptr_pool) \ gone
  <2>1. PtrStacked(ptr_pool)
    BY <1>1 DEF PoolsOK
  <2>2. /\ PtrStacked(ptr_pool') /\ ptr_pool'.size = ptr_pool.size + Len(ptrs)
        /\ PtrPool!InUse(ptr_pool') = PtrPool!InUse(ptr_pool) \ Elements(ptrs)
    BY <2>1, <1>5, <1>6, <1>8, PtrReleased
  <2> QED BY <2>2, <1>5, <1>7
<1> HIDE DEF gone
<1>11. /\ res' \in [RES -> [id : Int, type : Int, descriptors : SUBSET PTR]]
       /\ \A r \in RES : \A q \in res[r].descriptors : q \notin gone => q \in res'[r].descriptors
  <2>1. res \in [RES -> [id : Int, type : Int, descriptors : SUBSET PTR]]
    BY <1>1 DEF ResTypeOK
  <2>2. \A r \in RES :
          res'[r] = [res[r] EXCEPT !.descriptors =
                       @ \ {des[d].ptr : d \in {e \in Elements(ds) : des[e].resource = r}}]
    BY <1>8 DEF Unlisted
  <2>3. DOMAIN res' = RES /\ res' = [r \in RES |-> res'[r]]
    BY <1>8 DEF Unlisted
  <2>4. ASSUME NEW r \in RES
        PROVE  /\ res'[r] \in [id : Int, type : Int, descriptors : SUBSET PTR]
               /\ \A q \in res[r].descriptors : q \notin gone => q \in res'[r].descriptors
    <3> DEFINE off == {des[d].ptr : d \in {e \in Elements(ds) : des[e].resource = r}}
    <3>1. off \subseteq gone
      BY DEF gone
    <3>2. res'[r] = [res[r] EXCEPT !.descriptors = @ \ off]
      BY <2>2
    <3> HIDE DEF off
    <3> QED BY <2>1, <3>1, <3>2
  <2> QED BY <2>3, <2>4
<1>12. ASSUME NEW p \in Alive', NEW d \in DescriptorsOf(p)'
       PROVE  /\ p \in Alive /\ p \in PCB /\ d \in DescriptorsOf(p)
              /\ d \notin Elements(ds) /\ des[d].ptr \notin gone
  <2>1. p \in Alive /\ p \in PCB /\ DescriptorsOf(p)' = Elements(descriptors'[p])
    BY DEF Alive, DescriptorsOf
  <2>2. d \in DescriptorsOf(p) /\ (p = me => d \notin Elements(ds))
    BY <1>1, <2>1 DEF ResTypeOK, DescriptorsOf
  <2>3. d \notin Elements(ds)
    BY <1>1, <2>1, <2>2 DEF OneOwner
  <2>4. des[d].ptr \notin gone
    BY <1>1, <2>1, <2>2, <2>3 DEF OneOwner, gone
  <2> QED BY <2>1, <2>2, <2>3, <2>4
<1>13. ResTypeOK'
  BY <1>1, <1>11 DEF ResTypeOK
<1>14. PoolsOK'
  <2>1. PICK n \in Nat : n = Len(ds)
    BY <1>2
  <2>2. des_pool'.size = des_pool.size + n /\ ptr_pool'.size = ptr_pool.size + n
    BY <1>9, <1>10, <2>1
  <2>3. des_pool.size \in Nat /\ ptr_pool.size \in Nat
    BY <1>1, PoolsSized DEF PoolsOK
  <2>4. NUM_DESCRIPTORPTRS + des_pool'.size = NUM_DESCRIPTORS + ptr_pool'.size
    <3>1. PICK a \in Nat, b \in Nat : a = des_pool.size /\ b = ptr_pool.size
      BY <2>3
    <3>2. NUM_DESCRIPTORPTRS \in Nat /\ NUM_DESCRIPTORS \in Nat
      BY PoolSizes
    <3>3. NUM_DESCRIPTORPTRS + a = NUM_DESCRIPTORS + b
      BY <1>1, <3>1 DEF PoolsOK
    <3>4. des_pool'.size = a + n /\ ptr_pool'.size = b + n
      BY <2>2, <3>1
    <3> QED BY <3>2, <3>3, <3>4
  <2>5. ResStacked(res_pool')
    BY <1>1 DEF PoolsOK
  <2> QED BY <1>9, <1>10, <2>4, <2>5 DEF PoolsOK
<1>15. ListOK'
  BY <1>1 DEF ListOK
<1>16. OpenOK'
  <2>1. ASSUME NEW p \in Alive'
        PROVE  NoRepeat(descriptors'[p])
    BY <1>1 DEF ResTypeOK, OpenOK, Alive
  <2>2. ASSUME NEW p \in Alive', NEW d \in DescriptorsOf(p)'
        PROVE  OpenAt(p, d)'
    <3>1. /\ p \in Alive /\ p \in PCB /\ d \in DescriptorsOf(p)
          /\ d \notin Elements(ds) /\ des[d].ptr \notin gone
      BY <1>12
    <3>2. OpenAt(p, d) /\ des[d].resource \in RES
      BY <1>1, <3>1, OpenTypes DEF OpenOK
    <3> QED BY <1>9, <1>10, <1>11, <3>1, <3>2 DEF OpenAt
  <2> QED BY <2>1, <2>2 DEF OpenOK
<1>17. OneOwner'
  BY <1>1, <1>12 DEF OneOwner
<1>18. FdsDistinct'
  BY <1>1, <1>12 DEF FdsDistinct
<1> QED BY <1>13, <1>14, <1>15, <1>16, <1>17, <1>18 DEF ResInv

(* The scan of the list of resources stops at one of them.                 *)
LEMMA FoundListed ==
  ASSUME ResTypeOK, NEW id, ResListed(id)
  PROVE  /\ ResourceList_byId(id) \in 1..Len(resources_list)
         /\ ResFound(id) \in Elements(resources_list) /\ ResFound(id) \in RES
<1> DEFINE I == {i \in 1..Len(resources_list) : res[resources_list[i]].id = id}
<1>1. resources_list \in Seq(RES) /\ Len(resources_list) \in Nat
  BY LenProperties DEF ResTypeOK
<1>2. I \in SUBSET (1..Len(resources_list)) /\ ResourceList_byId(id) = FirstOf(I)
  BY DEF ResourceList_byId
<1>3. FirstOf(I) # 0
  BY <1>2 DEF ResListed
<1> HIDE DEF I
<1>4. ResourceList_byId(id) \in I
  BY <1>1, <1>2, <1>3, FirstOfProperties
<1>5. ResourceList_byId(id) \in 1..Len(resources_list)
  BY <1>2, <1>4
<1> QED BY <1>1, <1>5, ElementOfSeq DEF ResFound, Elements

LEMMA FoundDescriptor ==
  ASSUME ResTypeOK, running \in PCB, NEW fd, DescriptorList_byFd(fd) # 0
  PROVE  DescriptorList_byFd(fd) \in 1..Len(descriptors[running])
<1> DEFINE I == {i \in 1..Len(descriptors[running]) : des[descriptors[running][i]].fd = fd}
<1>1. descriptors[running] \in Seq(DES) /\ Len(descriptors[running]) \in Nat
  BY LenProperties DEF ResTypeOK
<1>2. I \in SUBSET (1..Len(descriptors[running])) /\ DescriptorList_byFd(fd) = FirstOf(I)
  BY DEF DescriptorList_byFd
<1> HIDE DEF I
<1>3. DescriptorList_byFd(fd) \in I
  BY <1>1, <1>2, FirstOfProperties
<1> QED BY <1>2, <1>3

(***************************************************************************)
(* The resource that open finds or creates is on the list afterwards, and  *)
(* no resource of the list loses a DescriptorPtr: a new one takes a block  *)
(* that no resource of the list has.                                       *)
(***************************************************************************)
LEMMA Fetched ==
  ASSUME ResAssumption, ResInv, NEW req \in OpenRequests, OpenError(req) = 0,
         NEW entries \in SUBSET PTR, FetchOrCreate(req, entries)
  PROVE  /\ res' \in [RES -> [id : Int, type : Int, descriptors : SUBSET PTR]]
         /\ resources_list' \in Seq(RES) /\ ResStacked(res_pool') /\ ListOK'
         /\ Opened(req) \in Elements(resources_list') /\ Opened(req) \in RES
         /\ Elements(resources_list) \subseteq Elements(resources_list')
         /\ entries \subseteq res'[Opened(req)].descriptors
         /\ \A x \in Elements(resources_list) : res[x].descriptors \subseteq res'[x].descriptors
<1>1. /\ ResTypeOK /\ ListOK /\ ResStacked(res_pool)
      /\ resources_list \in Seq(RES)
      /\ res \in [RES -> [id : Int, type : Int, descriptors : SUBSET PTR]]
  BY DEF ResInv, ResTypeOK, PoolsOK
<1>2. req.id \in Int /\ req.type \in Int
  BY DEF ResAssumption
<1>3. res' = [res EXCEPT ![Opened(req)] =
                 LET r == IF Creates(req.mode) THEN Resource_alloc(req) ELSE @
                 IN [r EXCEPT !.descriptors = @ \cup entries]]
  BY DEF FetchOrCreate
<1>4. Resource_alloc(req) = [id |-> req.id, type |-> req.type, descriptors |-> {}]
  BY DEF Resource_alloc
<1>5. CASE Creates(req.mode)
  <2>1. /\ ResPool!getBlock /\ resources_list' = Append(resources_list, Opened(req))
        /\ Opened(req) = res_pool.first_idx
    BY <1>5 DEF FetchOrCreate, Opened
  <2>2. /\ ResStacked(res_pool') /\ Opened(req) \in RES \ Elements(resources_list)
        /\ ResPool!InUse(res_pool') = Elements(resources_list) \cup {Opened(req)}
    BY <1>1, <2>1, ResGot DEF ListOK
  <2>3. /\ resources_list' \in Seq(RES) /\ NoRepeat(resources_list')
        /\ Elements(resources_list') = Elements(resources_list) \cup {Opened(req)}
    BY <1>1, <2>1, <2>2, AppendElements DEF ListOK
  <2>4. res' = [res EXCEPT ![Opened(req)] =
                  [id |-> req.id, type |-> req.type, descriptors |-> entries]]
    <3>1. res' = [res EXCEPT ![Opened(req)] =
                    [Resource_alloc(req) EXCEPT !.descriptors = @ \cup entries]]
      BY <1>3, <1>5
    <3>2. [Resource_alloc(req) EXCEPT !.descriptors = @ \cup entries]
            = [id |-> req.id, type |-> req.type, descriptors |-> entries]
      BY <1>4
    <3> QED BY <3>1, <3>2
  <2>5. res' \in [RES -> [id : Int, type : Int, descriptors : SUBSET PTR]]
    BY <1>1, <1>2, <2>2, <2>4
  <2>6. entries \subseteq res'[Opened(req)].descriptors
    BY <1>1, <2>2, <2>4
  <2>7. \A x \in Elements(resources_list) : res'[x] = res[x]
    BY <1>1, <2>2, <2>4
  <2> QED BY <2>2, <2>3, <2>5, <2>6, <2>7 DEF ListOK
<1>6. CASE ~Creates(req.mode)
  <2>1. UNCHANGED <<res_pool, resources_list>> /\ Opened(req) = ResFound(req.id)
    BY <1>6 DEF FetchOrCreate, Opened
  <2>2. ResListed(req.id)
    BY <1>6 DEF OpenError, ERESOURCEOPEN
  <2>3. Opened(req) \in Elements(resources_list) /\ Opened(req) \in RES
    BY <1>1, <2>1, <2>2, FoundListed
  <2>4. res' = [res EXCEPT ![Opened(req)].descriptors = @ \cup entries]
    BY <1>3, <1>6
  <2>5. res' \in [RES -> [id : Int, type : Int, descriptors : SUBSET PTR]]
    BY <1>1, <2>3, <2>4
  <2>6. entries \subseteq res'[Opened(req)].descriptors
    BY <1>1, <2>3, <2>4
  <2>7. \A x \in RES : res[x].descriptors \subseteq res'[x].descriptors
    BY <1>1, <2>3, <2>4
  <2>8. Elements(resources_list) \subseteq RES
    BY <1>1, ElementOfSeq, LenProperties DEF Elements
  <2> QED BY <1>1, <2>1, <2>3, <2>5, <2>6, <2>7, <2>8 DEF ListOK
<1> QED BY <1>5, <1>6

(* Lists of resources that only grow keep what is open as it is.           *)
LEMMA OpenNoDescriptorKeeps ==
  ASSUME ResAssumption, ResInv, Alive' \subseteq Alive, NEW req \in OpenRequests,
         OpenError(req) = 0, FetchOrCreate(req, {}), UNCHANGED openVars
  PROVE  ResInv'
<1>1. /\ res' \in [RES -> [id : Int, type : Int, descriptors : SUBSET PTR]]
      /\ resources_list' \in Seq(RES) /\ ResStacked(res_pool') /\ ListOK'
      /\ Elements(resources_list) \subseteq Elements(resources_list')
      /\ \A x \in Elements(resources_list) : res[x].descriptors \subseteq res'[x].descriptors
  <2>1. {} \in SUBSET PTR
    OBVIOUS
  <2> QED BY <2>1, Fetched
<1>2. UNCHANGED <<descriptors, last_fd, des, des_pool, ptr_pool>>
  BY DEF openVars
<1>3. ResTypeOK' /\ PoolsOK'
  BY <1>1, <1>2 DEF ResInv, ResTypeOK, PoolsOK
<1>4. \A p \in Alive' : p \in Alive /\ DescriptorsOf(p)' = DescriptorsOf(p)
  BY <1>2 DEF DescriptorsOf
<1>5. OpenOK'
  BY <1>1, <1>2, <1>4 DEF ResInv, OpenOK, OpenAt
<1>6. OneOwner' /\ FdsDistinct'
  BY <1>2, <1>4 DEF ResInv, OneOwner, FdsDistinct
<1> QED BY <1>1, <1>3, <1>5, <1>6 DEF ResInv

(***************************************************************************)
(* open.  The new Descriptor and its DescriptorPtr were free, so nobody    *)
(* has them open, and its number is above those of the process.            *)
(***************************************************************************)
LEMMA OpenKeeps ==
  ASSUME ResAssumption, ResInv, running \in Alive, Alive' \subseteq Alive, NEW req \in OpenRequests,
         OpenError(req) = 0, OpenDescriptor(req)
  PROVE  ResInv'
<1> DEFINE g == des_pool.first_idx
           t == ptr_pool.first_idx
           r == Opened(req)
           new == [fd |-> last_fd[running], resource |-> r, ptr |-> t]
<1>1. /\ ResTypeOK /\ PoolsOK /\ ListOK /\ OpenOK /\ OneOwner /\ FdsDistinct
      /\ running \in PCB
  BY DEF ResInv, Alive
<1>2. /\ DesPool!getBlock /\ PtrPool!getBlock /\ FetchOrCreate(req, {t})
      /\ des' = [des EXCEPT ![g] = new]
      /\ descriptors' = [descriptors EXCEPT ![running] = Append(@, g)]
      /\ last_fd' = [last_fd EXCEPT ![running] = @ + 1]
  BY DEF OpenDescriptor
<1>3. /\ DesStacked(des_pool') /\ des_pool'.size = des_pool.size - 1
      /\ g \in DES /\ g \notin DesPool!InUse(des_pool)
      /\ DesPool!InUse(des_pool') = DesPool!InUse(des_pool) \cup {g}
  BY <1>1, <1>2, DesGot DEF PoolsOK
<1>4. /\ PtrStacked(ptr_pool') /\ ptr_pool'.size = ptr_pool.size - 1
      /\ t \in PTR /\ t \notin PtrPool!InUse(ptr_pool)
      /\ PtrPool!InUse(ptr_pool') = PtrPool!InUse(ptr_pool) \cup {t}
  BY <1>1, <1>2, PtrGot DEF PoolsOK
<1>5. /\ res' \in [RES -> [id : Int, type : Int, descriptors : SUBSET PTR]]
      /\ resources_list' \in Seq(RES) /\ ResStacked(res_pool') /\ ListOK'
      /\ r \in Elements(resources_list') /\ r \in RES
      /\ Elements(resources_list) \subseteq Elements(resources_list')
      /\ t \in res'[r].descriptors
      /\ \A x \in Elements(resources_list) : res[x].descriptors \subseteq res'[x].descriptors
  <2> DEFINE E == {t}
  <2>1. E \in SUBSET PTR /\ FetchOrCreate(req, E)
    BY <1>2, <1>4
  <2> HIDE DEF E
  <2>2. /\ res' \in [RES -> [id : Int, type : Int, descriptors : SUBSET PTR]]
        /\ resources_list' \in Seq(RES) /\ ResStacked(res_pool') /\ ListOK'
        /\ r \in Elements(resources_list') /\ r \in RES
        /\ Elements(resources_list) \subseteq Elements(resources_list')
        /\ E \subseteq res'[r].descriptors
        /\ \A x \in Elements(resources_list) : res[x].descriptors \subseteq res'[x].descriptors
    BY <2>1, Fetched
  <2>3. t \in E
    BY DEF E
  <2> QED BY <2>2, <2>3
<1> HIDE DEF g, t, r
<1>6. last_fd[running] \in Nat /\ descriptors[running] \in Seq(DES)
  BY <1>1 DEF ResTypeOK
<1>7. new \in [fd : Nat, resource : RES, ptr : PTR]
  BY <1>4, <1>5, <1>6
<1>8. /\ Append(descriptors[running], g) \in Seq(DES)
      /\ Elements(Append(descriptors[running], g)) = DescriptorsOf(running) \cup {g}
      /\ NoRepeat(Append(descriptors[running], g))
  <2>1. NoRepeat(descriptors[running]) /\ g \notin Elements(descriptors[running])
    BY <1>1, <1>3 DEF OpenOK, OpenAt, DescriptorsOf
  <2> QED BY <1>3, <1>6, <2>1, AppendElements DEF DescriptorsOf
<1>9. ResTypeOK'
  <2>1. des' \in [DES -> [fd : Nat, resource : RES, ptr : PTR]]
    <3> HIDE DEF new
    <3> QED BY <1>1, <1>2, <1>7 DEF ResTypeOK
  <2>2. descriptors' \in [PCB -> Seq(DES)]
    BY <1>1, <1>2, <1>8 DEF ResTypeOK
  <2>3. last_fd' \in [PCB -> Nat]
    BY <1>1, <1>2, <1>6 DEF ResTypeOK
  <2> QED BY <1>5, <2>1, <2>2, <2>3 DEF ResTypeOK
<1>10. PoolsOK'
  <2>1. PICK a \in Nat, b \in Nat : a = des_pool.size /\ b = ptr_pool.size
    BY <1>1, PoolsSized DEF PoolsOK
  <2>2. NUM_DESCRIPTORPTRS \in Nat /\ NUM_DESCRIPTORS \in Nat
    BY PoolSizes
  <2>3. NUM_DESCRIPTORPTRS + a = NUM_DESCRIPTORS + b
    BY <1>1, <2>1 DEF PoolsOK
  <2>4. des_pool'.size = a - 1 /\ ptr_pool'.size = b - 1
    BY <1>3, <1>4, <2>1
  <2>5. NUM_DESCRIPTORPTRS + des_pool'.size = NUM_DESCRIPTORS + ptr_pool'.size
    BY <2>2, <2>3, <2>4
  <2> QED BY <1>3, <1>4, <1>5, <2>5 DEF PoolsOK
(* Whatever is open afterwards is the new descriptor or was open before.   *)
<1>11. ASSUME NEW p \in Alive'
       PROVE  p \in Alive /\ p \in PCB /\ descriptors'[p] \in Seq(DES) /\ NoRepeat(descriptors'[p])
              /\ last_fd'[p] \in Nat /\ last_fd[p] \in Nat /\ last_fd[p] <= last_fd'[p]
  <2>1. p \in Alive /\ p \in PCB
    BY DEF Alive
  <2>2. NoRepeat(descriptors'[p])
    BY <1>1, <1>2, <1>8, <2>1 DEF OpenOK, ResTypeOK
  <2>3. last_fd'[p] = IF p = running THEN last_fd[p] + 1 ELSE last_fd[p]
    BY <1>1, <1>2, <2>1 DEF ResTypeOK
  <2>4. last_fd[p] \in Nat /\ descriptors'[p] \in Seq(DES)
    BY <1>1, <1>9, <2>1 DEF ResTypeOK
  <2>5. last_fd'[p] \in Nat /\ last_fd[p] <= last_fd'[p]
    BY <2>3, <2>4
  <2> QED BY <2>1, <2>2, <2>4, <2>5
<1>12. ASSUME NEW p \in Alive', NEW d \in DescriptorsOf(p)'
       PROVE  \/ p = running /\ d = g /\ des'[d] = new
              \/ /\ d \in DescriptorsOf(p) /\ d # g /\ des'[d] = des[d] /\ d \in DES
                 /\ des[d].ptr # t /\ OpenAt(p, d)
  <2>1. p \in Alive /\ p \in PCB /\ DescriptorsOf(p)' = Elements(descriptors'[p])
    BY <1>11 DEF DescriptorsOf
  <2>2. des'[g] = new
    BY <1>1, <1>2, <1>3 DEF ResTypeOK
  <2>3. (p = running /\ d = g) \/ d \in DescriptorsOf(p)
    BY <1>1, <1>2, <1>8, <2>1 DEF ResTypeOK, DescriptorsOf
  <2>4. ASSUME d \in DescriptorsOf(p)
        PROVE  OpenAt(p, d) /\ d # g /\ d \in DES /\ des[d].ptr # t
    BY <1>1, <1>3, <1>4, <2>1, <2>4, OpenTypes DEF OpenOK, OpenAt
  <2>5. ASSUME d # g, d \in DES
        PROVE  des'[d] = des[d]
    BY <1>1, <1>2, <2>5 DEF ResTypeOK
  <2> HIDE DEF new
  <2> QED BY <2>2, <2>3, <2>4, <2>5
<1>13. OpenOK'
  <2>1. ASSUME NEW p \in Alive', NEW d \in DescriptorsOf(p)'
        PROVE  OpenAt(p, d)'
    <3>1. CASE p = running /\ d = g /\ des'[d] = new
      <4>1. last_fd[running] < last_fd'[running]
        BY <1>1, <1>2, <1>6 DEF ResTypeOK
      <4> QED BY <1>3, <1>4, <1>5, <3>1, <4>1 DEF OpenAt
    <3>2. CASE d \in DescriptorsOf(p) /\ des'[d] = des[d] /\ OpenAt(p, d)
      <4>1. des[d].fd \in Nat
        BY <1>1, <1>11, <3>2, OpenTypes
      <4>2. des[d].fd < last_fd'[p]
        BY <1>11, <3>2, <4>1 DEF OpenAt
      <4> QED BY <1>3, <1>4, <1>5, <3>2, <4>2 DEF OpenAt
    <3> QED BY <1>12, <3>1, <3>2
  <2> QED BY <1>11, <2>1 DEF OpenOK
<1>14. OneOwner'
  <2> SUFFICES ASSUME NEW p \in Alive', NEW q \in Alive',
                      NEW d \in DescriptorsOf(p)', NEW e \in DescriptorsOf(q)',
                      d = e \/ des'[d].ptr = des'[e].ptr
               PROVE  p = q /\ d = e
    BY DEF OneOwner
  <2>1. new.ptr = t
    OBVIOUS
  <2>2. p \in Alive /\ q \in Alive
    BY <1>11
  <2> HIDE DEF new
  <2> QED BY <1>1, <1>12, <2>1, <2>2 DEF OneOwner
<1>15. FdsDistinct'
  <2> SUFFICES ASSUME NEW p \in Alive', NEW d \in DescriptorsOf(p)', NEW e \in DescriptorsOf(p)',
                      des'[d].fd = des'[e].fd
               PROVE  d = e
    BY DEF FdsDistinct
  <2>1. new.fd = last_fd[running]
    OBVIOUS
  <2>2. p \in Alive /\ last_fd[p] \in Nat
    BY <1>11
  <2> HIDE DEF new
  <2>3. ASSUME NEW x \in DescriptorsOf(p)', x # g
        PROVE  x \in DescriptorsOf(p) /\ des'[x] = des[x] /\ des[x].fd # last_fd[p]
    <3>1. x \in DescriptorsOf(p) /\ des'[x] = des[x] /\ des[x].fd < last_fd[p]
      BY <1>12, <2>3 DEF OpenAt
    <3>2. des[x].fd \in Nat
      BY <1>1, <1>11, <3>1, OpenTypes
    <3> QED BY <2>2, <3>1, <3>2
  <2>4. ASSUME NEW x \in DescriptorsOf(p)', x = g
        PROVE  des'[x].fd = last_fd[p]
    <3>1. p = running /\ des'[x] = new
      BY <1>12, <2>4
    <3> QED BY <2>1, <3>1
  <2> QED BY <1>1, <2>2, <2>3, <2>4 DEF FdsDistinct
<1> QED BY <1>5, <1>9, <1>10, <1>13, <1>14, <1>15 DEF ResInv

(***************************************************************************)
(* destroy.  A resource whose own list is empty is one that no descriptor  *)
(* points to.                                                              *)
(***************************************************************************)
LEMMA DestroyKeeps ==
  ASSUME ResAssumption, ResInv, Alive' \subseteq Alive, NEW id, ResDestroy(id)
  PROVE  ResInv'
<1> DEFINE x == ResFound(id)
<1>1. ResTypeOK /\ PoolsOK /\ ListOK /\ OpenOK /\ OneOwner /\ FdsDistinct
  BY DEF ResInv
<1>2. ResListed(id) /\ res[x].descriptors = {}
  BY DEF ResDestroy, DestroyError, ERESOURCECLOSE, ERESOURCEINUSE
<1>3. /\ resources_list' = Detach(resources_list, ResourceList_byId(id))
      /\ res_pool' = ResPool!Released(res_pool, x)
      /\ UNCHANGED <<res, descriptors, last_fd, des, des_pool, ptr_pool>>
  BY DEF ResDestroy, openVars
<1>4. /\ ResourceList_byId(id) \in 1..Len(resources_list)
      /\ x \in Elements(resources_list) /\ x \in RES
  BY <1>1, <1>2, FoundListed
<1>5. x = resources_list[ResourceList_byId(id)] /\ resources_list \in Seq(RES)
  BY <1>1 DEF ResFound, ResTypeOK
<1> HIDE DEF x
<1>6. /\ resources_list' \in Seq(RES) /\ NoRepeat(resources_list')
      /\ Elements(resources_list') = Elements(resources_list) \ {x}
  <2>1. NoRepeat(resources_list)
    BY <1>1 DEF ListOK
  <2>2. resources_list' \in Seq(RES)
    BY <1>3, <1>4, <1>5, DetachProperties
  <2>3. /\ Elements(resources_list) = Elements(resources_list') \cup {x}
        /\ NoRepeat(resources_list') /\ x \notin Elements(resources_list')
    BY <1>3, <1>4, <1>5, <2>1, DetachElements
  <2> QED BY <2>2, <2>3
<1>7. ResStacked(res_pool') /\ ResPool!InUse(res_pool') = ResPool!InUse(res_pool) \ {x}
  BY <1>1, <1>3, <1>4, ResReleased DEF PoolsOK, ListOK
<1>8. ResTypeOK' /\ PoolsOK' /\ ListOK'
  BY <1>1, <1>3, <1>6, <1>7 DEF ResTypeOK, PoolsOK, ListOK
<1>9. \A p \in Alive' : p \in Alive /\ DescriptorsOf(p)' = DescriptorsOf(p)
  BY <1>3 DEF DescriptorsOf
<1>10. OpenOK'
  <2>1. ASSUME NEW p \in Alive, NEW d \in DescriptorsOf(p)
        PROVE  OpenAt(p, d) /\ des[d].resource # x
    BY <1>1, <1>2 DEF OpenOK, OpenAt
  <2> QED BY <1>1, <1>3, <1>6, <1>9, <2>1 DEF OpenOK, OpenAt
<1>11. OneOwner' /\ FdsDistinct'
  BY <1>1, <1>3, <1>9 DEF OneOwner, FdsDistinct
<1> QED BY <1>8, <1>10, <1>11 DEF ResInv

(* close takes one descriptor of the caller off its list.                  *)
LEMMA CloseKeeps ==
  ASSUME ResAssumption, ResInv, running \in Alive, Alive' \subseteq Alive, NEW fd, ResClose(fd)
  PROVE  ResInv'
<1> DEFINE i == DescriptorList_byFd(fd)
           d == descriptors[running][i]
           ds == <<d>>
           rest == Detach(descriptors[running], i)
<1>1. ResTypeOK /\ OpenOK /\ running \in PCB /\ descriptors[running] \in Seq(DES)
  BY DEF ResInv, Alive, ResTypeOK
<1>2. i # 0 /\ i \in 1..Len(descriptors[running])
  BY <1>1, FoundDescriptor DEF ResClose
<1>3. d \in DES /\ d \in DescriptorsOf(running)
  BY <1>1, <1>2, ElementOfSeq DEF DescriptorsOf, Elements
<1>4. /\ descriptors' = [descriptors EXCEPT ![running] = rest] /\ Release(ds)
      /\ UNCHANGED <<resources_list, res_pool, last_fd, des>>
  BY DEF ResClose
<1>5. NoRepeat(descriptors[running])
  BY <1>1 DEF OpenOK
<1> HIDE DEF i
<1>6. /\ rest \in Seq(DES) /\ NoRepeat(rest)
      /\ DescriptorsOf(running) = Elements(rest) \cup {d} /\ d \notin Elements(rest)
  BY <1>1, <1>2, <1>5, DetachProperties, DetachElements DEF DescriptorsOf
<1> HIDE DEF d, rest
<1>7. ds \in Seq(DES) /\ NoRepeat(ds) /\ Elements(ds) = {d}
  BY <1>3 DEF NoRepeat, Elements
<1> HIDE DEF ds
<1>8. /\ Elements(ds) \subseteq DescriptorsOf(running)
      /\ Elements(rest) \subseteq DescriptorsOf(running) \ Elements(ds)
  BY <1>6, <1>7
<1> QED BY <1>4, <1>6, <1>7, <1>8, Closed

(* exit, when it frees the PCB, closes everything.                         *)
LEMMA ExitKeeps ==
  ASSUME ResAssumption, ResInv, running \in Alive, Alive' \subseteq Alive, ResExitAwaited
  PROVE  ResInv'
<1> DEFINE ds == descriptors[running]
           rest == <<>>
<1>1. ResTypeOK /\ OpenOK /\ ds \in Seq(DES)
  BY DEF ResInv, Alive, ResTypeOK
<1>2. NoRepeat(ds) /\ Elements(ds) = DescriptorsOf(running)
  BY <1>1 DEF OpenOK, DescriptorsOf
<1>3. rest \in Seq(DES) /\ NoRepeat(rest) /\ Elements(rest) = {}
  BY DEF NoRepeat, Elements
<1>4. /\ descriptors' = [descriptors EXCEPT ![running] = rest] /\ Release(ds)
      /\ UNCHANGED <<resources_list, res_pool, last_fd, des>>
  BY DEF ResExitAwaited
<1> HIDE DEF ds, rest
<1>5. /\ Elements(ds) \subseteq DescriptorsOf(running)
      /\ Elements(rest) \subseteq DescriptorsOf(running) \ Elements(ds)
  BY <1>2, <1>3
<1> QED BY <1>1, <1>2, <1>3, <1>4, <1>5, Closed

-----------------------------------------------------------------------------
(***************************************************************************)
(* Who can be alive after a step.                                          *)
(***************************************************************************)
LEMMA RunsAlive ==
  ASSUME ProcInv, running \in PCB
  PROVE  running \in Alive
BY DEF ProcInv, PlaceInv, Placed, Alive

LEMMA TableKeepsAlive ==
  ASSUME UNCHANGED tableVars
  PROVE  Alive' = Alive
BY DEF tableVars, Alive, Free

LEMMA CreateAlive ==
  ASSUME ProcInv, pcb_free # <<>>, pcb_free' = Tail(pcb_free), UNCHANGED zombie_list
  PROVE  Head(pcb_free) \in PCB /\ Alive' \subseteq Alive \cup {Head(pcb_free)}
<1>1. pcb_free \in Seq(PCB)
  BY DEF ProcInv, TableInv, TableTypeOK
<1>2. Head(pcb_free) \in PCB /\ Free = Free' \cup {Head(pcb_free)}
  BY <1>1, HeadTailElements DEF Free
<1> QED BY <1>2 DEF Alive

LEMMA FreedAlive ==
  ASSUME ProcInv, NEW p \in PCB, pcb_free' = <<p>> \o pcb_free,
         zombie_list \subseteq zombie_list' \cup {p}
  PROVE  Alive' \subseteq Alive
<1> DEFINE o == <<p>>
<1>1. pcb_free \in Seq(PCB) /\ o \in Seq(PCB) /\ Elements(o) = {p}
  BY DEF ProcInv, TableInv, TableTypeOK, Elements
<1> HIDE DEF o
<1>2. Elements(o \o pcb_free) = Elements(o) \cup Elements(pcb_free)
  BY <1>1, ConcatElements
<1>3. Free' = Free \cup {p}
  BY <1>1, <1>2 DEF Free, o
<1> QED BY <1>3 DEF Alive

-----------------------------------------------------------------------------
(***************************************************************************)
(* The steps.  Of the two pools openResource takes a block from, the one   *)
(* it does not look at is never empty before the one it looks at, when it  *)
(* is at least as large.                                                   *)
(***************************************************************************)
PtrThere == NUM_DESCRIPTORS <= NUM_DESCRIPTORPTRS => PtrNeverMissing

ResGood == ProcInv' /\ ResInv' /\ (PtrThere => PtrThere')

LEMMA PairedPools ==
  ASSUME ResAssumption, ResInv, NUM_DESCRIPTORS <= NUM_DESCRIPTORPTRS, ~DesPool!Exhausted
  PROVE  ~PtrPool!Exhausted
<1>1. PICK a \in Nat, b \in Nat : a = des_pool.size /\ b = ptr_pool.size
  BY PoolsSized DEF ResInv, PoolsOK
<1>2. NUM_DESCRIPTORPTRS \in Nat /\ NUM_DESCRIPTORS \in Nat
  BY PoolSizes
<1>3. NUM_DESCRIPTORPTRS + a = NUM_DESCRIPTORS + b
  BY <1>1 DEF ResInv, PoolsOK
<1>4. a # 0 /\ (PtrPool!Exhausted <=> b = 0)
  BY <1>1, PoolsSized DEF ResInv, PoolsOK
<1> QED BY <1>2, <1>3, <1>4

(* A call that returns to its caller without a change to the process table.*)
LEMMA CallReturns ==
  ASSUME ProcInv, running \in PCB, NEW value \in Int, Return(value), Called(OtherCall),
         UNCHANGED <<placeVars, timer_list, fault, tableVars>>
  PROVE  ProcInv' /\ Alive' \subseteq Alive /\ (PtrThere => PtrThere')
<1>1. syscall_retvalue' \in [PCB -> Int] /\ fault' \in Faults
  BY DEF Return, ProcInv, PlaceInv, SchedBase, SchedTypeOK
<1>2. ProcInv'
  BY <1>1, CallStep DEF GoodStep
<1>3. PtrThere => PtrThere'
  BY DEF PtrThere, PtrNeverMissing
<1> QED BY <1>2, <1>3, TableKeepsAlive

LEMMA CallRefused ==
  ASSUME ProcInv, ProcUser, NEW code \in Int, Refuse(code), Called(OtherCall), UNCHANGED tableVars
  PROVE  ProcInv' /\ Alive' \subseteq Alive /\ (PtrThere => PtrThere')
<1>1. running \in PCB /\ Return(code) /\ UNCHANGED <<placeVars, timer_list, fault, tableVars>>
  BY DEF ProcUser, UserMode, Refuse
<1> QED BY <1>1, CallReturns

(* The end of the program changes nothing else.                            *)
LEMMA Crashed ==
  ASSUME ProcInv, ResInv, NEW where \in Faults, Crash(where), UNCHANGED <<procVars, resVars>>
  PROVE  ProcInv' /\ ResInv'
<1>1. fault' \in Faults /\ UNCHANGED <<placeVars, timer_list, syscall_retvalue, procVars>>
  BY DEF Crash
<1>2. ProcInv' /\ UNCHANGED tableVars
  BY <1>1, CrashStep DEF GoodStep, procVars, tableVars
<1> QED BY <1>2, TableKeepsAlive, Untouched

LEMMA ResOpenStep ==
  ASSUME ResAssumption, ProcInv, ResInv, NEW req \in OpenRequests, ResOpen(req)
  PROVE  ResGood
<1>1. CASE ResOpenRefused(req)
  <2>1. ProcUser /\ Refuse(OpenError(req)) /\ Called(OtherCall) /\ UNCHANGED <<tableVars, resVars>>
    BY <1>1 DEF ResOpenRefused
  <2>2. OpenError(req) \in Int
    BY DEF OpenError, ERESOURCECREATE, ERESOURCEOPEN, ERESOURCENOEXCL
  <2>3. ProcInv' /\ Alive' \subseteq Alive /\ (PtrThere => PtrThere')
    BY <2>1, <2>2, CallRefused
  <2> QED BY <2>1, <2>3, Untouched DEF ResGood
<1>2. CASE ResOpenNoResource(req)
  <2>1. Crash("openResource: no Resource") /\ UNCHANGED <<procVars, resVars>>
    BY <1>2 DEF ResOpenNoResource
  <2>2. ProcInv' /\ ResInv'
    BY <2>1, Crashed DEF Faults
  <2>3. PtrThere'
    BY <2>1 DEF Crash, PtrThere, PtrNeverMissing
  <2> QED BY <2>2, <2>3 DEF ResGood
<1>3. CASE ResOpenNoDescriptor(req)
  <2>1. /\ ProcUser /\ OpenError(req) = 0 /\ FetchOrCreate(req, {}) /\ UNCHANGED openVars
        /\ Refuse(ERESOURCENOFD) /\ Called(OtherCall) /\ UNCHANGED tableVars
    BY <1>3 DEF ResOpenNoDescriptor, CanFetch, ResOpenAccepted
  <2>2. ERESOURCENOFD \in Int
    BY DEF ERESOURCENOFD
  <2>3. ProcInv' /\ Alive' \subseteq Alive /\ (PtrThere => PtrThere')
    BY <2>1, <2>2, CallRefused
  <2> QED BY <2>1, <2>3, OpenNoDescriptorKeeps DEF ResGood
<1>4. CASE ResOpenDone(req) /\ PtrPool!Exhausted
  <2>1. /\ Crash("openResource: no DescriptorPtr") /\ UNCHANGED <<procVars, resVars>>
        /\ ~DesPool!Exhausted
    BY <1>4 DEF ResOpenDone
  <2>2. ProcInv' /\ ResInv'
    BY <2>1, Crashed DEF Faults
  <2>3. PtrThere'
    BY <1>4, <2>1, PairedPools DEF PtrThere
  <2> QED BY <2>2, <2>3 DEF ResGood
<1>5. CASE ResOpenDone(req) /\ ~PtrPool!Exhausted
  <2>1. /\ ProcUser /\ OpenError(req) = 0 /\ OpenDescriptor(req)
        /\ Return(last_fd[running]) /\ Called(OtherCall)
        /\ UNCHANGED <<placeVars, timer_list, fault, tableVars>>
    BY <1>5 DEF ResOpenDone, CanFetch, ResOpenAccepted, OpenDescriptor
  <2>2. running \in PCB /\ running \in Alive
    BY <2>1, RunsAlive DEF ProcUser, UserMode
  <2>3. last_fd[running] \in Int
    BY <2>2 DEF ResInv, ResTypeOK
  <2>4. ProcInv' /\ Alive' \subseteq Alive /\ (PtrThere => PtrThere')
    BY <2>1, <2>2, <2>3, CallReturns
  <2> QED BY <2>1, <2>2, <2>4, OpenKeeps DEF ResGood
<1> QED BY <1>1, <1>2, <1>3, <1>4, <1>5 DEF ResOpen

LEMMA ResCloseStep ==
  ASSUME ResAssumption, ProcInv, ResInv, NEW fd, ResCloseRefused(fd) \/ ResClose(fd)
  PROVE  ResGood
<1>1. CASE ResCloseRefused(fd)
  <2>1. ProcUser /\ Refuse(ERESOURCECLOSE) /\ Called(OtherCall) /\ UNCHANGED <<tableVars, resVars>>
    BY <1>1 DEF ResCloseRefused
  <2>2. ERESOURCECLOSE \in Int
    BY DEF ERESOURCECLOSE
  <2>3. ProcInv' /\ Alive' \subseteq Alive /\ (PtrThere => PtrThere')
    BY <2>1, <2>2, CallRefused
  <2> QED BY <2>1, <2>3, Untouched DEF ResGood
<1>2. CASE ResClose(fd)
  <2>1. /\ ProcUser /\ Return(0) /\ Called(OtherCall)
        /\ UNCHANGED <<placeVars, timer_list, fault, tableVars>>
    BY <1>2 DEF ResClose
  <2>2. running \in PCB /\ running \in Alive
    BY <2>1, RunsAlive DEF ProcUser, UserMode
  <2>3. ProcInv' /\ Alive' \subseteq Alive /\ (PtrThere => PtrThere')
    BY <2>1, <2>2, CallReturns
  <2> QED BY <1>2, <2>2, <2>3, CloseKeeps DEF ResGood
<1> QED BY <1>1, <1>2

LEMMA ResDestroyStep ==
  ASSUME ResAssumption, ProcInv, ResInv, NEW id, ResDestroyRefused(id) \/ ResDestroy(id)
  PROVE  ResGood
<1>1. CASE ResDestroyRefused(id)
  <2>1. /\ ProcUser /\ Refuse(DestroyError(id)) /\ Called(OtherCall)
        /\ UNCHANGED <<tableVars, resVars>>
    BY <1>1 DEF ResDestroyRefused
  <2>2. DestroyError(id) \in Int
    BY DEF DestroyError, ERESOURCECLOSE, ERESOURCEINUSE
  <2>3. ProcInv' /\ Alive' \subseteq Alive /\ (PtrThere => PtrThere')
    BY <2>1, <2>2, CallRefused
  <2> QED BY <2>1, <2>3, Untouched DEF ResGood
<1>2. CASE ResDestroy(id)
  <2>1. /\ ProcUser /\ Return(0) /\ Called(OtherCall)
        /\ UNCHANGED <<placeVars, timer_list, fault, tableVars>>
    BY <1>2 DEF ResDestroy
  <2>2. running \in PCB
    BY <2>1 DEF ProcUser, UserMode
  <2>3. ProcInv' /\ Alive' \subseteq Alive /\ (PtrThere => PtrThere')
    BY <2>1, <2>2, CallReturns
  <2> QED BY <1>2, <2>3, DestroyKeeps DEF ResGood
<1> QED BY <1>1, <1>2

(* The calls of module Processes are the only steps that move a PCB in or  *)
(* out of those alive, and none ends for want of a DescriptorPtr.          *)
LEMMA ProcFaults ==
  ASSUME ResCreate \/ ResExit \/ ResKept
  PROVE  PtrThere => PtrThere'
<1>1. CASE UNCHANGED fault
  BY <1>1 DEF PtrThere, PtrNeverMissing
<1>2. CASE fault' # "openResource: no DescriptorPtr"
  BY <1>2 DEF PtrThere, PtrNeverMissing
<1>3. CASE ResCreate
  BY <1>1, <1>3 DEF ResCreate, Spawn, Fork, Boot, Create
<1>4. CASE ResExit
  BY <1>1, <1>2, <1>4 DEF ResExit, ResExitAwaited, ExitAwaited, ExitUnawaited, ExitLoops,
                          ExitNoParent, ExitNotAChild, ExitZombie, ExitNoReady, Crash
<1>5. CASE CreateNoBlock \/ RunUnmade \/ BootNoBlock \/ TickIdle \/ Shutdown
  BY <1>2, <1>5 DEF CreateNoBlock, RunUnmade, BootNoBlock, TickIdle, Shutdown, Crash
<1>6. ASSUME NEW arg \in WaitArgs, Wait(arg)
      PROVE  PtrThere => PtrThere'
  BY <1>1, <1>2, <1>6 DEF Wait, WaitRefused, WaitReap, WaitBlock, WaitNoReady, Refuse, Crash
<1>7. ASSUME NEW cycles \in SleepTimes, Sleep(cycles)
      PROVE  PtrThere => PtrThere'
  BY <1>1, <1>7 DEF Sleep, internal_sleep, Refuse
<1>8. CASE Preempt \/ Tick
  BY <1>1, <1>8 DEF Preempt, Tick, internal_preempt, timerInterrupt, internal_schedule
<1> QED BY <1>3, <1>4, <1>5, <1>6, <1>7, <1>8 DEF ResKept

LEMMA ResCreateStep ==
  ASSUME SchedAssumption, ProcAssumption, ProcInv, ResInv, ResCreate
  PROVE  ResGood
<1>1. Spawn \/ Fork \/ Boot
  BY DEF ResCreate
<1>2. ProcInv'
  BY <1>1, ProcStep DEF ProcNext, GoodStep
<1>3. pcb_free # <<>> /\ pcb_free' = Tail(pcb_free) /\ UNCHANGED zombie_list
  BY <1>1 DEF Spawn, Fork, Create, Boot, PCB_alloc
<1>4. Head(pcb_free) \in PCB /\ Alive' \subseteq Alive \cup {Head(pcb_free)}
  BY <1>3, CreateAlive
<1>5. /\ descriptors' = [descriptors EXCEPT ![Head(pcb_free)] = <<>>]
      /\ last_fd' = [last_fd EXCEPT ![Head(pcb_free)] = 0]
      /\ UNCHANGED <<resources_list, res, res_pool, des, des_pool, ptr_pool>>
  BY DEF ResCreate, NewPCB
<1>6. ResInv'
  BY <1>4, <1>5, Emptied
<1> QED BY <1>2, <1>6, ProcFaults DEF ResGood

LEMMA ResExitStep ==
  ASSUME SchedAssumption, ProcAssumption, ResAssumption, ProcInv, ResInv, ResExit
  PROVE  ResGood
<1>1. ProcInv'
  <2>1. Exit
    BY DEF ResExit, ResExitAwaited, Exit
  <2> QED BY <2>1, ProcStep DEF ProcNext, GoodStep
<1>2. running \in PCB
  BY DEF ResExit, ResExitAwaited, ExitAwaited, ExitUnawaited, ExitLoops, ExitNoParent,
         ExitNotAChild, ExitZombie, ExitNoReady, CanExit, ProcUser, UserMode
<1>3. CASE ResExitAwaited
  <2>1. pcb_free' = <<running>> \o pcb_free /\ zombie_list' = zombie_list
    BY <1>3 DEF ResExitAwaited, ExitAwaited
  <2>2. Alive' \subseteq Alive
    BY <1>2, <2>1, FreedAlive
  <2>3. ResInv'
    BY <1>2, <1>3, <2>2, RunsAlive, ExitKeeps
  <2> QED BY <1>1, <2>3, ProcFaults DEF ResGood
<1>4. CASE ExitUnawaited /\ UNCHANGED resVars
  <2>1. UNCHANGED pcb_free /\ (UNCHANGED zombie_list \/ zombie_list' = zombie_list \cup {running})
    BY <1>4 DEF ExitUnawaited, ExitLoops, ExitNoParent, ExitNotAChild, ExitZombie, ExitNoReady,
                procVars
  <2>2. Alive' \subseteq Alive
    BY <2>1 DEF Alive, Free
  <2>3. ResInv'
    BY <1>4, <2>2, Untouched
  <2> QED BY <1>1, <2>3, ProcFaults DEF ResGood
<1> QED BY <1>3, <1>4 DEF ResExit

LEMMA ResKeptStep ==
  ASSUME SchedAssumption, ProcAssumption, ProcInv, ResInv, ResKept
  PROVE  ResGood
<1>1. ProcInv'
  <2>1. ProcNext
    BY DEF ResKept, ProcNext
  <2> QED BY <2>1, ProcStep DEF GoodStep
<1>2. CASE \E arg \in WaitArgs : WaitReap(arg)
  <2>1. PICK arg \in WaitArgs : WaitReap(arg)
    BY <1>2
  <2> DEFINE child == children[running][Awaited(arg)]
  <2>2. pcb_free' = <<child>> \o pcb_free /\ zombie_list' = zombie_list \ {child}
    BY <2>1 DEF WaitReap
  <2>3. child \in PCB
    <3>1. running \in PCB /\ children[running] # <<>>
      BY <2>1 DEF WaitReap, ProcUser, UserMode
    <3>2. children[running] \in Seq(PCB)
      BY <3>1, ProcInvTypes DEF ProcTypeOK
    <3>3. Awaited(arg) \in 1..Len(children[running])
      BY <3>1, AwaitedChild
    <3> QED BY <3>2, <3>3, ElementOfSeq
  <2> HIDE DEF child
  <2> QED BY <2>2, <2>3, FreedAlive, Untouched, <1>1, ProcFaults DEF ResGood, ResKept
<1>3. ASSUME UNCHANGED tableVars \/ UNCHANGED procVars
      PROVE  ResGood
  <2>1. UNCHANGED tableVars
    BY <1>3 DEF procVars, tableVars
  <2> QED BY <2>1, TableKeepsAlive, Untouched, <1>1, ProcFaults DEF ResGood, ResKept
<1>4. CASE CreateNoBlock \/ RunUnmade \/ BootNoBlock \/ TickIdle \/ Shutdown \/ Preempt \/ Tick
  BY <1>3, <1>4 DEF CreateNoBlock, RunUnmade, BootNoBlock, TickIdle, Shutdown, Preempt, Tick
<1>5. ASSUME NEW arg \in WaitArgs, WaitRefused(arg) \/ WaitBlock(arg) \/ WaitNoReady(arg)
      PROVE  ResGood
  BY <1>3, <1>5 DEF WaitRefused, WaitBlock, WaitNoReady
<1>6. ASSUME NEW cycles \in SleepTimes, Sleep(cycles)
      PROVE  ResGood
  BY <1>3, <1>6 DEF Sleep
<1> QED BY <1>2, <1>4, <1>5, <1>6 DEF ResKept, Wait

(* The first state: nothing is open and the pools are full.                *)
LEMMA ResInitInv == SchedAssumption /\ ResAssumption /\ ProcInit /\ ResInit => ResInv /\ PtrThere
<1> SUFFICES ASSUME SchedAssumption, ResAssumption, ProcInit, ResInit PROVE ResInv /\ PtrThere
  OBVIOUS
<1>1. ResTypeOK
  BY PoolSizes DEF ResInit, ResTypeOK
<1>2. \A p \in PCB : DescriptorsOf(p) = {} /\ NoRepeat(descriptors[p])
  BY DEF ResInit, DescriptorsOf, Elements, NoRepeat
<1>3. /\ ResStacked(res_pool) /\ ResPool!InUse(res_pool) = {}
      /\ DesStacked(des_pool) /\ des_pool.size = NUM_DESCRIPTORS
      /\ PtrStacked(ptr_pool) /\ ptr_pool.size = NUM_DESCRIPTORPTRS
  BY PoolsInit DEF ResInit
<1>4. PoolsOK
  BY <1>3, PoolSizes DEF PoolsOK
<1>5. ListOK
  BY <1>3 DEF ListOK, ResInit, NoRepeat, Elements
<1>6. OpenOK /\ OneOwner /\ FdsDistinct
  BY <1>2 DEF OpenOK, OneOwner, FdsDistinct, Alive
<1>7. PtrThere
  BY DEF PtrThere, PtrNeverMissing, ProcInit
<1> QED BY <1>1, <1>4, <1>5, <1>6, <1>7 DEF ResInv

LEMMA ResStep ==
  SchedAssumption /\ ProcAssumption /\ ResAssumption /\ ProcInv /\ ResInv /\ [ResNext]_resAll => ResGood
<1> SUFFICES ASSUME SchedAssumption, ProcAssumption, ResAssumption, ProcInv, ResInv, [ResNext]_resAll
             PROVE  ResGood
  OBVIOUS
<1>1. CASE ResCall
  <2>1. ASSUME NEW id, ResDestroyRefused(id) \/ ResDestroy(id)
        PROVE  ResGood
    BY <2>1, ResDestroyStep
  <2>2. ASSUME NEW fd, ResCloseRefused(fd) \/ ResClose(fd)
        PROVE  ResGood
    BY <2>2, ResCloseStep
  <2>3. ASSUME NEW req \in OpenRequests, ResOpen(req)
        PROVE  ResGood
    BY <2>3, ResOpenStep
  <2> QED BY <1>1, <2>1, <2>2, <2>3 DEF ResCall
<1>2. CASE UNCHANGED resAll
  <2>1. UNCHANGED procAll /\ UNCHANGED resVars /\ UNCHANGED fault /\ UNCHANGED tableVars
    BY <1>2 DEF resAll, procAll, schedVars, procVars, tableVars
  <2>2. ProcInv'
    BY <2>1, ProcStep DEF GoodStep
  <2>3. ResInv'
    BY <2>1, TableKeepsAlive, Untouched
  <2>4. PtrThere => PtrThere'
    BY <2>1 DEF PtrThere, PtrNeverMissing
  <2> QED BY <2>2, <2>3, <2>4 DEF ResGood
<1> QED BY <1>1, <1>2, ResCreateStep, ResExitStep, ResKeptStep DEF ResNext

LEMMA ResInvariant == ResSpec => [](ProcInv /\ ResInv /\ PtrThere)
<1>1. ProcInit /\ ResInit => ProcInv /\ ResInv /\ PtrThere
  BY SchedAssumption, ProcAssumption, ResAssumption, ProcInitInv, ResInitInv
<1>2. ProcInv /\ ResInv /\ PtrThere /\ [ResNext]_resAll => (ProcInv /\ ResInv /\ PtrThere)'
  BY SchedAssumption, ProcAssumption, ResAssumption, ResStep DEF ResGood
<1> QED BY <1>1, <1>2, PTL DEF ResSpec

-----------------------------------------------------------------------------
(***************************************************************************)
(* Every open descriptor of a process that is not over points to a         *)
(* resource on the list, whose own list holds its DescriptorPtr, and no    *)
(* two descriptors share one: close and exit never take off the item of    *)
(* another, and destroy never takes a resource somebody has open.          *)
(***************************************************************************)
THEOREM OpenResourcesStay == ResSpec => []OpenResourceListed
BY ResInvariant, ResInvGives, PTL

(* The numbers a process has open are distinct, in a reused PCB too.       *)
THEOREM NumbersDistinct == ResSpec => []FdsDistinct
BY ResInvariant, ResInvGives, PTL

(* No call releases a block twice or gives out one that is still in use.   *)
THEOREM PoolsStaySound == ResSpec => []PoolsSound
BY ResInvariant, ResInvGives, PTL

(***************************************************************************)
(* With as many DescriptorPtrs as Descriptors, as the code has, open never *)
(* dereferences the NULL of an empty DescriptorPtr pool.                   *)
(***************************************************************************)
THEOREM PtrNeverRunsOut ==
  ASSUME NUM_DESCRIPTORS <= NUM_DESCRIPTORPTRS
  PROVE  ResSpec => []PtrNeverMissing
<1>1. PtrThere => PtrNeverMissing
  BY DEF PtrThere
<1> QED BY <1>1, ResInvariant, PTL
=============================================================================
