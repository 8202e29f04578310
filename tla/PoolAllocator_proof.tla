------------------------- MODULE PoolAllocator_proof -------------------------
(***************************************************************************)
(* The pool allocator behaves as a stack of free blocks, for every number  *)
(* of blocks and whatever is released: the abstraction the modules         *)
(* Semaphores and Processes make of their pools.  The free list is spelled *)
(* by exactly one sequence s; getBlock takes the head of s off,            *)
(* releaseBlock puts a block in use in front of it and refuses the rest.   *)
(***************************************************************************)
EXTENDS PoolAllocator, Lists_proof, FiniteSetTheorems

PoolRecord ==
  [size : 0..num_items, first_idx : Blocks \cup {NullIdx},
   free_list : [Blocks -> Blocks \cup {NullIdx, DetachedIdx}]]

(* The sequence a pool spells.                                             *)
FreeStack(a) == CHOOSE s \in Seq(Blocks) : Spells(a, s)

(* PoolAllocator_init spells the blocks from first to last.                *)
LEMMA InitSpells ==
  ASSUME num_items \in Nat \ {0}
  PROVE  /\ [i \in 1..num_items |-> i - 1] \in Seq(Blocks)
         /\ Spells(PoolAllocator_init, [i \in 1..num_items |-> i - 1])
         /\ PoolAllocator_init \in PoolRecord
<1> DEFINE s == [i \in 1..num_items |-> i - 1]
           a == PoolAllocator_init
<1>1. s \in Seq(Blocks) /\ Len(s) = num_items /\ s # <<>>
  BY DEF Blocks
<1>2. \A i \in 1..num_items : s[i] = i - 1
  OBVIOUS
<1>3. /\ a.size = num_items /\ a.first_idx = 0
      /\ \A b \in Blocks : a.free_list[b] = IF b = num_items - 1 THEN NullIdx ELSE b + 1
  BY DEF PoolAllocator_init
<1>4. NoRepeat(s)
  BY <1>1, <1>2 DEF NoRepeat
<1>5. Head(s) = 0
  BY <1>1, <1>2, HeadTailProperties
<1>6. ASSUME NEW i \in 1..Len(s)
      PROVE  a.free_list[s[i]] = Successor(s, i)
  BY <1>1, <1>2, <1>3 DEF Blocks, Successor
<1>7. ASSUME NEW b \in Blocks
      PROVE  b \in Elements(s)
  <2>1. b + 1 \in 1..Len(s) /\ s[b + 1] = b
    BY <1>1, <1>2 DEF Blocks
  <2> QED BY <2>1 DEF Elements
<1>8. a \in PoolRecord
  BY DEF PoolRecord, PoolAllocator_init, Blocks, NullIdx
<1> HIDE DEF s, a
<1>9. Spells(a, s)
  BY <1>1, <1>3, <1>4, <1>5, <1>6, <1>7 DEF Spells
<1> QED BY <1>1, <1>8, <1>9 DEF s, a

(* A block is marked detached exactly when the free list does not hold it. *)
LEMMA DetachedInUse ==
  ASSUME NEW a \in PoolRecord, NEW s \in Seq(Blocks), Spells(a, s), NEW b \in Blocks
  PROVE  a.free_list[b] = DetachedIdx <=> b \notin Elements(s)
<1>1. ASSUME NEW i \in 1..Len(s), b = s[i]
      PROVE  a.free_list[b] # DetachedIdx
  <2>1. a.free_list[b] = Successor(s, i)
    BY <1>1 DEF Spells
  <2>2. Successor(s, i) \in Int /\ Successor(s, i) # DetachedIdx
    <3>1. CASE i < Len(s)
      <4>1. s[i + 1] \in Blocks
        BY <3>1
      <4> QED BY <3>1, <4>1 DEF Successor, Blocks, DetachedIdx
    <3>2. CASE ~(i < Len(s))
      BY <3>2 DEF Successor, NullIdx, DetachedIdx
    <3> QED BY <3>1, <3>2
  <2> QED BY <2>1, <2>2
<1>2. b \notin Elements(s) => a.free_list[b] = DetachedIdx
  BY DEF Spells
<1> QED BY <1>1, <1>2 DEF Elements

(* The sequence a pool spells is unique.                                   *)
LEMMA SpelledOnce ==
  ASSUME NEW a \in PoolRecord, NEW s \in Seq(Blocks), NEW t \in Seq(Blocks),
         Spells(a, s), Spells(a, t)
  PROVE  s = t
<1> DEFINE Different == {i \in 1..Len(s) : s[i] # t[i]}
<1>1. Len(s) = Len(t) /\ Len(s) \in Nat
  BY DEF Spells
<1>2. Different = {}
  <2> SUFFICES ASSUME Different # {} PROVE FALSE
    OBVIOUS
  <2>1. Different \in SUBSET Nat
    OBVIOUS
  <2> HIDE DEF Different
  <2>2. PICK i \in Different : \A j \in Different : i <= j
    BY <2>1, MinExists
  <2> USE DEF Different
  <2>3. i \in 1..Len(s) /\ s[i] # t[i]
    BY <2>2
  <2>4. CASE i = 1
    <3>1. s # <<>> /\ t # <<>>
      BY <1>1, <2>3
    <3>2. Head(s) = Head(t)
      BY <3>1 DEF Spells
    <3> QED BY <2>3, <2>4, <3>1, <3>2, HeadTailProperties
  <2>5. CASE i # 1
    <3>1. i - 1 \in 1..Len(s) /\ s[i - 1] = t[i - 1] /\ (i - 1) + 1 = i
      BY <2>2, <2>3, <2>5
    <3>2. a.free_list[s[i - 1]] = s[i] /\ a.free_list[t[i - 1]] = t[i]
      BY <1>1, <2>3, <3>1 DEF Spells, Successor
    <3> QED BY <2>3, <3>1, <3>2
  <2> QED BY <2>4, <2>5
<1> QED BY <1>1, <1>2

LEMMA StackIs ==
  ASSUME NEW a \in PoolRecord, NEW s \in Seq(Blocks), Spells(a, s)
  PROVE  FreeStack(a) = s
<1>1. FreeStack(a) \in Seq(Blocks) /\ Spells(a, FreeStack(a))
  BY DEF FreeStack
<1> QED BY <1>1, SpelledOnce

(* A stack of blocks without repetition is not longer than the pool.       *)
LEMMA NoRepeatFits ==
  ASSUME num_items \in Nat, NEW s \in Seq(Blocks), NoRepeat(s)
  PROVE  Len(s) <= num_items
<1>1. Len(s) \in Nat /\ s \in [1..Len(s) -> Blocks]
  BY LenProperties, SeqDef
<1>2. /\ IsFiniteSet(1..Len(s)) /\ Cardinality(1..Len(s)) = Len(s)
      /\ IsFiniteSet(Blocks) /\ Cardinality(Blocks) = num_items
  <2>1. num_items - 1 \in Int /\ 0 \in Int /\ 1 \in Int /\ Len(s) \in Int
    BY <1>1
  <2>2. /\ IsFiniteSet(1..Len(s))
        /\ Cardinality(1..Len(s)) = IF 1 > Len(s) THEN 0 ELSE Len(s) - 1 + 1
    BY <2>1, FS_Interval
  <2>3. /\ IsFiniteSet(0..(num_items - 1))
        /\ Cardinality(0..(num_items - 1)) =
             IF 0 > num_items - 1 THEN 0 ELSE (num_items - 1) - 0 + 1
    BY <2>1, FS_Interval
  <2> QED BY <1>1, <2>2, <2>3 DEF Blocks
<1> SUFFICES ASSUME num_items < Len(s) PROVE FALSE
  BY <1>1
<1>3. \E i, j \in 1..Len(s) : i # j /\ s[i] = s[j]
  BY <1>1, <1>2, FS_PigeonHole
<1> QED BY <1>3 DEF NoRepeat

-----------------------------------------------------------------------------
(* getBlock takes the head of the stack off.                               *)
LEMMA GetSpells ==
  ASSUME num_items \in Nat \ {0},
         NEW a \in PoolRecord, NEW s \in Seq(Blocks), Spells(a, s), a.first_idx # NullIdx
  PROVE  /\ s # <<>> /\ a.first_idx = Head(s)
         /\ Tail(s) \in Seq(Blocks) /\ Spells(Got(a), Tail(s))
         /\ Got(a) \in PoolRecord
<1> DEFINE b == a.first_idx
           t == Tail(s)
           g == Got(a)
<1>1. s # <<>> /\ b = Head(s)
  BY DEF Spells
<1>2. /\ Len(s) \in Nat \ {0} /\ Len(t) = Len(s) - 1 /\ b = s[1] /\ b \in Blocks
      /\ t \in Seq(Blocks)
  BY <1>1, EmptySeq, HeadTailProperties, LenProperties
<1>3. \A i \in 1..Len(t) : t[i] = s[i + 1]
  BY <1>1, <1>2, HeadTailProperties
<1>4. /\ NoRepeat(t) /\ b \notin Elements(t)
      /\ Elements(s) = Elements(t) \cup {b}
  BY <1>1, HeadTailElements DEF Spells
<1>5. /\ g.size = a.size - 1 /\ g.first_idx = a.free_list[b]
      /\ \A c \in Blocks : g.free_list[c] = IF c = b THEN DetachedIdx ELSE a.free_list[c]
      /\ a.size = Len(s)
  BY DEF Got, Spells, PoolRecord
<1>6. a.free_list[b] = Successor(s, 1)
  BY <1>2 DEF Spells
<1>7. g.first_idx = IF t = <<>> THEN NullIdx ELSE Head(t)
  <2>1. CASE t = <<>>
    <3>1. Len(s) = 1
      BY <1>2, <2>1, EmptySeq
    <3> QED BY <1>5, <1>6, <2>1, <3>1 DEF Successor
  <2>2. CASE t # <<>>
    <3>1. Len(t) \in Nat \ {0} /\ Head(t) = t[1]
      BY <1>2, <2>2, EmptySeq, HeadTailProperties, LenProperties
    <3>2. Successor(s, 1) = s[2] /\ t[1] = s[2]
      BY <1>2, <1>3, <3>1 DEF Successor
    <3> QED BY <1>5, <1>6, <2>2, <3>1, <3>2
  <2> QED BY <2>1, <2>2
<1>8. ASSUME NEW i \in 1..Len(t)
      PROVE  g.free_list[t[i]] = Successor(t, i)
  <2>1. i + 1 \in 1..Len(s) /\ t[i] = s[i + 1] /\ s[i + 1] \in Blocks
    BY <1>2, <1>3
  <2>2. t[i] # b
    BY <1>4 DEF Elements
  <2>3. g.free_list[t[i]] = Successor(s, i + 1)
    BY <1>5, <2>1, <2>2 DEF Spells
  <2>4. CASE i < Len(t)
    <3>1. t[i + 1] = s[(i + 1) + 1] /\ i + 1 < Len(s)
      BY <1>2, <1>3, <2>4
    <3> QED BY <2>3, <2>4, <3>1 DEF Successor
  <2>5. CASE ~(i < Len(t))
    <3>1. ~(i + 1 < Len(s))
      BY <1>2, <2>5
    <3> QED BY <2>3, <2>5, <3>1 DEF Successor
  <2> QED BY <2>4, <2>5
<1>9. ASSUME NEW c \in Blocks \ Elements(t)
      PROVE  g.free_list[c] = DetachedIdx
  BY <1>4, <1>5 DEF Spells
<1>10. Spells(g, t)
  <2>1. g.size = Len(t)
    BY <1>2, <1>5
  <2> HIDE DEF g, t, b
  <2> QED BY <1>4, <1>7, <1>8, <1>9, <2>1 DEF Spells
<1>11. g \in PoolRecord
  <2>1. a.size - 1 \in 0..num_items
    BY <1>2, <1>5 DEF PoolRecord
  <2>2. a.free_list[b] \in Blocks \cup {NullIdx}
    <3>1. b \in Elements(s)
      BY <1>4
    <3>2. a.free_list[b] # DetachedIdx
      BY <1>2, <3>1, DetachedInUse
    <3> QED BY <1>2, <3>2 DEF PoolRecord
  <2> QED BY <2>1, <2>2 DEF Got, PoolRecord
<1> QED BY <1>1, <1>2, <1>10, <1>11

(***************************************************************************)
(* releaseBlock puts a block in use on the stack, and changes nothing for  *)
(* a block that is on it already or is none.                               *)
(***************************************************************************)
LEMMA ReleaseSpells ==
  ASSUME num_items \in Nat \ {0},
         NEW a \in PoolRecord, NEW s \in Seq(Blocks), Spells(a, s),
         NEW b \in Blocks \ Elements(s)
  PROVE  /\ <<b>> \o s \in Seq(Blocks) /\ Spells(Released(a, b), <<b>> \o s)
         /\ Released(a, b) \in PoolRecord
<1> DEFINE t == <<b>> \o s
           r == Released(a, b)
<1>1. a.free_list[b] = DetachedIdx
  BY DEF Spells
<1>2. r = [size |-> a.size + 1, first_idx |-> b,
           free_list |-> [a.free_list EXCEPT ![b] = a.first_idx]]
  BY <1>1 DEF Released, Result
<1>3. /\ r.size = a.size + 1 /\ r.first_idx = b /\ a.size = Len(s)
      /\ \A c \in Blocks : r.free_list[c] = IF c = b THEN a.first_idx ELSE a.free_list[c]
  BY <1>2 DEF Spells, PoolRecord
<1>4. /\ t \in Seq(Blocks) /\ Len(t) = Len(s) + 1 /\ Len(s) \in Nat
      /\ t[1] = b /\ t # <<>> /\ Head(t) = b
      /\ \A i \in 1..Len(s) : t[i + 1] = s[i]
  OBVIOUS
<1>5. NoRepeat(t) /\ Elements(t) = Elements(s) \cup {b}
  <2>1. <<b>> \in Seq(Blocks) /\ Elements(<<b>>) = {b} /\ NoRepeat(<<b>>)
    BY DEF Elements, NoRepeat
  <2>2. NoRepeat(s) /\ {b} \cap Elements(s) = {}
    BY DEF Spells
  <2>3. /\ Elements(<<b>> \o s) = Elements(<<b>>) \cup Elements(s)
        /\ NoRepeat(<<b>> \o s)
    <3> DEFINE o == <<b>>
    <3>1. o \in Seq(Blocks) /\ Elements(o) \cap Elements(s) = {} /\ NoRepeat(o)
      BY <2>1, <2>2
    <3> HIDE DEF o
    <3>2. Elements(o \o s) = Elements(o) \cup Elements(s) /\ NoRepeat(o \o s)
      BY <2>2, <3>1, ConcatElements
    <3> QED BY <3>2 DEF o
  <2> QED BY <2>1, <2>3
<1>6. ASSUME NEW i \in 1..Len(t)
      PROVE  r.free_list[t[i]] = Successor(t, i)
  <2>1. CASE i = 1
    <3>1. r.free_list[t[i]] = a.first_idx
      BY <1>3, <1>4, <2>1
    <3>2. CASE s = <<>>
      BY <1>4, <2>1, <3>1, <3>2 DEF Spells, Successor
    <3>3. CASE s # <<>>
      <4>1. a.first_idx = s[1] /\ Len(s) > 0
        BY <1>4, <3>3, EmptySeq, HeadTailProperties DEF Spells
      <4>2. t[2] = s[1]
        BY <1>4, <4>1
      <4> QED BY <1>4, <2>1, <3>1, <4>1, <4>2 DEF Successor
    <3> QED BY <3>2, <3>3
  <2>2. CASE i # 1
    <3>1. i - 1 \in 1..Len(s) /\ t[i] = s[i - 1] /\ s[i - 1] \in Blocks
      <4>1. i - 1 \in 1..Len(s) /\ (i - 1) + 1 = i
        BY <1>4, <2>2
      <4> QED BY <1>4, <4>1
    <3>2. t[i] # b
      BY <3>1 DEF Elements
    <3>3. r.free_list[t[i]] = Successor(s, i - 1)
      BY <1>3, <3>1, <3>2 DEF Spells
    <3>4. CASE i < Len(t)
      <4>1. t[i + 1] = s[i] /\ i - 1 < Len(s) /\ (i - 1) + 1 = i
        BY <1>4, <3>1, <3>4
      <4> QED BY <3>3, <3>4, <4>1 DEF Successor
    <3>5. CASE ~(i < Len(t))
      BY <1>4, <3>1, <3>3, <3>5 DEF Successor
    <3> QED BY <3>4, <3>5
  <2> QED BY <2>1, <2>2
<1>7. ASSUME NEW c \in Blocks \ Elements(t)
      PROVE  r.free_list[c] = DetachedIdx
  BY <1>3, <1>5 DEF Spells
<1>8. Spells(r, t)
  <2>1. r.size = Len(t)
    BY <1>3, <1>4
  <2> HIDE DEF r, t
  <2> QED BY <1>3, <1>4, <1>5, <1>6, <1>7, <2>1 DEF Spells
<1>9. r \in PoolRecord
  <2>1. a.size + 1 \in 0..num_items
    <3>1. Len(t) <= num_items
      BY <1>4, <1>5, NoRepeatFits
    <3> QED BY <1>3, <1>4, <3>1
  <2> QED BY <1>2, <2>1 DEF PoolRecord
<1> QED BY <1>4, <1>8, <1>9

-----------------------------------------------------------------------------
(***************************************************************************)
(* What the users of a pool need to know of it: a stacked pool is sound,   *)
(* getBlock takes a block into use, a release gives one in use back.       *)
(***************************************************************************)
Stacked(a) == a \in PoolRecord /\ \E s \in Seq(Blocks) : Spells(a, s)

LEMMA InUseOfStack ==
  ASSUME NEW a \in PoolRecord, NEW s \in Seq(Blocks), Spells(a, s)
  PROVE  InUse(a) = Blocks \ Elements(s)
BY DetachedInUse DEF InUse

LEMMA StackedSound ==
  ASSUME Stacked(pool)
  PROVE  Sound
<1>1. PICK s \in Seq(Blocks) : Spells(pool, s)
  BY DEF Stacked
<1>2. pool.size = Len(s)
  BY <1>1 DEF Spells
<1>3. s \in [1..Len(s) -> Blocks]
  BY SeqDef, LenProperties
<1> QED BY <1>1, <1>2, <1>3 DEF Sound

(* The size of a stacked pool says whether it is exhausted.                *)
LEMMA StackedSize ==
  ASSUME num_items \in Nat \ {0}, NEW a, Stacked(a)
  PROVE  /\ a.size \in Nat /\ (a.first_idx = NullIdx <=> a.size = 0)
         /\ InUse(a) \subseteq Blocks
<1>1. PICK s \in Seq(Blocks) : Spells(a, s)
  BY DEF Stacked
<1>2. a.size = Len(s) /\ Len(s) \in Nat /\ (s = <<>> <=> Len(s) = 0)
  BY <1>1, EmptySeq, LenProperties DEF Spells
<1>3. s # <<>> => Head(s) # NullIdx
  BY HeadTailProperties DEF Blocks, NullIdx
<1>4. a.first_idx = IF s = <<>> THEN NullIdx ELSE Head(s)
  BY <1>1 DEF Spells
<1> QED BY <1>2, <1>3, <1>4 DEF InUse

LEMMA InitStacked ==
  ASSUME num_items \in Nat \ {0}
  PROVE  /\ Stacked(PoolAllocator_init) /\ InUse(PoolAllocator_init) = {}
         /\ PoolAllocator_init.size = num_items
<1>1. Stacked(PoolAllocator_init)
  BY InitSpells DEF Stacked
<1>2. PoolAllocator_init.size = num_items
  BY DEF PoolAllocator_init
<1>3. \A b \in Blocks : PoolAllocator_init.free_list[b] # DetachedIdx
  BY DEF PoolAllocator_init, Blocks, NullIdx, DetachedIdx
<1> QED BY <1>1, <1>2, <1>3 DEF InUse

LEMMA GetStacked ==
  ASSUME num_items \in Nat \ {0}, NEW a, Stacked(a), a.first_idx # NullIdx
  PROVE  /\ Stacked(Got(a))
         /\ a.first_idx \in Blocks \ InUse(a)
         /\ InUse(Got(a)) = InUse(a) \cup {a.first_idx}
         /\ Got(a).size = a.size - 1
<1>1. PICK s \in Seq(Blocks) : Spells(a, s)
  BY DEF Stacked
<1>2. a \in PoolRecord
  BY DEF Stacked
<1>3. /\ s # <<>> /\ a.first_idx = Head(s)
      /\ Tail(s) \in Seq(Blocks) /\ Spells(Got(a), Tail(s)) /\ Got(a) \in PoolRecord
  BY <1>1, <1>2, GetSpells
<1>4. InUse(a) = Blocks \ Elements(s) /\ InUse(Got(a)) = Blocks \ Elements(Tail(s))
  BY <1>1, <1>2, <1>3, InUseOfStack
<1>5. NoRepeat(s)
  BY <1>1 DEF Spells
<1>6. /\ Elements(s) = Elements(Tail(s)) \cup {Head(s)} /\ Head(s) \notin Elements(Tail(s))
      /\ Head(s) \in Blocks
  BY <1>3, <1>5, HeadTailElements, HeadTailProperties
<1>7. Got(a).size = a.size - 1
  BY DEF Got
<1> QED BY <1>1, <1>2, <1>3, <1>4, <1>6, <1>7 DEF Stacked

LEMMA ReleaseStacked ==
  ASSUME num_items \in Nat \ {0}, NEW a, Stacked(a), NEW b \in InUse(a)
  PROVE  /\ Stacked(Released(a, b))
         /\ InUse(Released(a, b)) = InUse(a) \ {b}
         /\ Released(a, b).size = a.size + 1
<1>1. PICK s \in Seq(Blocks) : Spells(a, s)
  BY DEF Stacked
<1>2. a \in PoolRecord
  BY DEF Stacked
<1>3. InUse(a) = Blocks \ Elements(s)
  BY <1>1, <1>2, InUseOfStack
<1>4. b \in Blocks \ Elements(s)
  BY <1>3
<1>5. <<b>> \o s \in Seq(Blocks) /\ Spells(Released(a, b), <<b>> \o s) /\ Released(a, b) \in PoolRecord
  BY <1>1, <1>2, <1>4, ReleaseSpells
<1>6. /\ Released(a, b).size = a.size + 1
      /\ Released(a, b).free_list = [a.free_list EXCEPT ![b] = a.first_idx]
  BY DEF Released, Result, InUse
<1>7. a.first_idx # DetachedIdx /\ a.free_list \in [Blocks -> Blocks \cup {NullIdx, DetachedIdx}]
  BY <1>2 DEF PoolRecord, Blocks, NullIdx, DetachedIdx
<1>8. InUse(Released(a, b)) = InUse(a) \ {b}
  BY <1>4, <1>6, <1>7 DEF InUse
<1> QED BY <1>5, <1>6, <1>8 DEF Stacked

(***************************************************************************)
(* The pool after some of the releases has a closed form, so the recursion *)
(* that ReleasedAll is defined by has a solution.                          *)
(***************************************************************************)
LEMMA ReleasesDefined ==
  ASSUME num_items \in Nat \ {0}, NEW a, Stacked(a), NEW bs \in Seq(InUse(a)), NoRepeat(bs)
  PROVE  \E after : after = [i \in 0..Len(bs) |->
                               IF i = 0 THEN a ELSE Released(after[i - 1], bs[i])]
<1> DEFINE n == Len(bs)
           place(b) == CHOOSE j \in 1..n : bs[j] = b
           under(j) == IF j = 1 THEN a.first_idx ELSE bs[j - 1]
           list(i) == [b \in Blocks |-> IF \E j \in 1..i : bs[j] = b THEN under(place(b))
                                        ELSE a.free_list[b]]
           first(i) == IF i = 0 THEN a.first_idx ELSE bs[i]
           sol == [i \in 0..n |-> IF i = 0 THEN a ELSE
                     [size |-> a.size + i, first_idx |-> first(i), free_list |-> list(i)]]
<1>1. /\ n \in Nat /\ \A i \in 1..n : bs[i] \in InUse(a)
      /\ a.size \in Nat /\ InUse(a) \subseteq Blocks
  BY StackedSize, LenProperties, ElementOfSeq
<1>2. \A i, j \in 1..n : bs[i] = bs[j] => i = j
  BY DEF NoRepeat
<1>3. a \in PoolRecord
  BY DEF Stacked
<1>4. a.free_list = list(0)
  BY <1>3 DEF PoolRecord
<1>5. a = [size |-> a.size + 0, first_idx |-> first(0), free_list |-> list(0)]
  BY <1>1, <1>3, <1>4 DEF PoolRecord
<1>6. \A i \in 0..n : sol[i] = [size |-> a.size + i, first_idx |-> first(i), free_list |-> list(i)]
  <2> SUFFICES ASSUME NEW i \in 0..n
               PROVE  sol[i] = [size |-> a.size + i, first_idx |-> first(i), free_list |-> list(i)]
    OBVIOUS
  <2> HIDE DEF first, list
  <2> QED BY <1>5
<1>7. ASSUME NEW i \in 1..n
      PROVE  sol[i] = Released(sol[i - 1], bs[i])
  <2>1. i - 1 \in 0..n /\ i \in 0..n /\ (a.size + (i - 1)) + 1 = a.size + i
    <3> HIDE DEF sol, list, first, under, place, n
    <3>1. PICK k \in Nat : k = a.size
      BY <1>1
    <3>2. i - 1 \in 0..n /\ i \in 0..n /\ i \in Int
      BY <1>1
    <3> QED BY <3>1, <3>2
  <2>2. place(bs[i]) = i
    BY <1>2
  <2>3. ~ \E j \in 1..(i - 1) : bs[j] = bs[i]
    BY <1>1, <1>2
  <2>4. bs[i] \in Blocks /\ a.free_list[bs[i]] = DetachedIdx
    BY <1>1 DEF InUse
  <2>5. list(i - 1)[bs[i]] = DetachedIdx
    BY <2>3, <2>4
  <2>6. under(i) = first(i - 1)
    BY <1>1
  <2>7. \A b \in Blocks : b # bs[i] => ((\E j \in 1..i : bs[j] = b) <=> \E j \in 1..(i - 1) : bs[j] = b)
    BY <1>1
  <2>8. list(i) = [list(i - 1) EXCEPT ![bs[i]] = first(i - 1)]
    <3>1. \A b \in Blocks : b # bs[i] => list(i)[b] = list(i - 1)[b]
      BY <2>7
    <3>2. list(i)[bs[i]] = first(i - 1)
      <4>1. \E j \in 1..i : bs[j] = bs[i]
        BY <1>1
      <4>2. list(i)[bs[i]] = under(place(bs[i]))
        <5> HIDE DEF under, place
        <5> QED BY <2>4, <4>1
      <4> HIDE DEF list
      <4> QED BY <4>2, <2>2, <2>6
    <3> HIDE DEF first, under, place
    <3>3. list(i) = [b \in Blocks |-> list(i)[b]]
      OBVIOUS
    <3>4. [list(i - 1) EXCEPT ![bs[i]] = first(i - 1)]
             = [b \in Blocks |-> IF b = bs[i] THEN first(i - 1) ELSE list(i - 1)[b]]
      OBVIOUS
    <3> HIDE DEF list
    <3> QED BY <3>1, <3>2, <3>3, <3>4
  <2> HIDE DEF sol, list, under, place
  <2>9. sol[i - 1] = [size |-> a.size + (i - 1), first_idx |-> first(i - 1),
                      free_list |-> list(i - 1)]
    BY <1>6, <2>1
  <2>10. sol[i] = [size |-> (a.size + (i - 1)) + 1, first_idx |-> bs[i],
                   free_list |-> [list(i - 1) EXCEPT ![bs[i]] = first(i - 1)]]
    BY <1>6, <2>1, <2>8
  <2> HIDE DEF first
  <2>11. /\ sol[i - 1].size = a.size + (i - 1) /\ sol[i - 1].first_idx = first(i - 1)
         /\ sol[i - 1].free_list = list(i - 1)
    BY <2>9
  <2>12. Result(sol[i - 1], bs[i]) = "Success"
    BY <2>4, <2>5, <2>11 DEF Result
  <2> QED BY <2>10, <2>11, <2>12 DEF Released
<1>8. sol = [i \in 0..n |-> IF i = 0 THEN a ELSE Released(sol[i - 1], bs[i])]
  <2>1. \A i \in 0..n : sol[i] = IF i = 0 THEN a ELSE Released(sol[i - 1], bs[i])
    <3>1. sol[0] = a
      BY <1>1
    <3>2. \A i \in 0..n : i = 0 \/ i \in 1..n
      BY <1>1
    <3> HIDE DEF sol
    <3> QED BY <1>7, <3>1, <3>2
  <2>2. sol = [i \in 0..n |-> sol[i]]
    BY Zenon
  <2> HIDE DEF sol
  <2> QED BY <2>1, <2>2
<1> HIDE DEF sol
<1> QED BY <1>8, Zenon

LEMMA ReleaseAllStacked ==
  ASSUME num_items \in Nat \ {0}, NEW a, Stacked(a), NEW bs \in Seq(InUse(a)), NoRepeat(bs)
  PROVE  /\ Stacked(ReleasedAll(a, bs))
         /\ InUse(ReleasedAll(a, bs)) = InUse(a) \ Elements(bs)
         /\ ReleasedAll(a, bs).size = a.size + Len(bs)
<1> DEFINE n == Len(bs)
           after[i \in 0..n] == IF i = 0 THEN a ELSE Released(after[i - 1], bs[i])
           gone(i) == {bs[j] : j \in 1..i}
           Good(i) == /\ Stacked(after[i]) /\ InUse(after[i]) = InUse(a) \ gone(i)
                      /\ after[i].size = a.size + i
           Wrong == {i \in 0..n : ~Good(i)}
<1>1. n \in Nat /\ a.size \in Nat /\ \A i \in 1..n : bs[i] \in InUse(a)
  BY StackedSize, LenProperties, ElementOfSeq
<1>2. after = [i \in 0..n |-> IF i = 0 THEN a ELSE Released(after[i - 1], bs[i])]
  <2> DEFINE Solves(f) == f = [i \in 0..n |-> IF i = 0 THEN a ELSE Released(f[i - 1], bs[i])]
  <2>1. \E f : Solves(f)
    BY ReleasesDefined
  <2>2. after = CHOOSE f : Solves(f)
    BY DEF after
  <2>3. Solves(CHOOSE f : Solves(f))
    <3> HIDE DEF Solves
    <3> QED BY <2>1
  <2> QED BY <2>2, <2>3
<1> HIDE DEF after
<1>3. after[0] = a /\ \A i \in 1..n : after[i] = Released(after[i - 1], bs[i])
  BY <1>1, <1>2
<1>4. Good(0)
  BY <1>1, <1>3
<1>5. ASSUME NEW i \in 1..n, Good(i - 1)
      PROVE  Good(i)
  <2>1. \A j \in 1..(i - 1) : bs[j] # bs[i]
    BY <1>1 DEF NoRepeat
  <2>2. bs[i] \in InUse(after[i - 1])
    BY <1>1, <1>5, <2>1
  <2>3. /\ Stacked(after[i]) /\ InUse(after[i]) = InUse(after[i - 1]) \ {bs[i]}
        /\ after[i].size = after[i - 1].size + 1
    <3>1. after[i] = Released(after[i - 1], bs[i])
      BY <1>3
    <3> QED BY <1>5, <2>2, <3>1, ReleaseStacked
  <2>4. gone(i) = gone(i - 1) \cup {bs[i]}
    <3>1. 1..i = (1..(i - 1)) \cup {i}
      BY <1>1
    <3> QED BY <3>1
  <2>5. after[i].size = a.size + i
    BY <1>1, <1>5, <2>3
  <2> HIDE DEF gone
  <2> QED BY <1>5, <2>3, <2>4, <2>5
<1>6. Wrong = {}
  <2> SUFFICES ASSUME Wrong # {} PROVE FALSE
    OBVIOUS
  <2>1. Wrong \in SUBSET Nat
    BY <1>1
  <2>2. PICK i \in Wrong : \A j \in Wrong : i <= j
    <3> HIDE DEF Wrong
    <3> QED BY <2>1, MinExists
  <2>3. i \in 0..n /\ ~Good(i)
    BY <2>2
  <2> HIDE DEF Good
  <2>4. i \in 1..n /\ i - 1 \in 0..n
    BY <1>1, <1>4, <2>3
  <2>5. i - 1 \notin Wrong
    <3> HIDE DEF Wrong
    <3> QED BY <1>1, <2>2, <2>4
  <2> QED BY <1>5, <2>3, <2>4, <2>5
<1>7. Good(n)
  <2> HIDE DEF Good
  <2> QED BY <1>1, <1>6
<1>8. ReleasedAll(a, bs) = after[n]
  BY DEF ReleasedAll, after
<1> QED BY <1>7, <1>8 DEF Elements

-----------------------------------------------------------------------------
(* What every step keeps: the pool is a record that spells some stack.     *)
PoolInv == pool \in PoolRecord /\ \E s \in Seq(Blocks) : Spells(pool, s)

(* The stack after a step: getBlock pops, releaseBlock pushes a block that *)
(* is not on it and is refused otherwise.                                  *)
LEMMA GetStep ==
  ASSUME num_items \in Nat \ {0}, PoolInv, getBlock
  PROVE  /\ PoolInv'
         /\ FreeStack(pool) # <<>> /\ pool.first_idx = Head(FreeStack(pool))
         /\ FreeStack(pool') = Tail(FreeStack(pool))
<1>1. PICK s \in Seq(Blocks) : Spells(pool, s)
  BY DEF PoolInv
<1>2. pool \in PoolRecord /\ pool.first_idx # NullIdx /\ pool' = Got(pool)
  BY DEF PoolInv, getBlock, Exhausted
<1>3. /\ s # <<>> /\ pool.first_idx = Head(s) /\ pool' \in PoolRecord
      /\ Tail(s) \in Seq(Blocks) /\ Spells(pool', Tail(s))
  BY <1>1, <1>2, GetSpells
<1>4. FreeStack(pool) = s /\ FreeStack(pool') = Tail(s)
  BY <1>1, <1>2, <1>3, StackIs
<1> QED BY <1>3, <1>4 DEF PoolInv, PoolRecord

LEMMA ReleaseStep ==
  ASSUME num_items \in Nat \ {0}, PoolInv, NEW b, releaseBlock(b)
  PROVE  /\ PoolInv'
         /\ FreeStack(pool') = IF b \in Blocks \ Elements(FreeStack(pool))
                               THEN <<b>> \o FreeStack(pool) ELSE FreeStack(pool)
<1>1. PICK s \in Seq(Blocks) : Spells(pool, s)
  BY DEF PoolInv
<1>2. pool \in PoolRecord /\ pool' = Released(pool, b)
  BY DEF PoolInv, releaseBlock
<1>3. FreeStack(pool) = s
  BY <1>1, <1>2, StackIs
<1>4. CASE b \in Blocks \ Elements(s)
  <2>1. <<b>> \o s \in Seq(Blocks) /\ Spells(pool', <<b>> \o s) /\ pool' \in PoolRecord
    BY <1>1, <1>2, <1>4, ReleaseSpells
  <2>2. FreeStack(pool') = <<b>> \o s
    BY <2>1, StackIs
  <2> QED BY <1>3, <1>4, <2>1, <2>2 DEF PoolInv, PoolRecord
<1>5. CASE b \notin Blocks \ Elements(s)
  <2>1. pool' = pool
    <3>1. CASE b \notin Blocks
      BY <1>2, <3>1 DEF Released, Result
    <3>2. CASE b \in Elements(s) /\ b \in Blocks
      BY <1>1, <1>2, <3>2, DetachedInUse DEF Released, Result
    <3> QED BY <1>5, <3>1, <3>2
  <2> QED BY <1>3, <1>5, <2>1 DEF PoolInv, PoolRecord
<1> QED BY <1>4, <1>5

LEMMA PoolInvariant ==
  ASSUME num_items \in Nat \ {0}
  PROVE  PoolSpec => []PoolInv
<1>1. PoolInit => PoolInv
  BY InitSpells DEF PoolInit, PoolInv
<1>2. PoolInv /\ [PoolNext]_pool => PoolInv'
  <2> SUFFICES ASSUME PoolInv, [PoolNext]_pool PROVE PoolInv'
    OBVIOUS
  <2>1. CASE getBlock
    BY <2>1, GetStep
  <2>2. ASSUME NEW b \in Int, releaseBlock(b) PROVE PoolInv'
    BY <2>2, ReleaseStep
  <2>3. CASE UNCHANGED pool
    BY <2>3 DEF PoolInv, PoolRecord
  <2> QED BY <2>1, <2>2, <2>3 DEF PoolNext
<1> QED BY <1>1, <1>2, PTL DEF PoolSpec

(***************************************************************************)
(* Whatever blocks the users take and release, a block released twice and  *)
(* an address outside the pool included, the free list ends, holds no      *)
(* block twice, and size counts it (pool_allocator.c).                     *)
(***************************************************************************)
THEOREM FreeListSound ==
  ASSUME num_items \in Nat \ {0}
  PROVE  PoolSpec => []Sound
<1>1. PoolInv => Sound
  BY StackedSound DEF PoolInv, Stacked
<1> QED BY <1>1, PoolInvariant, PTL

(***************************************************************************)
(* Every step of the pool is a step of a stack of blocks: getBlock gives   *)
(* and pops its head, releaseBlock pushes a block that is in use and       *)
(* ignores any other address.                                              *)
(***************************************************************************)
StackStep ==
  /\ getBlock => /\ FreeStack(pool) # <<>> /\ pool.first_idx = Head(FreeStack(pool))
                 /\ FreeStack(pool') = Tail(FreeStack(pool))
  /\ \A b \in Int : releaseBlock(b) =>
       FreeStack(pool') = IF b \in Blocks \ Elements(FreeStack(pool))
                          THEN <<b>> \o FreeStack(pool) ELSE FreeStack(pool)

THEOREM PoolIsAStack ==
  ASSUME num_items \in Nat \ {0}
  PROVE  PoolSpec => [][StackStep]_pool
<1>1. PoolInv => StackStep
  BY GetStep, ReleaseStep DEF StackStep
<1> QED BY <1>1, PoolInvariant, PTL
=============================================================================
