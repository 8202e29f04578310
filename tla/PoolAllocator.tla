---------------------------- MODULE PoolAllocator ----------------------------
(***************************************************************************)
(* pool_allocator.c: a pool of num_items blocks whose free ones are linked *)
(* by their indices through free_list, from first_idx on.  A block is its  *)
(* index; the sizes in bytes, and the alignment they give, are left out:   *)
(* every block the kernel releases was the start of one.                   *)
(*                                                                         *)
(* PoolSpec is a pool whose users may release whatever they like.  Module  *)
(* Resources takes one instance per pool.                                  *)
(***************************************************************************)
EXTENDS Lists

CONSTANT num_items   \* the blocks the pool was initialised with, at least one

VARIABLE pool   \* [size, first_idx, free_list]

NullIdx == -1
DetachedIdx == -2
Blocks == 0..(num_items - 1)

PoolAllocator_init ==
  [size |-> num_items, first_idx |-> 0,
   free_list |-> [i \in Blocks |-> IF i = num_items - 1 THEN NullIdx ELSE i + 1]]

(***************************************************************************)
(* PoolAllocator_getBlock gives the block at first_idx, or NULL.           *)
(***************************************************************************)
Exhausted == pool.first_idx = NullIdx

Got(a) ==
  [size |-> a.size - 1,
   first_idx |-> a.free_list[a.first_idx],
   free_list |-> [a.free_list EXCEPT ![a.first_idx] = DetachedIdx]]

getBlock == ~Exhausted /\ pool' = Got(pool)

(***************************************************************************)
(* PoolAllocator_releaseBlock: what it answers, and the pool it leaves.    *)
(* The operator named ..._mutant is a plausible wrong version of the one   *)
(* that follows it; no specification uses it.                              *)
(***************************************************************************)
Result(a, idx) ==
  IF idx \notin Blocks THEN "OutOfRange"
  ELSE IF a.free_list[idx] # DetachedIdx THEN "DoubleFree"
  ELSE "Success"

Released_mutant(a, idx) ==
  IF Result(a, idx) # "Success" THEN a
  ELSE [size |-> a.size + 1,
        first_idx |-> idx,
        free_list |-> [a.free_list EXCEPT ![idx] = NullIdx]]

Released(a, idx) ==
  IF Result(a, idx) # "Success" THEN a
  ELSE [size |-> a.size + 1,
        first_idx |-> idx,
        free_list |-> [a.free_list EXCEPT ![idx] = a.first_idx]]

(* The pool after the blocks bs have been released, from first to last.    *)
ReleasedAll(a, bs) ==
  LET after[i \in 0..Len(bs)] == IF i = 0 THEN a ELSE Released(after[i - 1], bs[i])
  IN after[Len(bs)]

releaseBlock(idx) == pool' = Released(pool, idx)

PoolInit == pool = PoolAllocator_init

PoolNext == getBlock \/ \E idx \in Int : releaseBlock(idx)

PoolSpec == PoolInit /\ [][PoolNext]_pool

-----------------------------------------------------------------------------
(***************************************************************************)
(* The indices spell the stack s of the free blocks: from first_idx on     *)
(* each free block names the next one, the last names none, and the blocks *)
(* in use are the ones marked detached.                                    *)
(***************************************************************************)
Successor(s, i) == IF i < Len(s) THEN s[i + 1] ELSE NullIdx

Spells(a, s) ==
  /\ NoRepeat(s)
  /\ a.size = Len(s)
  /\ a.first_idx = (IF s = <<>> THEN NullIdx ELSE Head(s))
  /\ \A i \in 1..Len(s) : a.free_list[s[i]] = Successor(s, i)
  /\ \A b \in Blocks \ Elements(s) : a.free_list[b] = DetachedIdx

(* The blocks in use.                                                      *)
InUse(a) == {b \in Blocks : a.free_list[b] = DetachedIdx}

(***************************************************************************)
(* Whatever was released, once or twice, in range or not, the free list    *)
(* ends, holds no block twice, and size counts it.                         *)
(***************************************************************************)
Sound == \E s \in [1..pool.size -> Blocks] : Spells(pool, s)
=============================================================================
