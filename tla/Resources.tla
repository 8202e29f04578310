------------------------------ MODULE Resources ------------------------------
(***************************************************************************)
(* Resources and their descriptors: open, close and destroy, and what the  *)
(* calls of module Processes do to them: a new PCB starts with no open     *)
(* descriptor, an awaited exit releases those of the process, an exit      *)
(* nobody waits for does not.                                              *)
(*                                                                         *)
(* Data abstractions.                                                      *)
(*  - Resource, Descriptor and DescriptorPtr are blocks of three pools,    *)
(*    each an instance of PoolAllocator; a freed block keeps its content.  *)
(*  - Of a Resource's list of DescriptorPtr the code reads the size and    *)
(*    takes off items by address: it is a set.                             *)
(*  - Descriptor.pcb and DescriptorPtr.descriptor are only printed.        *)
(***************************************************************************)
EXTENDS Processes

CONSTANTS
  MAX_NUM_RESOURCES,  \* blocks of the Resource pool
  NUM_DESCRIPTORS,    \* blocks of the Descriptor pool
  NUM_DESCRIPTORPTRS, \* blocks of the DescriptorPtr pool
  OpenRequests,       \* the [id, type, mode] the programs open
  MaxResFd            \* bound of the model: descriptors in the life of a process

VARIABLES
  resources_list,  \* Seq(RES)
  res,             \* [RES -> [id, type, descriptors]]
  res_pool,
  descriptors,     \* [PCB -> Seq(DES)], the field PCB.descriptors
  last_fd,         \* [PCB -> Nat], the field PCB.last_fd
  des,             \* [DES -> [fd, resource, ptr]]
  des_pool,
  ptr_pool

openVars == <<descriptors, last_fd, des, des_pool, ptr_pool>>
resVars == <<resources_list, res, res_pool, openVars>>
resAll == <<procAll, resVars>>

ResPool == INSTANCE PoolAllocator WITH num_items <- MAX_NUM_RESOURCES, pool <- res_pool
DesPool == INSTANCE PoolAllocator WITH num_items <- NUM_DESCRIPTORS, pool <- des_pool
PtrPool == INSTANCE PoolAllocator WITH num_items <- NUM_DESCRIPTORPTRS, pool <- ptr_pool

RES == ResPool!Blocks
DES == DesPool!Blocks
PTR == PtrPool!Blocks

ASSUME ResAssumption ==
  /\ {MAX_NUM_RESOURCES, NUM_DESCRIPTORS, NUM_DESCRIPTORPTRS} \subseteq Nat \ {0}
  /\ OpenRequests \subseteq [id : Int, type : Int, mode : 0..7]
  /\ MaxResFd \in Nat

ERESOURCECREATE == -8
ERESOURCEOPEN == -9
ERESOURCENOEXCL == -10
ERESOURCENOFD == -11
ERESOURCECLOSE == -12
ERESOURCEINUSE == -13

(* The mode is a set of bits; DSOS_WRITE, which is 3, holds DSOS_CREATE.   *)
Creates(mode) == mode % 2 = 1
Exclusive(mode) == (mode \div 4) % 2 = 1

(* The position of the resource in the list, 0 when there is none.         *)
ResourceList_byId(id) ==
  FirstOf({i \in 1..Len(resources_list) : res[resources_list[i]].id = id})

DescriptorList_byFd(fd) ==
  FirstOf({i \in 1..Len(descriptors[running]) : des[descriptors[running][i]].fd = fd})

ResListed(id) == ResourceList_byId(id) # 0
ResFound(id) == resources_list[ResourceList_byId(id)]

-----------------------------------------------------------------------------
(***************************************************************************)
(* internal_openResource.  A request that creates never meets the checks   *)
(* on the type and on the exclusive use: the resource is new.              *)
(*                                                                         *)
(* The operators named ..._mutant are plausible wrong versions of the one  *)
(* that follows them; no specification uses them.                          *)
(***************************************************************************)
OpenError(req) ==
  IF Creates(req.mode)
  THEN IF ResListed(req.id) THEN ERESOURCECREATE ELSE 0
  ELSE IF ~ResListed(req.id) \/ res[ResFound(req.id)].type # req.type THEN ERESOURCEOPEN
  ELSE IF Exclusive(req.mode) /\ res[ResFound(req.id)].descriptors # {} THEN ERESOURCENOEXCL
  ELSE 0

ResOpenRefused(req) ==
  /\ ProcUser
  /\ OpenError(req) # 0
  /\ Refuse(OpenError(req))
  /\ Called(OtherCall)
  /\ UNCHANGED <<tableVars, resVars>>

ResOpenAccepted(req) ==
  /\ ProcUser
  /\ last_fd[running] < MaxResFd
  /\ OpenError(req) = 0

(* Resource_alloc gives NULL and List_insert dereferences it.              *)
ResOpenNoResource(req) ==
  /\ ResOpenAccepted(req)
  /\ Creates(req.mode) /\ ResPool!Exhausted
  /\ Crash("openResource: no Resource")
  /\ UNCHANGED <<procVars, resVars>>

CanFetch(req) == ResOpenAccepted(req) /\ (Creates(req.mode) => ~ResPool!Exhausted)

(* The resource the call opens: the listed one, or a new block of the pool *)
(* at the end of the list.                                                 *)
Opened(req) == IF Creates(req.mode) THEN res_pool.first_idx ELSE ResFound(req.id)

Resource_alloc(req) == [id |-> req.id, type |-> req.type, descriptors |-> {}]

FetchOrCreate(req, entries) ==
  /\ res' = [res EXCEPT ![Opened(req)] =
               LET r == IF Creates(req.mode) THEN Resource_alloc(req) ELSE @
               IN [r EXCEPT !.descriptors = @ \cup entries]]
  /\ IF Creates(req.mode)
     THEN ResPool!getBlock /\ resources_list' = Append(resources_list, Opened(req))
     ELSE UNCHANGED <<res_pool, resources_list>>

(* The resource just created stays on the list.                            *)
ResOpenNoDescriptor(req) ==
  /\ CanFetch(req)
  /\ DesPool!Exhausted
  /\ FetchOrCreate(req, {})
  /\ Refuse(ERESOURCENOFD)
  /\ Called(OtherCall)
  /\ UNCHANGED <<tableVars, openVars>>

OpenDescriptor(req) ==
  /\ DesPool!getBlock
  /\ PtrPool!getBlock
  /\ FetchOrCreate(req, {ptr_pool.first_idx})
  /\ des' = [des EXCEPT ![des_pool.first_idx] =
               [fd |-> last_fd[running], resource |-> Opened(req), ptr |-> ptr_pool.first_idx]]
  /\ descriptors' = [descriptors EXCEPT ![running] = Append(@, des_pool.first_idx)]
  /\ last_fd' = [last_fd EXCEPT ![running] = @ + 1]
  /\ Return(last_fd[running])
  /\ Called(OtherCall)
  /\ UNCHANGED <<placeVars, timer_list, fault, tableVars>>

(* Nobody looks whether DescriptorPtr_alloc gave a block: List_insert      *)
(* dereferences it.                                                        *)
ResOpenDone(req) ==
  /\ CanFetch(req)
  /\ ~DesPool!Exhausted
  /\ IF PtrPool!Exhausted
     THEN Crash("openResource: no DescriptorPtr") /\ UNCHANGED <<procVars, resVars>>
     ELSE OpenDescriptor(req)

ResOpen(req) ==
  \/ ResOpenRefused(req) \/ ResOpenNoResource(req) \/ ResOpenNoDescriptor(req)
  \/ ResOpenDone(req)

-----------------------------------------------------------------------------
(***************************************************************************)
(* The release of the descriptors ds, one after the other: each is taken   *)
(* off its resource's list, by address, and both blocks go to their pools. *)
(***************************************************************************)
Unlisted(ds) ==
  [r \in RES |-> [res[r] EXCEPT !.descriptors =
     @ \ {des[d].ptr : d \in {e \in Elements(ds) : des[e].resource = r}}]]

Release_leak_mutant(ds) ==
  /\ res' = Unlisted(ds)
  /\ des_pool' = DesPool!ReleasedAll(des_pool, ds)
  /\ UNCHANGED ptr_pool

Release(ds) ==
  /\ res' = Unlisted(ds)
  /\ des_pool' = DesPool!ReleasedAll(des_pool, ds)
  /\ ptr_pool' = PtrPool!ReleasedAll(ptr_pool, [i \in 1..Len(ds) |-> des[ds[i]].ptr])

(***************************************************************************)
(* internal_closeResource.                                                 *)
(***************************************************************************)
ResCloseRefused(fd) ==
  /\ ProcUser
  /\ DescriptorList_byFd(fd) = 0
  /\ Refuse(ERESOURCECLOSE)
  /\ Called(OtherCall)
  /\ UNCHANGED <<tableVars, resVars>>

ResClose(fd) ==
  LET i == DescriptorList_byFd(fd)
  IN /\ ProcUser
     /\ i # 0
     /\ descriptors' = [descriptors EXCEPT ![running] = Detach(@, i)]
     /\ Release(<<descriptors[running][i]>>)
     /\ Return(0)
     /\ Called(OtherCall)
     /\ UNCHANGED <<placeVars, timer_list, fault, tableVars, resources_list, res_pool,
                    last_fd, des>>

(***************************************************************************)
(* internal_destroyResource.                                               *)
(***************************************************************************)
DestroyError_mutant(id) == IF ~ResListed(id) THEN ERESOURCECLOSE ELSE 0

DestroyError(id) ==
  IF ~ResListed(id) THEN ERESOURCECLOSE
  ELSE IF res[ResFound(id)].descriptors # {} THEN ERESOURCEINUSE
  ELSE 0

ResDestroyRefused(id) ==
  /\ ProcUser
  /\ DestroyError(id) # 0
  /\ Refuse(DestroyError(id))
  /\ Called(OtherCall)
  /\ UNCHANGED <<tableVars, resVars>>

ResDestroy(id) ==
  /\ ProcUser
  /\ DestroyError(id) = 0
  /\ resources_list' = Detach(resources_list, ResourceList_byId(id))
  /\ res_pool' = ResPool!Released(res_pool, ResFound(id))
  /\ Return(0)
  /\ Called(OtherCall)
  /\ UNCHANGED <<placeVars, timer_list, fault, tableVars, res, openVars>>

-----------------------------------------------------------------------------
(***************************************************************************)
(* The calls of module Processes, with what they do to the descriptors.    *)
(* PCB_alloc empties the new PCB's list and starts its numbers from 0.     *)
(***************************************************************************)
NewPCB_mutant ==
  /\ last_fd' = [last_fd EXCEPT ![Head(pcb_free)] = 0]
  /\ UNCHANGED <<resources_list, res, res_pool, descriptors, des, des_pool, ptr_pool>>

NewPCB ==
  /\ descriptors' = [descriptors EXCEPT ![Head(pcb_free)] = <<>>]
  /\ last_fd' = [last_fd EXCEPT ![Head(pcb_free)] = 0]
  /\ UNCHANGED <<resources_list, res, res_pool, des, des_pool, ptr_pool>>

ResCreate == (Spawn \/ Fork \/ Boot) /\ NewPCB

ResExitAwaited ==
  /\ ExitAwaited
  /\ Release(descriptors[running])
  /\ descriptors' = [descriptors EXCEPT ![running] = <<>>]
  /\ UNCHANGED <<resources_list, res_pool, last_fd, des>>

ResExit == ResExitAwaited \/ (ExitUnawaited /\ UNCHANGED resVars)

ResKept ==
  /\ \/ CreateNoBlock \/ RunUnmade \/ BootNoBlock \/ TickIdle \/ Shutdown
     \/ \E arg \in WaitArgs : Wait(arg)
     \/ \E cycles \in SleepTimes : Sleep(cycles)
     \/ Preempt \/ Tick
  /\ UNCHANGED resVars

ResCall ==
  \/ \E req \in OpenRequests : ResOpen(req)
  \/ \E id \in {req.id : req \in OpenRequests} : ResDestroyRefused(id) \/ ResDestroy(id)
  \/ \E fd \in 0..MaxResFd : ResCloseRefused(fd) \/ ResClose(fd)

ResInit ==
  /\ resources_list = <<>>
  /\ res = [r \in RES |-> [id |-> 0, type |-> 0, descriptors |-> {}]]
  /\ descriptors = [p \in PCB |-> <<>>]
  /\ last_fd = [p \in PCB |-> 0]
  /\ des = [d \in DES |-> [fd |-> 0, resource |-> 0, ptr |-> 0]]
  /\ ResPool!PoolInit /\ DesPool!PoolInit /\ PtrPool!PoolInit

ResNext == ResCall \/ ResCreate \/ ResExit \/ ResKept

ResSpec == ProcInit /\ ResInit /\ [][ResNext]_resAll

-----------------------------------------------------------------------------
(* The PCBs that are neither free nor a zombie's: the processes that have  *)
(* not exited, and what they have open.                                    *)
Alive == PCB \ (Free \cup zombie_list)
DescriptorsOf(p) == Elements(descriptors[p])

(***************************************************************************)
(* The three structures agree: an open descriptor points to a resource on  *)
(* the list, whose own list holds the item the descriptor points to, and   *)
(* no two descriptors share an item.  close and exit take that item off by *)
(* its address, and destroy looks at the size of that list alone.          *)
(***************************************************************************)
OpenResourceListed ==
  \A p \in Alive : \A d \in DescriptorsOf(p) :
    /\ des[d].resource \in Elements(resources_list)
    /\ des[d].ptr \in res[des[d].resource].descriptors
    /\ \A q \in Alive : \A e \in DescriptorsOf(q) :
         d = e \/ des[d].ptr = des[e].ptr => p = q /\ d = e

(***************************************************************************)
(* No process has two open descriptors of one number, so that closeResource*)
(* closes the one it names: numbers start from 0 again in a reused PCB.    *)
(***************************************************************************)
FdsDistinct ==
  \A p \in Alive : \A d, e \in DescriptorsOf(p) : des[d].fd = des[e].fd => d = e

(***************************************************************************)
(* The three pools stay sound, and the blocks of the resources listed and  *)
(* of the descriptors open are in use: no call releases a block twice or   *)
(* gives out one that something still points to.                           *)
(***************************************************************************)
PoolsSound ==
  /\ ResPool!Sound /\ DesPool!Sound /\ PtrPool!Sound
  /\ Elements(resources_list) = ResPool!InUse(res_pool)
  /\ \A p \in Alive : /\ DescriptorsOf(p) \subseteq DesPool!InUse(des_pool)
                      /\ {des[d].ptr : d \in DescriptorsOf(p)} \subseteq PtrPool!InUse(ptr_pool)

(***************************************************************************)
(* internal_openResource never meets the NULL it does not look for: the    *)
(* two pools are as large and are used in pairs, so the one it checks runs *)
(* out first.                                                              *)
(***************************************************************************)
PtrNeverMissing == fault # "openResource: no DescriptorPtr"

(***************************************************************************)
(* What the comment in internal_exit says: all resources of a process are  *)
(* released upon its termination.                                          *)
(***************************************************************************)
ReleasedAtExit == \A p \in PCB \ Alive : DescriptorsOf(p) = {}
=============================================================================
