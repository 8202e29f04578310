---------------------- MODULE AbstractSemaphore_proof ----------------------
(***************************************************************************)
(* The abstract semaphores are safe for any set of processes, numbers and  *)
(* initial counts.                                                         *)
(***************************************************************************)
EXTENDS AbstractSemaphore, TLAPS

(* One step of the invariance proof, on the queue that a call changes: a   *)
(* queue is <<>> or has a head and a tail.                                 *)
LEMMA QueueTail ==
  ASSUME NEW S, NEW q \in Seq(S), q # <<>>
  PROVE  /\ Head(q) = q[1] /\ Head(q) \in S
         /\ Tail(q) \in Seq(S) /\ Len(Tail(q)) = Len(q) - 1 /\ Len(q) \in Nat \ {0}
         /\ \A i \in 1..Len(Tail(q)) : Tail(q)[i] = q[i + 1]
  OBVIOUS

(* What joining a queue does to it.                                        *)
LEMMA QueueAppend ==
  ASSUME NEW S, NEW q \in Seq(S), NEW x \in S
  PROVE  /\ Append(q, x) \in Seq(S) /\ Len(Append(q, x)) = Len(q) + 1 /\ Len(q) \in Nat
         /\ \A i \in 1..Len(q) : Append(q, x)[i] = q[i]
         /\ Append(q, x)[Len(q) + 1] = x
         /\ Append(q, x) # <<>>
  OBVIOUS

(* The semaphore somebody waits at exists and is open, be it only by those  *)
(* who wait: AbsClose and AbsBlock are guarded so; it makes AbsInv         *)
(* inductive.                                                              *)
QueuesOpen == \A n \in Name : queue[n] # <<>> => n \in live /\ holders[n] > 0

AbsInv == AbsTypeOK /\ NoLostUnit /\ WaitersBlocked /\ QueuesOpen

(* Nothing is open at first and nobody waits.                              *)
LEMMA AbsInitInv == AbsAssumption /\ AbsInit => AbsInv
<1> SUFFICES ASSUME AbsAssumption, AbsInit PROVE AbsInv
  OBVIOUS
<1>1. AbsTypeOK
  BY DEF AbsInit, AbsTypeOK
<1>2. NoLostUnit /\ QueuesOpen
  BY DEF AbsInit, NoLostUnit, QueuesOpen
<1>3. WaitersBlocked
  BY DEF AbsInit, WaitersBlocked, Queued
<1> QED BY <1>1, <1>2, <1>3 DEF AbsInv

(* The steps that leave the queues alone and do not give the processor to  *)
(* a process that waits.                                                   *)
LEMMA QueuesAlone ==
  ASSUME AbsInv, UNCHANGED queue, user' = user \/ user' \notin Queued
  PROVE  WaitersBlocked'
  BY DEF AbsInv, WaitersBlocked, Queued

(* Opening moves nobody.                                                   *)
LEMMA AbsOpenInv ==
  ASSUME AbsAssumption, AbsInv, NEW n \in Name, NEW c \in Counts, AbsOpen(n, c)
  PROVE  AbsInv'
<1> PICK opened \in {0, 1} : holders' = [holders EXCEPT ![n] = @ + opened]
  BY DEF AbsOpen
<1>1. /\ live' = live \cup {n}
      /\ value' = [value EXCEPT ![n] = IF n \in live THEN @ ELSE c]
      /\ UNCHANGED <<user, queue>>
  BY DEF AbsOpen
<1>2. AbsTypeOK'
  BY <1>1 DEF AbsInv, AbsTypeOK, AbsAssumption
<1>3. NoLostUnit'
  BY <1>1 DEF AbsInv, AbsTypeOK, NoLostUnit, QueuesOpen
<1>4. QueuesOpen'
  BY <1>1 DEF AbsInv, AbsTypeOK, QueuesOpen
<1>5. WaitersBlocked'
  BY <1>1, QueuesAlone
<1> QED BY <1>2, <1>3, <1>4, <1>5 DEF AbsInv

(* A semaphore is destroyed only when nobody waits at it.                  *)
LEMMA AbsCloseInv ==
  ASSUME AbsAssumption, AbsInv, NEW n \in Name, AbsClose(n)
  PROVE  AbsInv'
<1>1. /\ n \in live /\ holders[n] > 0
      /\ holders' = [holders EXCEPT ![n] = @ - 1]
      /\ UNCHANGED <<user, queue>>
      /\ \/ holders[n] > 1 /\ UNCHANGED <<live, value>>
         \/ /\ ~(holders[n] > 1) /\ queue[n] = <<>>
            /\ live' = live \ {n}
            /\ value' = [value EXCEPT ![n] = 0]
  BY DEF AbsClose
<1>2. AbsTypeOK'
  BY <1>1 DEF AbsInv, AbsTypeOK
<1>3. NoLostUnit'
  BY <1>1 DEF AbsInv, AbsTypeOK, NoLostUnit
<1>4. QueuesOpen'
  BY <1>1 DEF AbsInv, AbsTypeOK, QueuesOpen
<1>5. WaitersBlocked'
  BY <1>1, QueuesAlone
<1> QED BY <1>2, <1>3, <1>4, <1>5 DEF AbsInv

(* Waiting and posting: the queue is empty while units are in store.       *)
LEMMA AbsCountInv ==
  ASSUME AbsInv, NEW n \in Name, AbsPass(n) \/ AbsStore(n)
  PROVE  AbsInv'
<1>1. /\ UNCHANGED <<user, live, holders, queue>>
      /\ \/ value[n] > 0 /\ value' = [value EXCEPT ![n] = @ - 1]
         \/ queue[n] = <<>> /\ value' = [value EXCEPT ![n] = @ + 1]
  BY DEF AbsPass, AbsStore
<1>2. AbsTypeOK'
  BY <1>1 DEF AbsInv, AbsTypeOK
<1>3. NoLostUnit'
  BY <1>1 DEF AbsInv, AbsTypeOK, NoLostUnit
<1>4. QueuesOpen'
  BY <1>1 DEF AbsInv, QueuesOpen
<1>5. WaitersBlocked'
  BY <1>1, QueuesAlone
<1> QED BY <1>2, <1>3, <1>4, <1>5 DEF AbsInv

(* The process that blocks runs, so it waits nowhere yet.                  *)
LEMMA AbsBlockInv ==
  ASSUME AbsInv, NEW n \in Name, AbsBlock(n)
  PROVE  AbsInv'
<1> DEFINE q == queue[n]
<1>1. /\ user \in Process /\ n \in live /\ holders[n] > 0 /\ value[n] = 0
      /\ queue' = [queue EXCEPT ![n] = Append(q, user)]
      /\ user' \in Process /\ user' \notin Queued /\ user' # user
      /\ UNCHANGED <<live, value, holders>>
  BY DEF AbsBlock
<1>2. q \in Seq(Process) /\ queue \in [Name -> Seq(Process)]
  BY DEF AbsInv, AbsTypeOK
<1>3. /\ Append(q, user) \in Seq(Process) /\ Len(Append(q, user)) = Len(q) + 1 /\ Len(q) \in Nat
      /\ \A i \in 1..Len(q) : Append(q, user)[i] = q[i]
      /\ Append(q, user)[Len(q) + 1] = user
  BY <1>1, <1>2, QueueAppend
<1>4. AbsTypeOK'
  BY <1>1, <1>2, <1>3 DEF AbsInv, AbsTypeOK
<1>5. NoLostUnit' /\ QueuesOpen'
  BY <1>1, <1>2 DEF AbsInv, NoLostUnit, QueuesOpen
<1>6. queue'[n] = Append(q, user) /\ \A m \in Name \ {n} : queue'[m] = queue[m]
  BY <1>1, <1>2
<1> HIDE DEF q
<1>7. ASSUME NEW m \in Name, NEW i \in 1..Len(queue'[m])
      PROVE  \/ i \in 1..Len(queue[m]) /\ queue'[m][i] = queue[m][i]
             \/ m = n /\ i = Len(q) + 1 /\ queue'[m][i] = user
  BY <1>3, <1>6 DEF q
<1>8. user \notin Queued /\ \A m \in Name : \A i \in 1..Len(queue[m]) : queue[m][i] \in Queued
  BY DEF AbsInv, WaitersBlocked, Queued
<1>9. WaitersBlocked'
  <2>1. user' \notin Queued'
    BY <1>1, <1>7, <1>8 DEF Queued
  <2>2. ASSUME NEW m1 \in Name, NEW m2 \in Name,
               NEW i \in 1..Len(queue'[m1]), NEW j \in 1..Len(queue'[m2]),
               queue'[m1][i] = queue'[m2][j]
        PROVE  m1 = m2 /\ i = j
    BY <1>7, <1>8, <2>2 DEF AbsInv, WaitersBlocked
  <2> QED BY <2>1, <2>2 DEF WaitersBlocked
<1> QED BY <1>4, <1>5, <1>9 DEF AbsInv

(* The first of the queue leaves it and gets the processor.                *)
LEMMA AbsHandOffInv ==
  ASSUME AbsInv, NEW n \in Name, AbsHandOff(n)
  PROVE  AbsInv'
<1> DEFINE q == queue[n]
<1>1. /\ n \in live /\ q # <<>> /\ user' = Head(q)
      /\ queue' = [queue EXCEPT ![n] = Tail(q)]
      /\ UNCHANGED <<live, value, holders>>
  BY DEF AbsHandOff
<1>2. q \in Seq(Process) /\ queue \in [Name -> Seq(Process)]
  BY DEF AbsInv, AbsTypeOK
<1>3. /\ Head(q) = q[1] /\ Head(q) \in Process
      /\ Tail(q) \in Seq(Process) /\ Len(Tail(q)) = Len(q) - 1 /\ Len(q) \in Nat \ {0}
      /\ \A i \in 1..Len(Tail(q)) : Tail(q)[i] = q[i + 1]
  BY <1>1, <1>2, QueueTail
<1>4. AbsTypeOK'
  BY <1>1, <1>2, <1>3 DEF AbsInv, AbsTypeOK
<1>5. NoLostUnit' /\ QueuesOpen'
  BY <1>1, <1>2 DEF AbsInv, NoLostUnit, QueuesOpen
<1>6. queue'[n] = Tail(q) /\ \A m \in Name \ {n} : queue'[m] = queue[m]
  BY <1>1, <1>2
<1> DEFINE shift(m) == IF m = n THEN 1 ELSE 0
<1> HIDE DEF q
<1>7. ASSUME NEW m \in Name, NEW i \in 1..Len(queue'[m])
      PROVE  /\ i + shift(m) \in 1..Len(queue[m])
             /\ queue'[m][i] = queue[m][i + shift(m)]
    <2>1. CASE m = n
      <3>0. queue'[m] = Tail(q)
        BY <1>6, <2>1
      <3>1. queue'[m] = Tail(q) /\ i \in 1..Len(Tail(q)) /\ i \in Nat
        BY <3>0
      <3>2. i + 1 \in 1..Len(q)
        BY <1>3, <3>1
      <3>3. queue'[m][i] = q[i + 1]
        BY <1>3, <3>1
      <3> QED BY <2>1, <3>2, <3>3 DEF q
    <2>2. CASE m # n
      BY <1>6, <2>2
    <2> QED BY <2>1, <2>2
<1>8. ASSUME NEW m1 \in Name, NEW m2 \in Name,
             NEW i \in 1..Len(queue[m1]), NEW j \in 1..Len(queue[m2]),
             queue[m1][i] = queue[m2][j]
      PROVE  m1 = m2 /\ i = j
  BY <1>8 DEF AbsInv, WaitersBlocked
<1>9. WaitersBlocked'
  <2>1. ASSUME NEW m \in Name, NEW i \in 1..Len(queue'[m])
        PROVE  queue'[m][i] # user'
    <3>1. i + shift(m) \in 1..Len(queue[m]) /\ queue'[m][i] = queue[m][i + shift(m)]
      BY <1>7
    <3>2. 1 \in 1..Len(queue[n]) /\ queue[n][1] = user'
      BY <1>1, <1>3 DEF q
    <3>3. ~(m = n /\ i + shift(m) = 1)
      BY <1>3
    <3> QED BY <1>8, <3>1, <3>2, <3>3
  <2>2. ASSUME NEW m1 \in Name, NEW m2 \in Name,
               NEW i \in 1..Len(queue'[m1]), NEW j \in 1..Len(queue'[m2]),
               queue'[m1][i] = queue'[m2][j]
        PROVE  m1 = m2 /\ i = j
    <3>1. /\ i + shift(m1) \in 1..Len(queue[m1]) /\ queue'[m1][i] = queue[m1][i + shift(m1)]
          /\ j + shift(m2) \in 1..Len(queue[m2]) /\ queue'[m2][j] = queue[m2][j + shift(m2)]
      BY <1>7
    <3>2. queue[m1][i + shift(m1)] = queue[m2][j + shift(m2)]
      BY <2>2, <3>1
    <3> DEFINE k == i + shift(m1)
               l == j + shift(m2)
    <3>3. k \in 1..Len(queue[m1]) /\ l \in 1..Len(queue[m2]) /\ queue[m1][k] = queue[m2][l]
      BY <3>1, <3>2
    <3> HIDE DEF k, l
    <3>4. m1 = m2 /\ k = l
      BY <1>8, <3>3
    <3> QED BY <3>4 DEF k, l
  <2> QED BY <2>1, <2>2 DEF WaitersBlocked, Queued
<1> QED BY <1>4, <1>5, <1>9 DEF AbsInv

(* The processor goes to someone who waits at no semaphore.                *)
LEMMA AbsSwitchInv ==
  ASSUME AbsInv, AbsSwitch
  PROVE  AbsInv'
<1>1. AbsTypeOK' /\ NoLostUnit' /\ QueuesOpen'
  BY DEF AbsSwitch, AbsInv, AbsTypeOK, NoLostUnit, QueuesOpen
<1>2. WaitersBlocked'
  BY QueuesAlone DEF AbsSwitch
<1> QED BY <1>1, <1>2 DEF AbsInv

(* AbsInv is an invariant.                                                 *)
LEMMA AbsInvariant ==
  ASSUME AbsAssumption
  PROVE  AbsSpec => []AbsInv
<1>1. AbsInit => AbsInv
  BY AbsInitInv
<1>2. AbsInv /\ [AbsNext]_absVars => AbsInv'
  <2> SUFFICES ASSUME AbsInv, [AbsNext]_absVars PROVE AbsInv'
    OBVIOUS
  <2>1. CASE AbsSwitch
    BY <2>1, AbsSwitchInv
  <2>2. CASE \E n \in Name : \E c \in Counts : AbsOpen(n, c)
    BY <2>2, AbsOpenInv
  <2>3. CASE \E n \in Name : AbsClose(n)
    BY <2>3, AbsCloseInv
  <2>4. CASE \E n \in Name : AbsPass(n) \/ AbsStore(n)
    BY <2>4, AbsCountInv
  <2>5. CASE \E n \in Name : AbsBlock(n)
    BY <2>5, AbsBlockInv
  <2>6. CASE \E n \in Name : AbsHandOff(n)
    BY <2>6, AbsHandOffInv
  <2>7. CASE UNCHANGED absVars
    BY <2>7 DEF absVars, AbsInv, AbsTypeOK, NoLostUnit, WaitersBlocked, QueuesOpen, Queued
  <2> QED BY <2>1, <2>2, <2>3, <2>4, <2>5, <2>6, <2>7 DEF AbsNext
<1> QED BY <1>1, <1>2, PTL DEF AbsSpec

-----------------------------------------------------------------------------
(* Nobody waits at a semaphore that has units in store: what the           *)
(* implementing handlers of semPost and semWait promise with their counts. *)
THEOREM NobodyWaitsForStoredUnits ==
  ASSUME AbsAssumption
  PROVE  AbsSpec => []NoLostUnit
<1>1. AbsInv => NoLostUnit
  BY DEF AbsInv
<1>2. AbsSpec => []AbsInv
  BY AbsInvariant
<1> QED BY <1>1, <1>2, PTL

(* Who waits does not run, and waits in one place: what semWait and        *)
(* semPost promise of the process they block or wake.                      *)
THEOREM WhoWaitsIsBlocked ==
  ASSUME AbsAssumption
  PROVE  AbsSpec => []WaitersBlocked
<1>1. AbsInv => WaitersBlocked
  BY DEF AbsInv
<1>2. AbsSpec => []AbsInv
  BY AbsInvariant
<1> QED BY <1>1, <1>2, PTL
=============================================================================
