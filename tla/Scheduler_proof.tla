-------------------------- MODULE Scheduler_proof --------------------------
(***************************************************************************)
(* The scheduler keeps every process in one place and wakes each sleeper   *)
(* no later than its time, for any number of processes and sleep times.    *)
(***************************************************************************)
EXTENDS Scheduler, Lists_proof

(* The timers as a tick or a preemption sees them: those of the list, with *)
(* the remaining times all moved alike.                                    *)
Shifted(timers) ==
  /\ timers \in Seq(Timers)
  /\ Len(timers) = Len(timer_list)
  /\ \A i \in 1..Len(timers) : timers[i].pcb = timer_list[i].pcb
  /\ \A i, j \in 1..Len(timers) : i < j => timers[i].left <= timers[j].left

(* Every process is on one list at first.                                  *)
LEMMA InitCore == SchedAssumption /\ SchedInit => SchedCore
<1> SUFFICES ASSUME SchedAssumption, SchedInit PROVE SchedCore
  OBVIOUS
<1> USE DEF SchedInit, SchedAssumption, PCB, NULL
<1>1. ready_list \in Seq(PCB)
  <2>1. MAX_NUM_PROCESSES - 1 \in Nat /\ ready_list \in [1..(MAX_NUM_PROCESSES - 1) -> PCB]
    OBVIOUS
  <2> QED BY <2>1
<1>4. SchedTypeOK
  <2>1. timer_list \in Seq(Timers) /\ waiting_list \subseteq PCB
    BY EmptySeq
  <2>2. status \in [PCB -> Statuses]
    BY DEF Statuses
  <2>3. syscall_retvalue \in [PCB -> Int]
    OBVIOUS
  <2>5. fault \in Faults
    BY DEF Faults
  <2>4. running \in PCB \cup {NULL}
    OBVIOUS
  <2> QED BY <1>1, <2>1, <2>2, <2>3, <2>4, <2>5 DEF SchedTypeOK
<1>2. PlacedOnce
  BY DEF PlacedOnce
<1>3. TimersSorted /\ AllPlaced
  BY DEF TimersSorted, AllPlaced, Placed
<1>5. Sleepers \subseteq waiting_list
  BY DEF Sleepers
<1> QED BY <1>2, <1>3, <1>4, <1>5 DEF SchedCore, SchedBase

(***************************************************************************)
(* What one internal_schedule does to the timers: it keeps those that have *)
(* not elapsed, and none of them is overdue.                               *)
(***************************************************************************)
LEMMA ElapsedTimers ==
  ASSUME SchedBase, NEW timers, Shifted(timers),
         timer_list' = SubSeq(timers, NumElapsed(timers) + 1, Len(timers))
  PROVE  /\ NumElapsed(timers) \in 0..Len(timers)
         /\ timer_list' \in Seq(Timers)
         /\ TimersSorted'
         /\ NoOversleep'
         /\ Sleepers' = Sleepers \ {timers[i].pcb : i \in 1..NumElapsed(timers)}
<1> DEFINE k == NumElapsed(timers)
           n == Len(timers)
<1>1. /\ timer_list \in Seq(Timers) /\ n \in Nat /\ n = Len(timer_list)
      /\ \A i \in 1..n : timers[i] \in Timers
  BY LenProperties, ElementOfSeq DEF SchedBase, SchedTypeOK, Shifted
<1>2. /\ k \in 0..n
      /\ k < n => k + 1 \notin {i \in 1..n : timers[i].left <= 0}
  BY <1>1, LongestPrefixProperties DEF NumElapsed
<1> HIDE DEF k, n
<1>3. /\ timer_list' \in Seq(Timers)
      /\ Len(timer_list') = n - k
      /\ \A i \in 1..(n - k) : timer_list'[i] = timers[k + i]
  <2>1. \A i \in (k + 1)..n : timers[i] \in Timers
    BY <1>1, <1>2
  <2>2. timer_list' = SubSeq(timers, k + 1, n)
    BY DEF k, n
  <2> DEFINE t == SubSeq(timers, k + 1, n)
  <2>3. /\ t \in Seq(Timers)
        /\ Len(t) = IF k + 1 <= n THEN n - (k + 1) + 1 ELSE 0
        /\ \A i \in 1..(n - (k + 1) + 1) : t[i] = timers[k + 1 + i - 1]
    BY <1>1, <1>2, <2>1, SubSeqProperties
  <2> HIDE DEF t
  <2>4. Len(t) = n - k /\ \A i \in 1..(n - k) : t[i] = timers[k + i]
    <3>1. n - (k + 1) + 1 = n - k /\ \A i \in 1..(n - k) : k + 1 + i - 1 = k + i
      BY <1>1, <1>2
    <3> QED BY <1>1, <1>2, <2>3, <3>1
  <2> QED BY <2>2, <2>3, <2>4 DEF t
<1>4. /\ \A i \in 1..n : timers[i].pcb = timer_list[i].pcb
      /\ \A i, j \in 1..n : i < j => timers[i].left <= timers[j].left
      /\ \A i, j \in 1..n : i < j => timers[i].pcb # timers[j].pcb
  <2>1. \A i \in 1..n : timers[i].pcb = timer_list[i].pcb
    BY DEF Shifted, n
  <2>2. \A i, j \in 1..n : i < j => timers[i].left <= timers[j].left
    BY DEF Shifted, n
  <2>3. \A i, j \in 1..n : i < j => timer_list[i].pcb # timer_list[j].pcb
    BY <1>1 DEF SchedBase, TimersSorted
  <2> QED BY <2>1, <2>2, <2>3
<1>5. TimersSorted'
  <2>1. ASSUME NEW i \in 1..Len(timer_list'), NEW j \in 1..Len(timer_list'), i < j
        PROVE  /\ timer_list'[i].left <= timer_list'[j].left
               /\ timer_list'[i].pcb # timer_list'[j].pcb
    <3>1. k + i \in 1..n /\ k + j \in 1..n /\ k + i < k + j
      BY <1>1, <1>2, <1>3, <2>1
    <3>2. timer_list'[i] = timers[k + i] /\ timer_list'[j] = timers[k + j]
      BY <1>1, <1>2, <1>3
    <3> QED BY <1>4, <3>1, <3>2
  <2> QED BY <2>1 DEF TimersSorted
<1>6. ASSUME NEW i \in 1..Len(timer_list') PROVE timer_list'[i].left >= 0
  <2>1. k + 1 \in 1..n /\ timers[k + 1].left > 0
    <3>1. k < n /\ k + 1 \in 1..n
      BY <1>1, <1>2, <1>3
    <3>2. ~(timers[k + 1].left <= 0) /\ timers[k + 1].left \in Int
      BY <1>1, <1>2, <3>1 DEF Timers
    <3> QED BY <3>1, <3>2
  <2>2. k + i \in 1..n /\ timers[k + i].left >= timers[k + 1].left
    <3>1. k + i \in 1..n
      BY <1>1, <1>2, <1>3
    <3>2. i = 1 \/ k + 1 < k + i
      BY <1>1, <1>2, <1>3
    <3>3. timers[k + 1].left \in Int
      BY <1>1, <2>1 DEF Timers
    <3>4. CASE i = 1
      BY <3>1, <3>3, <3>4
    <3>5. CASE k + 1 < k + i
      <4>1. timers[k + 1].left <= timers[k + i].left
        BY <1>4, <2>1, <3>1, <3>5
      <4>2. timers[k + i].left \in Int
        BY <1>1, <3>1 DEF Timers
      <4> QED BY <3>1, <3>3, <4>1, <4>2
    <3> QED BY <3>2, <3>4, <3>5
  <2>3. timers[k + 1].left \in Int /\ timers[k + i].left \in Int
    BY <1>1, <2>1, <2>2 DEF Timers
  <2>4. timer_list'[i] = timers[k + i]
    BY <1>1, <1>2, <1>3
  <2> DEFINE first == timers[k + 1].left
             this  == timers[k + i].left
  <2>5. first \in Int /\ this \in Int /\ first > 0 /\ this >= first
    BY <2>1, <2>2, <2>3
  <2> HIDE DEF first, this
  <2>6. this >= 0
    BY <2>5
  <2> QED BY <2>4, <2>6 DEF this
<1>7. Sleepers' = Sleepers \ {timers[i].pcb : i \in 1..k}
  <2>1. Sleepers = {timers[i].pcb : i \in 1..n}
    BY <1>1, <1>4 DEF Sleepers
  <2>2. Sleepers' = {timers[i].pcb : i \in (k + 1)..n}
    <3>1. ASSUME NEW i \in (k + 1)..n PROVE timers[i].pcb \in Sleepers'
      <4>1. i - k \in 1..(n - k) /\ k + (i - k) = i
        BY <1>1, <1>2
      <4>2. i - k \in 1..Len(timer_list') /\ timer_list'[i - k] = timers[i]
        BY <1>3, <4>1
      <4> QED BY <4>2 DEF Sleepers
    <3>2. ASSUME NEW i \in 1..Len(timer_list')
          PROVE  timer_list'[i].pcb \in {timers[j].pcb : j \in (k + 1)..n}
      <4>1. i \in 1..(n - k)
        BY <1>3
      <4>2. k + i \in (k + 1)..n
        BY <1>1, <1>2, <4>1
      <4>3. timer_list'[i] = timers[k + i]
        BY <1>3, <4>1
      <4> QED BY <4>2, <4>3
    <3> QED BY <3>1, <3>2 DEF Sleepers
  <2>3. \A i \in 1..k, j \in (k + 1)..n : timers[i].pcb # timers[j].pcb
    BY <1>1, <1>2, <1>4
  <2>4. 1..n = (1..k) \cup ((k + 1)..n)
    BY <1>1, <1>2
  <2> QED BY <2>1, <2>2, <2>3, <2>4
<1> QED BY <1>2, <1>3, <1>5, <1>6, <1>7 DEF k, n, NoOversleep

(***************************************************************************)
(* One internal_schedule keeps every process in one place.  The processes  *)
(* that wait for something else than a timer are the same after it.        *)
(***************************************************************************)
LEMMA ScheduleBase ==
  ASSUME SchedBase, UserMode, NEW timers, Shifted(timers),
         internal_schedule(timers), UNCHANGED <<syscall_retvalue, fault>>
  PROVE  /\ SchedBase'
         /\ running' \in PCB
         /\ NoOversleep'
         /\ waiting_list' \ Sleepers' = waiting_list \ Sleepers
         /\ waiting_list' \subseteq waiting_list
         /\ Placed' = Placed
         /\ \A p \in PCB :
              \/ /\ status'[p] = status[p] /\ p \notin waiting_list \ waiting_list'
                 /\ p \in Elements(ready_list') => p \in Elements(ready_list)
              \/ p \in Placed \ waiting_list' /\ status'[p] \in {"Ready", "Running"}
<1> DEFINE k     == NumElapsed(timers)
           woken == [i \in 1..k |-> timers[i].pcb]
           queue == woken \o ready_list
           awake == [p \in PCB |-> IF p \in Elements(woken) THEN "Ready" ELSE status[p]]
<1>1. /\ k \in 0..Len(timers)
      /\ timer_list' \in Seq(Timers) /\ TimersSorted'
      /\ NoOversleep'
      /\ Sleepers' = Sleepers \ {timers[i].pcb : i \in 1..k}
  BY ElapsedTimers DEF internal_schedule
<1>2. /\ timer_list \in Seq(Timers) /\ Len(timers) \in Nat
      /\ Len(timers) = Len(timer_list) /\ ready_list \in Seq(PCB)
      /\ status \in [PCB -> Statuses] /\ running \in PCB
      /\ \A i \in 1..Len(timers) : timers[i].pcb = timer_list[i].pcb /\ timers[i] \in Timers
  BY LenProperties, ElementOfSeq DEF SchedBase, SchedTypeOK, Shifted, UserMode
<1>3. /\ waiting_list' = waiting_list \ Elements(woken)
      /\ IF queue = <<>>
         THEN status' = awake /\ UNCHANGED <<running, ready_list>>
         ELSE /\ running' = Head(queue)
              /\ ready_list' = Append(Tail(queue), running)
              /\ status' = [awake EXCEPT ![running] = "Ready", ![Head(queue)] = "Running"]
  BY DEF internal_schedule, Exchanged
<1> HIDE DEF k
<1>4. /\ woken \in Seq(PCB) /\ Len(woken) = k
      /\ \A i \in 1..k : woken[i] = timers[i].pcb
  <2>2. k \in Nat /\ \A i \in 1..k : i \in 1..Len(timers)
    BY <1>1, <1>2
  <2>1. \A i \in 1..k : timers[i].pcb \in PCB
    BY <1>2, <2>2 DEF Timers
  <2> QED BY <2>1, <2>2
<1>5. /\ Elements(woken) = {timers[i].pcb : i \in 1..k}
      /\ Elements(woken) \subseteq Sleepers
      /\ NoRepeat(woken)
  <2>1. Elements(woken) = {timers[i].pcb : i \in 1..k}
    BY <1>4 DEF Elements
  <2>2. \A i \in 1..k : i \in 1..Len(timer_list) /\ woken[i] = timer_list[i].pcb
    BY <1>1, <1>2, <1>4
  <2>3. \A i, j \in 1..Len(timer_list) : timer_list[i].pcb = timer_list[j].pcb => i = j
    <3>1. \A i, j \in 1..Len(timer_list) : i < j => timer_list[i].pcb # timer_list[j].pcb
      BY DEF SchedBase, TimersSorted
    <3>2. \A i, j \in 1..Len(timer_list) : i < j \/ j < i \/ i = j
      BY <1>2
    <3> QED BY <3>1, <3>2
  <2>4. NoRepeat(woken)
    BY <1>4, <2>2, <2>3 DEF NoRepeat
  <2>5. Elements(woken) \subseteq Sleepers
    BY <1>4, <2>2 DEF Elements, Sleepers
  <2> QED BY <2>1, <2>4, <2>5
<1> HIDE DEF woken
<1>6. /\ queue \in Seq(PCB)
      /\ Elements(queue) = Elements(woken) \cup Elements(ready_list)
      /\ NoRepeat(queue)
  BY <1>2, <1>4, <1>5, ConcatElements DEF SchedBase, PlacedOnce
<1>7. running \notin Elements(queue) /\ Elements(queue) \cap waiting_list' = {}
  BY <1>3, <1>5, <1>6 DEF SchedBase, PlacedOnce
<1>8. /\ awake \in [PCB -> Statuses]
      /\ \A p \in PCB : awake[p] = IF p \in Elements(woken) THEN "Ready" ELSE status[p]
  BY <1>2 DEF Statuses
<1> HIDE DEF queue, awake
<1>9. waiting_list' \ Sleepers' = waiting_list \ Sleepers /\ Sleepers' \subseteq waiting_list'
  BY <1>1, <1>3, <1>5 DEF SchedBase
<1>10. CASE queue = <<>>
  <2>1. Elements(queue) = {}
    BY <1>10 DEF Elements
  <2>2. UNCHANGED <<running, ready_list>> /\ waiting_list' = waiting_list /\ status' = awake
    BY <1>3, <1>6, <1>10, <2>1
  <2>3. SchedTypeOK'
    BY <1>1, <1>2, <1>8, <2>2 DEF SchedBase, SchedTypeOK
  <2>4. PlacedOnce'
    BY <2>2 DEF SchedBase, PlacedOnce
  <2>5. \A p \in PCB : status'[p] = status[p]
    BY <1>6, <1>8, <2>1, <2>2
  <2> QED BY <1>1, <1>2, <1>9, <2>2, <2>3, <2>4, <2>5 DEF SchedBase, Placed
<1>11. CASE queue # <<>>
  <2>1. /\ running' = Head(queue)
        /\ ready_list' = Append(Tail(queue), running)
        /\ status' = [awake EXCEPT ![running] = "Ready", ![Head(queue)] = "Running"]
    BY <1>3, <1>11
  <2>2. /\ Head(queue) \in PCB /\ Tail(queue) \in Seq(PCB)
        /\ Elements(queue) = Elements(Tail(queue)) \cup {Head(queue)}
        /\ NoRepeat(Tail(queue)) /\ Head(queue) \notin Elements(Tail(queue))
        /\ Head(queue) \in Elements(queue)
    BY <1>6, <1>11, HeadTailElements
  <2>3. /\ ready_list' \in Seq(PCB) /\ NoRepeat(ready_list')
        /\ Elements(ready_list') = Elements(Tail(queue)) \cup {running}
    <3> DEFINE t == Tail(queue)
    <3>1. t \in Seq(PCB) /\ NoRepeat(t) /\ running \notin Elements(t) /\ running \in PCB
      BY <1>2, <1>7, <2>2
    <3> HIDE DEF t
    <3>2. /\ Append(t, running) \in Seq(PCB) /\ NoRepeat(Append(t, running))
          /\ Elements(Append(t, running)) = Elements(t) \cup {running}
      BY <3>1, AppendElements
    <3> QED BY <2>1, <3>2 DEF t
  <2>4. SchedTypeOK'
    BY <1>1, <1>2, <1>3, <1>8, <2>1, <2>2, <2>3 DEF SchedBase, SchedTypeOK, Statuses
  <2>5. PlacedOnce'
    <3>1. running' \notin Elements(ready_list')
      BY <1>7, <2>1, <2>2, <2>3
    <3>2. running \notin waiting_list'
      BY <1>3 DEF SchedBase, PlacedOnce
    <3> QED BY <1>7, <2>1, <2>2, <2>3, <3>1, <3>2 DEF PlacedOnce
  <2>6. Placed' = Placed
    <3>1. Elements(ready_list') \cup {running'} = Elements(queue) \cup {running}
      BY <2>1, <2>2, <2>3
    <3> QED BY <1>3, <1>5, <1>6, <3>1 DEF SchedBase, Placed
  <2>7. ASSUME NEW p \in PCB
        PROVE  \/ /\ status'[p] = status[p] /\ p \notin waiting_list \ waiting_list'
                  /\ p \in Elements(ready_list') => p \in Elements(ready_list)
               \/ p \in Placed \ waiting_list' /\ status'[p] \in {"Ready", "Running"}
    <3>1. CASE p = Head(queue)
      BY <1>7, <1>8, <2>1, <2>2, <2>6, <3>1 DEF Placed
    <3>2. CASE p = running /\ p # Head(queue)
      BY <1>2, <1>3, <1>8, <2>1, <3>2 DEF Placed, SchedBase, PlacedOnce
    <3>3. CASE p # running /\ p # Head(queue)
      <4>1. status'[p] = awake[p]
        BY <1>8, <2>1, <3>3
      <4>2. CASE p \in Elements(woken)
        <5>1. p \in waiting_list \ waiting_list'
          BY <1>3, <1>5, <4>2 DEF SchedBase
        <5> QED BY <1>8, <4>1, <4>2, <5>1 DEF Placed
      <4>3. CASE p \notin Elements(woken)
        <5>1. p \in Elements(ready_list') => p \in Elements(ready_list)
          BY <1>6, <2>2, <2>3, <3>3, <4>3
        <5> QED BY <1>3, <1>8, <4>1, <4>3, <5>1
      <4> QED BY <4>2, <4>3
    <3> QED BY <3>1, <3>2, <3>3
  <2> QED BY <1>1, <1>3, <1>9, <2>1, <2>2, <2>4, <2>5, <2>6, <2>7 DEF SchedBase
<1> QED BY <1>10, <1>11

(* With every process on the lists, they stay there.                       *)
LEMMA ScheduleCore ==
  ASSUME SchedCore, UserMode, NEW timers, Shifted(timers),
         internal_schedule(timers), UNCHANGED <<syscall_retvalue, fault>>
  PROVE  /\ SchedCore'
         /\ running' \in PCB
         /\ NoOversleep'
         /\ waiting_list' \ Sleepers' = waiting_list \ Sleepers
<1>1. SchedBase /\ waiting_list \subseteq Callers /\ PCB \subseteq Placed
  BY DEF SchedCore, AllPlaced
<1>2. /\ SchedBase' /\ running' \in PCB /\ NoOversleep'
      /\ waiting_list' \ Sleepers' = waiting_list \ Sleepers
      /\ waiting_list' \subseteq waiting_list /\ Placed' = Placed
  BY <1>1, ScheduleBase
<1>3. SchedCore'
  BY <1>1, <1>2 DEF SchedBase, SchedCore, AllPlaced, Placed
<1> QED BY <1>2, <1>3

(* The timers now and after a tick are both timers in order.               *)
LEMMA TickShifts ==
  ASSUME SchedBase
  PROVE  /\ Shifted(timer_list)
         /\ Shifted(Ticked)
<1>1. /\ timer_list \in Seq(Timers) /\ Len(timer_list) \in Nat
      /\ \A i \in 1..Len(timer_list) : timer_list[i] \in Timers
  BY LenProperties, ElementOfSeq DEF SchedBase, SchedTypeOK
<1>2. \A i, j \in 1..Len(timer_list) : i < j => timer_list[i].left <= timer_list[j].left
  BY DEF SchedBase, TimersSorted
<1>3. \A i \in 1..Len(timer_list) :
        /\ Ticked[i] \in Timers
        /\ Ticked[i].pcb = timer_list[i].pcb
        /\ Ticked[i].left = timer_list[i].left - 1
        /\ timer_list[i].left \in Int
  BY <1>1 DEF Timers, Ticked
<1>4. Ticked \in Seq(Timers) /\ Len(Ticked) = Len(timer_list)
  BY <1>1, <1>3 DEF Ticked
<1> HIDE DEF Ticked
<1>5. Shifted(Ticked)
  <2>1. \A i, j \in 1..Len(Ticked) : i < j => Ticked[i].left <= Ticked[j].left
    <3>1. ASSUME NEW i \in 1..Len(timer_list), NEW j \in 1..Len(timer_list), i < j
          PROVE  Ticked[i].left <= Ticked[j].left
      <4>1. timer_list[i].left <= timer_list[j].left
        BY <1>2, <3>1
      <4>2. Ticked[i].left = timer_list[i].left - 1 /\ timer_list[i].left \in Int
        BY <1>3
      <4>3. Ticked[j].left = timer_list[j].left - 1 /\ timer_list[j].left \in Int
        BY <1>3
      <4> QED BY <4>1, <4>2, <4>3
    <3> QED BY <1>4, <3>1
  <2> QED BY <1>3, <1>4, <2>1 DEF Shifted
<1> QED BY <1>1, <1>2, <1>5 DEF Shifted

(***************************************************************************)
(* disastrOS_sleep: the caller goes from the processor to the waiting list *)
(* with a timer of its own.                                                *)
(***************************************************************************)
LEMMA SleepTimers ==
  ASSUME SchedBase, UserMode, NEW cycles \in Nat, TimerList_add(cycles, running)
  PROVE  /\ timer_list' \in Seq(Timers)
         /\ TimersSorted'
         /\ Sleepers' = Sleepers \cup {running}
         /\ NoOversleep => NoOversleep'
<1> DEFINE k == DueNoLaterThan(cycles)
           n == Len(timer_list)
           x == [left |-> cycles, pcb |-> running]
<1>1. /\ timer_list \in Seq(Timers) /\ n \in Nat /\ running \in PCB
      /\ x \in Timers /\ x.left = cycles /\ x.pcb = running
      /\ \A i \in 1..n : timer_list[i].left \in Int
  <2>1. timer_list \in Seq(Timers) /\ running \in PCB
    BY DEF SchedBase, SchedTypeOK, UserMode
  <2>2. n \in Nat /\ \A i \in 1..n : timer_list[i] \in Timers
    BY <2>1, LenProperties, ElementOfSeq
  <2>3. x \in Timers /\ x.left = cycles /\ x.pcb = running
    BY <2>1 DEF Timers
  <2> QED BY <2>1, <2>2, <2>3 DEF Timers
<1>2. /\ k \in 0..n
      /\ \A i \in 1..k : timer_list[i].left <= cycles
      /\ k < n => timer_list[k + 1].left > cycles
  <2>1. /\ k \in 0..n
        /\ \A i \in 1..k : i \in {j \in 1..n : timer_list[j].left <= cycles}
        /\ k < n => k + 1 \notin {j \in 1..n : timer_list[j].left <= cycles}
    BY <1>1, LongestPrefixProperties DEF DueNoLaterThan
  <2> QED BY <1>1, <2>1
<1>3. timer_list' = InsertAfter(timer_list, k, x)
  BY DEF TimerList_add
<1> HIDE DEF k, x
<1>10. /\ InsertAfter(timer_list, k, x) \in Seq(Timers)
       /\ Len(InsertAfter(timer_list, k, x)) = n + 1
       /\ \A j \in 1..(n + 1) :
            InsertAfter(timer_list, k, x)[j] =
              IF j <= k THEN timer_list[j] ELSE IF j = k + 1 THEN x ELSE timer_list[j - 1]
  BY <1>1, <1>2, InsertProperties
<1> HIDE DEF n
<1>4. /\ timer_list' \in Seq(Timers) /\ Len(timer_list') = n + 1
      /\ \A j \in 1..(n + 1) :
           timer_list'[j] = IF j <= k THEN timer_list[j]
                            ELSE IF j = k + 1 THEN x ELSE timer_list[j - 1]
  BY <1>3, <1>10
<1>5. /\ \A i, j \in 1..n : i < j => timer_list[i].left <= timer_list[j].left
      /\ \A i, j \in 1..n : i < j => timer_list[i].pcb # timer_list[j].pcb
      /\ \A i \in 1..n : timer_list[i].pcb # running
  BY DEF SchedBase, TimersSorted, PlacedOnce, Sleepers, n
<1>6. \A i \in (k + 1)..n : timer_list[i].left > cycles
  <2>1. ASSUME NEW i \in (k + 1)..n PROVE timer_list[i].left > cycles
    <3>1. k < n /\ k + 1 \in 1..n /\ i \in 1..n /\ (i = k + 1 \/ k + 1 < i)
      BY <1>1, <1>2
    <3>2. timer_list[k + 1].left <= timer_list[i].left
      BY <1>1, <1>5, <3>1
    <3> QED BY <1>1, <1>2, <3>1, <3>2
  <2> QED BY <2>1
<1>7. TimersSorted'
  <2>1. ASSUME NEW i \in 1..(n + 1), NEW j \in 1..(n + 1), i < j
        PROVE  /\ timer_list'[i].left <= timer_list'[j].left
               /\ timer_list'[i].pcb # timer_list'[j].pcb
    <3>1. CASE j <= k
      <4>1. i \in 1..n /\ j \in 1..n /\ timer_list'[i] = timer_list[i] /\ timer_list'[j] = timer_list[j]
        BY <1>1, <1>2, <1>4, <2>1, <3>1
      <4> QED BY <1>5, <2>1, <4>1
    <3>2. CASE j = k + 1
      <4>1. i \in 1..k /\ i \in 1..n /\ timer_list'[i] = timer_list[i] /\ timer_list'[j] = x
        BY <1>1, <1>2, <1>4, <2>1, <3>2
      <4> QED BY <1>1, <1>2, <1>5, <4>1
    <3>3. CASE j > k + 1
      <4>1. j - 1 \in (k + 1)..n /\ j - 1 \in 1..n /\ timer_list'[j] = timer_list[j - 1]
        BY <1>1, <1>2, <1>4, <2>1, <3>3
      <4>2. CASE i <= k
        <5>1. i \in 1..n /\ i < j - 1 /\ timer_list'[i] = timer_list[i]
          BY <1>1, <1>2, <1>4, <2>1, <3>3, <4>2
        <5> QED BY <1>5, <4>1, <5>1
      <4>3. CASE i = k + 1
        <5>1. timer_list'[i] = x
          BY <1>4, <4>3, <1>1, <1>2
        <5> QED BY <1>1, <1>5, <1>6, <4>1, <5>1
      <4>4. CASE i > k + 1
        <5>1. i - 1 \in 1..n /\ i - 1 < j - 1 /\ timer_list'[i] = timer_list[i - 1]
          BY <1>1, <1>2, <1>4, <2>1, <4>4
        <5> QED BY <1>5, <4>1, <5>1
      <4> QED BY <1>1, <1>2, <4>2, <4>3, <4>4
    <3> QED BY <1>1, <1>2, <3>1, <3>2, <3>3
  <2> QED BY <1>4, <2>1 DEF TimersSorted
<1>8. Sleepers' = Sleepers \cup {running}
  <2>1. ASSUME NEW i \in 1..n PROVE timer_list[i].pcb \in Sleepers'
    <3>1. CASE i <= k
      <4>1. i \in 1..Len(timer_list') /\ timer_list'[i] = timer_list[i]
        BY <1>1, <1>2, <1>4, <3>1
      <4> QED BY <4>1 DEF Sleepers
    <3>2. CASE i > k
      <4>1. i + 1 \in 1..(n + 1) /\ i + 1 > k + 1 /\ (i + 1) - 1 = i
        BY <1>1, <1>2, <3>2
      <4>2. i + 1 \in 1..Len(timer_list') /\ timer_list'[i + 1] = timer_list[i]
        BY <1>1, <1>2, <1>4, <4>1
      <4> QED BY <4>2 DEF Sleepers
    <3> QED BY <1>1, <1>2, <3>1, <3>2
  <2>2. running \in Sleepers'
    <3>1. k + 1 \in 1..Len(timer_list') /\ timer_list'[k + 1] = x
      BY <1>1, <1>2, <1>4
    <3> QED BY <1>1, <3>1 DEF Sleepers
  <2>3. ASSUME NEW i \in 1..(n + 1) PROVE timer_list'[i].pcb \in Sleepers \cup {running}
    <3>1. CASE i <= k
      <4>1. i \in 1..n /\ timer_list'[i] = timer_list[i]
        BY <1>1, <1>2, <1>4, <3>1
      <4> QED BY <4>1 DEF Sleepers, n
    <3>2. CASE i = k + 1
      BY <1>1, <1>2, <1>4, <3>2
    <3>3. CASE i > k + 1
      <4>1. i - 1 \in 1..n /\ timer_list'[i] = timer_list[i - 1]
        BY <1>1, <1>2, <1>4, <3>3
      <4> QED BY <4>1 DEF Sleepers, n
    <3> QED BY <1>1, <1>2, <3>1, <3>2, <3>3
  <2> QED BY <1>4, <2>1, <2>2, <2>3 DEF Sleepers, n
<1>9. ASSUME NoOversleep, NEW i \in 1..Len(timer_list') PROVE timer_list'[i].left >= 0
  <2>1. \A j \in 1..n : timer_list[j].left >= 0
    BY <1>9 DEF NoOversleep, n
  <2>2. CASE i <= k
    <3>1. i \in 1..n /\ timer_list'[i] = timer_list[i]
      BY <1>1, <1>2, <1>4, <2>2
    <3> QED BY <2>1, <3>1
  <2>3. CASE i = k + 1
    <3>1. timer_list'[i] = x
      BY <1>1, <1>2, <1>4, <2>3
    <3> QED BY <1>1, <3>1
  <2>4. CASE i > k + 1
    <3>1. i - 1 \in 1..n /\ timer_list'[i] = timer_list[i - 1]
      BY <1>1, <1>2, <1>4, <2>4
    <3> QED BY <2>1, <3>1
  <2> QED BY <1>1, <1>2, <1>4, <2>2, <2>3, <2>4
<1> QED BY <1>4, <1>7, <1>8, <1>9 DEF NoOversleep

(***************************************************************************)
(* disastrOS_sleep is refused, or moves the caller to the waiting list and *)
(* gives the processor to the head of the ready list.                      *)
(***************************************************************************)
LEMMA SleepBase ==
  ASSUME SchedBase, NEW cycles \in Nat, internal_sleep(cycles)
  PROVE  /\ SchedBase'
         /\ NoOversleep => NoOversleep'
         /\ \/ UNCHANGED <<placeVars, timer_list>>
            \/ /\ waiting_list' = waiting_list \cup {running}
               /\ Sleepers' = Sleepers \cup {running}
               /\ status' = [status EXCEPT ![running] = "Waiting"]
               /\ Elements(ready_list) \subseteq Elements(ready_list') \cup {running'}
               /\ Elements(ready_list') \subseteq Elements(ready_list)
               /\ \/ ready_list = <<>> /\ running' = NULL
                  \/ running' \in Elements(ready_list)
<1>1. running \in PCB /\ UserMode
  BY DEF internal_sleep, UserMode
<1>2. /\ ready_list \in Seq(PCB) /\ waiting_list \subseteq PCB
      /\ status \in [PCB -> Statuses] /\ syscall_retvalue \in [PCB -> Int]
      /\ NoRepeat(ready_list) /\ running \notin Elements(ready_list)
      /\ running \notin waiting_list /\ Elements(ready_list) \cap waiting_list = {}
      /\ Sleepers \subseteq waiting_list
  BY <1>1 DEF SchedBase, SchedTypeOK, PlacedOnce
<1>3. CASE Len(timer_list) >= MAX_NUM_PROCESSES
  <2>1. /\ syscall_retvalue' = [syscall_retvalue EXCEPT ![running] = ESLEEP]
        /\ UNCHANGED <<placeVars, timer_list, fault>>
    BY <1>3 DEF internal_sleep, Refuse, Return
  <2>2. syscall_retvalue' \in [PCB -> Int]
    BY <1>1, <1>2, <2>1 DEF ESLEEP
  <2>3. SchedBase' /\ (NoOversleep => NoOversleep')
    BY <2>1, <2>2 DEF placeVars, SchedBase, SchedTypeOK, PlacedOnce, TimersSorted, NoOversleep,
      Sleepers
  <2> QED BY <2>1, <2>3
<1>4. CASE ~(Len(timer_list) >= MAX_NUM_PROCESSES)
  <2>1. /\ TimerList_add(cycles, running)
        /\ status' = [status EXCEPT ![running] = "Waiting"]
        /\ waiting_list' = waiting_list \cup {running}
        /\ IF ready_list = <<>>
           THEN running' = NULL /\ UNCHANGED ready_list
           ELSE running' = Head(ready_list) /\ ready_list' = Tail(ready_list)
        /\ UNCHANGED <<syscall_retvalue, fault>>
    BY <1>4 DEF internal_sleep, NextReady
  <2>2. /\ timer_list' \in Seq(Timers) /\ TimersSorted'
        /\ Sleepers' = Sleepers \cup {running}
        /\ NoOversleep => NoOversleep'
    BY <1>1, <2>1, SleepTimers
  <2>3. status' \in [PCB -> Statuses]
    BY <1>2, <2>1 DEF Statuses
  <2>4. /\ running' \in PCB \cup {NULL} /\ ready_list' \in Seq(PCB)
        /\ NoRepeat(ready_list')
        /\ running' \notin Elements(ready_list') \cup waiting_list'
        /\ Elements(ready_list') \cap waiting_list' = {}
        /\ Elements(ready_list) \subseteq Elements(ready_list') \cup {running'}
        /\ Elements(ready_list') \subseteq Elements(ready_list)
        /\ \/ ready_list = <<>> /\ running' = NULL
           \/ running' \in Elements(ready_list)
    <3>1. CASE ready_list = <<>>
      <4>1. running' = NULL /\ ready_list' = ready_list /\ Elements(ready_list) = {}
        BY <2>1, <3>1 DEF Elements
      <4>2. NULL \notin PCB
        BY DEF NULL, PCB
      <4> QED BY <1>1, <1>2, <2>1, <3>1, <4>1, <4>2
    <3>2. CASE ready_list # <<>>
      <4>1. running' = Head(ready_list) /\ ready_list' = Tail(ready_list)
        BY <2>1, <3>2
      <4>2. /\ Head(ready_list) \in PCB /\ Tail(ready_list) \in Seq(PCB)
            /\ Elements(ready_list) = Elements(Tail(ready_list)) \cup {Head(ready_list)}
            /\ NoRepeat(Tail(ready_list)) /\ Head(ready_list) \notin Elements(Tail(ready_list))
        BY <1>2, <3>2, HeadTailElements
      <4> QED BY <1>2, <2>1, <4>1, <4>2
    <3> QED BY <3>1, <3>2
  <2>5. SchedTypeOK'
    <3>1. waiting_list' \subseteq PCB /\ UNCHANGED <<syscall_retvalue, fault>>
      BY <1>1, <1>2, <2>1
    <3>2. syscall_retvalue' \in [PCB -> Int] /\ fault' \in Faults
      BY <3>1 DEF SchedBase, SchedTypeOK
    <3> QED BY <2>2, <2>3, <2>4, <3>1, <3>2 DEF SchedTypeOK
  <2>6. PlacedOnce'
    BY <2>4 DEF PlacedOnce
  <2>7. Sleepers' \subseteq waiting_list'
    BY <1>2, <2>1, <2>2
  <2> QED BY <2>1, <2>2, <2>4, <2>5, <2>6, <2>7 DEF SchedBase
<1> QED BY <1>3, <1>4

(***************************************************************************)
(* What a step of a program that sleeps and of the timer preserves.  The   *)
(* semaphore module's proofs cite it for their own scheduler steps.        *)
(***************************************************************************)
LEMMA SleepCore ==
  ASSUME SchedAssumption, SchedCore, SchedSleep
  PROVE  /\ SchedCore'
         /\ waiting_list' \ Sleepers' = waiting_list \ Sleepers
         /\ NoOversleep => NoOversleep'
         /\ Callers # PCB => running' \in PCB
<1> PICK cycles \in SleepTimes : internal_sleep(cycles)
  BY DEF SchedSleep
<1>1. cycles \in Nat /\ running \in Callers /\ running \in PCB
  BY DEF SchedAssumption, SchedSleep, internal_sleep, UserMode
<1>2. SchedBase /\ waiting_list \subseteq Callers /\ PCB \subseteq Placed
  BY DEF SchedCore, AllPlaced
<1>3. /\ SchedBase' /\ (NoOversleep => NoOversleep')
      /\ \/ UNCHANGED <<placeVars, timer_list>>
         \/ /\ waiting_list' = waiting_list \cup {running}
            /\ Sleepers' = Sleepers \cup {running}
            /\ Elements(ready_list) \subseteq Elements(ready_list') \cup {running'}
            /\ \/ ready_list = <<>> /\ running' = NULL
               \/ running' \in Elements(ready_list)
  BY <1>1, <1>2, SleepBase
<1>4. CASE UNCHANGED <<placeVars, timer_list>>
  <2>1. SchedCore'
    BY <1>2, <1>3, <1>4 DEF placeVars, SchedBase, SchedCore, AllPlaced, Placed
  <2> QED BY <1>1, <1>3, <1>4, <2>1 DEF placeVars, Sleepers
<1>5. CASE ~UNCHANGED <<placeVars, timer_list>>
  <2>1. SchedCore'
    BY <1>1, <1>2, <1>3, <1>5 DEF SchedBase, SchedCore, AllPlaced, Placed
  <2>2. running \notin waiting_list
    BY <1>2 DEF SchedBase, PlacedOnce
  <2>3. CASE ready_list = <<>>
    <3>1. Elements(ready_list) = {}
      BY <2>3 DEF Elements
    <3>2. Callers = PCB
      BY <1>1, <1>2, <3>1 DEF SchedAssumption, Placed
    <3> QED BY <1>2, <1>3, <1>5, <2>1, <2>2, <3>2 DEF SchedBase
  <2>4. CASE running' \in Elements(ready_list)
    <3>1. Elements(ready_list) \subseteq PCB
      BY <1>2, ElementOfSeq DEF SchedBase, SchedTypeOK, Elements
    <3> QED BY <1>2, <1>3, <1>5, <2>1, <2>2, <2>4, <3>1 DEF SchedBase
  <2> QED BY <1>3, <1>5, <2>3, <2>4
<1> QED BY <1>4, <1>5

(* Every step of the scheduler preserves the core of the invariant.        *)
LEMMA StepCore ==
  ASSUME SchedAssumption, SchedCore, SchedNext
  PROVE  /\ SchedCore'
         /\ waiting_list' \ Sleepers' = waiting_list \ Sleepers
         /\ NoOversleep => NoOversleep'
         /\ Callers # PCB => running' \in PCB
<1>1. CASE SchedSleep
  BY <1>1, SleepCore
<1>2. CASE internal_preempt
  <2>1. /\ SchedCore' /\ running' \in PCB
        /\ NoOversleep'
        /\ waiting_list' \ Sleepers' = waiting_list \ Sleepers
    BY <1>2, TickShifts, ScheduleCore DEF internal_preempt, SchedCore
  <2> QED BY <2>1
<1>3. CASE timerInterrupt
  <2>1. /\ SchedCore' /\ running' \in PCB
        /\ NoOversleep'
        /\ waiting_list' \ Sleepers' = waiting_list \ Sleepers
    BY <1>3, TickShifts, ScheduleCore DEF timerInterrupt, SchedCore
  <2> QED BY <2>1
<1> QED BY <1>1, <1>2, <1>3 DEF SchedNext

(***************************************************************************)
(* The inductive invariant of the scheduler alone.                         *)
(***************************************************************************)
SchedInv == SchedCore /\ NoOversleep /\ SleepersWait /\ (Callers # PCB => running # NULL)

(* SchedInv is an invariant.                                               *)
LEMMA SchedInvariant == SchedSpec => []SchedInv
<1> USE SchedAssumption
<1>1. SchedInit => SchedInv
  <2> SUFFICES ASSUME SchedInit PROVE SchedInv
    OBVIOUS
  <2>1. SchedCore
    BY InitCore
  <2>2. NoOversleep /\ SleepersWait
    BY DEF SchedInit, NoOversleep, SleepersWait, Sleepers
  <2>3. running # NULL
    BY DEF SchedInit, PCB, NULL
  <2> QED BY <2>1, <2>2, <2>3 DEF SchedInv
<1>2. SchedInv /\ [SchedNext]_schedVars => SchedInv'
  <2> SUFFICES ASSUME SchedInv, [SchedNext]_schedVars PROVE SchedInv'
    OBVIOUS
  <2>1. CASE SchedNext
    <3>1. /\ SchedCore' /\ NoOversleep'
          /\ waiting_list' \ Sleepers' = waiting_list \ Sleepers
          /\ Callers # PCB => running' \in PCB
      BY <2>1, StepCore DEF SchedInv
    <3>2. SleepersWait'
      BY <3>1 DEF SchedInv, SleepersWait, SchedCore, SchedBase
    <3>3. NULL \notin PCB
      BY DEF NULL, PCB
    <3> QED BY <3>1, <3>2, <3>3 DEF SchedInv
  <2>2. CASE UNCHANGED schedVars
    BY <2>2 DEF schedVars, placeVars, SchedInv, SchedCore, SchedBase, SchedTypeOK, PlacedOnce,
      AllPlaced, Placed, TimersSorted, NoOversleep, SleepersWait, Sleepers
  <2> QED BY <2>1, <2>2
<1> QED BY <1>1, <1>2, PTL DEF SchedSpec

-----------------------------------------------------------------------------
(* The scheduler's variables keep their types.                             *)
THEOREM SchedTypeCorrect == SchedSpec => []SchedTypeOK
<1>1. SchedInv => SchedTypeOK
  BY DEF SchedInv, SchedCore, SchedBase
<1> QED BY <1>1, SchedInvariant, PTL

(* No handler of the scheduler puts a process in two lists.                *)
THEOREM EveryProcessPlacedOnce == SchedSpec => []PlacedOnce
<1>1. SchedInv => PlacedOnce
  BY DEF SchedInv, SchedCore, SchedBase
<1> QED BY <1>1, SchedInvariant, PTL

(* TimerList_current looks at the first timer alone and misses none.       *)
THEOREM NobodyOversleeps == SchedSpec => []NoOversleep
<1>1. SchedInv => NoOversleep
  BY DEF SchedInv
<1> QED BY <1>1, SchedInvariant, PTL

(* A process is on the waiting list exactly while it has a timer.          *)
THEOREM WaitingIsSleeping == SchedSpec => []SleepersWait
<1>1. SchedInv => SleepersWait
  BY DEF SchedInv
<1> QED BY <1>1, SchedInvariant, PTL

(* One program that never sleeps keeps the processor in use.               *)
THEOREM ProcessorNeverIdle == SchedSpec => []NeverIdle
<1>1. SchedInv => NeverIdle
  BY DEF SchedInv, NeverIdle
<1> QED BY <1>1, SchedInvariant, PTL
=============================================================================
