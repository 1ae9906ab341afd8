------------------------ MODULE BoundedQueueProofs ------------------------
(***************************************************************************)
(* Theorems about BoundedQueue, for every set of threads, every capacity   *)
(* and every policy.  The contents and the counters follow from one        *)
(* inductive invariant, QueueInv: the steps that append, take, refuse or   *)
(* clear are handled one by one, all the others change only pc, stopped,   *)
(* broadcast or asked.  That no wakeup is lost follows from another one,   *)
(* WakeupInv, which compares the work of a side with its threads awake.    *)
(***************************************************************************)
EXTENDS BoundedQueue, FiniteSetTheorems, TLAPS

-----------------------------------------------------------------------------
(* Sequences numbered without gaps *)

(* Dropping the head of a gapless sequence leaves a gapless sequence, and the
   head carries the smallest number. *)
LEMMA TailNewest ==
  ASSUME NEW s \in Seq(Nat), NEW n \in Nat, s # <<>>, NewestUpTo(s, n)
  PROVE  /\ Tail(s) \in Seq(Nat)
         /\ Len(s) \in Nat \ {0}
         /\ Len(Tail(s)) = Len(s) - 1
         /\ Head(s) \in Nat
         /\ Head(s) + Len(s) = n + 1
         /\ NewestUpTo(Tail(s), n)
<1>1. /\ Head(s) = s[1]
      /\ Tail(s) \in Seq(Nat)
      /\ Len(s) \in Nat \ {0}
      /\ Len(Tail(s)) = Len(s) - 1
      /\ \A i \in 1 .. Len(Tail(s)) : Tail(s)[i] = s[i + 1]
  OBVIOUS
<1>2. Head(s) \in Nat /\ Head(s) + Len(s) = n + 1
  BY <1>1 DEF NewestUpTo
<1>3. NewestUpTo(Tail(s), n)
  <2> SUFFICES ASSUME NEW i \in 1 .. Len(Tail(s))
               PROVE  Tail(s)[i] + Len(Tail(s)) = n + i
    BY DEF NewestUpTo
  <2>1. i + 1 \in 1 .. Len(s)
    BY <1>1
  <2>2. s[i + 1] \in Nat /\ s[i + 1] + Len(s) = n + (i + 1)
    BY <2>1 DEF NewestUpTo
  <2>3. QED
    BY <1>1, <2>2, SMTT(30)
<1>4. QED
  BY <1>1, <1>2, <1>3

(* Appending the next number keeps a gapless sequence gapless. *)
LEMMA AppendNewest ==
  ASSUME NEW s \in Seq(Nat), NEW n \in Nat, NewestUpTo(s, n)
  PROVE  /\ Append(s, n + 1) \in Seq(Nat)
         /\ Len(s) \in Nat
         /\ Len(Append(s, n + 1)) = Len(s) + 1
         /\ NewestUpTo(Append(s, n + 1), n + 1)
<1> DEFINE t == Append(s, n + 1)
<1>1. /\ t \in Seq(Nat)
      /\ Len(s) \in Nat
      /\ Len(t) = Len(s) + 1
  OBVIOUS
<1>4. /\ \A i \in 1 .. Len(s) : t[i] = s[i]
      /\ t[Len(s) + 1] = n + 1
  OBVIOUS
<1>2. NewestUpTo(t, n + 1)
  <2> HIDE DEF t
  <2> SUFFICES ASSUME NEW i \in 1 .. Len(t)
               PROVE  t[i] + Len(t) = (n + 1) + i
    BY DEF NewestUpTo
  <2>1. CASE i = Len(s) + 1
    BY <1>1, <1>4, <2>1
  <2>2. CASE i \in 1 .. Len(s)
    <3>1. s[i] \in Nat /\ s[i] + Len(s) = n + i
      BY <2>2 DEF NewestUpTo
    <3>2. t[i] = s[i]
      BY <1>4, <2>2
    <3>3. Len(s) \in Nat
      BY <1>1
    <3>4. s[i] + (Len(s) + 1) = (n + 1) + i
      BY <3>1, <3>3, SMTT(30)
    <3>5. Len(t) = Len(s) + 1
      BY <1>1
    <3>6. QED
      BY <3>2, <3>4, <3>5
  <2>3. QED
    BY <1>1, <2>1, <2>2
<1>3. QED
  BY <1>1, <1>2

-----------------------------------------------------------------------------
(* The steps that change the content *)

(* Insert behind any suffix of the queue. *)
LEMMA InsertKeepsInv ==
  ASSUME QueueInv, NEW p \in Producers, NEW rest \in Seq(Nat),
         Insert(p, rest),
         ~closed,
         Len(rest) + 1 <= Capacity,
         NewestUpTo(rest, pushed),
         dropped' \in Nat,
         dropped' + Len(rest) = dropped + Len(items),
         policy \in {"block_producer", "drop_newest"} => dropped' = dropped
  PROVE  QueueInv'
<1>1. /\ pushed \in Nat /\ popped \in Nat /\ dropped \in Nat /\ refused \in Nat
      /\ highWater \in Nat /\ lastPopped \in Nat /\ items \in Seq(Nat)
  BY DEF QueueInv, TypeOK
<1>2. /\ items' \in Seq(Nat)
      /\ Len(rest) \in Nat
      /\ Len(items') = Len(rest) + 1
  BY <1>1, AppendNewest DEF Insert
<1>3. /\ pushed' = pushed + 1
      /\ highWater' = IF Len(items') > highWater THEN Len(items') ELSE highWater
      /\ UNCHANGED <<closed, aborted, popped, stopped, broadcast, refused, lastPopped,
                      asked, policy>>
  BY DEF Insert
<1>4. TypeOK'
  <2>1. pc' \in [Threads -> Locations]
    BY DEF Insert, Goto, QueueInv, TypeOK, Locations, Threads
  <2>2. QED
    BY <1>1, <1>2, <1>3, <2>1, SMTT(30) DEF QueueInv, TypeOK
<1>5. Bounded'
  BY <1>1, <1>2, <1>3, QueueAssumption DEF QueueInv, Bounded
<1>6. Accounting'
  <2>1. pushed + refused = popped + Len(items) + dropped
    BY DEF QueueInv, Accounting
  <2>2. /\ pushed \in Nat /\ popped \in Nat /\ dropped \in Nat /\ refused \in Nat
        /\ Len(items) \in Nat /\ Len(rest) \in Nat
    BY <1>1, <1>2
  <2>3. popped + Len(items) + dropped = popped + (dropped' + Len(rest))
    BY <2>2
  <2>5. pushed + refused = popped + (dropped' + Len(rest))
    BY <2>1, <2>3
  <2>6. (pushed + 1) + refused = (popped + (dropped' + Len(rest))) + 1
    BY <2>2, <2>5
  <2>7. (popped + (dropped' + Len(rest))) + 1 = popped + (Len(rest) + 1) + dropped'
    BY <2>2
  <2>4. QED
    BY <1>2, <1>3, <2>6, <2>7 DEF Accounting
<1>7. RetainsNewest'
  BY <1>1, <1>3, AppendNewest DEF RetainsNewest, Insert
<1>8. NothingSkipped'
  BY <1>3 DEF QueueInv, NothingSkipped
<1>9. (aborted => closed /\ items = <<>>)'
  BY <1>3 DEF QueueInv
<1>10. (policy \in {"block_producer", "drop_newest"} /\ ~aborted => dropped = refused)'
  BY <1>3 DEF QueueInv
<1>11. QED
  BY <1>4, <1>5, <1>6, <1>7, <1>8, <1>9, <1>10 DEF QueueInv

(* Taking the head. *)
LEMMA TakeKeepsInv ==
  ASSUME QueueInv, NEW c \in Consumers, Take(c)
  PROVE  QueueInv'
<1>1. /\ pushed \in Nat /\ popped \in Nat /\ dropped \in Nat /\ refused \in Nat
      /\ highWater \in Nat /\ lastPopped \in Nat /\ items \in Seq(Nat)
  BY DEF QueueInv, TypeOK
<1>2. /\ items' \in Seq(Nat)
      /\ Len(items) \in Nat \ {0}
      /\ Len(items') = Len(items) - 1
      /\ Head(items) \in Nat
      /\ Head(items) + Len(items) = pushed + 1
  BY <1>1, TailNewest DEF Take, MayTake, QueueInv, RetainsNewest
<1>3. /\ popped' = popped + 1
      /\ lastPopped' = Head(items)
      /\ ~aborted
      /\ UNCHANGED <<closed, aborted, pushed, dropped, highWater, stopped, broadcast,
                     refused, asked, policy>>
  BY DEF Take, MayTake
<1>4. TypeOK'
  <2>1. pc' \in [Threads -> Locations]
    BY DEF Take, Goto, QueueInv, TypeOK, Locations, Threads
  <2>2. QED
    BY <1>1, <1>2, <1>3, <2>1 DEF QueueInv, TypeOK
<1>5. Bounded'
  BY <1>1, <1>2, <1>3, QueueAssumption DEF QueueInv, Bounded
<1>6. Accounting'
  <2>1. pushed + refused = popped + Len(items) + dropped
    BY DEF QueueInv, Accounting
  <2>2. popped + Len(items) + dropped = (popped + 1) + (Len(items) - 1) + dropped
    BY <1>1, <1>2
  <2>3. QED
    BY <1>2, <1>3, <2>1, <2>2 DEF Accounting
<1>7. RetainsNewest'
  BY <1>1, <1>3, TailNewest DEF RetainsNewest, Take, MayTake, QueueInv
<1>8. NothingSkipped'
  <2> SUFFICES ASSUME policy \in {"block_producer", "drop_newest"}
               PROVE  lastPopped' = popped'
    BY <1>3 DEF NothingSkipped
  <2>1. dropped = refused
    BY <1>3 DEF QueueInv
  <2>2. pushed + refused = popped + Len(items) + dropped
    BY DEF QueueInv, Accounting
  <2>3. QED
    BY <2>1, <2>2, <1>1, <1>2, <1>3
<1>9. (aborted => closed /\ items = <<>>)'
  BY <1>3
<1>10. (policy \in {"block_producer", "drop_newest"} /\ ~aborted => dropped = refused)'
  BY <1>3 DEF QueueInv
<1>11. QED
  BY <1>4, <1>5, <1>6, <1>7, <1>8, <1>9, <1>10 DEF QueueInv

(* A step that changes no counter and leaves the container alone. *)
LEMMA ControlKeepsInv ==
  ASSUME QueueInv,
         UNCHANGED <<items, closed, aborted, counters, policy>>,
         pc' \in [Threads -> Locations],
         stopped' \in SUBSET Cancellable,
         broadcast' \in BOOLEAN,
         asked' \in SUBSET {"drain", "abort"}
  PROVE  QueueInv'
BY DEF QueueInv, TypeOK, Bounded, Accounting, RetainsNewest, NewestUpTo, NothingSkipped,
       counters

(* Moving one thread to a place keeps pc a function from threads to places. *)
LEMMA GotoType ==
  ASSUME TypeOK, NEW t \in Threads, NEW place \in Locations, Goto(t, place)
  PROVE  pc' \in [Threads -> Locations]
BY DEF TypeOK, Goto

(* Waking any set of threads keeps pc a function from threads to places. *)
LEMMA AwakeType ==
  ASSUME TypeOK, NEW S
  PROVE  Awake(S) \in [Threads -> Locations]
BY DEF TypeOK, Awake, Locations

(* Every branch of Push preserves the invariant. *)
LEMMA PushKeepsInv ==
  ASSUME QueueInv, NEW p \in Producers, Push(p)
  PROVE  QueueInv'
<1>1. /\ items \in Seq(Nat) /\ pushed \in Nat /\ dropped \in Nat /\ refused \in Nat
      /\ NewestUpTo(items, pushed)
      /\ Len(items) \in Nat /\ Len(items) <= Capacity
      /\ Capacity \in Nat \ {0}
      /\ p \in Threads
  BY QueueAssumption DEF QueueInv, TypeOK, Bounded, RetainsNewest, Threads
<1>2. CASE PushWithSpace(p) \/ PushAfterWait(p)
  <2>1. Insert(p, items) /\ ~closed /\ ~Full /\ dropped' = dropped
    BY <1>2 DEF PushWithSpace, PushAfterWait, StartPush
  <2>2. Len(items) + 1 <= Capacity
    BY <2>1, <1>1 DEF Full
  <2>3. QED
    BY <2>1, <2>2, <1>1, InsertKeepsInv
<1>3. CASE PushDropNewest(p)
  <2>1. /\ UNCHANGED <<items, closed, aborted, pushed, popped, highWater, pc, stopped,
                       broadcast, lastPopped, asked, policy>>
        /\ dropped' = dropped + 1 /\ refused' = refused + 1
    BY <1>3 DEF PushDropNewest
  <2>2. pushed + refused' = popped + Len(items) + dropped'
    <3>1. pushed + refused = popped + Len(items) + dropped
      BY DEF QueueInv, Accounting
    <3>2. popped \in Nat
      BY DEF QueueInv, TypeOK
    <3>3. QED
      BY <2>1, <3>1, <3>2, <1>1
  <2>3. TypeOK'
    BY <2>1, <1>1 DEF QueueInv, TypeOK
  <2>4. QED
    BY <2>1, <2>2, <2>3 DEF QueueInv, Bounded, Accounting, RetainsNewest, NewestUpTo,
                            NothingSkipped
<1>4. CASE PushDropOldest(p)
  <2>1. Insert(p, Tail(items)) /\ ~closed /\ Full /\ dropped' = dropped + 1
        /\ policy = "drop_oldest"
    BY <1>4 DEF PushDropOldest, StartPush
  <2>2. items # <<>>
    BY <2>1, <1>1 DEF Full
  <2>3. /\ Tail(items) \in Seq(Nat)
        /\ Len(Tail(items)) = Len(items) - 1
        /\ NewestUpTo(Tail(items), pushed)
    BY <2>2, <1>1, TailNewest
  <2>4. /\ Len(Tail(items)) + 1 <= Capacity
        /\ dropped' \in Nat
        /\ dropped' + Len(Tail(items)) = dropped + Len(items)
    BY <2>1, <2>3, <1>1
  <2>5. QED
    BY <2>1, <2>3, <2>4, InsertKeepsInv
<1>5. CASE PushKeepLatest(p)
  <2>1. Insert(p, <<>>) /\ ~closed /\ dropped' = dropped + Len(items)
        /\ policy = "keep_latest"
    BY <1>5 DEF PushKeepLatest, StartPush
  <2>2. <<>> \in Seq(Nat) /\ Len(<<>>) = 0 /\ NewestUpTo(<<>>, pushed)
    BY DEF NewestUpTo
  <2>3. /\ Len(<<>>) + 1 <= Capacity
        /\ dropped' \in Nat
        /\ dropped' + Len(<<>>) = dropped + Len(items)
    BY <2>1, <2>2, <1>1
  <2>4. QED
    BY <2>1, <2>2, <2>3, InsertKeepsInv
<1>6. CASE PushBlock(p)
  <2>1. pc' \in [Threads -> Locations]
    BY <1>6, <1>1, GotoType DEF PushBlock, QueueInv, Locations
  <2>2. QED
    BY <1>6, <2>1, ControlKeepsInv DEF PushBlock, QueueInv, TypeOK
<1>7. QED
  BY <1>2, <1>3, <1>4, <1>5, <1>6 DEF Push

(* Every branch of Pop preserves the invariant. *)
LEMMA PopKeepsInv ==
  ASSUME QueueInv, NEW c \in Consumers, Pop(c)
  PROVE  QueueInv'
<1>1. CASE PopWithData(c) \/ PopAfterWait(c)
  BY <1>1, TakeKeepsInv DEF PopWithData, PopAfterWait
<1>2. CASE PopBlock(c)
  <2>1. pc' \in [Threads -> Locations]
    BY <1>2, GotoType DEF PopBlock, QueueInv, Locations, Threads
  <2>2. QED
    BY <1>2, <2>1, ControlKeepsInv DEF PopBlock, QueueInv, TypeOK
<1>3. QED
  BY <1>1, <1>2 DEF Pop

(* Blocking, waking, expiring and notifying preserve the invariant. *)
LEMMA WaitKeepsInv ==
  ASSUME QueueInv, NEW t \in Threads, Wait(t)
  PROVE  QueueInv'
<1>1. OnlyPc
  BY DEF Wait, Block, WaitAgain, Expire, SpuriousWakeup, ReturnEmpty, NotifyOne
<1>2. pc' \in [Threads -> Locations]
  <2>1. CASE NotifyOne(t)
    BY <2>1 DEF NotifyOne, Goto, QueueInv, TypeOK, Locations, Threads
  <2>2. CASE ~NotifyOne(t)
    BY <2>2, GotoType DEF Wait, Block, WaitAgain, Expire, SpuriousWakeup, ReturnEmpty,
                          QueueInv, Locations
  <2>3. QED
    BY <2>1, <2>2
<1>3. QED
  BY <1>1, <1>2, ControlKeepsInv DEF OnlyPc, QueueInv, TypeOK

(* Close preserves the invariant in both modes, repeated calls included. *)
LEMMA CloseKeepsInv ==
  ASSUME QueueInv, NEW mode \in {"drain", "abort"}, Close(mode)
  PROVE  QueueInv'
<1>1. /\ UNCHANGED <<pushed, popped, highWater, refused, lastPopped, pc, stopped, policy>>
      /\ asked' \in SUBSET {"drain", "abort"}
  BY DEF Close, QueueInv, TypeOK
<1>2. CASE UNCHANGED <<items, closed, aborted, dropped, broadcast>>
  BY <1>1, <1>2, ControlKeepsInv DEF QueueInv, TypeOK, counters
<1>3. CASE closed' /\ broadcast' /\ UNCHANGED <<items, aborted, dropped>>
  BY <1>1, <1>3 DEF QueueInv, TypeOK, Bounded, Accounting, RetainsNewest, NewestUpTo,
                    NothingSkipped
<1>4. CASE closed' /\ broadcast' /\ aborted' /\ dropped' = dropped + Len(items) /\ items' = <<>>
  <2>1. /\ items \in Seq(Nat) /\ pushed \in Nat /\ popped \in Nat /\ dropped \in Nat
        /\ refused \in Nat /\ highWater \in Nat /\ Len(items) \in Nat
        /\ Len(items) <= highWater /\ highWater <= Capacity
    BY DEF QueueInv, TypeOK, Bounded
  <2>2. <<>> \in Seq(Nat) /\ Len(<<>>) = 0
    OBVIOUS
  <2>3. TypeOK'
    BY <1>1, <1>4, <2>1, <2>2 DEF QueueInv, TypeOK
  <2>4. Bounded'
    BY <1>1, <1>4, <2>1, <2>2 DEF Bounded
  <2>5. Accounting'
    <3>1. pushed + refused = popped + Len(items) + dropped
      BY DEF QueueInv, Accounting
    <3>2. popped + Len(items) + dropped = popped + 0 + (dropped + Len(items))
      BY <2>1
    <3>3. QED
      BY <1>1, <1>4, <2>2, <3>1, <3>2 DEF Accounting
  <2>6. RetainsNewest'
    BY <1>4, <2>2 DEF RetainsNewest, NewestUpTo
  <2>7. NothingSkipped'
    BY <1>1 DEF QueueInv, NothingSkipped
  <2>8. QED
    BY <1>4, <2>3, <2>4, <2>5, <2>6, <2>7 DEF QueueInv
<1>5. QED
  BY <1>2, <1>3, <1>4 DEF Close

(* The critical section of Close is over and its notify_all runs. *)
LEMMA NotifyAllKeepsInv ==
  ASSUME QueueInv, NotifyAll
  PROVE  QueueInv'
<1>1. pc' \in [Threads -> Locations]
  BY AwakeType DEF NotifyAll, QueueInv
<1>2. QED
  BY <1>1, ControlKeepsInv DEF NotifyAll, QueueInv, TypeOK

(* A stop request preserves the invariant whatever the thread is doing. *)
LEMMA RequestStopKeepsInv ==
  ASSUME QueueInv, NEW t \in Threads, RequestStop(t)
  PROVE  QueueInv'
<1>1. pc' \in [Threads -> Locations]
  BY AwakeType DEF RequestStop, QueueInv, TypeOK
<1>2. stopped' \in SUBSET Cancellable
  BY DEF RequestStop, QueueInv, TypeOK
<1>3. QED
  BY <1>1, <1>2, ControlKeepsInv DEF RequestStop, QueueInv, TypeOK

-----------------------------------------------------------------------------
(* The invariant *)

(* The queue is created empty, open and balanced. *)
LEMMA InitInv == Init => QueueInv
<1> SUFFICES ASSUME Init PROVE QueueInv
  OBVIOUS
<1>1. <<>> \in Seq(Nat) /\ Len(<<>>) = 0
  OBVIOUS
<1>2. TypeOK
  BY <1>1 DEF Init, TypeOK, Locations
<1>3. Bounded /\ Accounting /\ RetainsNewest /\ NothingSkipped
  BY <1>1, QueueAssumption DEF Init, Bounded, Accounting, RetainsNewest, NewestUpTo,
                               NothingSkipped
<1>4. QED
  BY <1>2, <1>3 DEF Init, QueueInv

(* Every step of the queue preserves the invariant. *)
LEMMA NextKeepsInv == QueueInv /\ [Next]_vars => QueueInv'
<1> SUFFICES ASSUME QueueInv, [Next]_vars
             PROVE  QueueInv'
  OBVIOUS
<1>1. CASE \E p \in Producers : Push(p)
  BY <1>1, PushKeepsInv
<1>2. CASE \E c \in Consumers : Pop(c)
  BY <1>2, PopKeepsInv
<1>3. CASE \E t \in Threads : Wait(t)
  BY <1>3, WaitKeepsInv
<1>4. CASE \E t \in Threads : RequestStop(t)
  BY <1>4, RequestStopKeepsInv
<1>5. CASE \E mode \in {"drain", "abort"} : Close(mode)
  BY <1>5, CloseKeepsInv
<1>6. CASE NotifyAll
  BY <1>6, NotifyAllKeepsInv
<1>7. CASE UNCHANGED vars
  BY <1>7, ControlKeepsInv DEF vars, QueueInv, TypeOK
<1>8. QED
  BY <1>1, <1>2, <1>3, <1>4, <1>5, <1>6, <1>7 DEF Next

(* The capacity, the watermark, the balance of Snapshot's counters, the gapless
   content and the lossless delivery all hold in every reachable state of a
   queue of any capacity and policy, used by any number of threads. *)
THEOREM QueueSafe == Spec => []QueueInv
<1>1. Init => QueueInv
  BY InitInv
<1>2. QueueInv /\ [Next]_vars => QueueInv'
  BY NextKeepsInv
<1>3. QED
  BY <1>1, <1>2, PTL DEF Spec

(* Type correctness, for every instance. *)
THEOREM TypeCorrect == Spec => []TypeOK
<1>1. QueueInv => TypeOK
  BY DEF QueueInv
<1>2. QED
  BY <1>1, QueueSafe, PTL

(* No overflow policy breaks the capacity, and the watermark is honest. *)
THEOREM CapacityHolds == Spec => []Bounded
<1>1. QueueInv => Bounded
  BY DEF QueueInv
<1>2. QED
  BY <1>1, QueueSafe, PTL

(* The counters of Snapshot balance. *)
THEOREM CountersBalance == Spec => []Accounting
<1>1. QueueInv => Accounting
  BY DEF QueueInv
<1>2. QED
  BY <1>1, QueueSafe, PTL

(* The queue holds the newest accepted items, in order and without a gap. *)
THEOREM KeepsTheNewest == Spec => []RetainsNewest
<1>1. QueueInv => RetainsNewest
  BY DEF QueueInv
<1>2. QED
  BY <1>1, QueueSafe, PTL

(* A lossless policy delivers every accepted item in order of acceptance. *)
THEOREM Lossless == Spec => []NothingSkipped
<1>1. QueueInv => NothingSkipped
  BY DEF QueueInv
<1>2. QED
  BY <1>1, QueueSafe, PTL

-----------------------------------------------------------------------------
(* Closing *)

(* Nothing is accepted once closed_ is set and nothing delivered or kept once
   aborted_ is set, in whatever state the threads were at that moment. *)
THEOREM ClosingHolds == Spec => ClosingIsFinal
<1> DEFINE A == /\ closed => closed' /\ pushed' = pushed
                /\ aborted => aborted' /\ popped' = popped /\ items' = <<>>
<1>1. ASSUME QueueInv, [Next]_vars PROVE A
  <2>1. aborted => closed /\ items = <<>>
    BY <1>1 DEF QueueInv
  <2>2. CASE \E p \in Producers : Push(p)
    <3>1. ~closed
      BY <2>2, <1>1 DEF Push, StartPush, PushWithSpace, PushDropNewest, PushDropOldest,
                   PushKeepLatest, PushBlock, PushAfterWait
    <3>2. QED
      BY <2>1, <3>1
  <2>3. CASE \E c \in Consumers : Pop(c)
    BY <2>1, <2>3 DEF Pop, PopWithData, PopBlock, PopAfterWait, Take, MayTake,
                      counters
  <2>4. CASE \E t \in Threads : Wait(t)
    BY <2>1, <2>4 DEF Wait, Block, WaitAgain, Expire, SpuriousWakeup, ReturnEmpty,
                      NotifyOne, OnlyPc, counters
  <2>5. CASE \E t \in Threads : RequestStop(t)
    BY <2>1, <2>5 DEF RequestStop, counters
  <2>6. CASE \E mode \in {"drain", "abort"} : Close(mode)
    BY <2>1, <2>6 DEF Close
  <2>7. CASE NotifyAll
    BY <2>1, <2>7 DEF NotifyAll, counters
  <2>8. CASE UNCHANGED vars
    BY <2>1, <2>8 DEF vars, counters
  <2>9. QED
    BY <1>1, <2>2, <2>3, <2>4, <2>5, <2>6, <2>7, <2>8 DEF Next
<1>2. QueueInv /\ [Next]_vars => [A]_vars
  BY <1>1
<1>3. QED
  BY <1>2, QueueSafe, PTL DEF Spec, ClosingIsFinal

-----------------------------------------------------------------------------
(* Refinement of the abstract channel *)

(* Insert behind what is left of the queue after `lost' items is the
   channel's Accept(lost). *)
LEMMA InsertAccepts ==
  ASSUME QueueInv, NEW p \in Producers, NEW rest \in Seq(Nat), NEW lost \in Nat,
         Insert(p, rest),
         ~closed,
         Len(rest) + 1 <= Capacity,
         Len(rest) + lost = Len(items),
         lost > 0 => policy \in {"drop_oldest", "keep_latest"}
  PROVE  Channel!Next
<1>1. /\ Len(items) \in Nat /\ Len(rest) \in Nat /\ Capacity \in Nat
      /\ Len(items) <= Capacity
      /\ lost \in 0 .. Capacity
  BY QueueAssumption DEF QueueInv, TypeOK, Bounded
<1>2. /\ pushed' = pushed + 1
      /\ Len(items') = Len(rest) + 1
      /\ UNCHANGED <<closed, aborted, lastPopped, policy>>
  BY DEF Insert, QueueInv, TypeOK
<1>3. ~aborted
  BY DEF QueueInv
<1>4. Len(items') = (Len(items) - lost) + 1
  BY <1>1, <1>2
<1>5. Channel!Accept(lost)
  BY <1>1, <1>2, <1>3, <1>4 DEF Channel!Accept
<1>6. QED
  BY <1>1, <1>5 DEF Channel!Next

(* Each branch of Push is an Accept or changes nothing the channel shows. *)
LEMMA PushImplements ==
  ASSUME QueueInv, NEW p \in Producers, Push(p)
  PROVE  [Channel!Next]_(Channel!channelVars)
<1>1. /\ items \in Seq(Nat) /\ pushed \in Nat
      /\ NewestUpTo(items, pushed)
      /\ Len(items) \in Nat /\ Len(items) <= Capacity
      /\ Capacity \in Nat \ {0}
  BY QueueAssumption DEF QueueInv, TypeOK, Bounded, RetainsNewest
<1>2. CASE PushWithSpace(p) \/ PushAfterWait(p)
  <2>1. Insert(p, items) /\ ~closed /\ ~Full
    BY <1>2 DEF PushWithSpace, PushAfterWait, StartPush
  <2>2. Len(items) + 1 <= Capacity /\ Len(items) + 0 = Len(items) /\ ~(0 > 0)
    BY <2>1, <1>1 DEF Full
  <2>3. QED
    BY <2>1, <2>2, <1>1, InsertAccepts
<1>3. CASE PushDropOldest(p)
  <2>1. Insert(p, Tail(items)) /\ ~closed /\ Full /\ policy = "drop_oldest"
    BY <1>3 DEF PushDropOldest, StartPush
  <2>2. items # <<>>
    BY <2>1, <1>1 DEF Full
  <2>3. Tail(items) \in Seq(Nat) /\ Len(Tail(items)) = Len(items) - 1
    BY <2>2, <1>1, TailNewest
  <2>4. Len(Tail(items)) + 1 <= Capacity /\ Len(Tail(items)) + 1 = Len(items)
    BY <2>3, <1>1
  <2>5. QED
    BY <2>1, <2>3, <2>4, InsertAccepts
<1>4. CASE PushKeepLatest(p)
  <2>1. Insert(p, <<>>) /\ ~closed /\ policy = "keep_latest"
    BY <1>4 DEF PushKeepLatest, StartPush
  <2>2. <<>> \in Seq(Nat) /\ Len(<<>>) = 0
    OBVIOUS
  <2>3. Len(<<>>) + 1 <= Capacity /\ Len(<<>>) + Len(items) = Len(items)
    BY <2>2, <1>1
  <2>4. QED
    BY <2>1, <2>2, <2>3, <1>1, InsertAccepts
<1>5. CASE PushDropNewest(p) \/ PushBlock(p)
  <2>1. UNCHANGED <<items, closed, aborted, pushed, lastPopped, policy>>
    BY <1>5 DEF PushDropNewest, PushBlock, counters
  <2>2. QED
    BY <2>1 DEF Channel!channelVars
<1>6. QED
  BY <1>2, <1>3, <1>4, <1>5 DEF Push

(* Taking the head is the channel's Deliver. *)
LEMMA TakeDelivers ==
  ASSUME QueueInv, NEW c \in Consumers, Take(c)
  PROVE  Channel!Next
<1>1. /\ pushed \in Nat /\ items \in Seq(Nat) /\ items # <<>>
      /\ NewestUpTo(items, pushed)
  BY DEF Take, MayTake, QueueInv, TypeOK, RetainsNewest
<1>2. /\ Len(items) \in Nat \ {0}
      /\ Len(Tail(items)) = Len(items) - 1
      /\ Head(items) \in Nat
      /\ Head(items) + Len(items) = pushed + 1
  BY <1>1, TailNewest
<1>3. /\ ~aborted
      /\ lastPopped' = Head(items)
      /\ items' = Tail(items)
      /\ UNCHANGED <<closed, aborted, pushed, policy>>
  BY DEF Take, MayTake
<1>4. Head(items) = (pushed - Len(items)) + 1
  <2> DEFINE h == Head(items)
             n == Len(items)
  <2>1. h \in Nat /\ n \in Nat /\ pushed \in Nat /\ h + n = pushed + 1
    BY <1>1, <1>2
  <2> HIDE DEF h, n
  <2>2. h = (pushed - n) + 1
    BY <2>1
  <2>3. QED
    BY <2>2 DEF h, n
<1>5. Len(items) > 0
  BY <1>2
<1>6. Channel!Deliver
  BY <1>2, <1>3, <1>4, <1>5 DEF Channel!Deliver
<1>7. QED
  BY <1>6 DEF Channel!Next

(* Close is the channel's Drain or Abort, or is ignored. *)
LEMMA CloseImplements ==
  ASSUME QueueInv, NEW mode \in {"drain", "abort"}, Close(mode)
  PROVE  [Channel!Next]_(Channel!channelVars)
<1>1. UNCHANGED <<pushed, lastPopped, policy>>
  BY DEF Close
<1>2. aborted \in BOOLEAN /\ closed \in BOOLEAN /\ (aborted => closed)
  BY DEF QueueInv, TypeOK
<1>3. CASE UNCHANGED <<items, closed, aborted>>
  BY <1>1, <1>3 DEF Channel!channelVars
<1>4. CASE closed' /\ aborted' /\ items' = <<>>
  <2>1. Len(items') = 0
    BY <1>4
  <2>2. Channel!Abort
    BY <1>1, <1>4, <2>1 DEF Channel!Abort
  <2>3. QED
    BY <2>2 DEF Channel!Next
<1>5. CASE ~closed /\ closed' /\ UNCHANGED <<items, aborted>>
  <2>1. Channel!Drain
    BY <1>1, <1>2, <1>5 DEF Channel!Drain
  <2>2. QED
    BY <2>1 DEF Channel!Next
<1>6. QED
  BY <1>2, <1>3, <1>4, <1>5 DEF Close

(* The detailed queue implements the channel, for every set of threads, every
   capacity and every policy. *)
THEOREM QueueImplementsChannel == Spec => ImplementsChannel
<1>1. Init => Channel!Init
  <2>1. Len(<<>>) = 0
    OBVIOUS
  <2>2. QED
    BY <2>1 DEF Init, Channel!Init
<1>2. QueueInv /\ [Next]_vars => [Channel!Next]_(Channel!channelVars)
  <2> SUFFICES ASSUME QueueInv, [Next]_vars
               PROVE  [Channel!Next]_(Channel!channelVars)
    OBVIOUS
  <2>1. CASE \E p \in Producers : Push(p)
    BY <2>1, PushImplements
  <2>2. CASE \E c \in Consumers : Pop(c)
    <3>1. PICK c \in Consumers : Pop(c)
      BY <2>2
    <3>2. CASE PopWithData(c) \/ PopAfterWait(c)
      BY <3>2, TakeDelivers DEF PopWithData, PopAfterWait
    <3>3. CASE PopBlock(c)
      BY <3>3 DEF PopBlock, Channel!channelVars, counters
    <3>4. QED
      BY <3>1, <3>2, <3>3 DEF Pop
  <2>3. CASE \E t \in Threads : Wait(t) \/ RequestStop(t)
    <3>1. UNCHANGED <<items, closed, aborted, pushed, lastPopped, policy>>
      BY <2>3 DEF Wait, Block, WaitAgain, Expire, SpuriousWakeup, ReturnEmpty,
                  NotifyOne, OnlyPc, RequestStop, counters
    <3>2. QED
      BY <3>1 DEF Channel!channelVars
  <2>4. CASE \E mode \in {"drain", "abort"} : Close(mode)
    BY <2>4, CloseImplements
  <2>5. CASE NotifyAll
    BY <2>5 DEF NotifyAll, Channel!channelVars, counters
  <2>6. CASE UNCHANGED vars
    BY <2>6 DEF vars, Channel!channelVars, counters
  <2>7. QED
    BY <2>1, <2>2, <2>3, <2>4, <2>5, <2>6 DEF Next
<1>3. QED
  BY <1>1, <1>2, QueueSafe, PTL DEF Spec, ImplementsChannel, Channel!Spec

-----------------------------------------------------------------------------
(* Wakeups *)

(* The threads of a side that owe the other side a notify_one, and those that
   have left their wait and will look at the queue. *)
Owing(S) == {t \in S : pc[t] = "notifying"}
Roused(S) == {t \in S : pc[t] \in {"woken", "expired"}}

(* A thread about to block found nothing to do, and keeps mutex_ until it does. *)
BlocksForCause ==
  /\ \A c \in Consumers : pc[c] = "deciding" /\ c \notin stopped => items = <<>> /\ ~closed
  /\ \A p \in Producers : pc[p] = "deciding" /\ p \notin stopped => Full /\ ~closed

(* Only a producer of a blocking queue ever waits. *)
OnlyBlockingWaits ==
  \A p \in Producers :
    pc[p] \in {"deciding", "waiting", "woken", "expired"} => policy = "block_producer"

(* Two sets that differ in one element at most differ by one at most. *)
LEMMA OneMoves ==
  ASSUME NEW A, NEW B, NEW x, IsFiniteSet(A), A \ {x} = B \ {x}
  PROVE  /\ Cardinality(A) \in Nat /\ Cardinality(B) \in Nat
         /\ Cardinality(B) + (IF x \in A THEN 1 ELSE 0)
              = Cardinality(A) + (IF x \in B THEN 1 ELSE 0)
<1> DEFINE C == A \ {x}
<1>1. IsFiniteSet(C) /\ Cardinality(C) \in Nat
  BY FS_RemoveElement, FS_CardinalityType
<1>2. /\ IsFiniteSet(C \cup {x})
      /\ Cardinality(C \cup {x}) = Cardinality(C) + 1
  BY <1>1, FS_AddElement
<1>3. A = IF x \in A THEN C \cup {x} ELSE C
  OBVIOUS
<1>4. B = IF x \in B THEN C \cup {x} ELSE C
  OBVIOUS
<1> HIDE DEF C
<1>5. Cardinality(A) = Cardinality(C) + (IF x \in A THEN 1 ELSE 0)
  <2>1. CASE x \in A
    BY <1>2, <1>3, <2>1
  <2>2. CASE x \notin A
    BY <1>1, <1>3, <2>2
  <2>3. QED
    BY <2>1, <2>2
<1>6. Cardinality(B) = Cardinality(C) + (IF x \in B THEN 1 ELSE 0)
  <2>1. CASE x \in B
    BY <1>2, <1>4, <2>1
  <2>2. CASE x \notin B
    BY <1>1, <1>4, <2>2
  <2>3. QED
    BY <2>1, <2>2
<1>7. QED
  BY <1>1, <1>5, <1>6

(* What the move of one thread changes in the counts of a side. *)
LEMMA GotoCounts ==
  ASSUME TypeOK, NEW S \in SUBSET Threads, NEW t \in Threads, NEW place \in Locations,
         Goto(t, place)
  PROVE  /\ Cardinality(Owing(S)) \in Nat /\ Cardinality(Owing(S)') \in Nat
         /\ Cardinality(Roused(S)) \in Nat /\ Cardinality(Roused(S)') \in Nat
         /\ Cardinality(Owing(S)') + (IF t \in S /\ pc[t] = "notifying" THEN 1 ELSE 0)
              = Cardinality(Owing(S)) + (IF t \in S /\ place = "notifying" THEN 1 ELSE 0)
         /\ Cardinality(Roused(S)')
              + (IF t \in S /\ pc[t] \in {"woken", "expired"} THEN 1 ELSE 0)
            = Cardinality(Roused(S))
              + (IF t \in S /\ place \in {"woken", "expired"} THEN 1 ELSE 0)
<1>1. pc' = [pc EXCEPT ![t] = place] /\ pc \in [Threads -> Locations]
  BY DEF Goto, TypeOK
<1>2. IsFiniteSet(Owing(S)) /\ IsFiniteSet(Roused(S))
  BY QueueAssumption, FS_Subset DEF QueueAssumption, Owing, Roused
<1>3. /\ Owing(S) \ {t} = Owing(S)' \ {t}
      /\ t \in Owing(S) <=> t \in S /\ pc[t] = "notifying"
      /\ t \in Owing(S)' <=> t \in S /\ place = "notifying"
  BY <1>1 DEF Owing
<1>4. /\ Roused(S) \ {t} = Roused(S)' \ {t}
      /\ t \in Roused(S) <=> t \in S /\ pc[t] \in {"woken", "expired"}
      /\ t \in Roused(S)' <=> t \in S /\ place \in {"woken", "expired"}
  BY <1>1 DEF Roused
<1>5. /\ Cardinality(Owing(S)) \in Nat /\ Cardinality(Owing(S)') \in Nat
      /\ Cardinality(Owing(S)') + (IF t \in Owing(S) THEN 1 ELSE 0)
           = Cardinality(Owing(S)) + (IF t \in Owing(S)' THEN 1 ELSE 0)
  BY <1>2, <1>3, OneMoves
<1>6. /\ Cardinality(Roused(S)) \in Nat /\ Cardinality(Roused(S)') \in Nat
      /\ Cardinality(Roused(S)') + (IF t \in Roused(S) THEN 1 ELSE 0)
           = Cardinality(Roused(S)) + (IF t \in Roused(S)' THEN 1 ELSE 0)
  BY <1>2, <1>4, OneMoves
<1>7. QED
  BY <1>3, <1>4, <1>5, <1>6

(* The two halves of NoStrandedWaiter are one claim about a side that waits, a
   side that notifies it, and the work there is for it. *)
Served(waiters, notifiers, work) ==
  stopped \cap waiters = {} /\ (\E w \in waiters : pc[w] = "waiting") =>
    broadcast \/ (~closed /\ work
                               <= Cardinality(Owing(notifiers)) + Cardinality(Roused(waiters)))

(* NoStrandedWaiter says that both sides are served. *)
LEMMA ServedIsNotStranded ==
  ASSUME TypeOK
  PROVE  NoStrandedWaiter <=> /\ Served(Consumers, Producers, Len(items))
                              /\ Served(Producers, Consumers, Capacity - Len(items))
<1>1. /\ Len(items) \in Nat /\ Capacity \in Nat
      /\ Cardinality(Owing(Consumers)) \in Nat /\ Cardinality(Roused(Producers)) \in Nat
  <2>1. IsFiniteSet(Owing(Consumers)) /\ IsFiniteSet(Roused(Producers))
    BY QueueAssumption, FS_Subset DEF QueueAssumption, Owing, Roused, Threads
  <2>2. QED
    BY <2>1, QueueAssumption, FS_CardinalityType DEF QueueAssumption, TypeOK
<1>2. Capacity - Len(items) <= Cardinality(Owing(Consumers)) + Cardinality(Roused(Producers))
      <=> Capacity <= Len(items) + Cardinality(Owing(Consumers)) + Cardinality(Roused(Producers))
  BY <1>1
<1>3. QED
  BY <1>2 DEF NoStrandedWaiter, NoStrandedConsumer, NoStrandedProducer, Served, Owing, Roused

(* The inductive strengthening of NoStrandedWaiter. *)
WakeupInv ==
  /\ BlocksForCause /\ OnlyBlockingWaits
  /\ Served(Consumers, Producers, Len(items))
  /\ Served(Producers, Consumers, Capacity - Len(items))

(* Moves of one thread that touch neither the queue nor the tokens. *)
LEMMA WaitKeepsWakeups ==
  ASSUME QueueInv, WakeupInv, NEW t \in Threads,
         \/ Block(t) \/ WaitAgain(t) \/ Expire(t) \/ SpuriousWakeup(t) \/ ReturnEmpty(t)
         \/ (t \in Producers /\ PushBlock(t)) \/ (t \in Consumers /\ PopBlock(t))
  PROVE  WakeupInv'
<1>1. UNCHANGED <<items, closed, aborted, stopped, broadcast, policy>>
  BY DEF Block, WaitAgain, Expire, SpuriousWakeup, ReturnEmpty, PushBlock, PopBlock, OnlyPc
<1>2. PICK place \in Locations \ {"notifying"} : Goto(t, place)
  BY DEF Block, WaitAgain, Expire, SpuriousWakeup, ReturnEmpty, PushBlock, PopBlock, Locations
<1>3. /\ pc \in [Threads -> Locations] /\ pc' = [pc EXCEPT ![t] = place]
      /\ Producers \in SUBSET Threads /\ Consumers \in SUBSET Threads
      /\ Producers \cap Consumers = {} /\ Threads = Producers \cup Consumers
      /\ items \in Seq(Nat) /\ Len(items) \in Nat /\ Capacity \in Nat \ {0}
      /\ TypeOK /\ (aborted => closed) /\ (items = <<>> <=> Len(items) = 0)
  BY <1>2, QueueAssumption DEF QueueInv, TypeOK, Goto, Threads, QueueAssumption
<1>4. \A S \in {Producers, Consumers} :
        /\ Cardinality(Owing(S)) \in Nat /\ Cardinality(Owing(S)') \in Nat
        /\ Cardinality(Roused(S)) \in Nat /\ Cardinality(Roused(S)') \in Nat
        /\ pc[t] # "notifying" => Cardinality(Owing(S)') = Cardinality(Owing(S))
        /\ Cardinality(Roused(S)')
             + (IF t \in S /\ pc[t] \in {"woken", "expired"} THEN 1 ELSE 0)
           = Cardinality(Roused(S))
             + (IF t \in S /\ place \in {"woken", "expired"} THEN 1 ELSE 0)
  <2> SUFFICES ASSUME NEW S \in {Producers, Consumers}
               PROVE  /\ Cardinality(Owing(S)) \in Nat /\ Cardinality(Owing(S)') \in Nat
                      /\ Cardinality(Roused(S)) \in Nat /\ Cardinality(Roused(S)') \in Nat
                      /\ pc[t] # "notifying" => Cardinality(Owing(S)') = Cardinality(Owing(S))
                      /\ Cardinality(Roused(S)')
                           + (IF t \in S /\ pc[t] \in {"woken", "expired"} THEN 1 ELSE 0)
                         = Cardinality(Roused(S))
                           + (IF t \in S /\ place \in {"woken", "expired"} THEN 1 ELSE 0)
    OBVIOUS
  <2>1. QED
    BY <1>2, <1>3, GotoCounts
<1>5. \/ pc[t] = "deciding" /\ place = "waiting"
      \/ /\ pc[t] \in {"idle", "woken"} /\ place = "deciding" /\ ~Ready(t)
         /\ t \in Producers => policy = "block_producer"
      \/ pc[t] = "waiting" /\ place \in {"woken", "expired"}
      \/ /\ pc[t] \in {"woken", "expired"} /\ place = "idle"
         /\ ~Ready(t) \/ t \in stopped \/ closed
  <2>1. CASE Block(t) \/ WaitAgain(t) \/ Expire(t) \/ SpuriousWakeup(t)
    BY <1>2, <1>3, <2>1
    DEF Block, WaitAgain, Expire, SpuriousWakeup, WakeupInv, OnlyBlockingWaits, Goto
  <2>2. CASE ReturnEmpty(t)
    BY <1>2, <1>3, <2>2 DEF ReturnEmpty, Goto
  <2>3. CASE t \in Producers /\ PushBlock(t)
    BY <1>2, <1>3, <2>3 DEF PushBlock, StartPush, Goto, Ready, SpaceOrEnd
  <2>4. CASE t \in Consumers /\ PopBlock(t)
    BY <1>2, <1>3, <2>4 DEF PopBlock, Goto, Ready
  <2>5. QED
    BY <2>1, <2>2, <2>3, <2>4
<1>6. /\ t \in Producers /\ ~Ready(t) => Full /\ ~closed /\ t \notin stopped
      /\ t \in Consumers /\ ~Ready(t) => items = <<>> /\ ~closed /\ t \notin stopped
  BY <1>3 DEF Ready, SpaceOrEnd, DataOrEnd
<1>7. BlocksForCause'
  BY <1>1, <1>3, <1>5, <1>6 DEF WakeupInv, BlocksForCause, Full
<1>8. OnlyBlockingWaits'
  BY <1>1, <1>3, <1>5 DEF WakeupInv, OnlyBlockingWaits
<1>9. Served(Consumers, Producers, Len(items))'
  <2> SUFFICES ASSUME stopped \cap Consumers = {}, NEW w \in Consumers,
                      pc'[w] = "waiting", ~broadcast
               PROVE  ~closed /\ Len(items)
                                 <= Cardinality(Owing(Producers)') + Cardinality(Roused(Consumers)')
    BY <1>1 DEF Served, Owing, Roused
  <2>1. CASE w = t /\ pc[t] = "deciding"
    BY <1>1, <1>3, <1>4, <2>1 DEF WakeupInv, BlocksForCause
  <2>2. CASE pc[w] = "waiting"
    <3>1. ~closed /\ Len(items)
                       <= Cardinality(Owing(Producers)) + Cardinality(Roused(Consumers))
      BY <2>2 DEF WakeupInv, Served
    <3>2. Cardinality(Owing(Producers)') = Cardinality(Owing(Producers))
      BY <1>4, <1>5
    <3>3. CASE t \in Consumers /\ pc[t] \in {"woken", "expired"}
      <4>1. items = <<>>
        BY <1>5, <1>6, <3>1, <3>3
      <4>2. QED
        BY <1>3, <1>4, <3>1, <4>1
    <3>4. CASE ~(t \in Consumers /\ pc[t] \in {"woken", "expired"})
      BY <1>3, <1>4, <3>1, <3>2, <3>4
    <3>5. QED
      BY <3>3, <3>4
  <2>3. QED
    BY <1>3, <1>5, <2>1, <2>2
<1>10. Served(Producers, Consumers, Capacity - Len(items))'
  <2> SUFFICES ASSUME stopped \cap Producers = {}, NEW w \in Producers,
                      pc'[w] = "waiting", ~broadcast
               PROVE  ~closed /\ Capacity - Len(items)
                                 <= Cardinality(Owing(Consumers)') + Cardinality(Roused(Producers)')
    BY <1>1 DEF Served, Owing, Roused
  <2>1. CASE w = t /\ pc[t] = "deciding"
    BY <1>1, <1>3, <1>4, <2>1 DEF WakeupInv, BlocksForCause, Full
  <2>2. CASE pc[w] = "waiting"
    <3>1. ~closed /\ Capacity - Len(items)
                       <= Cardinality(Owing(Consumers)) + Cardinality(Roused(Producers))
      BY <2>2 DEF WakeupInv, Served
    <3>2. Cardinality(Owing(Consumers)') = Cardinality(Owing(Consumers))
      BY <1>4, <1>5
    <3>3. CASE t \in Producers /\ pc[t] \in {"woken", "expired"}
      <4>1. Full
        BY <1>5, <1>6, <3>1, <3>3
      <4>2. QED
        BY <1>3, <1>4, <3>1, <4>1 DEF Full
    <3>4. CASE ~(t \in Producers /\ pc[t] \in {"woken", "expired"})
      BY <1>3, <1>4, <3>1, <3>2, <3>4
    <3>5. QED
      BY <3>3, <3>4
  <2>3. QED
    BY <1>3, <1>5, <2>1, <2>2
<1>11. QED
  BY <1>7, <1>8, <1>9, <1>10 DEF WakeupInv

(* An insertion raises the work of the consumers by one at most and owes them
   one notification more. *)
LEMMA InsertKeepsWakeups ==
  ASSUME QueueInv, WakeupInv, NEW p \in Producers, NEW rest \in Seq(Nat),
         pc[p] \in {"idle", "woken", "expired"}, MutexFree, Insert(p, rest),
         Len(rest) <= Len(items),
         policy = "block_producer" => Len(rest) = Len(items)
  PROVE  WakeupInv'
<1>1. /\ UNCHANGED <<closed, aborted, stopped, broadcast, policy>>
      /\ Len(items') = Len(rest) + 1 /\ Goto(p, "notifying")
  BY DEF Insert
<1>2. /\ pc \in [Threads -> Locations] /\ pc' = [pc EXCEPT ![p] = "notifying"]
      /\ Producers \in SUBSET Threads /\ Consumers \in SUBSET Threads
      /\ p \in Threads /\ p \notin Consumers /\ "notifying" \in Locations
      /\ Len(items) \in Nat /\ Len(rest) \in Nat /\ Capacity \in Nat \ {0}
      /\ TypeOK
  BY <1>1, QueueAssumption DEF QueueInv, TypeOK, Goto, Threads, QueueAssumption, Locations
<1>3. /\ Cardinality(Owing(Producers)) \in Nat /\ Cardinality(Owing(Producers)') \in Nat
      /\ Cardinality(Roused(Producers)) \in Nat /\ Cardinality(Roused(Producers)') \in Nat
      /\ Cardinality(Owing(Producers)') = Cardinality(Owing(Producers)) + 1
      /\ Cardinality(Roused(Producers)') + 1 >= Cardinality(Roused(Producers))
  BY <1>1, <1>2, GotoCounts
<1>4. /\ Cardinality(Owing(Consumers)) \in Nat /\ Cardinality(Roused(Consumers)) \in Nat
      /\ Cardinality(Owing(Consumers)') = Cardinality(Owing(Consumers))
      /\ Cardinality(Roused(Consumers)') = Cardinality(Roused(Consumers))
  BY <1>1, <1>2, GotoCounts
<1>5. BlocksForCause' /\ OnlyBlockingWaits'
  BY <1>1, <1>2 DEF WakeupInv, BlocksForCause, OnlyBlockingWaits, MutexFree
<1>6. Served(Consumers, Producers, Len(items))'
  <2>1. \A w \in Consumers : pc'[w] = pc[w]
    BY <1>2
  <2>2. Len(items) <= Cardinality(Owing(Producers)) + Cardinality(Roused(Consumers))
        => Len(items') <= Cardinality(Owing(Producers)') + Cardinality(Roused(Consumers)')
    BY <1>1, <1>2, <1>3, <1>4
  <2>3. QED
    BY <1>1, <2>1, <2>2 DEF WakeupInv, Served
<1>7. Served(Producers, Consumers, Capacity - Len(items))'
  <2> SUFFICES ASSUME stopped \cap Producers = {}, NEW w \in Producers, pc'[w] = "waiting",
                      ~broadcast
               PROVE  /\ ~closed
                      /\ Capacity - Len(items')
                           <= Cardinality(Owing(Consumers)') + Cardinality(Roused(Producers)')
    BY <1>1 DEF Served
  <2>1. pc[w] = "waiting" /\ policy = "block_producer"
    BY <1>2 DEF WakeupInv, OnlyBlockingWaits
  <2>2. /\ ~closed
        /\ Capacity - Len(items) <= Cardinality(Owing(Consumers)) + Cardinality(Roused(Producers))
    BY <2>1 DEF WakeupInv, Served
  <2>3. Len(items') = Len(items) + 1
    BY <1>1, <2>1
  <2>4. QED
    BY <1>2, <1>3, <1>4, <2>2, <2>3, SMTT(30)
<1>8. QED
  BY <1>5, <1>6, <1>7 DEF WakeupInv

(* Every way through Push is an insertion, a wait, or leaves the queue as it is. *)
LEMMA PushKeepsWakeups ==
  ASSUME QueueInv, WakeupInv, NEW p \in Producers, Push(p)
  PROVE  WakeupInv'
<1>1. items \in Seq(Nat) /\ Len(items) \in Nat /\ Capacity \in Nat \ {0}
  BY QueueAssumption DEF QueueInv, TypeOK, QueueAssumption
<1>2. CASE PushWithSpace(p)
  BY <1>1, <1>2, InsertKeepsWakeups DEF PushWithSpace, StartPush
<1>3. CASE PushDropNewest(p)
  <2>1. UNCHANGED <<items, closed, pc, stopped, broadcast, policy>>
    BY <1>3 DEF PushDropNewest
  <2>2. QED
    BY <2>1 DEF WakeupInv, BlocksForCause, OnlyBlockingWaits, Served, Owing, Roused, Full
<1>4. CASE PushDropOldest(p)
  <2>1. items # <<>>
    BY <1>1, <1>4 DEF PushDropOldest, Full
  <2>2. Tail(items) \in Seq(Nat) /\ Len(Tail(items)) <= Len(items)
    BY <1>1, <2>1
  <2>3. QED
    BY <1>4, <2>2, InsertKeepsWakeups DEF PushDropOldest, StartPush
<1>5. CASE PushKeepLatest(p)
  <2>1. <<>> \in Seq(Nat) /\ Len(<<>>) <= Len(items)
    BY <1>1
  <2>2. QED
    BY <1>5, <2>1, InsertKeepsWakeups DEF PushKeepLatest, StartPush
<1>6. CASE PushBlock(p)
  BY <1>6, WaitKeepsWakeups DEF Threads
<1>7. CASE PushAfterWait(p)
  BY <1>1, <1>7, InsertKeepsWakeups DEF PushAfterWait
<1>8. QED
  BY <1>2, <1>3, <1>4, <1>5, <1>6, <1>7 DEF Push

(* A consumer that takes an item frees a slot and owes a notification for it. *)
LEMMA PopKeepsWakeups ==
  ASSUME QueueInv, WakeupInv, NEW c \in Consumers, Pop(c)
  PROVE  WakeupInv'
<1>1. CASE PopBlock(c)
  BY <1>1, WaitKeepsWakeups DEF Threads
<1>2. CASE PopWithData(c) \/ PopAfterWait(c)
  <2>1. /\ UNCHANGED <<closed, aborted, stopped, broadcast, policy>>
        /\ items # <<>> /\ items' = Tail(items) /\ Goto(c, "notifying")
        /\ MutexFree /\ pc[c] \in {"idle", "woken", "expired"}
    BY <1>2 DEF PopWithData, PopAfterWait, Take, MayTake
  <2>2. /\ pc \in [Threads -> Locations] /\ pc' = [pc EXCEPT ![c] = "notifying"]
        /\ Producers \in SUBSET Threads /\ Consumers \in SUBSET Threads
        /\ c \in Threads /\ c \notin Producers /\ "notifying" \in Locations
        /\ items \in Seq(Nat) /\ Capacity \in Nat \ {0} /\ TypeOK
    BY <2>1, QueueAssumption DEF QueueInv, TypeOK, Goto, Threads, QueueAssumption, Locations
  <2>3. Len(items) \in Nat /\ Len(items') = Len(items) - 1
    BY <2>1, <2>2
  <2>4. /\ Cardinality(Owing(Consumers)) \in Nat /\ Cardinality(Owing(Consumers)') \in Nat
        /\ Cardinality(Roused(Consumers)) \in Nat /\ Cardinality(Roused(Consumers)') \in Nat
        /\ Cardinality(Owing(Consumers)') = Cardinality(Owing(Consumers)) + 1
        /\ Cardinality(Roused(Consumers)') + 1 >= Cardinality(Roused(Consumers))
    BY <2>1, <2>2, GotoCounts, SMTT(30)
  <2>5. /\ Cardinality(Owing(Producers)) \in Nat /\ Cardinality(Roused(Producers)) \in Nat
        /\ Cardinality(Owing(Producers)') = Cardinality(Owing(Producers))
        /\ Cardinality(Roused(Producers)') = Cardinality(Roused(Producers))
    BY <2>1, <2>2, GotoCounts
  <2>6. BlocksForCause' /\ OnlyBlockingWaits'
    BY <2>1, <2>2 DEF WakeupInv, BlocksForCause, OnlyBlockingWaits, MutexFree
  <2>7. Served(Consumers, Producers, Len(items))'
    BY <2>1, <2>2, <2>3, <2>4, <2>5, SMTT(30) DEF WakeupInv, Served
  <2>8. Served(Producers, Consumers, Capacity - Len(items))'
    BY <2>1, <2>2, <2>3, <2>4, <2>5, SMTT(30) DEF WakeupInv, Served
  <2>9. QED
    BY <2>6, <2>7, <2>8 DEF WakeupInv
<1>3. QED
  BY <1>1, <1>2 DEF Pop

(* A notification owed becomes a waiter that is awake, or finds nobody waiting. *)
LEMMA NotifyKeepsWakeups ==
  ASSUME QueueInv, WakeupInv, NEW t \in Threads, NotifyOne(t)
  PROVE  WakeupInv'
<1> DEFINE Others == IF t \in Producers THEN Consumers ELSE Producers
           Own == IF t \in Producers THEN Producers ELSE Consumers
           peers == {u \in Others : pc[u] = "waiting"}
<1>1. /\ UNCHANGED <<items, closed, aborted, stopped, broadcast, policy>>
      /\ pc[t] = "notifying"
      /\ IF peers = {} THEN pc' = [pc EXCEPT ![t] = "idle"]
         ELSE \E u \in peers : pc' = [pc EXCEPT ![t] = "idle", ![u] = "woken"]
  BY DEF NotifyOne, OnlyPc, Goto
<1>2. /\ pc \in [Threads -> Locations]
      /\ Own \in SUBSET Threads /\ Others \in SUBSET Threads
      /\ t \in Own /\ Own \cap Others = {}
      /\ Len(items) \in Nat /\ Capacity \in Nat /\ TypeOK
  BY QueueAssumption DEF QueueInv, TypeOK, Threads, QueueAssumption
<1>3. Threads = Own \cup Others
  BY DEF Threads
<1>4. \/ Own = Producers /\ Others = Consumers
      \/ Own = Consumers /\ Others = Producers
  OBVIOUS
<1> HIDE DEF Own, Others
<1>5. /\ BlocksForCause' /\ OnlyBlockingWaits'
      /\ \A w \in Threads : pc'[w] = "waiting" => pc[w] = "waiting"
  BY <1>1, <1>2, <1>3, <1>4 DEF WakeupInv, BlocksForCause, OnlyBlockingWaits, Full
<1>6. /\ IsFiniteSet(Owing(Own)) /\ IsFiniteSet(Roused(Own))
      /\ IsFiniteSet(Owing(Others)) /\ IsFiniteSet(Roused(Others))
  BY <1>2, QueueAssumption, FS_Subset DEF QueueAssumption, Owing, Roused
<1>7. Roused(Own)' = Roused(Own) /\ Owing(Others)' = Owing(Others)
  BY <1>1, <1>2, <1>3 DEF Roused, Owing
<1>8. ASSUME NEW work \in Int, Served(Own, Others, work)
      PROVE  Served(Own, Others, work)'
  BY <1>1, <1>2, <1>5, <1>7, <1>8 DEF Served
<1>9. ASSUME NEW work \in Int, Served(Others, Own, work)
      PROVE  (Served(Others, Own, work))'
  <2>1. CASE peers = {}
    <3>1. \A w \in Others : pc'[w] # "waiting"
      BY <1>2, <1>5, <2>1
    <3>2. QED
      BY <3>1 DEF Served
  <2>2. CASE peers # {}
    <3>1. PICK u \in peers : pc' = [pc EXCEPT ![t] = "idle", ![u] = "woken"]
      BY <1>1, <2>2
    <3>2. u \in Others /\ u # t /\ pc[u] = "waiting"
      BY <1>2, <3>1
    <3>3. /\ Owing(Own) \ {t} = Owing(Own)' \ {t}
          /\ t \in Owing(Own) /\ t \notin Owing(Own)'
      BY <1>1, <1>2, <3>1, <3>2 DEF Owing
    <3>4. /\ Roused(Others) \ {u} = Roused(Others)' \ {u}
          /\ u \notin Roused(Others) /\ u \in Roused(Others)'
      BY <1>1, <1>2, <3>1, <3>2 DEF Roused
    <3>5. /\ Cardinality(Owing(Own)) \in Nat /\ Cardinality(Owing(Own)') \in Nat
          /\ Cardinality(Owing(Own)') + 1 = Cardinality(Owing(Own))
      BY <1>6, <3>3, OneMoves
    <3>6. /\ Cardinality(Roused(Others)) \in Nat /\ Cardinality(Roused(Others)') \in Nat
          /\ Cardinality(Roused(Others)') = Cardinality(Roused(Others)) + 1
      BY <1>6, <3>4, OneMoves
    <3>7. Cardinality(Owing(Own)') + Cardinality(Roused(Others)')
            = Cardinality(Owing(Own)) + Cardinality(Roused(Others))
      BY <3>5, <3>6
    <3>8. QED
      BY <1>1, <1>2, <1>5, <1>9, <3>7 DEF Served
  <2>3. QED
    BY <2>1, <2>2
<1>10. /\ Len(items)' = Len(items) /\ (Capacity - Len(items))' = Capacity - Len(items)
       /\ Len(items) \in Int /\ Capacity - Len(items) \in Int
  BY <1>1, <1>2
<1>11. CASE Own = Producers /\ Others = Consumers
  <2>1. /\ Served(Others, Own, Len(items)) /\ Served(Own, Others, Capacity - Len(items))
    BY <1>11 DEF WakeupInv
  <2>2. /\ Served(Others, Own, Len(items))' /\ Served(Own, Others, Capacity - Len(items))'
    BY <1>8, <1>9, <1>10, <2>1 DEF Served
  <2>3. QED
    BY <1>5, <1>11, <2>2 DEF WakeupInv
<1>12. CASE Own = Consumers /\ Others = Producers
  <2>1. /\ Served(Own, Others, Len(items)) /\ Served(Others, Own, Capacity - Len(items))
    BY <1>12 DEF WakeupInv
  <2>2. /\ Served(Own, Others, Len(items))' /\ Served(Others, Own, Capacity - Len(items))'
    BY <1>8, <1>9, <1>10, <2>1 DEF Served
  <2>3. QED
    BY <1>5, <1>12, <2>2 DEF WakeupInv
<1>13. QED
  BY <1>4, <1>11, <1>12

(* Close and the stop callbacks broadcast to every waiter they concern. *)
LEMMA EndKeepsWakeups ==
  ASSUME QueueInv, WakeupInv,
         \/ \E mode \in {"drain", "abort"} : Close(mode)
         \/ NotifyAll
         \/ \E t \in Threads : RequestStop(t)
  PROVE  WakeupInv'
<1>1. /\ pc \in [Threads -> Locations] /\ Threads = Producers \cup Consumers
      /\ Producers \cap Consumers = {} /\ Cancellable \subseteq Threads
  BY QueueAssumption DEF QueueInv, TypeOK, Threads, QueueAssumption
<1>2. ASSUME NEW mode \in {"drain", "abort"}, Close(mode)
      PROVE  WakeupInv'
  <2>1. /\ UNCHANGED <<pc, stopped, policy>> /\ MutexFree
        /\ broadcast' \/ UNCHANGED <<items, closed, broadcast>>
    BY <1>2 DEF Close
  <2>2. BlocksForCause' /\ OnlyBlockingWaits'
    BY <1>1, <2>1 DEF WakeupInv, BlocksForCause, OnlyBlockingWaits, MutexFree
  <2>3. QED
    BY <2>1, <2>2 DEF WakeupInv, Served, Owing, Roused
<1>3. ASSUME NotifyAll
      PROVE  WakeupInv'
  <2>1. /\ UNCHANGED <<items, closed, stopped, policy>>
        /\ pc' = [t \in Threads |-> IF pc[t] = "waiting" THEN "woken" ELSE pc[t]]
    BY <1>3 DEF NotifyAll, Awake
  <2>2. BlocksForCause' /\ OnlyBlockingWaits' /\ \A t \in Threads : pc'[t] # "waiting"
    BY <1>1, <2>1 DEF WakeupInv, BlocksForCause, OnlyBlockingWaits, Full
  <2>3. QED
    BY <1>1, <2>2 DEF WakeupInv, Served
<1>4. ASSUME NEW t \in Threads, RequestStop(t)
      PROVE  WakeupInv'
  <2> DEFINE Own == IF t \in Producers THEN Producers ELSE Consumers
  <2>1. /\ UNCHANGED <<items, closed, broadcast, policy>>
        /\ stopped' = stopped \cup {t}
        /\ pc' \in [Threads -> Locations]
        /\ \A u \in Threads : \/ pc'[u] = pc[u]
                              \/ u \in Own /\ pc[u] = "waiting" /\ pc'[u] = "woken"
    BY <1>1, <1>4 DEF RequestStop, Awake, Locations
  <2>2. BlocksForCause' /\ OnlyBlockingWaits'
    BY <1>1, <2>1 DEF WakeupInv, BlocksForCause, OnlyBlockingWaits, Full
  <2>3. Served(Consumers, Producers, Len(items))'
    <3>1. CASE t \in Consumers
      BY <2>1, <3>1 DEF Served
    <3>2. CASE t \in Producers
      <4>1. Owing(Producers)' = Owing(Producers) /\ Roused(Consumers)' = Roused(Consumers)
        BY <1>1, <2>1, <3>2 DEF Owing, Roused
      <4>2. \A w \in Consumers : pc'[w] = pc[w]
        BY <1>1, <2>1, <3>2
      <4>3. QED
        BY <2>1, <4>1, <4>2 DEF WakeupInv, Served
    <3>3. QED
      BY <1>1, <3>1, <3>2
  <2>4. Served(Producers, Consumers, Capacity - Len(items))'
    <3>1. CASE t \in Producers
      BY <2>1, <3>1 DEF Served
    <3>2. CASE t \in Consumers
      <4>1. Owing(Consumers)' = Owing(Consumers) /\ Roused(Producers)' = Roused(Producers)
        BY <1>1, <2>1, <3>2 DEF Owing, Roused
      <4>2. \A w \in Producers : pc'[w] = pc[w]
        BY <1>1, <2>1, <3>2
      <4>3. QED
        BY <2>1, <4>1, <4>2 DEF WakeupInv, Served
    <3>3. QED
      BY <1>1, <3>1, <3>2
  <2>5. QED
    BY <2>2, <2>3, <2>4 DEF WakeupInv
<1>5. QED
  BY <1>2, <1>3, <1>4

(* Whatever the interleaving of pushes, pops, timeouts, spurious wakeups, Close
   and stop requests, no wakeup between them is lost: a side that sleeps while
   nobody of it was cancelled has no work that is not already someone's. *)
THEOREM NoWakeupIsLost == Spec => []NoStrandedWaiter
<1>1. Init => WakeupInv
  BY QueueAssumption
  DEF Init, WakeupInv, BlocksForCause, OnlyBlockingWaits, Served, Threads, QueueAssumption
<1>2. QueueInv /\ WakeupInv /\ [Next]_vars => WakeupInv'
  <2> SUFFICES ASSUME QueueInv, WakeupInv, [Next]_vars
               PROVE  WakeupInv'
    OBVIOUS
  <2>1. ASSUME NEW p \in Producers, Push(p)
        PROVE  WakeupInv'
    BY <2>1, PushKeepsWakeups
  <2>2. ASSUME NEW c \in Consumers, Pop(c)
        PROVE  WakeupInv'
    BY <2>2, PopKeepsWakeups
  <2>3. ASSUME NEW t \in Threads, Wait(t)
        PROVE  WakeupInv'
    BY <2>3, WaitKeepsWakeups, NotifyKeepsWakeups DEF Wait
  <2>4. CASE \/ \E mode \in {"drain", "abort"} : Close(mode)
             \/ NotifyAll
             \/ \E t \in Threads : RequestStop(t)
    BY <2>4, EndKeepsWakeups
  <2>5. CASE UNCHANGED vars
    BY <2>5 DEF vars, WakeupInv, BlocksForCause, OnlyBlockingWaits, Served, Owing, Roused, Full
  <2>6. QED
    BY <2>1, <2>2, <2>3, <2>4, <2>5 DEF Next
<1>3. QueueInv /\ WakeupInv => NoStrandedWaiter
  BY ServedIsNotStranded DEF QueueInv, WakeupInv
<1>4. Spec => []QueueInv
  BY QueueSafe
<1>5. QED
  BY <1>1, <1>2, <1>3, <1>4, PTL DEF Spec

=============================================================================
