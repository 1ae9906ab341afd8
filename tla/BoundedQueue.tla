---------------------------- MODULE BoundedQueue ----------------------------
(***************************************************************************)
(* BoundedQueue<T>: the fixed-capacity blocking queue every pair of        *)
(* threads of the gateway communicates through.                            *)
(*                                                                         *)
(* One step is one critical section of mutex_, or one thing the code does  *)
(* outside it: blocking on a condition variable, notify_one after the      *)
(* unlock, the two notify_all of Close, the notify_all of a stop_callback. *)
(* A thread that found its predicate false keeps mutex_ until it is        *)
(* registered as a waiter ("deciding"); request_stop takes no mutex and    *)
(* may run inside that window.                                             *)
(*                                                                         *)
(* An item is represented by its acceptance number.  A call that returns   *)
(* without an effect (closed, cancelled) leaves every variable as it is    *)
(* and is therefore not a step; the timeout counters are left out.         *)
(***************************************************************************)
EXTENDS Naturals, Sequences, FiniteSets

CONSTANTS
  Producers,     \* threads that call Push
  Consumers,     \* threads that call Pop
  Capacity,      \* capacity_
  PolicyChoices, \* policies the queue may be constructed with
  Untimed,       \* threads that pass no timeout
  Cancellable,   \* threads that pass a stop token
  MaxOffers      \* bound: no Push starts once so many items were accepted or dropped

Policies == {"block_producer", "drop_newest", "drop_oldest", "keep_latest"}
Threads == Producers \cup Consumers

ASSUME QueueAssumption ==
  /\ Producers \cap Consumers = {}
  /\ IsFiniteSet(Threads)
  /\ Capacity \in Nat \ {0}
  /\ PolicyChoices \subseteq Policies
  /\ Untimed \subseteq Threads
  /\ Cancellable \subseteq Threads
  /\ MaxOffers \in Nat

VARIABLES
  policy,       \* policy_, never assigned after the constructor
  items,        \* items_
  closed,       \* closed_
  aborted,      \* aborted_
  pushed,       \* pushed_
  popped,       \* popped_
  dropped,      \* dropped_
  highWater,    \* high_watermark_
  pc,           \* where each thread is, see Locations
  stopped,      \* threads whose stop token was requested
  broadcast,    \* Close has released mutex_ and still owes its notify_all
  refused,      \* history: items dropped on arrival
  lastPopped,   \* history: acceptance number of the item popped last
  asked         \* history: modes Close was called with

counters == <<pushed, popped, dropped, highWater, refused, lastPopped>>
vars == <<items, closed, aborted, counters, pc, stopped, broadcast, asked, policy>>

(* idle: not in a call.  deciding: predicate false, mutex_ held, about to
   block.  waiting: blocked.  woken: notified, or woken spuriously.
   expired: the timeout ended the wait.  notifying: mutex_ released, owes a
   notify_one. *)
Locations == {"idle", "deciding", "waiting", "woken", "expired", "notifying"}

MutexFree == \A t \in Threads : pc[t] # "deciding"
Goto(t, place) == pc' = [pc EXCEPT ![t] = place]
Awake(S) == [t \in Threads |-> IF t \in S /\ pc[t] = "waiting" THEN "woken" ELSE pc[t]]

FullOffByOne == Len(items) > Capacity
Full == Len(items) >= Capacity
SpaceOrEnd(p) == closed \/ p \in stopped \/ ~Full
DataOrEnd(c) == aborted \/ items # <<>> \/ closed \/ c \in stopped
Ready(t) == IF t \in Producers THEN SpaceOrEnd(t) ELSE DataOrEnd(t)

Init ==
  /\ policy \in PolicyChoices
  /\ items = <<>>
  /\ closed = FALSE
  /\ aborted = FALSE
  /\ pushed = 0 /\ popped = 0 /\ dropped = 0 /\ highWater = 0
  /\ pc = [t \in Threads |-> "idle"]
  /\ stopped = {}
  /\ broadcast = FALSE
  /\ refused = 0 /\ lastPopped = 0 /\ asked = {}

-----------------------------------------------------------------------------
(* Push *)

(* The tail of Push: append behind `rest', count, and unlock. *)
Insert(p, rest) ==
  /\ items' = Append(rest, pushed + 1)
  /\ pushed' = pushed + 1
  /\ highWater' = IF Len(items') > highWater THEN Len(items') ELSE highWater
  /\ Goto(p, "notifying")
  /\ UNCHANGED <<closed, aborted, popped, stopped, broadcast, refused, lastPopped, asked, policy>>

StartPush(p) ==
  /\ pc[p] = "idle"
  /\ MutexFree
  /\ ~closed
  /\ p \notin stopped
  /\ pushed + dropped < MaxOffers

PushWithSpace(p) ==
  /\ StartPush(p)
  /\ ~Full
  /\ Insert(p, items)
  /\ UNCHANGED dropped

PushDropNewest(p) ==
  /\ StartPush(p)
  /\ Full
  /\ policy = "drop_newest"
  /\ dropped' = dropped + 1
  /\ refused' = refused + 1
  /\ UNCHANGED <<items, closed, aborted, pushed, popped, highWater, pc, stopped,
                 broadcast, lastPopped, asked, policy>>

PushDropOldest(p) ==
  /\ StartPush(p)
  /\ Full
  /\ policy = "drop_oldest"
  /\ Insert(p, Tail(items))
  /\ dropped' = dropped + 1

PushKeepLatest(p) ==
  /\ StartPush(p)
  /\ Full
  /\ policy = "keep_latest"
  /\ Insert(p, <<>>)
  /\ dropped' = dropped + Len(items)

PushBlock(p) ==
  /\ StartPush(p)
  /\ Full
  /\ policy = "block_producer"
  /\ Goto(p, "deciding")
  /\ UNCHANGED <<items, closed, aborted, counters, stopped, broadcast, asked, policy>>

(* A producer that waited has mutex_ again and finds space: the checks of the
   stop token and of closed_ come first. *)
PushAfterWait(p) ==
  /\ pc[p] \in {"woken", "expired"}
  /\ MutexFree
  /\ ~closed
  /\ p \notin stopped
  /\ ~Full
  /\ Insert(p, items)
  /\ UNCHANGED dropped

-----------------------------------------------------------------------------
(* Pop *)

MayTakeWhileOpen(c) == items # <<>> /\ ~closed /\ c \notin stopped
MayTake(c) == items # <<>> /\ ~aborted /\ c \notin stopped

TakeSilently(c) ==
  /\ MayTake(c)
  /\ lastPopped' = Head(items)
  /\ items' = Tail(items)
  /\ popped' = popped + 1
  /\ Goto(c, "idle")
  /\ UNCHANGED <<closed, aborted, pushed, dropped, highWater, stopped, broadcast,
                 refused, asked, policy>>

Take(c) ==
  /\ MayTake(c)
  /\ lastPopped' = Head(items)
  /\ items' = Tail(items)
  /\ popped' = popped + 1
  /\ Goto(c, "notifying")
  /\ UNCHANGED <<closed, aborted, pushed, dropped, highWater, stopped, broadcast,
                 refused, asked, policy>>

PopWithData(c) ==
  /\ pc[c] = "idle"
  /\ MutexFree
  /\ Take(c)

PopBlock(c) ==
  /\ pc[c] = "idle"
  /\ MutexFree
  /\ ~DataOrEnd(c)
  /\ Goto(c, "deciding")
  /\ UNCHANGED <<items, closed, aborted, counters, stopped, broadcast, asked, policy>>

PopAfterWait(c) ==
  /\ pc[c] \in {"woken", "expired"}
  /\ MutexFree
  /\ Take(c)

-----------------------------------------------------------------------------
(* Waiting on not_full_ and not_empty_ *)

OnlyPc == UNCHANGED <<items, closed, aborted, counters, stopped, broadcast, asked, policy>>

(* wait() registers the thread as a waiter and releases mutex_ atomically. *)
Block(t) ==
  /\ pc[t] = "deciding"
  /\ Goto(t, "waiting")
  /\ OnlyPc

(* A waiter of wait() or wait_for() that wakes up to a false predicate. *)
WaitAgain(t) ==
  /\ pc[t] = "woken"
  /\ MutexFree
  /\ ~Ready(t)
  /\ Goto(t, "deciding")
  /\ OnlyPc

Expire(t) ==
  /\ pc[t] = "waiting"
  /\ t \notin Untimed
  /\ Goto(t, "expired")
  /\ OnlyPc

SpuriousWakeup(t) ==
  /\ pc[t] = "waiting"
  /\ Goto(t, "woken")
  /\ OnlyPc

(* The call ends with nothing done: kTimeout, kCancelled or kClosed. *)
ReturnEmpty(t) ==
  /\ pc[t] \in {"woken", "expired"}
  /\ MutexFree
  /\ \/ pc[t] = "expired" /\ ~Ready(t)
     \/ t \in stopped
     \/ t \in Producers /\ closed
     \/ t \in Consumers /\ aborted
     \/ t \in Consumers /\ closed /\ items = <<>>
  /\ Goto(t, "idle")
  /\ OnlyPc

(* notify_one, after the unlock: one waiter of the other side, if any. *)
NotifyOne(t) ==
  LET peers == {u \in (IF t \in Producers THEN Consumers ELSE Producers) : pc[u] = "waiting"}
  IN /\ pc[t] = "notifying"
     /\ IF peers = {} THEN Goto(t, "idle")
        ELSE \E u \in peers : pc' = [pc EXCEPT ![t] = "idle", ![u] = "woken"]
     /\ OnlyPc

-----------------------------------------------------------------------------
(* Close and cancellation *)

CloseClears(mode) ==
  /\ MutexFree
  /\ ~closed
  /\ closed' = TRUE
  /\ broadcast' = TRUE
  /\ aborted' = (mode = "abort")
  /\ dropped' = dropped + Len(items)
  /\ items' = <<>>
  /\ asked' = asked \cup {mode}
  /\ UNCHANGED <<pushed, popped, highWater, refused, lastPopped, pc, stopped, policy>>

(* Close(mode), up to the end of its critical section.  The early return is
   the code's: a queue that is closed and not aborted ignores both modes. *)
Close(mode) ==
  /\ MutexFree
  /\ asked' = asked \cup {mode}
  /\ IF closed /\ (~aborted \/ mode = "drain")
     THEN UNCHANGED <<items, closed, aborted, dropped, broadcast>>
     ELSE /\ closed' = TRUE
          /\ broadcast' = TRUE
          /\ IF mode = "abort"
             THEN /\ aborted' = TRUE
                  /\ dropped' = dropped + Len(items)
                  /\ items' = <<>>
             ELSE UNCHANGED <<items, aborted, dropped>>
  /\ UNCHANGED <<pushed, popped, highWater, refused, lastPopped, pc, stopped, policy>>

NotifyConsumersOnly ==
  /\ broadcast
  /\ broadcast' = FALSE
  /\ pc' = Awake(Consumers)
  /\ UNCHANGED <<items, closed, aborted, counters, stopped, asked, policy>>

NotifyAll ==
  /\ broadcast
  /\ broadcast' = FALSE
  /\ pc' = Awake(Threads)
  /\ UNCHANGED <<items, closed, aborted, counters, stopped, asked, policy>>

(* request_stop on the token thread t passes: the stop_callback t registered
   when it entered the call notifies every waiter of t's condition variable,
   without taking mutex_. *)
RequestStop(t) ==
  /\ t \in Cancellable \ stopped
  /\ stopped' = stopped \cup {t}
  /\ pc' = IF pc[t] = "idle" THEN pc
           ELSE Awake(IF t \in Producers THEN Producers ELSE Consumers)
  /\ UNCHANGED <<items, closed, aborted, counters, broadcast, asked, policy>>

-----------------------------------------------------------------------------

Push(p) ==
  \/ PushWithSpace(p)
  \/ PushDropNewest(p)
  \/ PushDropOldest(p)
  \/ PushKeepLatest(p)
  \/ PushBlock(p)
  \/ PushAfterWait(p)

Pop(c) ==
  \/ PopWithData(c)
  \/ PopBlock(c)
  \/ PopAfterWait(c)

Wait(t) ==
  \/ Block(t)
  \/ WaitAgain(t)
  \/ Expire(t)
  \/ SpuriousWakeup(t)
  \/ ReturnEmpty(t)
  \/ NotifyOne(t)

Next ==
  \/ \E p \in Producers : Push(p)
  \/ \E c \in Consumers : Pop(c)
  \/ \E t \in Threads : Wait(t) \/ RequestStop(t)
  \/ \E mode \in {"drain", "abort"} : Close(mode)
  \/ NotifyAll

Spec == Init /\ [][Next]_vars

(* A thread inside a call is eventually scheduled, a finite timeout eventually
   ends, and a thread that asks for mutex_ again and again obtains it.  No
   thread is obliged to start a call, and nobody is obliged to wake up
   spuriously. *)
Resume(t) ==
  \/ WaitAgain(t)
  \/ ReturnEmpty(t)
  \/ t \in Producers /\ PushAfterWait(t)
  \/ t \in Consumers /\ PopAfterWait(t)

Fairness ==
  /\ \A t \in Threads :
       /\ WF_vars(Block(t))
       /\ WF_vars(Expire(t))
       /\ WF_vars(NotifyOne(t))
       /\ SF_vars(Resume(t))
  /\ WF_vars(NotifyAll)

FairSpec == Spec /\ Fairness

(* The consumers of the gateway are loops that call Pop until it reports the
   end of the queue. *)
ConsumerLoopSpec ==
  FairSpec /\ \A c \in Consumers : SF_vars(PopWithData(c)) /\ SF_vars(PopBlock(c))

-----------------------------------------------------------------------------
(* Properties *)

(* The type invariant: counters are naturals and every thread is at one of the
   places Push and Pop have. *)
TypeOK ==
  /\ policy \in PolicyChoices
  /\ items \in Seq(Nat)
  /\ closed \in BOOLEAN
  /\ aborted \in BOOLEAN
  /\ pushed \in Nat /\ popped \in Nat /\ dropped \in Nat
  /\ highWater \in Nat /\ refused \in Nat /\ lastPopped \in Nat
  /\ pc \in [Threads -> Locations]
  /\ stopped \in SUBSET Cancellable
  /\ broadcast \in BOOLEAN
  /\ asked \in SUBSET {"drain", "abort"}

(* No branch of the overflow policies breaks the capacity, and the watermark
   the metrics report is never below the occupancy nor above the capacity. *)
Bounded ==
  /\ Len(items) <= highWater
  /\ highWater <= Capacity

(* Snapshot's counters account for every item offered: what was accepted is
   delivered, still queued, or counted as dropped by an overflow or an Abort. *)
Accounting == pushed + refused = popped + Len(items) + dropped

(* Whatever the policy discarded, and whichever producer was overtaken while it
   waited, the queue holds the newest accepted items, in order, with no gap:
   s consists of the numbers n - Len(s) + 1, ..., n. *)
NewestUpTo(s, n) == \A i \in 1 .. Len(s) : s[i] + Len(s) = n + i

RetainsNewest == NewestUpTo(items, pushed)

(* The policies that must not lose accepted items (audio, MP4) deliver them
   consecutively from the first one on. *)
NothingSkipped ==
  policy \in {"block_producer", "drop_newest"} => lastPopped = popped

(* The inductive strengthening of the four properties above: an aborted queue
   is closed and stays empty, and a lossless queue that was not aborted has
   dropped nothing but the items it refused on arrival. *)
QueueInv ==
  /\ TypeOK
  /\ Bounded
  /\ Accounting
  /\ RetainsNewest
  /\ NothingSkipped
  /\ aborted => closed /\ items = <<>>
  /\ policy \in {"block_producer", "drop_newest"} /\ ~aborted => dropped = refused

(* No wakeup is lost between Push, Pop and Close: when a consumer sleeps, the
   queued items are matched by notifications still owed or by consumers that
   are already awake.  (A consumer that is notified and cancelled at once takes
   its wakeup with it, so this is said of queues none of whose consumers was
   cancelled.) *)
NoStrandedConsumer ==
  stopped \cap Consumers = {} /\ (\E c \in Consumers : pc[c] = "waiting") =>
    \/ broadcast
    \/ /\ ~closed
       /\ Len(items) <= Cardinality({p \in Producers : pc[p] = "notifying"})
                        + Cardinality({c \in Consumers : pc[c] \in {"woken", "expired"}})

(* The same for producers that sleep on not_full_: the free slots are matched
   by notifications owed or by producers already awake. *)
NoStrandedProducer ==
  stopped \cap Producers = {} /\ (\E p \in Producers : pc[p] = "waiting") =>
    \/ broadcast
    \/ /\ ~closed
       /\ Capacity <= Len(items)
                      + Cardinality({c \in Consumers : pc[c] = "notifying"})
                      + Cardinality({p \in Producers : pc[p] \in {"woken", "expired"}})

(* No thread of either side sleeps beside work that nobody is on the way to do. *)
NoStrandedWaiter == NoStrandedConsumer /\ NoStrandedProducer

(* Close ends acceptance for good, also for a producer that was blocked when
   it ran; an Abort ends delivery for good. *)
ClosingIsFinal ==
  [][/\ closed => closed' /\ pushed' = pushed
     /\ aborted => aborted' /\ popped' = popped /\ items' = <<>>]_vars

(* Close wakes every thread blocked in Push or Pop, and none blocks again. *)
CloseReleasesWaiters ==
  closed ~> [](\A t \in Threads : pc[t] # "waiting")

(* A closed queue whose consumers keep calling Pop is emptied, unless all of
   them are cancelled first: Drain loses nothing, Abort clears it. *)
DrainCompletes == closed ~> (items = <<>> \/ Consumers \subseteq stopped)

(* The comment of Close: an Abort upgrades a Drain already issued. *)
AbortUpgradesDrain == "abort" \in asked => aborted

(* The queue implements the abstract channel. *)
Channel == INSTANCE MediaChannel WITH
  lossy <- policy \in {"drop_oldest", "keep_latest"},
  accepted <- pushed,
  kept <- Len(items),
  phase <- IF aborted THEN "aborted" ELSE IF closed THEN "draining" ELSE "open",
  last <- lastPopped

(* Every behaviour of the queue, waits and wakeups included, is one of the
   channel's: each step maps to one of its steps or to a stutter. *)
ImplementsChannel == Channel!Spec

=============================================================================
