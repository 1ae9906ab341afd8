------------------------- MODULE PacketRouterProofs -------------------------
(***************************************************************************)
(* Theorems about PacketRouter, for every number of sinks and encoder      *)
(* threads, every policy and every choice of what may fail: its types, its *)
(* workers and errors, and what every sink has been handed - that the      *)
(* queues are channels, that a lossless sink has written what its queue    *)
(* delivered, that a graceful stop is complete, and that a sink that       *)
(* recovered runs.                                                         *)
(***************************************************************************)
EXTENDS PacketRouter, TLAPS

-----------------------------------------------------------------------------
(* Type correctness *)

(* A record with these fields is a channel record. *)
LEMMA QueueRecord ==
  ASSUME NEW a \in Nat, NEW k \in Nat, NEW p \in Phases, NEW l \in Nat, k <= a
  PROVE  [accepted |-> a, kept |-> k, phase |-> p, last |-> l] \in Queues
BY DEF Queues

(* What Push does to a channel record keeps it one. *)
LEMMA AcceptedIsQueue ==
  ASSUME NEW s \in Sinks, NEW q \in Queues
  PROVE  Accepted(q, Overwritten(q, s)) \in Queues
<1>1. /\ Capacity[s] \in Nat \ {0} /\ q.kept \in Nat /\ q.accepted \in Nat
      /\ q.phase \in Phases /\ q.last \in Nat /\ q.kept <= q.accepted
  BY RouterAssumption DEF Queues
<1>2. Overwritten(q, s) \in Nat /\ Overwritten(q, s) <= q.kept
  BY <1>1 DEF Overwritten, Full
<1>3. /\ (q.kept - Overwritten(q, s)) + 1 \in Nat
      /\ (q.kept - Overwritten(q, s)) + 1 <= q.accepted + 1
      /\ q.accepted + 1 \in Nat
  BY <1>1, <1>2
<1>4. QED
  BY <1>1, <1>3, QueueRecord DEF Accepted

(* So does Pop of a queue that holds a packet. *)
LEMMA DeliveredIsQueue ==
  ASSUME NEW q \in Queues, q.kept > 0
  PROVE  Delivered(q) \in Queues
<1>1. /\ q.accepted \in Nat /\ q.kept \in Nat /\ q.phase \in Phases
      /\ q.kept <= q.accepted
  BY DEF Queues
<1>2. /\ q.kept - 1 \in Nat /\ (q.accepted - q.kept) + 1 \in Nat
      /\ q.kept - 1 <= q.accepted
  BY <1>1
<1>3. QED
  BY <1>1, <1>2, QueueRecord DEF Delivered

(* So does Close. *)
LEMMA ClosedIsQueue ==
  ASSUME NEW q \in Queues, NEW m
  PROVE  Closed(q, m) \in Queues
<1>1. q.accepted \in Nat /\ q.kept \in Nat /\ q.last \in Nat /\ q.kept <= q.accepted
  BY DEF Queues
<1>2. Emptied(q) \in Queues
  BY <1>1, QueueRecord DEF Emptied, Phases
<1>3. [q EXCEPT !.phase = "draining"] \in Queues
  BY DEF Queues, Phases
<1>4. QED
  BY <1>2, <1>3 DEF Closed

(* The first error is an error. *)
LEMMA FirstErrorIsError ==
  ASSUME TypeOK, NEW s \in Sinks, NEW op \in {"write", "flush", "submit"}
  PROVE  FirstError(s, op) \in Errors
BY DEF FirstError, TypeOK, Errors, NoError

(* The type invariant is inductive. *)
LEMMA SinkStepType ==
  ASSUME TypeOK, NEW s \in Sinks, SinkStep(s)
  PROVE  TypeOK'
<1> USE DEF TypeOK, Move, NotMine, submitVars, stopVars, historyVars, Places, Controls
<1>1. CASE MarkStarted(s)
  BY <1>1 DEF MarkStarted
<1>2. CASE PopPacket(s)
  <2>1. queue' \in [Sinks -> Queues]
    BY <1>2, DeliveredIsQueue DEF PopPacket
  <2>2. QED
    BY <1>2, <2>1 DEF PopPacket
<1>3. CASE LeaveLoop(s)
  BY <1>3 DEF LeaveLoop
<1>4. CASE WriteSucceeds(s)
  BY <1>4 DEF WriteSucceeds
<1>5. CASE WriteFailsRetryably(s)
  BY <1>5 DEF WriteFailsRetryably
<1>6. CASE WriteFails(s)
  BY <1>6 DEF WriteFails
<1>7. CASE StoreError(s)
  BY <1>7, FirstErrorIsError DEF StoreError
<1>8. CASE RaiseFatal(s)
  BY <1>8 DEF RaiseFatal
<1>9. CASE Isolate(s)
  <2>1. queue' \in [Sinks -> Queues]
    BY <1>9, ClosedIsQueue DEF Isolate
  <2>2. QED
    BY <1>9, <2>1 DEF Isolate
<1>10. CASE CheckAbort(s)
  BY <1>10 DEF CheckAbort
<1>11. CASE Flush(s)
  BY <1>11, FirstErrorIsError DEF Flush
<1>12. CASE CloseSink(s)
  BY <1>12 DEF CloseSink
<1>13. QED
  BY <1>1, <1>2, <1>3, <1>4, <1>5, <1>6, <1>7, <1>8, <1>9, <1>10, <1>11, <1>12
     DEF SinkStep, Write

(* The steps of Submit keep the types. *)
LEMMA SubmitStepType ==
  ASSUME TypeOK, NEW e \in Encoders, BeginSubmit(e) \/ SubmitStep(e)
  PROVE  TypeOK'
<1> USE DEF TypeOK, NotSinks, threadVars, historyVars, stopVars
<1>1. ASSUME Advance(e)
      PROVE  cursor' \in [Encoders -> 0 .. NumSinks]
  BY <1>1, RouterAssumption DEF Advance
<1>2. CASE BeginSubmit(e)
  BY <1>1, <1>2 DEF BeginSubmit
<1>3. CASE OfferAccepted(e)
  <2>1. queue' \in [Sinks -> Queues]
    BY <1>3, AcceptedIsQueue DEF OfferAccepted
  <2>2. QED
    BY <1>1, <1>3, <2>1 DEF OfferAccepted
<1>4. CASE OfferRejected(e)
  BY <1>1, <1>4, FirstErrorIsError DEF OfferRejected
<1>5. CASE OfferClosed(e)
  BY <1>1, <1>5 DEF OfferClosed
<1>6. CASE RaiseRejected(e)
  BY <1>1, <1>6 DEF RaiseRejected
<1>7. QED
  BY <1>2, <1>3, <1>4, <1>5, <1>6 DEF SubmitStep

(* So do Start and Stop. *)
LEMMA ControlStepType ==
  ASSUME TypeOK, Start \/ StopIdle \/ StopBegins \/ StopStep
  PROVE  TypeOK'
<1> USE RouterAssumption DEF TypeOK, NotControl, threadVars, historyVars, submitVars, Controls,
        Places, Sinks
<1>1. CASE Start
  BY <1>1 DEF Start
<1>2. CASE StopIdle
  BY <1>2 DEF StopIdle
<1>3. CASE StopBegins
  BY <1>3 DEF StopBegins
<1>4. CASE MarkWorker
  BY <1>4 DEF MarkWorker
<1>5. CASE CloseWorker
  <2>1. queue' \in [Sinks -> Queues]
    BY <1>5, ClosedIsQueue DEF CloseWorker
  <2>2. control' \in Controls /\ index' \in Sinks
    <3>1. index \in Sinks
      OBVIOUS
    <3>2. QED
      BY <1>5, <3>1 DEF CloseWorker
  <2>3. UNCHANGED <<config, started, fatal, error, submitVars, threadVars, historyVars, mode>>
    BY <1>5 DEF CloseWorker
  <2>4. QED
    BY <2>1, <2>2, <2>3
<1>6. CASE CancelWorker
  BY <1>6 DEF CancelWorker
<1>7. CASE JoinWorker
  BY <1>7, SMTT(30) DEF JoinWorker
<1>8. QED
  BY <1>1, <1>2, <1>3, <1>4, <1>5, <1>6, <1>7 DEF StopStep

(* The initial values have their types. *)
LEMMA InitType == Init => TypeOK
<1> SUFFICES ASSUME Init PROVE TypeOK
  OBVIOUS
<1>1. queue \in [Sinks -> Queues]
  <2>1. [accepted |-> 0, kept |-> 0, phase |-> "open", last |-> 0] \in Queues
    BY QueueRecord DEF Phases
  <2>2. QED
    BY <2>1 DEF Init
<1>2. index \in Sinks /\ cursor \in [Encoders -> 0 .. NumSinks]
  BY RouterAssumption DEF Init, Sinks
<1>3. QED
  BY <1>1, <1>2 DEF Init, TypeOK, Places, Controls, NoError

(* Every variable of the router keeps its type. *)
THEOREM TypeCorrect == Spec => []TypeOK
<1>1. Init => TypeOK
  BY InitType
<1>2. TypeOK /\ [Next]_vars => TypeOK'
  <2> SUFFICES ASSUME TypeOK, [Next]_vars
               PROVE  TypeOK'
    OBVIOUS
  <2>1. CASE UNCHANGED vars
    BY <2>1 DEF TypeOK, vars, threadVars, historyVars, submitVars, stopVars
  <2>2. CASE Stopped
    BY <2>1, <2>2 DEF Stopped
  <2>3. QED
    BY <2>1, <2>2, SinkStepType, SubmitStepType, ControlStepType DEF Next
<1>3. QED
  BY <1>1, <1>2, PTL DEF Spec

-----------------------------------------------------------------------------
(* Errors and closing *)

(* An error that is stored stays, and the error of a required sink is one a
   required sink caused. *)
LEMMA FirstErrorKeeps ==
  ASSUME NEW s \in Required, NEW op \in {"write", "flush", "submit"}, FatalHasCause
  PROVE  /\ FirstError(s, op) # NoError
         /\ FirstError(s, op).sink \in Required
         /\ error # NoError => FirstError(s, op) = error
<1>1. [sink |-> s, op |-> op] # NoError
  BY DEF NoError
<1>2. [sink |-> s, op |-> op].sink = s
  OBVIOUS
<1>3. QED
  BY <1>1, <1>2 DEF FirstError, FatalHasCause

(* A step of a sink's thread preserves the invariant. *)
LEMMA SinkStepInv ==
  ASSUME RouterInv, NEW s \in Sinks, SinkStep(s)
  PROVE  RouterInv'
<1> USE DEF NotMine, stopVars, submitVars, historyVars, Move
<1>1. TypeOK' /\ TypeOK
  BY SinkStepType DEF RouterInv
<1>2. at \in [Sinks -> Places] /\ device \in [Sinks -> {"open", "closed"}]
  BY <1>1 DEF TypeOK
<1>3. UNCHANGED <<config, control, index, raising>>
  BY DEF SinkStep, Write, MarkStarted, PopPacket, LeaveLoop, WriteSucceeds,
         WriteFailsRetryably, WriteFails, StoreError, RaiseFatal, Isolate, CheckAbort,
         Flush, CloseSink
<1>4. Required' = Required
  BY <1>3 DEF Required
<1>5. \A t \in Sinks \ {s} : at'[t] = at[t] /\ device'[t] = device[t]
  BY <1>2 DEF SinkStep, Write, MarkStarted, PopPacket, LeaveLoop, WriteSucceeds,
         WriteFailsRetryably, WriteFails, StoreError, RaiseFatal, Isolate, CheckAbort,
         Flush, CloseSink
<1>6. /\ at[s] \notin {"unborn", "done"}
      /\ at'[s] # "unborn"
      /\ at'[s] = "done" <=> device'[s] = "closed"
  <2>1. device[s] = "closed" => at[s] \in {"unborn", "done"}
    BY DEF RouterInv, ClosedSinkIsLeftAlone
  <2>2. at[s] \notin {"unborn", "done"}
    BY DEF SinkStep, Write, MarkStarted, PopPacket, LeaveLoop, WriteSucceeds,
           WriteFailsRetryably, WriteFails, StoreError, RaiseFatal, Isolate, CheckAbort,
           Flush, CloseSink
  <2>3. CASE CloseSink(s)
    BY <1>2, <2>2, <2>3 DEF CloseSink
  <2>4. CASE ~CloseSink(s)
    <3>1. device' = device /\ at'[s] \notin {"unborn", "done"}
      BY <1>2, <2>4 DEF SinkStep, Write, MarkStarted, PopPacket, LeaveLoop, WriteSucceeds,
             WriteFailsRetryably, WriteFails, StoreError, RaiseFatal, Isolate, CheckAbort,
             Flush
    <3>2. QED
      BY <2>1, <2>2, <3>1
  <2>5. QED
    BY <2>2, <2>3, <2>4
<1>7. /\ error # NoError => error' = error
      /\ error' # NoError => error'.sink \in Required
      /\ fatal' => error' # NoError
      /\ at'[s] \in {"failing", "raising"} => s \in Required
      /\ at'[s] = "raising" => error' # NoError
  <2>1. /\ FatalHasCause
        /\ at[s] \in {"failing", "raising"} => s \in Required
        /\ at[s] = "raising" => error # NoError
    BY DEF RouterInv
  <2>2. CASE WriteFails(s)
    BY <1>2, <2>1, <2>2 DEF WriteFails, FatalHasCause
  <2>3. CASE StoreError(s)
    <3>1. s \in Required
      BY <2>1, <2>3 DEF StoreError
    <3>2. QED
      BY <1>2, <2>1, <2>3, <3>1, FirstErrorKeeps DEF StoreError, FatalHasCause
  <2>4. CASE RaiseFatal(s)
    BY <1>2, <2>1, <2>4 DEF RaiseFatal, FatalHasCause
  <2>5. CASE Flush(s)
    <3>1. CASE UNCHANGED <<fatal, error>>
      BY <1>2, <2>1, <2>5, <3>1 DEF Flush, FatalHasCause
    <3>2. CASE s \in Required /\ error' = FirstError(s, "flush")
      BY <1>2, <2>1, <2>5, <3>2, FirstErrorKeeps DEF Flush
    <3>3. QED
      BY <2>5, <3>1, <3>2 DEF Flush
  <2>6. CASE ~(WriteFails(s) \/ StoreError(s) \/ RaiseFatal(s) \/ Flush(s))
    <3>1. UNCHANGED <<error, fatal>> /\ at'[s] \notin {"failing", "raising"}
      BY <1>2, <2>6 DEF SinkStep, Write, MarkStarted, PopPacket, LeaveLoop, WriteSucceeds,
             WriteFailsRetryably, Isolate, CheckAbort, CloseSink
    <3>2. QED
      BY <2>1, <3>1 DEF FatalHasCause
  <2>7. QED
    BY <2>2, <2>3, <2>4, <2>5, <2>6
<1>8. FatalHasCause'
  BY <1>4, <1>7 DEF FatalHasCause
<1>9. ClosedSinkIsLeftAlone'
  BY <1>3, <1>5, <1>6 DEF RouterInv, ClosedSinkIsLeftAlone
<1>10. (\A t \in Sinks :
          /\ at[t] \in {"failing", "raising"} => t \in Required
          /\ at[t] = "raising" => error # NoError
          /\ at[t] = "done" => device[t] = "closed"
          /\ control = "created" => at[t] = "unborn" /\ device[t] = "open"
          /\ control \in {"cancelling", "joining"} /\ t < index => at[t] = "done")'
  <2> SUFFICES ASSUME NEW t \in Sinks
               PROVE  (/\ at[t] \in {"failing", "raising"} => t \in Required
                       /\ at[t] = "raising" => error # NoError
                       /\ at[t] = "done" => device[t] = "closed"
                       /\ control = "created" => at[t] = "unborn" /\ device[t] = "open"
                       /\ control \in {"cancelling", "joining"} /\ t < index
                            => at[t] = "done")'
    OBVIOUS
  <2>1. /\ at[t] \in {"failing", "raising"} => t \in Required
        /\ at[t] = "raising" => error # NoError
        /\ at[t] = "done" => device[t] = "closed"
        /\ control = "created" => at[t] = "unborn" /\ device[t] = "open"
        /\ control \in {"cancelling", "joining"} /\ t < index => at[t] = "done"
    BY DEF RouterInv
  <2>2. CASE t = s
    BY <1>3, <1>4, <1>6, <1>7, <2>1, <2>2
  <2>3. CASE t # s
    BY <1>3, <1>4, <1>5, <1>7, <2>1, <2>3
  <2>4. QED
    BY <2>2, <2>3
<1>11. (raising # {} => error # NoError)'
  BY <1>3, <1>7 DEF RouterInv
<1>12. QED
  BY <1>1, <1>8, <1>9, <1>10, <1>11 DEF RouterInv

(* A step of Submit preserves the invariant. *)
LEMMA SubmitStepInv ==
  ASSUME RouterInv, NEW e \in Encoders, BeginSubmit(e) \/ SubmitStep(e)
  PROVE  RouterInv'
<1> USE DEF NotSinks, stopVars, threadVars, historyVars
<1>1. TypeOK' /\ TypeOK
  BY SubmitStepType DEF RouterInv
<1>2. UNCHANGED <<config, control, index, at, device>>
  BY DEF SubmitStep, BeginSubmit, OfferAccepted, OfferRejected, OfferClosed, RaiseRejected
<1>3. Required' = Required
  BY <1>2 DEF Required
<1>4. /\ error # NoError => error' = error
      /\ error' # NoError => error'.sink \in Required
      /\ fatal' => error' # NoError
      /\ raising' # {} => error' # NoError
  <2>1. FatalHasCause /\ (raising # {} => error # NoError)
    BY DEF RouterInv
  <2>2. CASE OfferRejected(e)
    <3>1. CASE cursor[e] \in Required
      BY <2>1, <2>2, <3>1, FirstErrorKeeps DEF OfferRejected
    <3>2. CASE cursor[e] \notin Required
      BY <2>1, <2>2, <3>2 DEF OfferRejected, FatalHasCause
    <3>3. QED
      BY <3>1, <3>2
  <2>3. CASE RaiseRejected(e)
    BY <2>1, <2>3 DEF RaiseRejected, FatalHasCause
  <2>4. CASE ~(OfferRejected(e) \/ RaiseRejected(e))
    <3>1. UNCHANGED <<error, fatal, raising>>
      BY <2>4 DEF SubmitStep, BeginSubmit, OfferAccepted, OfferClosed
    <3>2. QED
      BY <2>1, <3>1 DEF FatalHasCause
  <2>5. QED
    BY <2>2, <2>3, <2>4
<1>5. FatalHasCause' /\ ClosedSinkIsLeftAlone'
  BY <1>2, <1>3, <1>4 DEF RouterInv, FatalHasCause, ClosedSinkIsLeftAlone
<1>6. QED
  BY <1>1, <1>2, <1>3, <1>4, <1>5 DEF RouterInv

(* A step of Start or Stop preserves the invariant. *)
LEMMA ControlStepInv ==
  ASSUME RouterInv, Start \/ StopIdle \/ StopBegins \/ StopStep
  PROVE  RouterInv'
<1> USE DEF NotControl, submitVars, historyVars, threadVars
<1>1. TypeOK' /\ TypeOK
  BY ControlStepType DEF RouterInv
<1>2. UNCHANGED <<config, error, fatal, raising>>
  BY DEF StopStep, Start, StopIdle, StopBegins, MarkWorker, CloseWorker, CancelWorker,
         JoinWorker
<1>3. Required' = Required
  BY <1>2 DEF Required
<1>4. FatalHasCause' /\ (raising # {} => error # NoError)'
  BY <1>2, <1>3 DEF RouterInv, FatalHasCause
<1> DEFINE Rest == \A s \in Sinks :
             /\ at[s] \in {"failing", "raising"} => s \in Required
             /\ at[s] = "raising" => error # NoError
             /\ at[s] = "done" => device[s] = "closed"
             /\ control = "created" => at[s] = "unborn" /\ device[s] = "open"
             /\ control \in {"cancelling", "joining"} /\ s < index => at[s] = "done"
<1>5. ClosedSinkIsLeftAlone' /\ Rest'
  <2>1. ClosedSinkIsLeftAlone /\ Rest
    BY DEF RouterInv
  <2>2. CASE Start
    BY <1>2, <1>3, <2>1, <2>2 DEF Start, ClosedSinkIsLeftAlone
  <2>3. CASE StopIdle
    BY <1>2, <1>3, <2>1, <2>3 DEF StopIdle, ClosedSinkIsLeftAlone
  <2>4. CASE StopBegins \/ MarkWorker
    BY <1>2, <1>3, <2>1, <2>4 DEF StopBegins, MarkWorker, ClosedSinkIsLeftAlone
  <2>5. CASE CloseWorker
    <3>1. \A s \in Sinks : ~(s < 1)
      BY DEF Sinks
    <3>2. UNCHANGED <<at, device>> /\ control' \in {"marking", "cancelling"}
          /\ (control' = "cancelling" => index' = 1)
      BY <2>5 DEF CloseWorker
    <3>3. QED
      BY <1>2, <1>3, <2>1, <3>1, <3>2 DEF ClosedSinkIsLeftAlone
  <2>6. CASE CancelWorker
    BY <1>2, <1>3, <2>1, <2>6 DEF CancelWorker, ClosedSinkIsLeftAlone
  <2>7. CASE JoinWorker
    <3>1. UNCHANGED <<at, device>> /\ control = "joining" /\ at[index] = "done"
      BY <2>7 DEF JoinWorker
    <3>2. \A s \in Sinks : s < index \/ s = index => at[s] = "done"
      BY <2>1, <3>1
    <3>3. index \in Sinks /\ NumSinks \in Nat
      BY <1>1, RouterAssumption DEF TypeOK
    <3>4. CASE index < NumSinks
      <4>1. control' = "cancelling" /\ index' = index + 1
        BY <2>7, <3>4 DEF JoinWorker
      <4>2. \A s \in Sinks : s < index + 1 => s < index \/ s = index
        BY <3>3 DEF Sinks
      <4>3. QED
        BY <1>2, <1>3, <2>1, <3>1, <3>2, <4>1, <4>2 DEF ClosedSinkIsLeftAlone
    <3>5. CASE ~(index < NumSinks)
      <4>1. control' = "stopped"
        BY <2>7, <3>5 DEF JoinWorker
      <4>2. \A s \in Sinks : s < index \/ s = index
        BY <3>3, <3>5 DEF Sinks
      <4>3. \A s \in Sinks : device[s] = "closed"
        BY <2>1, <3>2, <4>2
      <4>4. QED
        BY <1>2, <1>3, <2>1, <3>1, <4>1, <4>3 DEF ClosedSinkIsLeftAlone
    <3>6. QED
      BY <3>4, <3>5
  <2>8. QED
    BY <2>2, <2>3, <2>4, <2>5, <2>6, <2>7 DEF StopStep
<1>6. QED
  BY <1>1, <1>4, <1>5 DEF RouterInv

(* Every step of the router preserves the invariant. *)
LEMMA NextKeepsRouterInv == RouterInv /\ [Next]_vars => RouterInv'
<1> SUFFICES ASSUME RouterInv, [Next]_vars
             PROVE  RouterInv'
  OBVIOUS
<1>1. CASE UNCHANGED vars
  <2>1. TypeOK'
    BY <1>1 DEF RouterInv, TypeOK, vars, threadVars, historyVars, submitVars, stopVars
  <2>2. UNCHANGED <<config, fatal, error, at, device, control, index, raising>>
    BY <1>1 DEF vars, threadVars, submitVars, stopVars
  <2>3. Required' = Required
    BY <2>2 DEF Required
  <2>4. QED
    BY <2>1, <2>2, <2>3 DEF RouterInv, FatalHasCause, ClosedSinkIsLeftAlone
<1>2. CASE Stopped
  BY <1>1, <1>2 DEF Stopped
<1>3. QED
  BY <1>1, <1>2, SinkStepInv, SubmitStepInv, ControlStepInv DEF Next

(* Whatever fails, and in whatever order the threads of any number of sinks and
   encoders interleave: a raised flag has a required sink's error behind it, no
   sink is used after its Close, and Stop leaves none open. *)
THEOREM RouterSafe == Spec => []RouterInv
<1>1. Init => RouterInv
  <2> SUFFICES ASSUME Init PROVE RouterInv
    OBVIOUS
  <2>1. TypeOK
    BY InitType
  <2>2. QED
    BY <2>1 DEF Init, RouterInv, FatalHasCause, ClosedSinkIsLeftAlone
<1>2. QED
  BY <1>1, NextKeepsRouterInv, PTL DEF Spec

(* The error the monitor finds is always there, and a required sink's. *)
THEOREM FlagImpliesError == Spec => []FatalHasCause
<1>1. RouterInv => FatalHasCause
  BY DEF RouterInv
<1>2. QED
  BY <1>1, RouterSafe, PTL

(* No Write or Flush after Close, and no sink open after Stop. *)
THEOREM SinksAreClosedOnce == Spec => []ClosedSinkIsLeftAlone
<1>1. RouterInv => ClosedSinkIsLeftAlone
  BY DEF RouterInv
<1>2. QED
  BY <1>1, RouterSafe, PTL

(* The first error is never replaced and the flag never lowered, whichever
   thread fails next. *)
THEOREM FirstErrorKept == Spec => FirstErrorSticks
<1> DEFINE A == /\ error # NoError => error' = error
                /\ fatal => fatal'
<1>1. ASSUME [Next]_vars PROVE A
  <2> USE DEF FirstError
  <2>1. ASSUME NEW s \in Sinks, SinkStep(s) PROVE A
    BY <2>1 DEF SinkStep, Write, MarkStarted, PopPacket, LeaveLoop, WriteSucceeds,
                WriteFailsRetryably, WriteFails, StoreError, RaiseFatal, Isolate,
                CheckAbort, Flush, CloseSink
  <2>2. ASSUME NEW e \in Encoders, BeginSubmit(e) \/ SubmitStep(e) PROVE A
    BY <2>2 DEF SubmitStep, BeginSubmit, OfferAccepted, OfferRejected, OfferClosed,
                RaiseRejected
  <2>3. CASE Start \/ StopIdle \/ StopBegins \/ StopStep
    BY <2>3 DEF StopStep, Start, StopIdle, StopBegins, MarkWorker, CloseWorker,
                CancelWorker, JoinWorker, NotControl
  <2>4. CASE UNCHANGED vars
    BY <2>4 DEF vars
  <2>5. CASE Stopped
    BY <2>4, <2>5 DEF Stopped
  <2>6. QED
    BY <1>1, <2>1, <2>2, <2>3, <2>4, <2>5 DEF Next
<1>2. [Next]_vars => [A]_vars
  BY <1>1
<1>3. QED
  BY <1>2, PTL DEF Spec, FirstErrorSticks

-----------------------------------------------------------------------------
(* What every sink has been handed *)

(* The sink's policy discards nothing and its writes have not failed. *)
Lossless(s) ==
  /\ config[s].policy \in {"block_producer", "drop_newest"}
  /\ ~broken[s]
  /\ ~config[s].reconnects

(* Nothing has made the sink discard its queue. *)
Intact(s) == ~broken[s] /\ mode # "abort"

(* The queue holds at most its capacity, and when it has nothing left the
   newest accepted packet was delivered. *)
QueueKept(s) ==
  /\ queue[s].kept <= Capacity[s]
  /\ queue[s].phase # "aborted" /\ queue[s].kept = 0 => queue[s].last = queue[s].accepted

(* The health of a sink follows the place of its thread. *)
HealthFollows(s) ==
  /\ at[s] \in {"loop", "writing"} => health[s] \in {"running", "degraded"}
  /\ at[s] = "loop" /\ lastWrite[s] = "ok" => health[s] = "running"
  /\ at[s] = "done" => health[s] \in {"stopped", "degraded"}

(* A lossless sink has all that was accepted, but for what is queued and what
   it is writing. *)
NothingIsSkipped(s) ==
  Lossless(s) =>
    /\ queue[s].last = written[s] + (IF at[s] = "writing" THEN 1 ELSE 0)
    /\ queue[s].phase # "aborted" => queue[s].last + queue[s].kept = queue[s].accepted

(* The thread of an intact sink leaves its loop only when its queue is drained,
   and flushes before it closes. *)
LeavesWhenDrained(s) ==
  /\ at[s] \in {"failing", "raising", "isolating"} => broken[s]
  /\ Intact(s) =>
       /\ queue[s].phase # "aborted"
       /\ ~abortRequested[s]
       /\ ~stopRequested[s]
       /\ at[s] \in {"leaving", "flushing", "closing", "done"} =>
            queue[s].phase = "draining" /\ queue[s].kept = 0
       /\ at[s] \in {"closing", "done"} => flushed[s]

Delivery(s) == QueueKept(s) /\ HealthFollows(s) /\ NothingIsSkipped(s) /\ LeavesWhenDrained(s)

(* The mode is chosen once, by the Stop of a router whose threads run. *)
ModeIsChosen ==
  /\ control \in {"created", "running"} => mode = "none"
  /\ control \in {"marking", "closing", "cancelling", "joining"} => mode \in {"drain", "abort"}
  /\ control = "running" \/ mode # "none" => \A s \in Sinks : at[s] # "unborn"

DeliveryInv == RouterInv /\ ModeIsChosen /\ \A s \in Sinks : Delivery(s)

-----------------------------------------------------------------------------
(* Facts used by every step *)

(* The functions a thread of a sink writes have values for every sink. *)
LEMMA SinkTypes ==
  ASSUME TypeOK
  PROVE  /\ at \in [Sinks -> Places]
         /\ queue \in [Sinks -> Queues]
         /\ abortRequested \in [Sinks -> BOOLEAN]
         /\ stopRequested \in [Sinks -> BOOLEAN]
         /\ health \in [Sinks -> {"starting", "running", "degraded", "stopped"}]
         /\ flushed \in [Sinks -> BOOLEAN]
         /\ broken \in [Sinks -> BOOLEAN]
         /\ lastWrite \in [Sinks -> {"none", "ok", "retry", "failed"}]
         /\ written \in [Sinks -> Nat]
BY DEF TypeOK

(* What the counters of a queue are. *)
LEMMA QueueTypes ==
  ASSUME TypeOK, NEW s \in Sinks
  PROVE  /\ queue[s].accepted \in Nat
         /\ queue[s].kept \in Nat
         /\ queue[s].phase \in Phases
         /\ queue[s].last \in Nat
         /\ queue[s].kept <= queue[s].accepted
         /\ Capacity[s] \in Nat \ {0}
         /\ written[s] \in Nat
BY RouterAssumption DEF TypeOK, Queues

(* A step that leaves a sink's own state alone keeps its part of the invariant. *)
LEMMA DeliveryFrame ==
  ASSUME NEW s \in Sinks, Delivery(s),
         UNCHANGED <<config, mode, at[s], queue[s], abortRequested[s], stopRequested[s],
                     health[s], flushed[s], broken[s], lastWrite[s], written[s]>>
  PROVE  Delivery(s)'
BY DEF Delivery, QueueKept, HealthFollows, NothingIsSkipped, LeavesWhenDrained, Lossless,
       Intact

(* Closing a queue empties it or leaves its content alone. *)
LEMMA ClosedQueue ==
  ASSUME NEW q \in Queues, NEW m \in {"drain", "abort"}
  PROVE  /\ Closed(q, m).accepted = q.accepted
         /\ Closed(q, m).last = q.last
         /\ \/ Closed(q, m) = q
            \/ /\ m = "drain"
               /\ q.phase = "open"
               /\ Closed(q, m).phase = "draining"
               /\ Closed(q, m).kept = q.kept
            \/ /\ m = "abort"
               /\ Closed(q, m).phase = "aborted"
               /\ Closed(q, m).kept = 0
BY DEF Closed, Emptied, Queues, Phases

-----------------------------------------------------------------------------
(* The steps of a sink's thread *)

(* Such a step concerns no other sink. *)
LEMMA SinkStepFrame ==
  ASSUME TypeOK, NEW s \in Sinks, SinkStep(s)
  PROVE  /\ UNCHANGED <<config, mode, control>>
         /\ \A t \in Sinks \ {s} :
              UNCHANGED <<at[t], queue[t], abortRequested[t], stopRequested[t], health[t],
                          flushed[t], broken[t], lastWrite[t], written[t]>>
         /\ at'[s] # "unborn"
<1> USE SinkTypes DEF NotMine, stopVars, historyVars, Move
<1>1. CASE MarkStarted(s)
  BY <1>1 DEF MarkStarted
<1>2. CASE PopPacket(s)
  BY <1>2 DEF PopPacket
<1>3. CASE LeaveLoop(s)
  BY <1>3 DEF LeaveLoop
<1>4. CASE WriteSucceeds(s)
  BY <1>4 DEF WriteSucceeds
<1>5. CASE WriteFailsRetryably(s)
  BY <1>5 DEF WriteFailsRetryably
<1>6. CASE WriteFails(s)
  BY <1>6 DEF WriteFails
<1>7. CASE StoreError(s)
  BY <1>7 DEF StoreError
<1>8. CASE RaiseFatal(s)
  BY <1>8 DEF RaiseFatal
<1>9. CASE Isolate(s)
  BY <1>9 DEF Isolate
<1>10. CASE CheckAbort(s)
  BY <1>10 DEF CheckAbort
<1>11. CASE Flush(s)
  BY <1>11 DEF Flush
<1>12. CASE CloseSink(s)
  BY <1>12 DEF CloseSink
<1>13. QED
  BY <1>1, <1>2, <1>3, <1>4, <1>5, <1>6, <1>7, <1>8, <1>9, <1>10, <1>11, <1>12
     DEF SinkStep, Write

(* What a step of its thread makes of the sink's queue. *)
LEMMA SinkStepQueue ==
  ASSUME DeliveryInv, NEW s \in Sinks, SinkStep(s)
  PROVE  QueueKept(s)'
<1>1. TypeOK /\ QueueKept(s)
  BY DEF DeliveryInv, RouterInv, Delivery
<1>2. queue \in [Sinks -> Queues]
  BY <1>1, SinkTypes
<1>3. CASE PopPacket(s)
  <2>1. /\ queue'[s].accepted = queue[s].accepted
        /\ queue'[s].kept = queue[s].kept - 1
        /\ queue'[s].last = (queue[s].accepted - queue[s].kept) + 1
    BY <1>2, <1>3 DEF PopPacket, Delivered
  <2>2. QED
    BY <1>1, <2>1, QueueTypes DEF QueueKept
<1>4. CASE Isolate(s)
  <2>1. queue'[s] = Closed(queue[s], "abort")
    BY <1>2, <1>4 DEF Isolate
  <2>2. queue[s] \in Queues
    BY <1>2
  <2>3. \/ queue'[s] = queue[s]
        \/ queue'[s].phase = "aborted" /\ queue'[s].kept = 0
    BY <2>1, <2>2, ClosedQueue
  <2>4. QED
    BY <1>1, <2>3, QueueTypes DEF QueueKept
<1>5. CASE ~(PopPacket(s) \/ Isolate(s))
  <2>1. queue' = queue
    BY <1>5 DEF SinkStep, Write, MarkStarted, LeaveLoop, WriteSucceeds,
         WriteFailsRetryably, WriteFails, StoreError, RaiseFatal, CheckAbort,
         Flush, CloseSink
  <2>2. QED
    BY <1>1, <2>1 DEF QueueKept
<1>6. QED
  BY <1>3, <1>4, <1>5

(* A thread serves only what it has marked as started, and marks the end. *)
LEMMA SinkStepHealth ==
  ASSUME DeliveryInv, NEW s \in Sinks, SinkStep(s)
  PROVE  HealthFollows(s)'
<1> USE DEF Move, historyVars
<1>1. TypeOK /\ HealthFollows(s)
  BY DEF DeliveryInv, RouterInv, Delivery
<1>2. /\ at \in [Sinks -> Places]
      /\ health \in [Sinks -> {"starting", "running", "degraded", "stopped"}]
      /\ lastWrite \in [Sinks -> {"none", "ok", "retry", "failed"}]
  BY <1>1, SinkTypes
<1>3. CASE MarkStarted(s)
  BY <1>1, <1>2, <1>3 DEF MarkStarted, HealthFollows
<1>4. CASE PopPacket(s)
  BY <1>1, <1>2, <1>4 DEF PopPacket, HealthFollows
<1>5. CASE WriteSucceeds(s)
  BY <1>1, <1>2, <1>5 DEF WriteSucceeds, HealthFollows
<1>6. CASE WriteFailsRetryably(s)
  BY <1>1, <1>2, <1>6 DEF WriteFailsRetryably, HealthFollows
<1>7. CASE CloseSink(s)
  BY <1>1, <1>2, <1>7 DEF CloseSink, HealthFollows
<1>8. CASE LeaveLoop(s) \/ WriteFails(s) \/ StoreError(s) \/ RaiseFatal(s) \/ Isolate(s)
             \/ CheckAbort(s) \/ Flush(s)
  <2>1. at'[s] \notin {"loop", "writing", "done"}
    BY <1>2, <1>8 DEF LeaveLoop, WriteFails, StoreError, RaiseFatal, Isolate, CheckAbort, Flush
  <2>2. QED
    BY <2>1 DEF HealthFollows
<1>9. QED
  BY <1>3, <1>4, <1>5, <1>6, <1>7, <1>8 DEF SinkStep, Write

(* A lossless sink is handed the packet after the one it wrote last. *)
LEMMA SinkStepLossless ==
  ASSUME DeliveryInv, NEW s \in Sinks, SinkStep(s)
  PROVE  NothingIsSkipped(s)'
<1> SUFFICES ASSUME Lossless(s)'
             PROVE  (/\ queue[s].last = written[s] + (IF at[s] = "writing" THEN 1 ELSE 0)
                     /\ queue[s].phase # "aborted" =>
                          queue[s].last + queue[s].kept = queue[s].accepted)'
  BY DEF NothingIsSkipped
<1> USE DEF Move, historyVars
<1>1. TypeOK /\ NothingIsSkipped(s)
  BY DEF DeliveryInv, RouterInv, Delivery
<1>2. /\ at \in [Sinks -> Places]
      /\ queue \in [Sinks -> Queues]
      /\ broken \in [Sinks -> BOOLEAN]
      /\ written \in [Sinks -> Nat]
  BY <1>1, SinkTypes
<1>3. config' = config
  BY <1>1, SinkStepFrame
<1>4. broken'[s] = broken[s] \/ broken'[s]
  BY <1>2 DEF SinkStep, Write, MarkStarted, PopPacket, LeaveLoop, WriteSucceeds,
       WriteFailsRetryably, WriteFails, StoreError, RaiseFatal, Isolate, CheckAbort, Flush,
       CloseSink
<1>5. Lossless(s)
  BY <1>2, <1>3, <1>4 DEF Lossless
<1>6. /\ queue[s].last = written[s] + (IF at[s] = "writing" THEN 1 ELSE 0)
      /\ queue[s].phase # "aborted" => queue[s].last + queue[s].kept = queue[s].accepted
  BY <1>1, <1>5 DEF NothingIsSkipped
<1>7. CASE PopPacket(s)
  <2>1. /\ queue'[s].accepted = queue[s].accepted
        /\ queue'[s].kept = queue[s].kept - 1
        /\ queue'[s].last = (queue[s].accepted - queue[s].kept) + 1
        /\ queue[s].phase # "aborted"
    BY <1>2, <1>7 DEF PopPacket, Delivered
  <2>2. at[s] = "loop" /\ at'[s] = "writing" /\ written' = written
    BY <1>2, <1>7 DEF PopPacket
  <2>3. QED
    BY <1>1, <1>6, <2>1, <2>2, QueueTypes
<1>8. CASE WriteSucceeds(s)
  <2>1. /\ at[s] = "writing" /\ at'[s] = "loop"
        /\ written'[s] = written[s] + 1 /\ queue' = queue
        /\ written[s] \in Nat
    BY <1>2, <1>8 DEF WriteSucceeds
  <2>2. QED
    BY <1>6, <2>1
<1>9. CASE WriteFailsRetryably(s)
  BY <1>5, <1>9 DEF WriteFailsRetryably, Lossless
<1>10. CASE WriteFails(s)
  <2>1. broken'[s]
    BY <1>2, <1>10 DEF WriteFails
  <2>2. QED
    BY <2>1 DEF Lossless
<1>11. CASE Isolate(s)
  <2>1. queue'[s] = Closed(queue[s], "abort") /\ written' = written
        /\ at[s] # "writing" /\ at'[s] # "writing"
    BY <1>2, <1>11 DEF Isolate
  <2>2. queue[s] \in Queues
    BY <1>2
  <2>3. /\ queue'[s].last = queue[s].last
        /\ queue'[s] = queue[s] \/ queue'[s].phase = "aborted"
    BY <2>1, <2>2, ClosedQueue
  <2>4. QED
    BY <1>6, <2>1, <2>3
<1>12. CASE MarkStarted(s) \/ LeaveLoop(s) \/ StoreError(s) \/ RaiseFatal(s)
              \/ CheckAbort(s) \/ Flush(s) \/ CloseSink(s)
  <2>1. /\ queue' = queue /\ written' = written
        /\ at[s] # "writing" /\ at'[s] # "writing"
    BY <1>2, <1>12 DEF MarkStarted, LeaveLoop, StoreError, RaiseFatal, CheckAbort, Flush,
         CloseSink
  <2>2. QED
    BY <1>6, <2>1
<1>13. QED
  BY <1>7, <1>8, <1>9, <1>10, <1>11, <1>12 DEF SinkStep, Write

(* A thread leaves its loop when its queue is drained, or has been broken or
   aborted. *)
LEMMA SinkStepLeaves ==
  ASSUME DeliveryInv, NEW s \in Sinks, SinkStep(s)
  PROVE  LeavesWhenDrained(s)'
<1> USE DEF Move, historyVars, NotMine, stopVars
<1>1. TypeOK /\ LeavesWhenDrained(s)
  BY DEF DeliveryInv, RouterInv, Delivery
<1>2. /\ at \in [Sinks -> Places]
      /\ queue \in [Sinks -> Queues]
      /\ abortRequested \in [Sinks -> BOOLEAN]
      /\ flushed \in [Sinks -> BOOLEAN]
      /\ broken \in [Sinks -> BOOLEAN]
  BY <1>1, SinkTypes
<1>3. mode' = mode
  BY <1>1, SinkStepFrame
<1>4. CASE PopPacket(s)
  <2>1. /\ queue'[s].phase = queue[s].phase
        /\ at[s] = "loop" /\ at'[s] = "writing"
        /\ UNCHANGED <<abortRequested, stopRequested, flushed, broken>>
    BY <1>2, <1>4 DEF PopPacket, Delivered
  <2>2. QED
    BY <1>1, <1>3, <2>1 DEF LeavesWhenDrained, Intact
<1>5. CASE LeaveLoop(s)
  <2>1. /\ stopRequested[s] \/ Ended(queue[s])
        /\ at'[s] = "leaving"
        /\ UNCHANGED <<queue, abortRequested, stopRequested, flushed, broken>>
    BY <1>2, <1>5 DEF LeaveLoop
  <2>2. Intact(s) => queue[s].phase = "draining" /\ queue[s].kept = 0
    BY <1>1, <2>1 DEF LeavesWhenDrained, Ended
  <2>3. QED
    BY <1>1, <1>3, <2>1, <2>2 DEF LeavesWhenDrained, Intact
<1>6. CASE WriteFails(s)
  <2>1. broken'[s]
    BY <1>2, <1>6 DEF WriteFails
  <2>2. QED
    BY <2>1 DEF LeavesWhenDrained, Intact
<1>7. CASE StoreError(s) \/ RaiseFatal(s) \/ Isolate(s)
  <2>1. broken[s] /\ broken' = broken
    BY <1>1, <1>7 DEF StoreError, RaiseFatal, Isolate, LeavesWhenDrained
  <2>2. QED
    BY <2>1 DEF LeavesWhenDrained, Intact
<1>8. CASE CheckAbort(s)
  <2>1. /\ at[s] = "leaving"
        /\ at'[s] = IF abortRequested[s] THEN "closing" ELSE "flushing"
        /\ UNCHANGED <<queue, abortRequested, stopRequested, flushed, broken>>
    BY <1>2, <1>8 DEF CheckAbort
  <2>2. QED
    BY <1>1, <1>3, <2>1 DEF LeavesWhenDrained, Intact
<1>9. CASE Flush(s)
  <2>1. /\ at[s] = "flushing" /\ at'[s] = "closing" /\ flushed'[s]
        /\ UNCHANGED <<queue, abortRequested, stopRequested, broken>>
    BY <1>2, <1>9 DEF Flush
  <2>2. QED
    BY <1>1, <1>3, <2>1 DEF LeavesWhenDrained, Intact
<1>10. CASE CloseSink(s)
  <2>1. /\ at[s] = "closing" /\ at'[s] = "done"
        /\ UNCHANGED <<queue, abortRequested, stopRequested, flushed, broken>>
    BY <1>2, <1>10 DEF CloseSink
  <2>2. QED
    BY <1>1, <1>3, <2>1 DEF LeavesWhenDrained, Intact
<1>11. CASE MarkStarted(s) \/ WriteSucceeds(s) \/ WriteFailsRetryably(s)
  <2>1. /\ at'[s] = "loop"
        /\ UNCHANGED <<queue, abortRequested, stopRequested, flushed, broken>>
    BY <1>2, <1>11 DEF MarkStarted, WriteSucceeds, WriteFailsRetryably
  <2>2. QED
    BY <1>1, <1>3, <2>1 DEF LeavesWhenDrained, Intact
<1>12. QED
  BY <1>4, <1>5, <1>6, <1>7, <1>8, <1>9, <1>10, <1>11 DEF SinkStep, Write

(* The thread of a sink preserves the invariant. *)
LEMMA SinkStepDelivery ==
  ASSUME DeliveryInv, NEW s \in Sinks, SinkStep(s)
  PROVE  DeliveryInv'
<1>1. RouterInv' /\ TypeOK
  BY SinkStepInv DEF DeliveryInv, RouterInv
<1>2. /\ UNCHANGED <<config, mode, control>>
      /\ \A t \in Sinks \ {s} :
           UNCHANGED <<at[t], queue[t], abortRequested[t], stopRequested[t], health[t],
                       flushed[t], broken[t], lastWrite[t], written[t]>>
      /\ at'[s] # "unborn"
  BY <1>1, SinkStepFrame
<1>3. ModeIsChosen'
  BY <1>2 DEF DeliveryInv, ModeIsChosen
<1>4. ASSUME NEW t \in Sinks
      PROVE  Delivery(t)'
  <2>1. CASE t = s
    BY <2>1, SinkStepQueue, SinkStepHealth, SinkStepLossless, SinkStepLeaves DEF Delivery
  <2>2. CASE t # s
    <3>1. Delivery(t)
      BY DEF DeliveryInv
    <3>2. QED
      BY <1>2, <2>2, <3>1, DeliveryFrame
  <2>3. QED
    BY <2>1, <2>2
<1>5. QED
  BY <1>1, <1>3, <1>4 DEF DeliveryInv

-----------------------------------------------------------------------------
(* The steps of Submit *)

(* A packet that is accepted leaves the queue within its capacity. *)
LEMMA AcceptedFits ==
  ASSUME TypeOK, NEW s \in Sinks, RoomFor(queue[s], s), queue[s].kept <= Capacity[s]
  PROVE  /\ Overwritten(queue[s], s) \in 0 .. queue[s].kept
         /\ Overwritten(queue[s], s) > 0 => config[s].policy \in {"drop_oldest", "keep_latest"}
         /\ (queue[s].kept - Overwritten(queue[s], s)) + 1 \in 1 .. Capacity[s]
<1>1. queue[s].kept \in Nat /\ Capacity[s] \in Nat \ {0}
  BY QueueTypes
<1>2. QED
  BY <1>1 DEF Overwritten, RoomFor, Full

(* Submit changes only the queue of the sink it is offering to. *)
LEMMA SubmitStepDelivery ==
  ASSUME DeliveryInv, NEW e \in Encoders, BeginSubmit(e) \/ SubmitStep(e)
  PROVE  DeliveryInv'
<1>1. RouterInv' /\ TypeOK
  BY SubmitStepInv DEF DeliveryInv, RouterInv
<1>2. UNCHANGED <<config, threadVars, historyVars, mode, control>>
  BY DEF SubmitStep, BeginSubmit, OfferAccepted, OfferRejected, OfferClosed, RaiseRejected,
         NotSinks, stopVars
<1>3. ModeIsChosen'
  BY <1>2 DEF DeliveryInv, ModeIsChosen, threadVars
<1>4. ASSUME NEW t \in Sinks
      PROVE  Delivery(t)'
  <2>1. Delivery(t)
    BY DEF DeliveryInv
  <2>2. CASE queue'[t] = queue[t]
    BY <1>2, <2>1, <2>2, DeliveryFrame DEF threadVars, historyVars
  <2>3. CASE queue'[t] # queue[t]
    <3>1. /\ OfferAccepted(e) /\ cursor[e] = t
      BY <1>1, <2>3, SinkTypes DEF SubmitStep, BeginSubmit, OfferAccepted, OfferRejected,
           OfferClosed, RaiseRejected
    <3>2. /\ queue[t].phase = "open"
          /\ RoomFor(queue[t], t)
          /\ queue'[t] = Accepted(queue[t], Overwritten(queue[t], t))
      BY <1>1, <3>1, SinkTypes DEF OfferAccepted
    <3> DEFINE lost == Overwritten(queue[t], t)
    <3>3. /\ lost \in 0 .. queue[t].kept
          /\ lost > 0 => config[t].policy \in {"drop_oldest", "keep_latest"}
          /\ (queue[t].kept - lost) + 1 \in 1 .. Capacity[t]
      BY <1>1, <2>1, <3>2, AcceptedFits DEF Delivery, QueueKept
    <3>4. /\ queue'[t].accepted = queue[t].accepted + 1
          /\ queue'[t].kept = (queue[t].kept - lost) + 1
          /\ queue'[t].phase = "open"
          /\ queue'[t].last = queue[t].last
      BY <3>2 DEF Accepted
    <3> HIDE DEF lost
    <3>5. QueueKept(t)'
      BY <1>1, <3>3, <3>4, QueueTypes DEF QueueKept
    <3>6. HealthFollows(t)'
      BY <1>2, <2>1 DEF Delivery, HealthFollows, threadVars, historyVars
    <3>7. NothingIsSkipped(t)'
      <4> SUFFICES ASSUME Lossless(t)'
                   PROVE  (/\ queue[t].last = written[t] + (IF at[t] = "writing" THEN 1 ELSE 0)
                           /\ queue[t].last + queue[t].kept = queue[t].accepted)'
        BY DEF NothingIsSkipped
      <4>1. Lossless(t)
        BY <1>2 DEF Lossless, historyVars
      <4>2. lost = 0
        BY <1>1, <3>3, <4>1, QueueTypes DEF Lossless
      <4>3. /\ queue[t].last = written[t] + (IF at[t] = "writing" THEN 1 ELSE 0)
            /\ queue[t].last + queue[t].kept = queue[t].accepted
        BY <2>1, <3>2, <4>1 DEF Delivery, NothingIsSkipped
      <4>4. UNCHANGED <<at, written>>
        BY <1>2 DEF threadVars, historyVars
      <4>5. QED
        BY <1>1, <3>4, <4>2, <4>3, <4>4, QueueTypes
    <3>8. LeavesWhenDrained(t)'
      BY <1>2, <2>1, <3>2, <3>4 DEF Delivery, LeavesWhenDrained, Intact, threadVars, historyVars
    <3>9. QED
      BY <3>5, <3>6, <3>7, <3>8 DEF Delivery
  <2>4. QED
    BY <2>2, <2>3
<1>5. QED
  BY <1>1, <1>3, <1>4 DEF DeliveryInv

-----------------------------------------------------------------------------
(* The steps of Start and Stop *)

(* The mode stays what Stop was called with. *)
LEMMA ControlStepMode ==
  ASSUME DeliveryInv, Start \/ StopIdle \/ StopBegins \/ StopStep
  PROVE  ModeIsChosen'
<1> USE DEF NotControl
<1>1. TypeOK /\ ModeIsChosen
  BY DEF DeliveryInv, RouterInv
<1>2. CASE Start
  BY <1>1, <1>2 DEF Start, ModeIsChosen
<1>3. CASE StopIdle
  BY <1>1, <1>3 DEF StopIdle, ModeIsChosen
<1>4. CASE StopBegins
  <2>1. mode' \in {"drain", "abort"} /\ at' = at /\ control = "running"
        /\ control' = "marking"
    BY <1>4, RouterAssumption DEF StopBegins, threadVars
  <2>2. QED
    BY <1>1, <2>1 DEF ModeIsChosen
<1>5. CASE StopStep
  <2>1. UNCHANGED <<mode, at>>
    BY <1>5 DEF StopStep, MarkWorker, CloseWorker, CancelWorker, JoinWorker, threadVars
  <2>2. control \in {"marking", "closing", "cancelling", "joining"}
        /\ control' \in {"marking", "closing", "cancelling", "joining", "stopped"}
    BY <1>5 DEF StopStep, MarkWorker, CloseWorker, CancelWorker, JoinWorker
  <2>3. QED
    BY <1>1, <2>1, <2>2 DEF ModeIsChosen
<1>6. QED
  BY <1>2, <1>3, <1>4, <1>5

(* Start and Stop preserve the invariant. *)
LEMMA ControlStepDelivery ==
  ASSUME DeliveryInv, Start \/ StopIdle \/ StopBegins \/ StopStep
  PROVE  DeliveryInv'
<1>1. RouterInv' /\ RouterInv /\ TypeOK
  BY ControlStepInv DEF DeliveryInv, RouterInv
<1>2. UNCHANGED <<config, historyVars>>
  BY DEF StopStep, Start, StopIdle, StopBegins, MarkWorker, CloseWorker, CancelWorker,
         JoinWorker, NotControl
<1>3. ASSUME NEW t \in Sinks
      PROVE  Delivery(t)'
  <2>1. Delivery(t)
    BY DEF DeliveryInv
  <2>2. CASE Start
    <3>1. at[t] = "unborn" /\ at'[t] = "created"
      BY <1>1, <2>2 DEF RouterInv, Start
    <3>2. UNCHANGED <<mode, queue, abortRequested, stopRequested, health, flushed>>
      BY <2>2 DEF Start
    <3>3. QED
      BY <1>2, <2>1, <3>1, <3>2 DEF Delivery, QueueKept, HealthFollows, NothingIsSkipped,
         LeavesWhenDrained, Lossless, Intact, historyVars
  <2>3. CASE StopIdle \/ JoinWorker
    <3>1. UNCHANGED <<mode, at, queue, abortRequested, stopRequested, health, flushed>>
      BY <2>3 DEF StopIdle, JoinWorker, threadVars
    <3>2. QED
      BY <1>2, <2>1, <3>1, DeliveryFrame DEF historyVars
  <2>4. CASE StopBegins
    <3>1. UNCHANGED <<at, queue, abortRequested, stopRequested, health, flushed>>
      BY <2>4 DEF StopBegins, threadVars
    <3>2. mode # "abort"
      BY <2>4 DEF StopBegins, DeliveryInv, ModeIsChosen
    <3>3. Intact(t)' => Intact(t)
      BY <1>2, <3>2 DEF Intact, historyVars
    <3>4. QED
      BY <1>2, <2>1, <3>1, <3>3 DEF Delivery, QueueKept, HealthFollows, NothingIsSkipped,
         LeavesWhenDrained, Lossless, historyVars
  <2>5. CASE MarkWorker
    <3>1. UNCHANGED <<mode, at, queue, stopRequested, health, flushed>>
      BY <2>5 DEF MarkWorker
    <3>2. abortRequested'[t] = abortRequested[t] \/ abortRequested'[t] = (mode = "abort")
      BY <1>1, <2>5, SinkTypes DEF MarkWorker
    <3>3. QED
      BY <1>2, <2>1, <3>1, <3>2 DEF Delivery, QueueKept, HealthFollows, NothingIsSkipped,
         LeavesWhenDrained, Lossless, Intact, historyVars
  <2>6. CASE CancelWorker
    <3>1. UNCHANGED <<mode, at, queue, abortRequested, health, flushed>>
      BY <2>6 DEF CancelWorker
    <3>2. stopRequested'[t] = stopRequested[t] \/ stopRequested'[t] = (mode = "abort")
      BY <1>1, <2>6, SinkTypes DEF CancelWorker
    <3>3. QED
      BY <1>2, <2>1, <3>1, <3>2 DEF Delivery, QueueKept, HealthFollows, NothingIsSkipped,
         LeavesWhenDrained, Lossless, Intact, historyVars
  <2>7. CASE CloseWorker
    <3>1. UNCHANGED <<mode, at, abortRequested, stopRequested, health, flushed>>
      BY <2>7 DEF CloseWorker, threadVars
    <3>2. CASE queue'[t] = queue[t]
      BY <1>2, <2>1, <3>1, <3>2, DeliveryFrame DEF historyVars
    <3>3. CASE queue'[t] # queue[t]
      <4>1. queue'[t] = Closed(queue[t], mode)
        BY <1>1, <2>7, <3>3, SinkTypes DEF CloseWorker
      <4>2. mode \in {"drain", "abort"} /\ queue[t] \in Queues
        BY <1>1, <2>7, SinkTypes DEF CloseWorker, DeliveryInv, ModeIsChosen
      <4>3. /\ queue'[t].accepted = queue[t].accepted
            /\ queue'[t].last = queue[t].last
            /\ \/ /\ mode = "drain"
                  /\ queue[t].phase = "open"
                  /\ queue'[t].phase = "draining"
                  /\ queue'[t].kept = queue[t].kept
               \/ /\ mode = "abort"
                  /\ queue'[t].phase = "aborted"
                  /\ queue'[t].kept = 0
        BY <3>3, <4>1, <4>2, ClosedQueue
      <4>4. QueueKept(t)'
        BY <1>1, <2>1, <4>3, QueueTypes DEF Delivery, QueueKept
      <4>5. HealthFollows(t)'
        BY <1>2, <2>1, <3>1 DEF Delivery, HealthFollows, historyVars
      <4>6. NothingIsSkipped(t)'
        BY <1>2, <2>1, <3>1, <4>3 DEF Delivery, NothingIsSkipped, Lossless, historyVars
      <4>7. LeavesWhenDrained(t)'
        BY <1>2, <2>1, <3>1, <4>3 DEF Delivery, LeavesWhenDrained, Intact, historyVars
      <4>8. QED
        BY <4>4, <4>5, <4>6, <4>7 DEF Delivery
    <3>4. QED
      BY <3>2, <3>3
  <2>8. QED
    BY <2>2, <2>3, <2>4, <2>5, <2>6, <2>7 DEF StopStep
<1>4. QED
  BY <1>1, <1>3, ControlStepMode DEF DeliveryInv

-----------------------------------------------------------------------------
(* The theorems *)

(* The initial states satisfy the invariant. *)
LEMMA InitDelivery == Init => DeliveryInv
<1> SUFFICES ASSUME Init PROVE DeliveryInv
  OBVIOUS
<1>1. TypeOK
  BY InitType
<1>2. RouterInv
  BY <1>1 DEF Init, RouterInv, FatalHasCause, ClosedSinkIsLeftAlone
<1>3. ModeIsChosen
  BY DEF Init, ModeIsChosen
<1>4. ASSUME NEW s \in Sinks
      PROVE  Delivery(s)
  <2>1. /\ queue[s].accepted = 0 /\ queue[s].kept = 0
        /\ queue[s].phase = "open" /\ queue[s].last = 0
        /\ at[s] = "unborn" /\ written[s] = 0
        /\ ~abortRequested[s] /\ ~stopRequested[s]
    BY DEF Init
  <2>2. QueueKept(s)
    BY <1>1, <2>1, QueueTypes DEF QueueKept
  <2>3. QED
    BY <2>1, <2>2 DEF Delivery, HealthFollows, NothingIsSkipped, LeavesWhenDrained
<1>5. QED
  BY <1>2, <1>3, <1>4 DEF DeliveryInv

(* What each sink has been handed follows from the state of its queue and the
   place of its thread, in every reachable state. *)
THEOREM DeliverySafe == Spec => []DeliveryInv
<1>1. DeliveryInv /\ [Next]_vars => DeliveryInv'
  <2> SUFFICES ASSUME DeliveryInv, [Next]_vars
               PROVE  DeliveryInv'
    OBVIOUS
  <2>1. CASE UNCHANGED vars
    <3>1. RouterInv'
      BY NextKeepsRouterInv DEF DeliveryInv
    <3>2. UNCHANGED <<config, mode, control, queue, threadVars, historyVars>>
      BY <2>1 DEF vars, stopVars
    <3>3. ModeIsChosen'
      BY <3>2 DEF DeliveryInv, ModeIsChosen, threadVars
    <3>4. ASSUME NEW s \in Sinks PROVE Delivery(s)'
      <4>1. Delivery(s)
        BY DEF DeliveryInv
      <4>2. QED
        BY <3>2, <4>1, DeliveryFrame DEF threadVars, historyVars
    <3>5. QED
      BY <3>1, <3>3, <3>4 DEF DeliveryInv
  <2>2. CASE Stopped
    BY <2>1, <2>2 DEF Stopped
  <2>3. QED
    BY <2>1, <2>2, SinkStepDelivery, SubmitStepDelivery, ControlStepDelivery DEF Next
<1>2. QED
  BY <1>1, InitDelivery, PTL DEF Spec

(* A sink that loses nothing has written exactly what its queue delivered, and
   what it has not written is still queued. *)
THEOREM LosslessWrites == Spec => []LosslessDelivery
<1>1. DeliveryInv => LosslessDelivery
  BY DEF DeliveryInv, Delivery, NothingIsSkipped, Lossless, LosslessDelivery
<1>2. QED
  BY <1>1, DeliverySafe, PTL

(* A graceful stop delivers everything to every sink that did not break, and
   flushes and closes it. *)
THEOREM DrainCompletesEverySink == Spec => []DrainIsComplete
<1>1. DeliveryInv => DrainIsComplete
  <2> SUFFICES ASSUME DeliveryInv, control = "stopped", mode = "drain",
                      NEW s \in Sinks, ~broken[s]
               PROVE  /\ queue[s].last = queue[s].accepted
                      /\ flushed[s]
                      /\ device[s] = "closed"
                      /\ health[s] \in {"stopped", "degraded"}
    BY DEF DrainIsComplete
  <2>1. device[s] = "closed" /\ at[s] = "done"
    BY DEF DeliveryInv, RouterInv, ClosedSinkIsLeftAlone, ModeIsChosen
  <2>2. Delivery(s) /\ Intact(s)
    BY DEF DeliveryInv, Intact
  <2>3. /\ queue[s].phase = "draining" /\ queue[s].kept = 0
        /\ flushed[s]
    BY <2>1, <2>2 DEF Delivery, LeavesWhenDrained
  <2>4. QED
    BY <2>1, <2>2, <2>3 DEF Delivery, QueueKept, HealthFollows
<1>2. QED
  BY <1>1, DeliverySafe, PTL

(* The write that succeeds after a reconnection ends the degraded state. *)
THEOREM RecoveryIsSeen == Spec => []RecoveredIsRunning
<1>1. DeliveryInv => RecoveredIsRunning
  BY DEF DeliveryInv, Delivery, HealthFollows, RecoveredIsRunning
<1>2. QED
  BY <1>1, DeliverySafe, PTL

(* A packet that is accepted is a step of its channel, whatever the policy. *)
LEMMA AcceptIsChannelStep ==
  ASSUME DeliveryInv, NEW s \in Sinks, NEW e \in Encoders, OfferAccepted(e), cursor[e] = s
  PROVE  Chan(s)!Next
<1>1. TypeOK /\ queue[s].kept <= Capacity[s]
  BY DEF DeliveryInv, RouterInv, Delivery, QueueKept
<1>2. /\ queue[s].phase = "open"
      /\ RoomFor(queue[s], s)
      /\ queue'[s] = Accepted(queue[s], Overwritten(queue[s], s))
      /\ config' = config
  BY <1>1, SinkTypes DEF OfferAccepted, NotSinks
<1> DEFINE lost == Overwritten(queue[s], s)
<1>3. /\ lost \in 0 .. queue[s].kept
      /\ lost > 0 => config[s].policy \in {"drop_oldest", "keep_latest"}
      /\ (queue[s].kept - lost) + 1 \in 1 .. Capacity[s]
  BY <1>1, <1>2, AcceptedFits
<1>4. /\ queue'[s].accepted = queue[s].accepted + 1
      /\ queue'[s].kept = (queue[s].kept - lost) + 1
      /\ queue'[s].phase = queue[s].phase
      /\ queue'[s].last = queue[s].last
  BY <1>2 DEF Accepted
<1> HIDE DEF lost
<1>5. lost \in 0 .. Capacity[s] /\ lost <= queue[s].kept
  BY <1>1, <1>3, QueueTypes
<1>6. queue'[s].kept <= Capacity[s]
  BY <1>1, <1>3, <1>4, QueueTypes
<1>7. Chan(s)!Accept(lost)
  BY <1>2, <1>3, <1>4, <1>5, <1>6 DEF Chan!Accept
<1>8. QED
  BY <1>5, <1>7 DEF Chan!Next

(* So is a Pop, which takes the oldest. *)
LEMMA PopIsChannelStep ==
  ASSUME DeliveryInv, NEW s \in Sinks, PopPacket(s)
  PROVE  Chan(s)!Next
<1>1. TypeOK
  BY DEF DeliveryInv, RouterInv
<1>2. /\ queue[s].phase # "aborted"
      /\ queue[s].kept > 0
      /\ queue'[s] = Delivered(queue[s])
      /\ config' = config
  BY <1>1, SinkTypes DEF PopPacket, NotMine
<1>3. Chan(s)!Deliver
  BY <1>2 DEF Chan!Deliver, Delivered
<1>4. QED
  BY <1>3 DEF Chan!Next

(* So is a Close, or it changes nothing. *)
LEMMA CloseIsChannelStep ==
  ASSUME DeliveryInv, NEW s \in Sinks, NEW m \in {"drain", "abort"},
         queue'[s] = Closed(queue[s], m), config' = config
  PROVE  [Chan(s)!Next]_(Chan(s)!channelVars)
<1>1. queue[s] \in Queues
  BY SinkTypes DEF DeliveryInv, RouterInv
<1>2. CASE queue'[s] = queue[s]
  BY <1>2 DEF Chan!channelVars
<1>3. CASE queue'[s] # queue[s]
  <2>1. /\ queue'[s].accepted = queue[s].accepted
        /\ queue'[s].last = queue[s].last
        /\ \/ /\ queue[s].phase = "open"
              /\ queue'[s].phase = "draining"
              /\ queue'[s].kept = queue[s].kept
           \/ /\ queue'[s].phase = "aborted"
              /\ queue'[s].kept = 0
    BY <1>1, <1>3, ClosedQueue
  <2>2. Chan(s)!Drain \/ Chan(s)!Abort
    BY <2>1 DEF Chan!Drain, Chan!Abort
  <2>3. QED
    BY <2>2 DEF Chan!Next
<1>4. QED
  BY <1>2, <1>3

(* The queue of every sink behaves as the channel BoundedQueue implements:
   nothing the sinks' threads, the encoders and Stop do to it overfills,
   reorders or reopens it. *)
THEOREM RouterUsesChannels == Spec => QueuesAreChannels
<1> DEFINE A == \A s \in Sinks : [Chan(s)!Next]_(Chan(s)!channelVars)
<1>1. Init => \A s \in Sinks : Chan(s)!Init
  BY DEF Init, Chan!Init
<1>2. ASSUME DeliveryInv, [Next]_vars, queue' # queue
      PROVE  A
  <2> SUFFICES ASSUME NEW s \in Sinks
               PROVE  [Chan(s)!Next]_(Chan(s)!channelVars)
    OBVIOUS
  <2>1. TypeOK
    BY <1>2 DEF DeliveryInv, RouterInv
  <2>2. config' = config
    BY <1>2, <2>1, SinkStepFrame DEF Next, BeginSubmit, SubmitStep, OfferAccepted,
       OfferRejected, OfferClosed, RaiseRejected, NotSinks, Start, StopIdle, StopBegins,
       StopStep, MarkWorker, CloseWorker, CancelWorker, JoinWorker, NotControl, Stopped, vars
  <2>3. CASE queue'[s] = queue[s]
    BY <2>2, <2>3 DEF Chan!channelVars
  <2>4. CASE queue'[s] # queue[s]
    <3>1. CASE \E t \in Sinks : SinkStep(t)
      <4>1. SinkStep(s)
        BY <2>1, <2>4, <3>1, SinkStepFrame
      <4>2. PopPacket(s) \/ Isolate(s)
        BY <1>2, <4>1 DEF SinkStep, Write, MarkStarted, LeaveLoop, WriteSucceeds,
           WriteFailsRetryably, WriteFails, StoreError, RaiseFatal, CheckAbort, Flush,
           CloseSink
      <4>3. Isolate(s) => queue'[s] = Closed(queue[s], "abort")
        BY <2>1, SinkTypes DEF Isolate
      <4>4. QED
        BY <1>2, <2>2, <4>2, <4>3, PopIsChannelStep, CloseIsChannelStep
    <3>2. CASE \E e \in Encoders : BeginSubmit(e) \/ SubmitStep(e)
      <4>1. PICK e \in Encoders : OfferAccepted(e)
        BY <1>2, <3>2 DEF SubmitStep, BeginSubmit, OfferRejected, OfferClosed, RaiseRejected
      <4>2. cursor[e] = s
        BY <2>1, <2>4, <4>1, SinkTypes DEF OfferAccepted
      <4>3. QED
        BY <1>2, <4>1, <4>2, AcceptIsChannelStep
    <3>3. CASE CloseWorker
      <4>1. queue'[s] = Closed(queue[s], mode)
        BY <2>1, <2>4, <3>3, SinkTypes DEF CloseWorker
      <4>2. mode \in {"drain", "abort"}
        BY <1>2, <3>3 DEF CloseWorker, DeliveryInv, ModeIsChosen
      <4>3. QED
        BY <1>2, <2>2, <4>1, <4>2, CloseIsChannelStep
    <3>4. QED
      BY <1>2, <3>1, <3>2, <3>3 DEF Next, Start, StopIdle, StopBegins, StopStep, MarkWorker,
         CancelWorker, JoinWorker, Stopped, vars
  <2>5. QED
    BY <2>3, <2>4
<1>3. DeliveryInv /\ [Next]_vars => [A]_queue
  BY <1>2
<1>4. QED
  BY <1>1, <1>3, DeliverySafe, PTL DEF Spec, QueuesAreChannels

=============================================================================
