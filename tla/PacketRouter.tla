---------------------------- MODULE PacketRouter ----------------------------
(***************************************************************************)
(* PacketRouter: the fan-out of encoded packets to independent outputs.    *)
(* Every sink has a bounded queue and a thread of its own; the encoder     *)
(* threads Submit to all the queues in the order of workers_, and one      *)
(* thread (the application's) calls Start and Stop.                        *)
(*                                                                         *)
(* A sink's queue is the channel of MediaChannel, which BoundedQueue is    *)
(* proved to implement: its content is the interval of acceptance numbers  *)
(* accepted - kept + 1 .. accepted.  A step is one access to state shared  *)
(* between threads.  The sink itself is a device whose Write and Flush may *)
(* fail; metrics and logs, which the router only writes, are left out.     *)
(***************************************************************************)
EXTENDS Naturals, FiniteSets

CONSTANTS
  NumSinks,     \* workers_.size()
  Capacity,     \* queue_capacity of each sink
  Configs,      \* the other settings the sinks may be added with
  Encoders,     \* threads that call Submit
  MaxPackets,   \* bound: packets each encoder submits
  Breakable,    \* sinks whose Write or Flush may fail for good
  Modes         \* modes Stop may be called with

Sinks == 1 .. NumSinks
Policies == {"block_producer", "drop_newest", "drop_oldest", "keep_latest"}

(* What OutputConfig says of a sink, as far as the router depends on it. *)
Settings == [required : BOOLEAN, policy : Policies, reconnects : BOOLEAN]

ASSUME RouterAssumption ==
  /\ NumSinks \in Nat \ {0}
  /\ Capacity \in [Sinks -> Nat \ {0}]
  /\ Configs \subseteq [Sinks -> Settings]
  /\ MaxPackets \in [Encoders -> Nat]
  /\ Breakable \subseteq Sinks
  /\ Modes \subseteq {"drain", "abort"}

VARIABLES
  config,         \* OutputConfig of each sink, fixed by AddSink
  started,        \* started_
  fatal,          \* fatal_
  error,          \* fatal_error_: no error, or the sink and what failed there
  queue,          \* queue of each sink
  at,             \* where each sink thread is
  abortRequested, \* abort_requested of each sink
  stopRequested,  \* stop token of each sink thread
  health,         \* WorkerHealth::state of each sink
  reported,       \* last_retryable_report_us # 0
  device,         \* each IPacketSink: open, or closed by Close
  flushed,        \* Flush of the sink was called
  broken,         \* history: a Write of the sink failed for good
  lastWrite,      \* history: outcome of the sink's latest Write
  written,        \* history: number of successful Writes
  sent,           \* packets each encoder has submitted
  cursor,         \* index of the sink each encoder is offering to, 0 outside Submit
  raising,        \* encoders that stored an error and not yet the flag
  control,        \* where the thread that calls Start and Stop is
  mode,           \* argument of Stop
  index           \* index of the worker Stop is handling

submitVars == <<sent, cursor, raising>>
stopVars == <<control, mode, index>>
historyVars == <<broken, lastWrite, written>>
threadVars == <<at, abortRequested, stopRequested, health, reported, device, flushed>>
vars == <<config, started, fatal, error, queue, threadVars, historyVars, submitVars, stopVars>>

Required == {s \in Sinks : config[s].required}

NoError == [sink |-> 0, op |-> "none"]
Errors == [sink : Sinks, op : {"write", "flush", "submit"}]

(* fatal_error_ is assigned only when it has no value. *)
FirstError(s, op) == IF error = NoError THEN [sink |-> s, op |-> op] ELSE error

Init ==
  /\ config \in Configs
  /\ started = FALSE
  /\ fatal = FALSE
  /\ error = NoError
  /\ queue = [s \in Sinks |-> [accepted |-> 0, kept |-> 0, phase |-> "open", last |-> 0]]
  /\ at = [s \in Sinks |-> "unborn"]
  /\ abortRequested = [s \in Sinks |-> FALSE]
  /\ stopRequested = [s \in Sinks |-> FALSE]
  /\ health = [s \in Sinks |-> "starting"]
  /\ reported = [s \in Sinks |-> FALSE]
  /\ device = [s \in Sinks |-> "open"]
  /\ flushed = [s \in Sinks |-> FALSE]
  /\ broken = [s \in Sinks |-> FALSE]
  /\ lastWrite = [s \in Sinks |-> "none"]
  /\ written = [s \in Sinks |-> 0]
  /\ sent = [e \in Encoders |-> 0]
  /\ cursor = [e \in Encoders |-> 0]
  /\ raising = {}
  /\ control = "created"
  /\ mode = "none"
  /\ index = 1

-----------------------------------------------------------------------------
(* The queue operations *)

Full(q, s) == q.kept >= Capacity[s]

(* Push need not wait and need not refuse. *)
RoomForAll(q, s) == TRUE
RoomFor(q, s) == Full(q, s) => config[s].policy \in {"drop_oldest", "keep_latest"}

(* Pop reports the end of the queue. *)
EndedOnceClosed(q) == q.phase # "open"
EndedByAbort(q) == q.phase = "aborted"
Ended(q) == q.phase = "aborted" \/ (q.phase = "draining" /\ q.kept = 0)

(* What the queue becomes when Push accepts a packet at once; `lost' of the
   retained ones make room for it. *)
Accepted(q, lost) ==
  [accepted |-> q.accepted + 1, kept |-> (q.kept - lost) + 1, phase |-> q.phase, last |-> q.last]

(* What the queue becomes when Pop takes its oldest packet. *)
Delivered(q) ==
  [accepted |-> q.accepted, kept |-> q.kept - 1, phase |-> q.phase,
   last |-> (q.accepted - q.kept) + 1]

Emptied(q) == [accepted |-> q.accepted, kept |-> 0, phase |-> "aborted", last |-> q.last]

Overwritten(q, s) ==
  IF ~Full(q, s) THEN 0 ELSE IF config[s].policy = "drop_oldest" THEN 1 ELSE q.kept

ClosedKeepingItems(q, m) ==
  [q EXCEPT !.phase = IF m = "abort" THEN "aborted" ELSE "draining"]

(* Close of the queue: a queue that is closed and not aborted ignores both
   modes. *)
Closed(q, m) ==
  IF q.phase # "open" /\ (q.phase # "aborted" \/ m = "drain") THEN q
  ELSE IF m = "abort" THEN Emptied(q)
  ELSE [q EXCEPT !.phase = "draining"]

-----------------------------------------------------------------------------
(* The thread of a sink *)

Move(s, place) == at' = [at EXCEPT ![s] = place]
NotMine == UNCHANGED <<config, started, submitVars, stopVars>>

MarkStarted(s) ==
  /\ at[s] = "created"
  /\ Move(s, "loop")
  /\ health' = [health EXCEPT ![s] = "running"]
  /\ UNCHANGED <<fatal, error, queue, abortRequested, stopRequested, reported, device,
                 flushed, historyVars>>
  /\ NotMine

(* The stop token is tested by the loop and again inside Pop.  A Pop that
   times out leads back to the loop and is not a step. *)
PopPacket(s) ==
  /\ at[s] = "loop"
  /\ ~stopRequested[s]
  /\ queue[s].phase # "aborted"
  /\ queue[s].kept > 0
  /\ queue' = [queue EXCEPT ![s] = Delivered(@)]
  /\ Move(s, "writing")
  /\ UNCHANGED <<fatal, error, abortRequested, stopRequested, health, reported, device,
                 flushed, historyVars>>
  /\ NotMine

LeaveLoop(s) ==
  /\ at[s] = "loop"
  /\ stopRequested[s] \/ Ended(queue[s])
  /\ Move(s, "leaving")
  /\ UNCHANGED <<fatal, error, queue, abortRequested, stopRequested, health, reported,
                 device, flushed, historyVars>>
  /\ NotMine

WriteSucceedsSilently(s) ==
  /\ at[s] = "writing"
  /\ Move(s, "loop")
  /\ lastWrite' = [lastWrite EXCEPT ![s] = "ok"]
  /\ written' = [written EXCEPT ![s] = @ + 1]
  /\ UNCHANGED <<fatal, error, queue, abortRequested, stopRequested, health, reported,
                 device, flushed, broken>>
  /\ NotMine

WriteSucceeds(s) ==
  /\ at[s] = "writing"
  /\ Move(s, "loop")
  /\ health' = [health EXCEPT ![s] = IF @ = "degraded" THEN "running" ELSE @]
  /\ lastWrite' = [lastWrite EXCEPT ![s] = "ok"]
  /\ written' = [written EXCEPT ![s] = @ + 1]
  /\ UNCHANGED <<fatal, error, queue, abortRequested, stopRequested, reported, device,
                 flushed, broken>>
  /\ NotMine

(* A retryable failure: the sink reconnects by itself, the thread goes on.
   The report, with the change of health, is made the first time and then at
   most once a second. *)
WriteFailsRetryably(s) ==
  /\ at[s] = "writing"
  /\ config[s].reconnects
  /\ Move(s, "loop")
  /\ lastWrite' = [lastWrite EXCEPT ![s] = "retry"]
  /\ \/ /\ reported' = [reported EXCEPT ![s] = TRUE]
        /\ health' = [health EXCEPT ![s] = "degraded"]
     \/ /\ reported[s]
        /\ UNCHANGED <<reported, health>>
  /\ UNCHANGED <<fatal, error, queue, abortRequested, stopRequested, device, flushed,
                 broken, written>>
  /\ NotMine

WriteFails(s) ==
  /\ at[s] = "writing"
  /\ s \in Breakable
  /\ broken' = [broken EXCEPT ![s] = TRUE]
  /\ lastWrite' = [lastWrite EXCEPT ![s] = "failed"]
  /\ IF s \in Required
     THEN /\ abortRequested' = [abortRequested EXCEPT ![s] = TRUE]
          /\ Move(s, "failing")
          /\ UNCHANGED health
     ELSE /\ health' = [health EXCEPT ![s] = "degraded"]
          /\ Move(s, "isolating")
          /\ UNCHANGED abortRequested
  /\ UNCHANGED <<fatal, error, queue, stopRequested, reported, device, flushed, written>>
  /\ NotMine

(* A required sink stores the error under error_mutex_, then raises fatal_. *)
StoreError(s) ==
  /\ at[s] = "failing"
  /\ error' = FirstError(s, "write")
  /\ Move(s, "raising")
  /\ UNCHANGED <<fatal, queue, abortRequested, stopRequested, health, reported, device,
                 flushed, historyVars>>
  /\ NotMine

RaiseNothing(s) ==
  /\ at[s] = "raising"
  /\ Move(s, "leaving")
  /\ UNCHANGED <<fatal, error, queue, abortRequested, stopRequested, health, reported,
                 device, flushed, historyVars>>
  /\ NotMine

RaiseFatal(s) ==
  /\ at[s] = "raising"
  /\ fatal' = TRUE
  /\ Move(s, "leaving")
  /\ UNCHANGED <<error, queue, abortRequested, stopRequested, health, reported, device,
                 flushed, historyVars>>
  /\ NotMine

(* An optional sink closes its own queue. *)
Isolate(s) ==
  /\ at[s] = "isolating"
  /\ queue' = [queue EXCEPT ![s] = Closed(@, "abort")]
  /\ Move(s, "leaving")
  /\ UNCHANGED <<fatal, error, abortRequested, stopRequested, health, reported, device,
                 flushed, historyVars>>
  /\ NotMine

CheckAbort(s) ==
  /\ at[s] = "leaving"
  /\ Move(s, IF abortRequested[s] THEN "closing" ELSE "flushing")
  /\ UNCHANGED <<fatal, error, queue, abortRequested, stopRequested, health, reported,
                 device, flushed, historyVars>>
  /\ NotMine

Flush(s) ==
  /\ at[s] = "flushing"
  /\ flushed' = [flushed EXCEPT ![s] = TRUE]
  /\ Move(s, "closing")
  /\ \/ UNCHANGED <<fatal, error>>
     \/ /\ s \in Breakable
        /\ s \in Required
        /\ error' = FirstError(s, "flush")
        /\ fatal' = TRUE
  /\ UNCHANGED <<queue, abortRequested, stopRequested, health, reported, device, historyVars>>
  /\ NotMine

CloseSink(s) ==
  /\ at[s] = "closing"
  /\ device' = [device EXCEPT ![s] = "closed"]
  /\ health' = [health EXCEPT ![s] = IF @ = "degraded" THEN @ ELSE "stopped"]
  /\ Move(s, "done")
  /\ UNCHANGED <<fatal, error, queue, abortRequested, stopRequested, reported, flushed,
                 historyVars>>
  /\ NotMine

-----------------------------------------------------------------------------
(* Submit *)

NotSinks == UNCHANGED <<config, started, threadVars, historyVars, stopVars>>

(* Leave the current sink for the next one, or Submit after the last. *)
Advance(e) == cursor' = [cursor EXCEPT ![e] = IF @ = NumSinks THEN 0 ELSE @ + 1]

(* A router that is not running ignores the packet. *)
BeginSubmit(e) ==
  /\ cursor[e] = 0
  /\ sent[e] < MaxPackets[e]
  /\ started
  /\ sent' = [sent EXCEPT ![e] = @ + 1]
  /\ Advance(e)
  /\ UNCHANGED <<fatal, error, queue, raising>>
  /\ NotSinks

(* Push returns kOk, perhaps after having waited for space. *)
OfferAccepted(e) ==
  LET s == cursor[e]
  IN /\ s \in Sinks
     /\ e \notin raising
     /\ queue[s].phase = "open"
     /\ RoomFor(queue[s], s)
     /\ queue' = [queue EXCEPT ![s] = Accepted(@, Overwritten(@, s))]
     /\ Advance(e)
     /\ UNCHANGED <<fatal, error, sent, raising>>
     /\ NotSinks

MayReject(q, s) == Full(q, s) /\ config[s].policy \in {"block_producer", "drop_newest"}

(* Push returns kDropped (drop_newest) or, at any moment of the wait, kTimeout
   (block_producer): fatal for a required sink, ignored for the others. *)
OfferRejected(e) ==
  LET s == cursor[e]
  IN /\ s \in Sinks
     /\ e \notin raising
     /\ queue[s].phase = "open"
     /\ MayReject(queue[s], s)
     /\ IF s \in Required
        THEN /\ error' = FirstError(s, "submit")
             /\ raising' = raising \cup {e}
             /\ UNCHANGED cursor
        ELSE Advance(e) /\ UNCHANGED <<error, raising>>
     /\ UNCHANGED <<fatal, queue, sent>>
     /\ NotSinks

(* Push returns kClosed: the sink is stopping or isolated. *)
OfferClosed(e) ==
  LET s == cursor[e]
  IN /\ s \in Sinks
     /\ e \notin raising
     /\ queue[s].phase # "open"
     /\ Advance(e)
     /\ UNCHANGED <<fatal, error, queue, sent, raising>>
     /\ NotSinks

RaiseRejected(e) ==
  /\ e \in raising
  /\ fatal' = TRUE
  /\ raising' = raising \ {e}
  /\ Advance(e)
  /\ UNCHANGED <<error, queue, sent>>
  /\ NotSinks

-----------------------------------------------------------------------------
(* Start and Stop *)

NotControl == UNCHANGED <<config, fatal, error, historyVars, submitVars>>

Start ==
  /\ control = "created"
  /\ started' = TRUE
  /\ at' = [s \in Sinks |-> "created"]
  /\ control' = "running"
  /\ UNCHANGED <<queue, abortRequested, stopRequested, health, reported, device, flushed,
                 mode, index>>
  /\ NotControl

(* Stop of a router that is not running only closes the sinks. *)
StopIdle ==
  /\ control = "created"
  /\ device' = [s \in Sinks |-> "closed"]
  /\ control' = "stopped"
  /\ UNCHANGED <<started, queue, at, abortRequested, stopRequested, health, reported,
                 flushed, mode, index>>
  /\ NotControl

StopBegins ==
  /\ control = "running"
  /\ \E m \in Modes : mode' = m
  /\ started' = FALSE
  /\ control' = "marking"
  /\ UNCHANGED <<queue, threadVars, index>>
  /\ NotControl

(* First loop of Stop: store abort_requested, then close the queue. *)
MarkWorker ==
  /\ control = "marking"
  /\ abortRequested' = [abortRequested EXCEPT ![index] = (mode = "abort")]
  /\ control' = "closing"
  /\ UNCHANGED <<started, queue, at, stopRequested, health, reported, device, flushed,
                 mode, index>>
  /\ NotControl

CloseWorker ==
  /\ control = "closing"
  /\ queue' = [queue EXCEPT ![index] = Closed(@, mode)]
  /\ IF index < NumSinks
     THEN control' = "marking" /\ index' = index + 1
     ELSE control' = "cancelling" /\ index' = 1
  /\ UNCHANGED <<started, threadVars, mode>>
  /\ NotControl

(* Second loop of Stop: request_stop in an Abort, then join. *)
CancelWorker ==
  /\ control = "cancelling"
  /\ stopRequested' = [stopRequested EXCEPT ![index] = (mode = "abort")]
  /\ control' = "joining"
  /\ UNCHANGED <<started, queue, at, abortRequested, health, reported, device, flushed,
                 mode, index>>
  /\ NotControl

JoinOneTooMany ==
  /\ control = "joining"
  /\ at[index] = "done"
  /\ IF index <= NumSinks
     THEN control' = "cancelling" /\ index' = index + 1
     ELSE control' = "stopped" /\ UNCHANGED index
  /\ UNCHANGED <<started, queue, threadVars, mode>>
  /\ NotControl

JoinWorker ==
  /\ control = "joining"
  /\ at[index] = "done"
  /\ IF index < NumSinks
     THEN control' = "cancelling" /\ index' = index + 1
     ELSE control' = "stopped" /\ UNCHANGED index
  /\ UNCHANGED <<started, queue, threadVars, mode>>
  /\ NotControl

-----------------------------------------------------------------------------

Write(s) == WriteSucceeds(s) \/ WriteFailsRetryably(s) \/ WriteFails(s)

SinkStep(s) ==
  \/ MarkStarted(s)
  \/ PopPacket(s)
  \/ LeaveLoop(s)
  \/ Write(s)
  \/ StoreError(s)
  \/ RaiseFatal(s)
  \/ Isolate(s)
  \/ CheckAbort(s)
  \/ Flush(s)
  \/ CloseSink(s)

SubmitStep(e) ==
  \/ OfferAccepted(e)
  \/ OfferRejected(e)
  \/ OfferClosed(e)
  \/ RaiseRejected(e)

StopStep == MarkWorker \/ CloseWorker \/ CancelWorker \/ JoinWorker

(* Stop may be called again; it then closes sinks that are closed. *)
Stopped ==
  /\ control = "stopped"
  /\ \A e \in Encoders : cursor[e] = 0
  /\ UNCHANGED vars

Next ==
  \/ \E s \in Sinks : SinkStep(s)
  \/ \E e \in Encoders : BeginSubmit(e) \/ SubmitStep(e)
  \/ Start
  \/ StopIdle
  \/ StopBegins
  \/ StopStep
  \/ Stopped

Spec == Init /\ [][Next]_vars

(* Every thread that can take a step eventually takes one: the system
   schedules it, and the Write, Flush and Close of a sink return.  Nobody is
   obliged to submit or to call Stop. *)
Fairness ==
  /\ \A s \in Sinks : WF_vars(SinkStep(s))
  /\ \A e \in Encoders : WF_vars(SubmitStep(e))
  /\ WF_vars(StopStep)

FairSpec == Spec /\ Fairness

-----------------------------------------------------------------------------
(* Properties *)

Phases == {"open", "draining", "aborted"}
Queues == {q \in [accepted : Nat, kept : Nat, phase : Phases, last : Nat] :
             q.kept <= q.accepted}
Places == {"unborn", "created", "loop", "writing", "failing", "raising", "isolating",
           "leaving", "flushing", "closing", "done"}
Controls == {"created", "running", "marking", "closing", "cancelling", "joining", "stopped"}

(* The type invariant. *)
TypeOK ==
  /\ config \in Configs
  /\ started \in BOOLEAN
  /\ fatal \in BOOLEAN
  /\ error \in Errors \cup {NoError}
  /\ queue \in [Sinks -> Queues]
  /\ at \in [Sinks -> Places]
  /\ abortRequested \in [Sinks -> BOOLEAN]
  /\ stopRequested \in [Sinks -> BOOLEAN]
  /\ health \in [Sinks -> {"starting", "running", "degraded", "stopped"}]
  /\ reported \in [Sinks -> BOOLEAN]
  /\ device \in [Sinks -> {"open", "closed"}]
  /\ flushed \in [Sinks -> BOOLEAN]
  /\ broken \in [Sinks -> BOOLEAN]
  /\ lastWrite \in [Sinks -> {"none", "ok", "retry", "failed"}]
  /\ written \in [Sinks -> Nat]
  /\ sent \in [Encoders -> Nat]
  /\ cursor \in [Encoders -> 0 .. NumSinks]
  /\ raising \in SUBSET Encoders
  /\ control \in Controls
  /\ mode \in Modes \cup {"none"}
  /\ index \in Sinks

(* The monitor reads fatal_ without the mutex and then asks for the error:
   whenever the flag is up there is one, and it is a required sink's. *)
FatalHasCause ==
  /\ fatal => error # NoError
  /\ error # NoError => error.sink \in Required

(* The root cause survives: threads that fail later, in whatever order, never
   replace the first error, and the flag is never lowered. *)
FirstErrorSticks ==
  [][/\ error # NoError => error' = error
     /\ fatal => fatal']_vars

(* A sink whose policy loses nothing and whose writes do not fail has written
   exactly the packets its queue delivered, however the other sinks fare. *)
LosslessDelivery ==
  \A s \in Sinks :
    config[s].policy \in {"block_producer", "drop_newest"} /\ ~broken[s] /\ ~config[s].reconnects =>
      queue[s].last = written[s] + (IF at[s] = "writing" THEN 1 ELSE 0)

(* A graceful stop is complete: a sink that did not break was handed everything
   up to the newest accepted packet before it was flushed and closed. *)
DrainIsComplete ==
  control = "stopped" /\ mode = "drain" =>
    \A s \in Sinks : ~broken[s] =>
      /\ queue[s].last = queue[s].accepted
      /\ flushed[s]
      /\ device[s] = "closed"
      /\ health[s] \in {"stopped", "degraded"}

(* No Write or Flush reaches a sink after its Close, and Stop leaves none open. *)
ClosedSinkIsLeftAlone ==
  \A s \in Sinks :
    /\ device[s] = "closed" => at[s] \in {"unborn", "done"}
    /\ control = "stopped" => device[s] = "closed"

(* The inductive strengthening of the properties above that concern errors and
   closing: only a required sink fails towards the monitor, an error is stored
   before anybody is about to raise the flag; nothing runs before Start, and the
   sinks whose thread was joined are done. *)
RouterInv ==
  /\ TypeOK
  /\ FatalHasCause
  /\ ClosedSinkIsLeftAlone
  /\ \A s \in Sinks :
       /\ at[s] \in {"failing", "raising"} => s \in Required
       /\ at[s] = "raising" => error # NoError
       /\ at[s] = "done" => device[s] = "closed"
       /\ control = "created" => at[s] = "unborn" /\ device[s] = "open"
       /\ control \in {"cancelling", "joining"} /\ s < index => at[s] = "done"
  /\ raising # {} => error # NoError

(* The first write that succeeds after a reconnect ends the degraded state, and
   no earlier report of the same sink brings it back. *)
RecoveredIsRunning ==
  \A s \in Sinks : at[s] = "loop" /\ lastWrite[s] = "ok" => health[s] = "running"

(* Stop returns, whatever fails while it runs. *)
StopReturns == (control = "marking") ~> (control = "stopped")

(* Submit returns, also when the sinks it serves break or stop. *)
SubmitReturns == \A e \in Encoders : (cursor[e] # 0) ~> (cursor[e] = 0)

(* No call of the router blocks for ever, on any thread. *)
CallsReturn == StopReturns /\ SubmitReturns

(* A required sink that breaks is reported to the monitor. *)
BreakIsRaised == \A s \in Sinks : (s \in Required /\ broken[s]) ~> fatal

(* Every queue behaves as the channel BoundedQueue implements. *)
Chan(s) == INSTANCE MediaChannel WITH
  Capacity <- Capacity[s],
  lossy <- config[s].policy \in {"drop_oldest", "keep_latest"},
  accepted <- queue[s].accepted,
  kept <- queue[s].kept,
  phase <- queue[s].phase,
  last <- queue[s].last

(* The fan-out uses every sink's queue as a channel: it never delivers out of
   order, overfills, or reopens one. *)
QueuesAreChannels ==
  /\ \A s \in Sinks : Chan(s)!Init
  /\ [][\A s \in Sinks : [Chan(s)!Next]_(Chan(s)!channelVars)]_queue

(* The comment of abort_requested: the abort path writes no complete trailer.
   A required sink whose Write failed for good takes that path. *)
BrokenRequiredSkipsFlush == \A s \in Required : broken[s] => ~flushed[s]

=============================================================================
