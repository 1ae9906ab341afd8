---------------------------- MODULE Application -----------------------------
(***************************************************************************)
(* Application: the six worker threads of the gateway, the three queues    *)
(* between them, and the thread that owns the application and calls Start, *)
(* Wait and the destructor.                                                *)
(*                                                                         *)
(* The processing queues are the channels of MediaChannel (BoundedQueue is *)
(* proved to implement it).  The router is its state and whether it holds  *)
(* a fatal error, as PacketRouter has it.  A frame is counted, not looked  *)
(* at; metrics, logs, deadlines and the overlay are left out, and a worker *)
(* that times out or retries goes around its loop.  A step is one access   *)
(* to state shared between threads.                                        *)
(***************************************************************************)
EXTENDS Naturals, Sequences

CONSTANTS
  Capacity,    \* capacity of each queue
  Setups       \* the configurations and environments the runs consider

Captures == {"video_capture", "audio_capture"}
Encoders == {"video_encode", "audio_encode"}
Workers == Captures \cup Encoders \cup {"inference", "monitor"}
Devices == Workers \ {"monitor"}
Queues == {"inference", "video_encode", "audio_encode"}
Policies == {"block_producer", "drop_newest", "drop_oldest", "keep_latest"}

(* policy: overflow policy of each queue.  delay: frames an encoder may hold
   back until Flush.  frames: bound, what each capture delivers.  faults: what
   may fail.  mockVideo: the video capture is MockVideoCapture. *)
IsSetup(u) ==
  /\ u.policy \in [Queues -> Policies]
  /\ u.policy["audio_encode"] = "block_producer"
  /\ u.delay \in Nat
  /\ u.frames \in [Captures -> Nat]
  /\ u.faults \subseteq Workers \cup {"start", "router", "stall"}
  /\ u.mockVideo \in BOOLEAN

ASSUME ApplicationAssumption ==
  /\ Capacity \in [Queues -> Nat \ {0}]
  /\ \A u \in Setups : IsSetup(u)

VARIABLES
  setup,          \* fixed: configuration and environment of this execution
  state,          \* state_
  stopRequested,  \* stop_requested_
  stopReason,     \* stop_reason_
  error,          \* fatal_error_, named by where it happened
  at,             \* where each worker is in its loop
  token,          \* workers whose stop token was requested
  why,            \* the error a worker is about to report
  target,         \* queue the video capture is pushing to
  captured,       \* frames each capture has delivered
  queue,          \* the three processing queues
  held,           \* frames inside each encoder
  encoded,        \* frames each encoder has taken and not skipped
  submitted,      \* packets each encoder has submitted to a running router
  missed,         \* packets submitted to a router that does not run
  open,           \* devices (backends) that are open
  router,         \* "absent", "running", "stopping" or "stopped"
  routerError,    \* the router holds a fatal error
  main,           \* where the owner's thread is
  plan,           \* what StopWorkers has still to do
  mode,           \* argument of StopWorkers
  requester       \* the thread outside that calls RequestStop

workerVars == <<at, why, target, captured, queue, held, encoded, submitted, missed>>
statusVars == <<stopRequested, stopReason, error>>
ownerVars == <<state, token, open, main, plan, mode>>
routerVars == <<router, routerError>>
vars == <<workerVars, statusVars, ownerVars, routerVars, requester, setup>>

(* The order in which the threads are started. *)
LaunchOrder == <<"inference", "video_encode", "audio_encode", "video_capture",
                 "audio_capture", "monitor">>

Init ==
  /\ setup \in Setups
  /\ state = "created"
  /\ stopRequested = FALSE
  /\ stopReason = "not_stopped"
  /\ error = "none"
  /\ at = [w \in Workers |-> "unborn"]
  /\ token = {}
  /\ why = [w \in Workers |-> "none"]
  /\ target = "inference"
  /\ captured = [c \in Captures |-> 0]
  /\ queue = [q \in Queues |-> [accepted |-> 0, kept |-> 0, phase |-> "open", last |-> 0]]
  /\ held = [e \in Encoders |-> 0]
  /\ encoded = [e \in Encoders |-> 0]
  /\ submitted = [e \in Encoders |-> 0]
  /\ missed = 0
  /\ open = {}
  /\ router = "absent"
  /\ routerError = FALSE
  /\ main = "created"
  /\ plan = <<>>
  /\ mode = "none"
  /\ requester = "idle"

-----------------------------------------------------------------------------
(* The queues *)

Full(q) == queue[q].kept >= Capacity[q]
Ended(q) ==
  \/ queue[q].phase = "aborted"
  \/ queue[q].phase = "draining" /\ queue[q].kept = 0

Pushed(q) ==
  LET lost == IF ~Full(q) THEN 0 ELSE IF setup.policy[q] = "drop_oldest" THEN 1 ELSE queue[q].kept
  IN [queue EXCEPT ![q] = [queue[q] EXCEPT !.accepted = @ + 1, !.kept = (@ - lost) + 1]]

Popped(q) ==
  [queue EXCEPT ![q] = [queue[q] EXCEPT
                          !.last = (queue[q].accepted - queue[q].kept) + 1,
                          !.kept = @ - 1]]

Closed(q, m) ==
  IF queue[q].phase # "open" /\ (queue[q].phase # "aborted" \/ m = "drain") THEN queue
  ELSE IF m = "abort" THEN [queue EXCEPT ![q] = [queue[q] EXCEPT !.phase = "aborted", !.kept = 0]]
  ELSE [queue EXCEPT ![q] = [queue[q] EXCEPT !.phase = "draining"]]

WakeNobody(f) == f

(* A Pop, a Close and a request_stop wake the video capture if it sleeps in
   Push; they do not if it has found the queue full and not blocked yet. *)
WakeProducer(f) ==
  [f EXCEPT !["video_capture"] = IF @ = "sleeping" THEN "pushing" ELSE @]

(* mutex_ of the queue the video capture pushes to. *)
MutexFree(q) == ~(at["video_capture"] = "deciding" /\ target = q)

-----------------------------------------------------------------------------
(* RequestStop and ReportFatal *)

Move(w, place) == at' = [at EXCEPT ![w] = place]
OnlyAt == UNCHANGED <<why, target, captured, queue, held, encoded, submitted, missed,
                      statusVars, ownerVars, routerVars, requester, setup>>

Fail(w, what) ==
  /\ Move(w, "reporting")
  /\ why' = [why EXCEPT ![w] = what]
  /\ UNCHANGED <<target, captured, queue, held, encoded, submitted, missed, statusVars,
                 ownerVars, routerVars, requester, setup>>

(* fatal_error_ is assigned only when it has no value. *)
FirstError(what) == IF error = "none" THEN what ELSE error

StoreError(w) ==
  /\ at[w] = "reporting"
  /\ error' = FirstError(why[w])
  /\ Move(w, "requesting")
  /\ UNCHANGED <<why, target, captured, queue, held, encoded, submitted, missed,
                 stopRequested, stopReason, ownerVars, routerVars, requester, setup>>

(* After ReportFatal a worker leaves its loop; an encoder that was still in
   its loop then comes to its Flush. *)
AfterReport(w) == IF w \in Encoders /\ why[w] # "flush" THEN "leaving" ELSE "done"

ReportWithoutStop(w) ==
  /\ at[w] = "requesting"
  /\ Move(w, AfterReport(w))
  /\ UNCHANGED <<why, target, captured, queue, held, encoded, submitted, missed,
                 statusVars, ownerVars, routerVars, requester, setup>>

(* The compare-exchange of stop_requested_; the winner stores the reason
   under status_mutex_ in a step of its own. *)
ReportStop(w) ==
  /\ at[w] = "requesting"
  /\ stopRequested' = TRUE
  /\ Move(w, IF stopRequested THEN AfterReport(w) ELSE "noting")
  /\ UNCHANGED <<why, target, captured, queue, held, encoded, submitted, missed,
                 stopReason, error, ownerVars, routerVars, requester, setup>>

NoteReason(w) ==
  /\ at[w] = "noting"
  /\ stopReason' = "fatal_error"
  /\ Move(w, AfterReport(w))
  /\ UNCHANGED <<why, target, captured, queue, held, encoded, submitted, missed,
                 stopRequested, error, ownerVars, routerVars, requester, setup>>

(* A signal, the end of the run duration, or any other caller of RequestStop. *)
RequestStop ==
  /\ requester = "idle"
  /\ main \in {"serving", "stopping"}
  /\ stopRequested' = TRUE
  /\ requester' = IF stopRequested THEN "done" ELSE "noting"
  /\ UNCHANGED <<workerVars, stopReason, error, ownerVars, routerVars, setup>>

NoteRequest ==
  /\ requester = "noting"
  /\ stopReason' = "requested"
  /\ requester' = "done"
  /\ UNCHANGED <<workerVars, stopRequested, error, ownerVars, routerVars, setup>>

-----------------------------------------------------------------------------
(* The capture threads *)

LoopAgain(w) ==
  /\ at[w] = "loop"
  /\ w \notin token
  /\ Move(w, IF w = "monitor" THEN "checking" ELSE "reading")
  /\ OnlyAt

LoopEnds(w) ==
  /\ at[w] = "loop"
  /\ w \in token
  /\ Move(w, "done")
  /\ OnlyAt

(* Read delivers a frame; the video thread may skip the inference queue. *)
CaptureFrame(c) ==
  /\ at[c] = "reading"
  /\ c \in open
  /\ captured[c] < setup.frames[c]
  /\ captured' = [captured EXCEPT ![c] = @ + 1]
  /\ Move(c, "pushing")
  /\ IF c = "video_capture" THEN target' \in {"inference", "video_encode"} ELSE UNCHANGED target
  /\ UNCHANGED <<why, queue, held, encoded, submitted, missed, statusVars, ownerVars,
                 routerVars, requester, setup>>

(* Read is cancelled, or fails in a way the loop retries after a backoff. *)
ReadCancelled(c) ==
  /\ at[c] = "reading"
  /\ c \in token
  /\ Move(c, "done")
  /\ OnlyAt

ReadRetries(c) ==
  /\ at[c] = "reading"
  /\ c \in open
  /\ c \in setup.faults
  /\ Move(c, "loop")
  /\ OnlyAt

ReadFails(c) ==
  /\ at[c] = "reading"
  /\ c \in open
  /\ c \in setup.faults
  /\ Fail(c, c)

(* MockVideoCapture::Read looks at open_ before it looks at the stop token. *)
ReadFindsClosed ==
  /\ setup.mockVideo
  /\ at["video_capture"] = "reading"
  /\ "video_capture" \notin open
  /\ Fail("video_capture", "closed_capture")

PushTarget(c) == IF c = "video_capture" THEN target ELSE "audio_encode"

(* Push returns kCancelled or kClosed: the loop ends.  A frame cancelled at the
   inference queue is offered to the encoder queue, which refuses it likewise. *)
PushRefused(c) ==
  /\ at[c] = "pushing"
  /\ MutexFree(PushTarget(c))
  /\ c \in token \/ queue[PushTarget(c)].phase # "open"
  /\ Move(c, "done")
  /\ OnlyAt

(* Push returned kOk or kDropped. *)
Proceed(c) ==
  IF c = "video_capture" /\ target = "inference"
  THEN target' = "video_encode" /\ UNCHANGED at
  ELSE Move(c, "loop") /\ UNCHANGED target

PushFrame(c) ==
  LET q == PushTarget(c)
  IN /\ at[c] = "pushing"
     /\ c \notin token
     /\ queue[q].phase = "open"
     /\ \/ /\ Full(q) => setup.policy[q] \in {"drop_oldest", "keep_latest"}
           /\ queue' = Pushed(q)
        \/ /\ Full(q)
           /\ setup.policy[q] = "drop_newest"
           /\ UNCHANGED queue
     /\ Proceed(c)
     /\ UNCHANGED <<why, captured, held, encoded, submitted, missed, statusVars,
                    ownerVars, routerVars, requester, setup>>

(* The video thread pushes with no timeout: it blocks until a Pop, a Close or
   its stop token wakes it. *)
PushDecides ==
  /\ at["video_capture"] = "pushing"
  /\ "video_capture" \notin token
  /\ queue[target].phase = "open"
  /\ Full(target)
  /\ setup.policy[target] = "block_producer"
  /\ Move("video_capture", "deciding")
  /\ OnlyAt

PushSleeps ==
  /\ at["video_capture"] = "deciding"
  /\ Move("video_capture", "sleeping")
  /\ OnlyAt

(* The audio thread waits for 250 ms at most. *)
PushTimesOut ==
  /\ at["audio_capture"] = "pushing"
  /\ "audio_capture" \notin token
  /\ queue["audio_encode"].phase = "open"
  /\ Full("audio_encode")
  /\ Fail("audio_capture", "overrun")

-----------------------------------------------------------------------------
(* Inference and encoding *)

PopFrame(w) ==
  /\ at[w] = "loop"
  /\ w \notin token
  /\ MutexFree(w)
  /\ queue[w].phase # "aborted"
  /\ queue[w].kept > 0
  /\ queue' = Popped(w)
  /\ at' = LET moved == [at EXCEPT ![w] = "working"]
           IN IF target = w THEN WakeProducer(moved) ELSE moved
  /\ encoded' = IF w \in Encoders THEN [encoded EXCEPT ![w] = @ + 1] ELSE encoded
  /\ UNCHANGED <<why, target, captured, held, submitted, missed, statusVars, ownerVars,
                 routerVars, requester, setup>>

PopEnds(w) ==
  /\ at[w] = "loop"
  /\ MutexFree(w)
  /\ w \in token \/ Ended(w)
  /\ Move(w, IF w \in Encoders THEN "leaving" ELSE "done")
  /\ OnlyAt

(* Infer succeeds, is retried with the next frame, or is cancelled. *)
Infer ==
  /\ at["inference"] = "working"
  /\ \/ Move("inference", "loop")
     \/ "inference" \in token /\ Move("inference", "done")
  /\ OnlyAt

(* A frame the encoder's JPEG decoder cannot decode may be skipped. *)
SkipFrame ==
  /\ at["video_encode"] = "working"
  /\ "video_encode" \in setup.faults
  /\ encoded' = [encoded EXCEPT !["video_encode"] = @ - 1]
  /\ Move("video_encode", "loop")
  /\ UNCHANGED <<why, target, captured, queue, held, submitted, missed, statusVars,
                 ownerVars, routerVars, requester, setup>>

WorkFails(w) ==
  /\ at[w] = "working"
  /\ w \in setup.faults
  /\ Fail(w, w)

(* Submit, as seen from the encoder: a router that does not run ignores it. *)
Submit(e, n) ==
  IF router = "running"
  THEN submitted' = [submitted EXCEPT ![e] = @ + n] /\ UNCHANGED missed
  ELSE missed' = missed + n /\ UNCHANGED submitted

EncodeHoards(e) ==
  /\ at[e] = "working"
  /\ held' = [held EXCEPT ![e] = @ + 1]
  /\ Move(e, "loop")
  /\ UNCHANGED <<why, target, captured, queue, encoded, submitted, missed, statusVars,
                 ownerVars, routerVars, requester, setup>>

(* Encode takes the frame and returns zero or more packets. *)
Encode(e) ==
  /\ at[e] = "working"
  /\ \E n \in 0 .. held[e] + 1 :
       /\ (held[e] + 1) - n <= setup.delay
       /\ held' = [held EXCEPT ![e] = (@ + 1) - n]
       /\ Submit(e, n)
  /\ Move(e, "loop")
  /\ UNCHANGED <<why, target, captured, queue, encoded, statusVars, ownerVars, routerVars,
                 requester, setup>>

NeverFlush(e) ==
  /\ at[e] = "leaving"
  /\ Move(e, "done")
  /\ OnlyAt

(* After the loop: Flush unless the stop token was requested. *)
DecideFlush(e) ==
  /\ at[e] = "leaving"
  /\ Move(e, IF e \in token THEN "done" ELSE "flushing")
  /\ OnlyAt

Flush(e) ==
  /\ at[e] = "flushing"
  /\ held' = [held EXCEPT ![e] = 0]
  /\ Submit(e, held[e])
  /\ Move(e, "done")
  /\ UNCHANGED <<why, target, captured, queue, encoded, statusVars, ownerVars, routerVars,
                 requester, setup>>

FlushFails(e) ==
  /\ at[e] = "flushing"
  /\ e \in setup.faults
  /\ Fail(e, "flush")

-----------------------------------------------------------------------------
(* The monitor and the router *)

MonitorSleeps ==
  /\ at["monitor"] = "checking"
  /\ Move("monitor", "loop")
  /\ OnlyAt

MonitorReports ==
  /\ at["monitor"] = "checking"
  /\ \/ routerError /\ Fail("monitor", "router")
     \/ /\ "stall" \in setup.faults
        /\ \E w \in Devices : at[w] \notin {"unborn", "done"}
        /\ Fail("monitor", "stall")

RouterBreaks ==
  /\ "router" \in setup.faults
  /\ router \in {"running", "stopping"}
  /\ ~routerError
  /\ routerError' = TRUE
  /\ UNCHANGED <<workerVars, statusVars, ownerVars, router, requester, setup>>

-----------------------------------------------------------------------------
(* Start *)

NotOwner == UNCHANGED <<why, target, captured, held, encoded, submitted, missed, requester, setup>>

Start ==
  /\ main = "created"
  /\ state' = "initializing"
  /\ main' = "opening"
  /\ UNCHANGED <<at, queue, token, open, plan, mode, statusVars, routerVars>>
  /\ NotOwner

OpenBackends ==
  /\ main = "opening"
  /\ open' = Devices
  /\ main' = "routing"
  /\ UNCHANGED <<state, at, queue, token, plan, mode, statusVars, routerVars>>
  /\ NotOwner

CreateRouter ==
  /\ main = "routing"
  /\ router' = "running"
  /\ main' = "launching"
  /\ UNCHANGED <<state, at, queue, token, open, plan, mode, statusVars, routerError>>
  /\ NotOwner

Unborn == {i \in 1 .. Len(LaunchOrder) : at[LaunchOrder[i]] = "unborn"}

StartWorker ==
  /\ main = "launching"
  /\ \E i \in Unborn :
       /\ \A j \in Unborn : i <= j
       /\ Move(LaunchOrder[i], "loop")
  /\ UNCHANGED <<state, queue, token, open, main, plan, mode, statusVars, routerVars>>
  /\ NotOwner

StartSucceeds ==
  /\ main = "launching"
  /\ Unborn = {}
  /\ state' = "running"
  /\ main' = "serving"
  /\ UNCHANGED <<at, queue, token, open, plan, mode, statusVars, routerVars>>
  /\ NotOwner

(* A step of Start fails: some backend does not open (those opened before it
   are closed first), the router does not start, or a thread cannot be created. *)
StartFails ==
  /\ "start" \in setup.faults
  /\ main \in {"opening", "routing", "launching"}
  /\ state' = "failed"
  /\ main' = "leaving"
  /\ mode' = "abort"
  /\ UNCHANGED <<at, queue, token, open, plan, statusVars, routerVars>>
  /\ NotOwner

-----------------------------------------------------------------------------
(* Wait, the destructor, and StopWorkers *)

(* Wait sees the stop request and chooses the mode. *)
WaitEnds ==
  /\ main = "serving"
  /\ stopRequested
  /\ mode' = IF error = "none" THEN "drain" ELSE "abort"
  /\ main' = "leaving"
  /\ UNCHANGED <<state, at, queue, token, open, plan, statusVars, routerVars>>
  /\ NotOwner

(* ~Application, after Wait or Start returned, or without a call of either. *)
Destroy ==
  /\ main \in {"created", "serving", "returned"}
  /\ stopRequested' = TRUE
  /\ stopReason' = IF stopRequested THEN stopReason ELSE "destructor"
  /\ main' = IF state \in {"created", "stopped"} THEN "gone" ELSE "leaving"
  /\ mode' = IF state \in {"created", "stopped"} THEN mode ELSE "abort"
  /\ UNCHANGED <<state, at, queue, token, open, plan, error, routerVars>>
  /\ NotOwner

(* The four phases of StopWorkers. *)
CapturePhase ==
  << <<"cancel", "monitor">>, <<"cancel", "video_capture">>, <<"cancel", "audio_capture">>,
     <<"release", "video_capture">>, <<"release", "audio_capture">>,
     <<"join", "video_capture">>, <<"join", "audio_capture">> >>

QueuePhase(m) ==
  << <<"close", "inference">>, <<"close", "video_encode">>, <<"close", "audio_encode">> >>
  \o (IF m = "abort"
      THEN << <<"cancel", "inference">>, <<"cancel", "video_encode">>,
              <<"cancel", "audio_encode">> >>
      ELSE <<>>)
  \o << <<"join", "inference">>, <<"join", "video_encode">>, <<"join", "audio_encode">> >>

OutputPhaseUnmonitored == << <<"stop", "router">>, <<"adopt", "router">> >>

OutputPhase == << <<"stop", "router">>, <<"adopt", "router">>, <<"join", "monitor">> >>

ReleasePhase ==
  << <<"release", "inference">>, <<"release", "video_encode">>,
     <<"release", "audio_encode">> >>

PlanRouterFirst(m) == CapturePhase \o OutputPhase \o QueuePhase(m) \o ReleasePhase
PlanReleaseFirst(m) == CapturePhase \o ReleasePhase \o QueuePhase(m) \o OutputPhase
Plan(m) == CapturePhase \o QueuePhase(m) \o OutputPhase \o ReleasePhase

StopWorkers ==
  /\ main = "leaving"
  /\ state' = "stopping"
  /\ main' = "stopping"
  /\ plan' = Plan(mode)
  /\ UNCHANGED <<at, queue, token, open, mode, statusVars, routerVars>>
  /\ NotOwner

Due(op, on) == main = "stopping" /\ plan # <<>> /\ Head(plan) = <<op, on>>
Done == plan' = Tail(plan) /\ UNCHANGED <<state, main, mode>> /\ NotOwner

Cancel(w) ==
  /\ Due("cancel", w)
  /\ token' = token \cup {w}
  /\ at' = IF w = "video_capture" THEN WakeProducer(at) ELSE at
  /\ UNCHANGED <<queue, open, statusVars, routerVars>>
  /\ Done

Release(d) ==
  /\ Due("release", d)
  /\ open' = open \ {d}
  /\ UNCHANGED <<at, queue, token, statusVars, routerVars>>
  /\ Done

Join(w) ==
  /\ Due("join", w)
  /\ at[w] \in {"unborn", "done"}
  /\ UNCHANGED <<at, queue, token, open, statusVars, routerVars>>
  /\ Done

CloseQueue(q) ==
  /\ Due("close", q)
  /\ MutexFree(q)
  /\ queue' = Closed(q, mode)
  /\ at' = IF target = q THEN WakeProducer(at) ELSE at
  /\ UNCHANGED <<token, open, statusVars, routerVars>>
  /\ Done

StopRouter ==
  /\ Due("stop", "router")
  /\ router' = IF router = "running" THEN "stopping" ELSE router
  /\ UNCHANGED <<at, queue, token, open, statusVars, routerError>>
  /\ Done

AdoptNothing ==
  /\ Due("adopt", "router")
  /\ router' = IF router = "stopping" THEN "stopped" ELSE router
  /\ UNCHANGED <<at, queue, token, open, statusVars, routerError>>
  /\ Done

(* The router's threads are joined and its error, if any, is adopted. *)
AdoptError ==
  /\ Due("adopt", "router")
  /\ router' = IF router = "stopping" THEN "stopped" ELSE router
  /\ error' = IF routerError THEN FirstError("router") ELSE error
  /\ UNCHANGED <<at, queue, token, open, stopRequested, stopReason, routerError>>
  /\ Done

SettleByMode ==
  /\ main = "stopping"
  /\ plan = <<>>
  /\ state' = IF mode = "abort" THEN "failed" ELSE "stopped"
  /\ main' = "returned"
  /\ UNCHANGED <<at, queue, token, open, plan, mode, statusVars, routerVars>>
  /\ NotOwner

Settle ==
  /\ main = "stopping"
  /\ plan = <<>>
  /\ state' = IF error # "none" THEN "failed" ELSE "stopped"
  /\ main' = "returned"
  /\ UNCHANGED <<at, queue, token, open, plan, mode, statusVars, routerVars>>
  /\ NotOwner

-----------------------------------------------------------------------------

CaptureStep(c) ==
  \/ LoopAgain(c)
  \/ LoopEnds(c)
  \/ CaptureFrame(c)
  \/ ReadCancelled(c)
  \/ ReadRetries(c)
  \/ ReadFails(c)
  \/ PushRefused(c)
  \/ PushFrame(c)

VideoStep == ReadFindsClosed \/ PushDecides \/ PushSleeps
AudioStep == PushTimesOut
ConsumerStep(w) == PopFrame(w) \/ PopEnds(w) \/ WorkFails(w)
EncoderStep(e) == Encode(e) \/ DecideFlush(e) \/ Flush(e) \/ FlushFails(e)
MonitorStep ==
  LoopAgain("monitor") \/ LoopEnds("monitor") \/ MonitorSleeps \/ MonitorReports
ReportStep(w) == StoreError(w) \/ ReportStop(w) \/ NoteReason(w)

StartStep ==
  OpenBackends \/ CreateRouter \/ StartWorker \/ StartSucceeds \/ StartFails

StopStep ==
  \/ StopWorkers
  \/ \E w \in Workers : Cancel(w) \/ Join(w)
  \/ \E d \in Devices : Release(d)
  \/ \E q \in Queues : CloseQueue(q)
  \/ StopRouter
  \/ AdoptError
  \/ Settle

Gone == main = "gone" /\ UNCHANGED vars

Next ==
  \/ \E c \in Captures : CaptureStep(c)
  \/ VideoStep
  \/ AudioStep
  \/ \E w \in Queues : ConsumerStep(w)
  \/ Infer
  \/ SkipFrame
  \/ \E e \in Encoders : EncoderStep(e)
  \/ MonitorStep
  \/ \E w \in Workers : ReportStep(w)
  \/ RequestStop
  \/ NoteRequest
  \/ RouterBreaks
  \/ Start
  \/ StartStep
  \/ WaitEnds
  \/ Destroy
  \/ StopStep
  \/ Gone

Spec == Init /\ [][Next]_vars

(* Every thread of the application runs when it can: reads, inference, encoding
   and flushes return, and the owner waits for the stop it was asked for.
   Nobody has to start the application, request a stop, or destroy it. *)
Fairness ==
  /\ \A c \in Captures : WF_vars(CaptureStep(c))
  /\ WF_vars(VideoStep)
  /\ WF_vars(AudioStep)
  /\ \A w \in Queues : WF_vars(ConsumerStep(w))
  /\ WF_vars(Infer)
  /\ \A e \in Encoders : WF_vars(EncoderStep(e))
  /\ WF_vars(MonitorStep)
  /\ \A w \in Workers : WF_vars(ReportStep(w))
  /\ WF_vars(StartStep)
  /\ WF_vars(WaitEnds)
  /\ WF_vars(StopStep)

FairSpec == Spec /\ Fairness

-----------------------------------------------------------------------------
(* Properties *)

Causes == Workers \cup {"closed_capture", "overrun", "flush", "router", "stall"}
Places == {"unborn", "loop", "reading", "pushing", "deciding", "sleeping", "working",
           "checking", "reporting", "requesting", "noting", "leaving", "flushing", "done"}
Channels == [accepted : Nat, kept : Nat, phase : {"open", "draining", "aborted"}, last : Nat]

(* The type invariant. *)
TypeOK ==
  /\ setup \in Setups
  /\ state \in {"created", "initializing", "running", "stopping", "stopped", "failed"}
  /\ stopRequested \in BOOLEAN
  /\ stopReason \in {"not_stopped", "fatal_error", "requested", "destructor"}
  /\ error \in Causes \cup {"none"}
  /\ at \in [Workers -> Places]
  /\ token \in SUBSET Workers
  /\ why \in [Workers -> Causes \cup {"none"}]
  /\ target \in {"inference", "video_encode"}
  /\ captured \in [Captures -> Nat]
  /\ queue \in [Queues -> Channels]
  /\ held \in [Encoders -> 0 .. setup.delay]
  /\ encoded \in [Encoders -> Nat]
  /\ submitted \in [Encoders -> Nat]
  /\ missed \in Nat
  /\ open \in SUBSET Devices
  /\ router \in {"absent", "running", "stopping", "stopped"}
  /\ routerError \in BOOLEAN
  /\ main \in {"created", "opening", "routing", "launching", "serving", "leaving",
              "stopping", "returned", "gone"}
  /\ plan \in Seq({"cancel", "release", "join", "close", "stop", "adopt"}
                   \X (Workers \cup {"router"}))
  /\ mode \in {"none", "drain", "abort"}
  /\ requester \in {"idle", "noting", "done"}

AtRest == main \in {"returned", "gone"} /\ state # "created"

(* When Wait returns no thread runs, no backend is open and the router is
   stopped, whatever failed and in whatever phase the stop began. *)
StoppedIsQuiet ==
  AtRest =>
    /\ \A w \in Workers : at[w] \in {"unborn", "done"}
    /\ open = {}
    /\ router \in {"absent", "stopped"}

(* What Wait leaves tells how the run went.  The state is failed exactly when
   fatal_error_ holds an error; it holds one exactly when a worker or the router
   had one, however late in the stop; and a run in which nothing is at fault ends
   with none but that of an audio queue that stays full, so that a stop alone is
   no failure.  Two cases are outside it: MockVideoCapture takes its own close
   for a failure, and a Start that fails returns its error, keeps none, and is
   stopped in the end although it had stored kFailed. *)
OutcomeIsHonest ==
  AtRest =>
    /\ state = IF error # "none" THEN "failed" ELSE "stopped"
    /\ error # "none" <=> routerError \/ \E w \in Workers : why[w] # "none"
    /\ setup.faults = {} /\ ~setup.mockVideo => error \in {"none", "overrun"}

(* The order of the phases: an encoder finds the router running for every packet
   it submits, those of its Flush included. *)
NoPacketMissesRouter == missed = 0

(* No inference engine or encoder is closed under the thread that uses it. *)
DevicesOutliveUsers ==
  \A w \in Queues : at[w] \in {"working", "flushing", "leaving"} => w \in open

(* A graceful stop without an error loses nothing that a queue had accepted:
   every frame still queued is encoded, every packet an encoder held back is
   submitted, and no audio frame was discarded on the way. *)
DrainDelivers ==
  AtRest /\ mode = "drain" /\ error = "none" =>
    /\ \A q \in Queues : queue[q].last = queue[q].accepted
    /\ \A e \in Encoders : submitted[e] = encoded[e]
    /\ encoded["audio_encode"] = queue["audio_encode"].accepted

(* A stop request, from whatever thread, ends with Wait returning. *)
StopCompletes == (stopRequested /\ main = "serving") ~> AtRest

(* A fatal error is not only recorded, it ends the run. *)
FatalEndsRun == error # "none" ~> AtRest

(* The lifecycle the owner sees. *)
Owner == INSTANCE Lifecycle WITH cause <- error

(* The threads, queues and phases implement the lifecycle. *)
ImplementsLifecycle == Owner!Spec

(* The development plan, on the queues: when a consumer died, its producer can be
   cancelled and is not blocked for ever.  Nobody but the inference thread or
   the stop token wakes the video thread before it is joined. *)
CancelledProducerWakes ==
  at["video_capture"] = "sleeping" /\ target = "inference" /\ at["inference"] = "done" =>
    "video_capture" \notin token

=============================================================================
