----------------------------- MODULE VideoPath ------------------------------
(***************************************************************************)
(* The timed half of the pipeline: MockVideoCapture with its FramePacer,   *)
(* VideoCaptureLoop, InferenceLoop with MockInferenceEngine, the overlay   *)
(* wait of VideoEncodeLoop, and the MonitorLoop that tells a slow worker   *)
(* from one that hangs.                                                    *)
(*                                                                         *)
(* Time is in ticks.  Threads are prompt: time passes only when nobody has *)
(* anything to do, so a delay is one the configuration asks for, or a hang.*)
(***************************************************************************)
EXTENDS Integers, Sequences

CONSTANTS
  Second,       \* ticks in a second
  Retry,        \* ticks in kRetryBackoffUs
  Setups,       \* the configurations
  MaxTime       \* bound: ticks in an execution

(* The workers, in the order in which they are examined. *)
Workers == <<"video_capture", "audio_capture", "inference", "video_encode", "audio_encode">>
WorkerNames == {Workers[i] : i \in DOMAIN Workers}

(* What the settings look like: rates, capacities and intervals are positive. *)
Bounds ==
  [capacity : Nat \ {0},
   policy : {"keep_latest", "drop_oldest", "drop_newest", "block_producer"}]
Settings ==
  [fps : Nat \ {0}, readDelay : Nat, latency : Nat, maxFps : Nat,
   overlay : BOOLEAN, wait : Nat, maxAge : Nat, audioFrame : Nat \ {0},
   stall : Nat, health : Nat \ {0}, inferenceBound : Bounds, encodeBound : Bounds,
   failing : SUBSET Nat, unreadable : SUBSET Nat, hangs : WorkerNames \cup {"none"}]

ASSUME VideoAssumption ==
  /\ Second \in Nat \ {0} /\ Retry \in Nat \ {0} /\ MaxTime \in Nat
  /\ Setups \subseteq Settings

VARIABLES
  now,          \* the clock
  setup,        \* the configuration, and the worker that may hang
  hung,         \* the worker that hangs, or "none"
  capture,      \* VideoCaptureLoop: where it is, until when, and with which frame
  attempt,      \* attempt_ of the mock camera
  lastInference,\* PTS of the last frame given to inference, or -1
  inferenceQueue,
  inference,    \* InferenceLoop: the frame it works on and until when
  latest,       \* latest_detection_
  encodeQueue,
  encode,       \* VideoEncodeLoop: the frame it holds and how long it waits
  results,      \* history: frames inference has finished
  encoded,      \* history: frames encoded
  drawn,        \* history: frames encoded with their result drawn
  audioDue,     \* when the next audio block is complete
  progress,     \* last_progress_us of each worker
  nextHealth,   \* next_health_check
  error         \* the worker reported as stalled, or "none"

captureVars == <<capture, attempt, lastInference>>
inferenceVars == <<inference, latest, results>>
encodeVars == <<encode, encoded, drawn>>
healthVars == <<audioDue, progress, nextHealth, error>>
videoVars ==
  <<now, setup, hung, captureVars, inferenceQueue, inferenceVars, encodeQueue, encodeVars,
    healthVars>>

None == [sequence |-> -1]
Idle == [frame |-> None, until |-> 0]

Longest(S) == CHOOSE x \in S : \A y \in S : y <= x

-----------------------------------------------------------------------------
(* The configuration *)

(* Validate: the overlay may not wait for a result that would be too old, and a
   worker may be silent for the slowest stage and one check. *)
Ceiling(a, b) == (a + b - 1) \div b
VideoProgressInterval(s) == Ceiling(Second, s.fps) + s.readDelay
SlowestStage(s) == Longest({VideoProgressInterval(s), s.audioFrame, s.latency})

Validate(s) ==
  /\ s.wait <= s.maxAge
  /\ s.stall > s.health
  /\ s.stall > SlowestStage(s) + s.health

(* FramePacer: absolute deadlines, whole seconds apart from the rest. *)
DeadlineFor(n) == (n \div setup.fps) * Second + ((n % setup.fps) * Second) \div setup.fps

InferenceInterval == IF setup.maxFps = 0 THEN 0 ELSE Second \div setup.maxFps

Init ==
  /\ now = 0
  /\ setup \in {s \in Setups : Validate(s)}
  /\ hung = "none"
  /\ capture = [at |-> "reading", until |-> 0, frame |-> None]
  /\ attempt = 0 /\ lastInference = -1
  /\ inferenceQueue = <<>> /\ encodeQueue = <<>>
  /\ inference = Idle /\ latest = [sequence |-> -1, completed |-> 0] /\ results = {}
  /\ encode = Idle /\ encoded = {} /\ drawn = {}
  /\ audioDue = setup.audioFrame
  /\ progress = [w \in WorkerNames |-> 0]
  /\ nextHealth = setup.health
  /\ error = "none"

Runs(worker) == error = "none" /\ hung # worker

(* The queue after a Push by its policy; a full blocking queue takes nothing. *)
CanPush(queue, bound) == Len(queue) < bound.capacity \/ bound.policy # "block_producer"
PushedWithoutRoom(queue, bound, frame) == Append(queue, frame)
Pushed(queue, bound, frame) ==
  IF Len(queue) < bound.capacity THEN Append(queue, frame)
  ELSE CASE bound.policy = "drop_newest" -> queue
         [] bound.policy = "drop_oldest" -> Append(Tail(queue), frame)
         [] bound.policy = "keep_latest" -> <<frame>>
PushIsOk(queue, bound) == Len(queue) < bound.capacity \/ bound.policy # "drop_newest"

MarkNothing(worker) == UNCHANGED progress
MarkProgress(worker) == progress' = [progress EXCEPT ![worker] = now]

-----------------------------------------------------------------------------
(* VideoCaptureLoop *)

CaptureGoes(place, until) == capture' = [capture EXCEPT !.at = place, !.until = until]
CaptureIs(place) == Runs("video_capture") /\ capture.at = place /\ now >= capture.until

CaptureStep ==
  UNCHANGED <<now, setup, hung, inferenceVars, encodeVars, audioDue, nextHealth, error>>

(* Read takes a number even when the camera is gone; the loop then backs off. *)
ReadBegins ==
  /\ CaptureIs("reading")
  /\ attempt' = attempt + 1
  /\ IF attempt \in setup.failing THEN CaptureGoes("retrying", now + Retry)
     ELSE CaptureGoes("pacing", DeadlineFor(attempt))
  /\ UNCHANGED <<lastInference, inferenceQueue, encodeQueue, progress>>
  /\ CaptureStep

Retried ==
  /\ CaptureIs("retrying")
  /\ CaptureGoes("reading", now)
  /\ UNCHANGED <<attempt, lastInference, inferenceQueue, encodeQueue, progress>>
  /\ CaptureStep

Paced ==
  /\ CaptureIs("pacing")
  /\ CaptureGoes("delaying", now + setup.readDelay)
  /\ UNCHANGED <<attempt, lastInference, inferenceQueue, encodeQueue, progress>>
  /\ CaptureStep

ReadReturns ==
  /\ CaptureIs("delaying")
  /\ capture' = [at |-> "offering", until |-> now,
                 frame |-> [sequence |-> attempt - 1, pts |-> DeadlineFor(attempt - 1),
                            submitted |-> FALSE]]
  /\ MarkProgress("video_capture")
  /\ UNCHANGED <<attempt, lastInference, inferenceQueue, encodeQueue>>
  /\ CaptureStep

(* max_fps thins the frames by their PTS before the queue's policy does. *)
IsThinned ==
  /\ InferenceInterval # 0 /\ lastInference >= 0
  /\ capture.frame.pts - lastInference < InferenceInterval

Skip ==
  /\ CaptureIs("offering") /\ IsThinned
  /\ CaptureGoes("pushing", now)
  /\ UNCHANGED <<attempt, lastInference, inferenceQueue, encodeQueue, progress>>
  /\ CaptureStep

Offer ==
  /\ CaptureIs("offering") /\ ~IsThinned
  /\ CanPush(inferenceQueue, setup.inferenceBound)
  /\ inferenceQueue' = Pushed(inferenceQueue, setup.inferenceBound, capture.frame)
  /\ LET ok == PushIsOk(inferenceQueue, setup.inferenceBound)
     IN /\ lastInference' = IF ok THEN capture.frame.pts ELSE lastInference
        /\ capture' = [capture EXCEPT !.at = "pushing", !.frame.submitted = ok]
  /\ UNCHANGED <<attempt, encodeQueue, progress>>
  /\ CaptureStep

PushEncode ==
  /\ CaptureIs("pushing")
  /\ CanPush(encodeQueue, setup.encodeBound)
  /\ encodeQueue' = Pushed(encodeQueue, setup.encodeBound, capture.frame)
  /\ CaptureGoes("reading", now)
  /\ UNCHANGED <<attempt, lastInference, inferenceQueue, progress>>
  /\ CaptureStep

-----------------------------------------------------------------------------
(* InferenceLoop *)

InferenceStep ==
  UNCHANGED <<now, setup, hung, captureVars, encodeQueue, encodeVars, audioDue, nextHealth, error>>

InferBegins ==
  /\ Runs("inference")
  /\ inference = Idle /\ inferenceQueue # <<>>
  /\ inference' = [frame |-> Head(inferenceQueue), until |-> now + setup.latency]
  /\ inferenceQueue' = Tail(inferenceQueue)
  /\ UNCHANGED <<latest, results, progress>>
  /\ InferenceStep

InferenceIsDone == Runs("inference") /\ inference # Idle /\ now >= inference.until

Publish ==
  /\ InferenceIsDone /\ inference.frame.sequence \notin setup.unreadable
  /\ latest' = [sequence |-> inference.frame.sequence, completed |-> now]
  /\ results' = results \cup {inference.frame.sequence}
  /\ inference' = Idle
  /\ MarkProgress("inference")
  /\ UNCHANGED inferenceQueue
  /\ InferenceStep

(* A retryable error of the decoder or the engine: no result, and no progress. *)
InferFails ==
  /\ InferenceIsDone /\ inference.frame.sequence \in setup.unreadable
  /\ inference' = Idle
  /\ UNCHANGED <<latest, results, inferenceQueue, progress>>
  /\ InferenceStep

-----------------------------------------------------------------------------
(* VideoEncodeLoop *)

EncodeStep ==
  UNCHANGED <<now, setup, hung, captureVars, inferenceQueue, inferenceVars, audioDue, nextHealth,
              error>>

EncodeBegins ==
  /\ Runs("video_encode")
  /\ encode = Idle /\ encodeQueue # <<>>
  /\ encode' = [frame |-> Head(encodeQueue), until |-> now + setup.wait]
  /\ encodeQueue' = Tail(encodeQueue)
  /\ UNCHANGED <<encoded, drawn, progress>>
  /\ EncodeStep

LaterResult == latest.sequence > encode.frame.sequence
ResultIsThere == latest.sequence >= encode.frame.sequence

WaitIsOver ==
  \/ ~setup.overlay \/ ~encode.frame.submitted
  \/ ResultIsThere
  \/ now >= encode.until

(* A result is drawn on the very frame it was computed from, while it is fresh;
   a frame without one is encoded as it is. *)
IsDrawn ==
  /\ setup.overlay
  /\ latest.sequence = encode.frame.sequence
  /\ now - latest.completed <= setup.maxAge

EncodeFrame ==
  /\ Runs("video_encode")
  /\ encode # Idle /\ WaitIsOver
  /\ encoded' = encoded \cup {encode.frame.sequence}
  /\ drawn' = IF IsDrawn THEN drawn \cup {encode.frame.sequence} ELSE drawn
  /\ encode' = Idle
  /\ MarkProgress("video_encode")
  /\ UNCHANGED encodeQueue
  /\ EncodeStep

-----------------------------------------------------------------------------
(* The audio threads, which only matter here for the progress they report *)

AudioBlock ==
  /\ error = "none" /\ now >= audioDue
  /\ audioDue' = audioDue + setup.audioFrame
  /\ progress' = [w \in WorkerNames |->
                    IF \/ w = "audio_capture" /\ hung # "audio_capture"
                       \/ w = "audio_encode" /\ hung \notin {"audio_capture", "audio_encode"}
                    THEN now ELSE progress[w]]
  /\ UNCHANGED <<now, setup, hung, captureVars, inferenceQueue, inferenceVars, encodeQueue,
                 encodeVars, nextHealth, error>>

-----------------------------------------------------------------------------
(* MonitorLoop *)

(* The first worker of the list that made no progress for too long. *)
FirstStalled(list) ==
  LET stalled == {i \in DOMAIN list : now - progress[list[i]] > setup.stall}
  IN IF stalled = {} THEN "none"
     ELSE list[CHOOSE i \in stalled : \A j \in stalled : i <= j]

DetectConsumersFirst ==
  FirstStalled(<<"inference", "video_encode", "audio_encode", "video_capture", "audio_capture">>)
DetectStalledWorker == FirstStalled(Workers)

CheckHealth ==
  /\ error = "none" /\ now >= nextHealth
  /\ error' = DetectStalledWorker
  /\ nextHealth' = nextHealth + setup.health
  /\ UNCHANGED <<now, setup, hung, captureVars, inferenceQueue, inferenceVars, encodeQueue,
                 encodeVars, audioDue, progress>>

-----------------------------------------------------------------------------
(* Time *)

(* A worker hangs in a call into its backend: the device, the NPU, the codec. *)
IsInBackend(worker) ==
  CASE worker = "video_capture" -> capture.at \in {"reading", "pacing", "delaying"}
    [] worker = "inference" -> inference # Idle
    [] worker = "video_encode" -> encode # Idle /\ WaitIsOver
    [] OTHER -> worker # "none"

Hang ==
  /\ error = "none" /\ hung = "none" /\ IsInBackend(setup.hangs)
  /\ hung' = setup.hangs
  /\ UNCHANGED <<now, setup, captureVars, inferenceQueue, inferenceVars, encodeQueue, encodeVars,
                 healthVars>>

CaptureIsReady ==
  /\ Runs("video_capture") /\ now >= capture.until
  /\ capture.at = "offering" /\ ~IsThinned => CanPush(inferenceQueue, setup.inferenceBound)
  /\ capture.at = "pushing" => CanPush(encodeQueue, setup.encodeBound)

InferenceIsReady ==
  InferenceIsDone \/ (Runs("inference") /\ inference = Idle /\ inferenceQueue # <<>>)

EncodeIsReady ==
  /\ Runs("video_encode")
  /\ IF encode = Idle THEN encodeQueue # <<>> ELSE WaitIsOver

EverybodyWaits ==
  /\ ~CaptureIsReady /\ ~InferenceIsReady /\ ~EncodeIsReady
  /\ now < audioDue /\ now < nextHealth

Tick ==
  /\ error = "none" /\ now < MaxTime
  /\ EverybodyWaits
  /\ now' = now + 1
  /\ UNCHANGED <<setup, hung, captureVars, inferenceQueue, inferenceVars, encodeQueue, encodeVars,
                 healthVars>>

(* A report stops the application; the bound ends the model. *)
Rest == (error # "none" \/ now = MaxTime) /\ UNCHANGED videoVars

CaptureNext ==
  ReadBegins \/ Retried \/ Paced \/ ReadReturns \/ Skip \/ Offer \/ PushEncode

Next ==
  \/ CaptureNext \/ InferBegins \/ Publish \/ InferFails \/ EncodeBegins \/ EncodeFrame
  \/ AudioBlock \/ CheckHealth \/ Hang \/ Tick \/ Rest

Spec == Init /\ [][Next]_videoVars

-----------------------------------------------------------------------------
(* Properties *)

Frame == [sequence : Nat, pts : Nat, submitted : BOOLEAN]

(* The type invariant. *)
TypeOK ==
  /\ now \in 0 .. MaxTime
  /\ hung \in {"none", setup.hangs} /\ error \in WorkerNames \cup {"none"}
  /\ capture.at \in {"reading", "retrying", "pacing", "delaying", "offering", "pushing"}
  /\ capture.frame = None \/ capture.frame \in Frame
  /\ attempt \in Nat /\ lastInference \in Nat \cup {-1}
  /\ inferenceQueue \in Seq(Frame) /\ Len(inferenceQueue) <= setup.inferenceBound.capacity
  /\ encodeQueue \in Seq(Frame) /\ Len(encodeQueue) <= setup.encodeBound.capacity
  /\ inference = Idle \/ inference.frame \in Frame
  /\ encode = Idle \/ encode.frame \in Frame
  /\ \A w \in WorkerNames : progress[w] \in 0 .. now

(* The wait is long enough for the frame and those inference has before it; and
   inference takes time, or two frames of a camera that catches up would have
   their results at once, the second in the place of the first. *)
WaitCoversInference ==
  /\ setup.overlay /\ setup.latency > 0
  /\ setup.wait > (setup.inferenceBound.capacity + 1) * setup.latency

(* No result is wasted: a frame that was encoded after inference took it shows
   its own result, although results are kept one at a time, frames are dropped
   by two queues, and inference and encoding run on their own. *)
EveryResultIsDrawn ==
  WaitCoversInference /\ hung = "none" => results \cap encoded \subseteq drawn

(* Nobody is reported in a pipeline that is only as slow as its configuration. *)
HealthyIsNotReported ==
  hung = "none" /\ setup.failing = {} /\ setup.unreadable = {} => error = "none"

(* A hang is found, and blamed on the worker that hangs: a worker that is not
   reported was last heard of within the time-out and one check, and the report
   never names one that starves behind it, unless a blocking queue passes the
   hang on to the producer. *)
PassesHangsOn ==
  "block_producer" \in {setup.inferenceBound.policy, setup.encodeBound.policy}

HangIsBlamed ==
  hung # "none" =>
    IF error = "none" THEN now <= progress[hung] + setup.stall + setup.health
                      ELSE error = hung \/ PassesHangsOn

=============================================================================
