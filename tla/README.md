# A TLA+ verification of the RK3568 edge AV gateway

The gateway captures video and audio, runs object detection on some of the
frames, encodes both streams and sends the packets to several independent
outputs.  It is a C++20 program of about twenty threads' worth of hand-written
synchronisation: bounded queues with four overflow policies, a fan-out router,
a supervisor that starts, watches and stops everything in phases, and devices
and outputs that may fail at any time.  This directory models the control of
that program in TLA+, checks it with TLC and proves the central results, for
every number of threads, sinks, buffers and frames, with TLAPS.

All paths below are relative to the repository's root directory.

## 1. Inventory

| Component | Source | State it keeps | Operations | Modelled in |
|---|---|---|---|---|
| Bounded queue | `include/rkav/queue/bounded_queue.h` | deque, `closed_`, `aborted_`, counters, high watermark, one mutex, two condition variables | `Push`, `Pop`, `Close(Drain/Abort)`, `Snapshot` | `BoundedQueue`, `MediaChannel` |
| Packet router | `src/output/packet_router.cpp` | workers (sink, queue, thread, `abort_requested`, health), `started_`, `fatal_`, `fatal_error_` | `AddSink`, `Start`, `Submit`, `Stop`, the sink thread | `PacketRouter` |
| Application | `src/app/application.cpp` | state, stop flag and reason, first fatal error, six threads, three queues, the backends | `Start`, `Wait`, `RequestStop`, `ReportFatal`, `StopWorkers`, six loops | `Application`, `Lifecycle`; its timed side in `VideoPath`, its audio loops in `AudioPath`, its backends in `Backends` |
| Outputs | `src/output/sinks.cpp`, `src/output/ffmpeg/*.cpp` | open, flushed, connected; `.part` and final file; RTSP session and next reconnect | `Open`, `Write`, `Flush`, `Close` | `FileSink` (H.264, MP4), `RtspSink`, `Sinks` |
| Camera | `src/capture/v4l2/**` | descriptor, memory-mapped buffers, stream, sequence | `Open`, `Read`, `Close` | `V4l2Capture`, `Backends` |
| Microphone | `src/capture/alsa/**` | descriptor, `started_`, next PTS, sequence | `Open`, `Read`, `Recover`, `Close` | `AudioPath`, `Backends` |
| Mock captures | `src/capture/mock/**` | attempt, block sequence, injected faults | `Open`, `Read`, `Recover`, `Close` | `VideoPath` (video), `AudioPath` (audio) |
| Video encoders | `src/media/ffmpeg`, `src/media/mpp` | codec context, `sequences_by_pts`, buffers, `flushed` | `Open`, `Encode`, `Flush`, `Close` | `VideoEncoder`, `Backends` |
| Audio encoder | `src/media/ffmpeg` | codec, resampler, sample FIFO, two time lines | `Open`, `Encode`, `Flush`, `Close` | `AudioPath`, `Backends` |
| JPEG decoder, inference | `src/media/jpeg`, `src/vision/**` | library handles, the lease of the NPU's outputs | `Open`, `Decode`, `Infer`, `Close` | `Backends`; latency and failures in `VideoPath` |
| Clock and pacing | `src/common/clock.cpp` | the deadline of each frame | `WaitUntil`, `DeadlineFor` | `VideoPath` |
| Metrics, health | `src/monitor/metrics.cpp` | counters, worker states, last progress | `MarkStarted`, `MarkProgress`, `MarkError` | progress and the stall detector in `VideoPath`, states of the sinks in `PacketRouter` |
| Configuration | `src/config/config.cpp` | none | `Load`, `Validate` | the relations between times that `Validate` enforces, in `VideoPath` |
| Process | `app/main.cpp` | a signal flag | polls the flag, `RequestStop`, `Wait` | its `RequestStop` is `requester` in `Application` |
| Geometry, media types, logger, RKNN smoke tool | `src/vision/geometry.cpp`, `src/common/**`, `tools/**` | none | pure functions, output | not modelled (section 7) |

How they interact:

* The video capture thread pushes every frame to the encoder's queue and some of
  them to the inference queue; the audio capture thread pushes to the audio
  queue.  The encoder threads pop, encode and call `PacketRouter::Submit`, which
  pushes the packet to every sink's own queue; one thread per sink pops and
  writes.
* The inference thread leaves its newest result where the video encoder's thread
  finds it, and the encoder waits for it for a configured time.
* A failing thread calls `ReportFatal` (store the error, win or lose the race to
  `RequestStop`, store the reason).  A failing required sink stores the router's
  error and raises `fatal_`, which the monitor thread polls and turns into
  `ReportFatal`.  A failing optional sink isolates itself.
* The monitor thread compares the last progress of each worker with a time-out
  and reports the first that has been silent for too long.
* The owner's thread sleeps in `Wait`, then runs `StopWorkers` in four phases:
  captures, queues and encoders, router, monitor.  In Drain everything queued is
  delivered and every output finalised, in Abort everything queued is discarded.

What is hard: wakeups that may be lost between two condition variables, four
policies and a close; several threads that fail at once; flags that are read
long after they were written (`abort_requested`, `fatal_`, `stop_requested_`);
a phase order that has to hold for every moment at which a stop begins,
including one in the middle of `Start`; blocking calls that only a timeout, a
close or a stop token ends; buffers and samples that several parties hand to each
other; a codec that answers late; resources that three different lists close in
three different orders; a time-out that has to tell slow from dead.

What makes each component correct:

* queue: capacity, order, exactly the losses its policy allows and counts, no
  stranded waiter, a close that is final and wakes everybody;
* router: outputs are independent, a graceful stop delivers everything to every
  sink that works, the first error is kept and always reaches the monitor, no
  sink is used after its close;
* application: every run ends quietly with the right outcome, no packet is lost
  in a graceful stop, no backend is closed under its user, the root cause
  survives, a stop always completes;
* outputs: a file gets its final name only when it is whole, no recording is
  destroyed, no RTSP session is freed without a trailer or ended twice, and an output that
  reconnects survives any failure of the network and comes back;
* captures: no buffer is lost to the driver, frames come in order and whole, the
  time line of the audio is continuous;
* encoders: a packet names the frame, and the time, it was made of, and a drain
  without an error delivers everything that went in;
* backends: nothing that is known is left behind or outlives what it needs, whatever
  step of whatever `Open` failed;
* timing: a result that was computed is shown on its frame, a healthy pipeline is
  not reported as stalled, and a hang is found in time and blamed on the worker
  that hangs.

## 2. Modules

```
MediaChannel          what a queue promises                 (abstract)
BoundedQueue          the queue: mutex, waits, wakeups      implements MediaChannel
BoundedQueueProofs    theorems about BoundedQueue
PacketRouter          router, its sink threads, Submit, Stop; its queues are channels
PacketRouterProofs    errors, flags and the life of the sinks; what each sink is
                      given; that the queues are channels
Lifecycle             what the application promises its owner (abstract)
Application           six workers, three queues, owner      implements Lifecycle
ApplicationProofs     the safety of every start, failure and stop; the refinement
VideoPath             the timed side: pacing, inference, overlay, stall detector
VideoPathProofs       that results are drawn, hangs found and deadlines exact
AudioPath             PCM device, capture, queue, AAC encoder
AudioPathProofs       the time line of the audio and the samples on it
V4l2Capture           the camera's buffers between driver and program
V4l2CaptureProofs     that none is lost and frames come in order
VideoEncoder          the FFmpeg and the MPP encoder behind the encode loop
VideoEncoderProofs    that packets name their frames and a drain loses none
Backends              what all backends acquire and release
FileSink              the H.264 and the MP4 output, across kills and restarts
RtspSink              the RTSP output and its server
Sinks                 one output of either kind, as CreatePacketSink makes it
Peripherals           one of Sinks, AudioPath, V4l2Capture, VideoEncoder, Backends
PeripheralsProofs     theorems about the outputs and the backends; the theorems
                      of the other parts, for every behaviour of Peripherals
MCxxx                 the instances TLC checks
```

The abstraction step that makes the larger modules checkable is
`MediaChannel`: accepted items are numbered, the content of a queue is always
the interval of the newest accepted numbers, so a queue is four values instead
of a sequence of items, a mutex and two wait sets.  That `BoundedQueue` implements
it is checked by TLC and proved for all parameters; `PacketRouter` and
`Application` use it, and that the router uses it only in ways the channel allows
(`QueuesAreChannels`) is checked and proved too.

### BoundedQueue

One step is one critical section of `mutex_`, because nothing of the queue is
visible outside it.  The notifications the code issues after unlocking are
steps of their own, as is the step from the predicate test to the sleep for the
stop callback, which does not take the mutex.  `pc` says for each thread whether
it is outside (`idle`), has found the predicate false and not yet slept
(`deciding`), sleeps, was woken, has timed out, or still owes a notification.

| Model | Code |
|---|---|
| `PushWithSpace`, `PushDropNewest`, `PushDropOldest`, `PushKeepLatest`, `PushBlock`, `PushAfterWait` | the branches of `Push` |
| `PopWithData`, `PopBlock`, `PopAfterWait`, `ReturnEmpty` | the branches of `Pop` |
| `Block`, `WaitAgain`, `Expire`, `SpuriousWakeup` | `wait`, `wait_for` and what ends them |
| `NotifyOne`, `NotifyAll`, `Close`, `RequestStop` | the notifications, `Close`, the stop callback |

History variables (`refused`, `lastPopped`, `asked`) only record; no guard reads
them.

### PacketRouter

One step is one access to state shared between threads.  Variables are fields
of `PacketRouter` and of `SinkWorker`; `at` is the place of each sink thread in
its lambda, `cursor` the place of each encoder thread in the loop of `Submit`,
`control`, `mode` and `index` the place of the thread that calls `Stop`.  The
sink is a device whose `Write` succeeds, fails retryably (only one that
reconnects) or fails for good (only one in `Breakable`).  The `config` of the
sinks is a variable that never changes, so that one run covers several
configurations.

### Application

`at` is the place of each worker in its loop, `why` the error it is about to
report, `plan` what `StopWorkers` has still to do, as a sequence of single
operations (cancel, release, join, close, stop, adopt) in the order of the code:
phases that run `StopWorkers` from different callers differ only in the plan's
start.  Frames are counted.  `held` is what an encoder holds back until its
`Flush`.  The router is its state and whether it holds an error.  The audio
queue is `block_producer` because `CreateQueues` makes it so; the other two
queues take the policy of the setup.  `setup` is again a variable that never
changes.

### VideoPath

The same threads, with a clock and with the contents of the video queues instead of
the stop protocol.  Threads are prompt: time passes (`Tick`) only when no thread has
anything to do, so each delay is one the configuration asks for (the pace of the
camera, `read_delay_ms`, `latency_ms`, the overlay's wait) or a hang, which begins
inside a call into a backend.  The configuration is a record (`setup`) that must pass
`Validate`; its policies decide what a full queue does.

| Model | Code |
|---|---|
| `ReadBegins`, `Paced`, `ReadReturns`, `Retried`, `DeadlineFor` | `MockVideoCapture::Read`, `FramePacer`, the retry of `VideoCaptureLoop` |
| `Skip`, `Offer`, `PushEncode` | thinning by `max_fps` and the two pushes |
| `InferBegins`, `Publish`, `InferFails` | `InferenceLoop`, `MockInferenceEngine::Infer` |
| `EncodeBegins`, `WaitIsOver`, `IsDrawn`, `EncodeFrame` | `VideoEncodeLoop` with the overlay's wait and its freshness test |
| `AudioBlock`, `CheckHealth`, `DetectStalledWorker` | the progress of the audio threads, `MonitorLoop` |

### AudioPath

Time advances by one sample period, and a sample *is* the presentation time its
block gave it: a packet then shows which samples it carries, and a property can
compare that with what its own time stamp says.  `source` chooses the ALSA or the
mock capture.  `at` is the place of the capture loop (`fetching`, `reading`,
`recovering`, `retrying`, `pushing`, `stopped`), `enc` that of the encoder's.  The
PCM device (`pcm`, `ring`) and libavcodec (`codec`, `Delay`) are external: the device
stops with an overrun when its ring is full and may be unplugged, the codec holds
frames back until it is drained.  `Accept` and `Reject` are the continuity test of
the AAC encoder with the FIFO behind it, `SendFrame` the re-blocking, `FlushFrame`
the short or padded last frame.  `jumped` records that a restart prepared the device
without starting it, the only event after which the time line may jump.  `ReadGivesUp`
stands for the errors of `Read` that nobody retries.

### V4l2Capture

The buffers are the state: queued in the driver (`incoming`), filled (`outgoing`), with
the `Read` in progress (`held`), or lost to a failed `VIDIOC_QBUF` (`lost`).  `Open` is
a step per system call that can fail, `Read` is split where the driver can run
in between, which it may do at any moment: `Dequeue`, `CopyPayload`, `ReadReturns`, with
`RejectBuffer` and `RequeueFails` for the other ways out.

### VideoEncoder

Both encoders behind one loop; `backend` chooses.  Frames are numbered and the
number is the frame's time, which is all that `sequences_by_pts` needs.  FFmpeg
writes an entry before it sends a frame, undoes it if the frame is refused and takes
it out with the packet; MPP writes it after the frame was taken and keeps it.
`Receive` and `ReceiveFails` are one turn of the receive loop; what a failed call had
received is dropped with it.

### Backends

A resource is something that must be given back.  Each kind of backend has the list
of steps of its `Open` and the order in which its `Close` gives resources back;
`Through` names what a resource is given back through (a mapping through its
descriptor, a buffer through its group and library).  `CreateAndOpenBackends`
opens in `OpenOrder`; a failure closes the failed device, then the devices its error
path names (`Rollback`), then everything once more in the order of `StopWorkers`.
Resources that are acquired later (the stream of ALSA, the RGA buffer of MPP, the
outputs of the NPU) have actions of their own.  `MppForgetsBuffer` is the error path
on which the encoder overwrites its only pointer to a buffer (section 6): it stays held,
as `Forgotten`, and no `Close` gives it back.

### FileSink, RtspSink, Sinks

`owner` is what the sink's thread does with it: opening, serving (it writes),
failed (a write failed for good), flushing, closing, gone; this is what the
thread of `PacketRouter` does with its device.  All calls of a sink are under its
mutex, so a step of `FileSink` is a call, except that `Flush` is three steps,
between any two of which the process may be killed.  `part` and `final` are the
two files: the run of the process that wrote one, how many of its packets are on
disk, and whether its end was written.  What the stream buffers reaches the disk
at any moment.  The steps of `RtspSink` are the network calls, between any two of
which the server may go away, forget the session, and come back; `linked` says
whether the server still knows the session.  A send into a lost session may
succeed, because the muxer and the socket buffer it.

Assumed of the libraries: a write error of a C++ stream or of libavformat is
remembered and makes the final flush or trailer fail; a trailer that succeeds releases
the session's connection.  What one that fails has released is left open: the second one
that `Flush` then writes (section 6) is an outcome of its own, `retried`.  A kill ends the process, not the machine: the sinks call no
`fsync`, so what a power failure leaves is not covered.

### Peripherals

The parts around the queues are driven by a thread each and share no state, so
`Peripherals` lets `subject` choose one of them in the initial state and keeps the
others at rest: its state space is the sum of theirs and not the product.  `kind` does
the same inside `Sinks`.

## 3. Runs

| Run | Instance | Question | Result |
|---|---|---|---|
| `queue_policies` | 2 producers, 2 consumers, capacity 2, 5 offers, all four policies, timed and untimed calls, stops and closes at any time | capacity, order, accounting, no lost wakeup, closing is final, implements the channel | holds |
| `queue_waits` | 2 untimed producers, 1 consumer that loops and may be cancelled, capacity 1, fairness | close releases every waiter, drain completes | holds |
| `queue_abort_upgrade` | 1 producer, 1 consumer | an Abort upgrades a Drain, as the comment of `Close` says | violated |
| `router_faults` | 2 sinks of three configurations (required and optional, four policies, reconnecting), 2 encoders, both stop modes, any write or flush may fail | losses, drain, errors, health, and queues as channels | holds |
| `router_stops` | 2 sinks that may break, 1 encoder, 3 packets, fairness | `Stop` and `Submit` return, a broken required sink is reported | holds |
| `router_flush_after_failure` | one required sink, graceful stop | a broken required sink is not flushed, as the comment of `abort_requested` says | violated |
| `app_failing` | six setups: overflow, both streams, back-pressure, failing encoder and router, failing capture and stall detector, failing start | the safety of every start, failure and stop; implements the lifecycle | holds |
| `app_stops` | back-pressure and a dying inference engine, fairness | every stop completes and every fatal error ends the run | holds |
| `app_stuck_producer` | the inference queue configured to block, its consumer dies | a producer whose stop was requested wakes up | violated |
| `peripherals` | each output kind over three runs of the process; audio of both captures in blocks of 2 samples, frames of 3; a camera with up to 3 buffers; both video encoders with 5 frames; all 192 configurations of the backends | what devices, codecs, outputs and resources promise, under every failure of each | holds |
| `video_path` | 78 timed configurations: paces, pairs of policies, camera and decoder faults, a hang of each worker, thinning | results are drawn, slow is not reported, a hang is found and blamed | holds |
| `throttled_inference` | three configurations `Validate` accepts | a healthy worker is not reported, as the comment of `Validate` says | violated |

### What the violated runs show

* `queue_abort_upgrade`: `Close` returns early when the queue is closed and the
  mode is Drain *or the queue is not aborted*; the second half makes
  `Close(kAbort)` after `Close(kDrain)` a no-op.  The comment above it promises
  the upgrade.  The router depends on it when a sink isolates itself while a
  drain is under way, and a second stop of the application cannot cut a drain
  short.
* `router_flush_after_failure`: a required sink that failed sets
  `abort_requested`, and `Stop(kDrain)` overwrites it with `false` before the
  sink thread reads it, so the broken sink is flushed and, for a file, published.
* `app_stuck_producer`: `VideoCaptureLoop` pushes to the inference queue without
  a timeout.  `request_stop` notifies without the queue's mutex, so a request
  that falls between the predicate test and the sleep wakes nobody.  With
  `block_producer` (the configuration admits it) and a consumer that has died,
  `StopWorkers` joins a thread that sleeps for ever, because the queues are
  closed only in the next phase.
* `throttled_inference`: `Validate` bounds the stall time-out by the slowest of
  the video, audio and inference stages.  It leaves out that `max_fps` lets frames
  through to inference less often than that, so an idle, healthy inference thread
  is reported as stalled and the application fails; and that the first result needs
  the camera's delay and the latency one after the other.  (The wait of the overlay,
  `wait_for_result_ms`, is not in the bound either.)  `video_path` checks the same
  property where the bound is long enough.

### Bounds, and why they are enough

* Two threads of each kind are the least with which a wakeup can go to the wrong
  one; two sinks are the least with which one can fail while another drains.
  Capacity 1 makes every overflow happen at the second item; capacity 2 lets
  `drop_oldest` and `keep_latest` differ.  Offers exceed the capacity by at least
  two, so that every policy overflows with waiters present.  What does not depend
  on these numbers is proved (section 5).
* `MaxOffers`, `MaxPackets`, `frames`, `MaxFrames` and `MaxTime` bound
  what the environment produces; they stand in no guard of the program's own steps.
* Outputs: three runs let one run find what the two before it left (a
  recording and a left-over); an interval of two ticks tells a reconnection that
  is early from one that is due.
* Audio: blocks of 2 against frames of 3 re-block in every alignment; a ring of 3
  overruns in the middle of a block, and a time-out of 3 falls on either side of it;
  a codec that keeps one frame needs the drain.  Seven sample periods suffice for a
  block, an overrun, a recovery and a block after it.
* Camera: three buffers let one be lost and two go on.  Encoders: a delay of two and
  five frames let frames enter, stay and leave in the presence of gaps.
* `video_path`: ten ticks a second and twelve ticks let the camera deliver up to twelve
  frames, each time-out run out after the first progress, and two checks follow it.
* No symmetry is used, because the liveness runs do not admit it and the others
  do not need it.

The runs allow deadlock nowhere: every module has an explicit step for the
state in which it legitimately rests (`Stopped`, `Rest`, or a `Gone`).

### Fairness, and why the code justifies it

* A thread that can take a step takes one: the operating system schedules it and
  no critical section blocks.  This is weak fairness on each thread's own steps.
* In `BoundedQueue`, `Resume` is strongly fair: a thread that competes for
  `mutex_` again and again gets it.  Expiry of a finite timeout is fair, a
  spurious wakeup is not.
* `ConsumerLoopSpec` adds that consumers call `Pop` again, as all loops of the
  gateway do.
* In the router and the application, `Write`, `Flush`, `Encode`, `Read` and
  `Infer` return: the backends have timeouts of their own.  Nobody is obliged to
  submit a packet, to request a stop or to start the application.
* `Reconnects` assumes that packets keep coming, that a network call returns
  (`rtsp_timeout_ms` interrupts it), that time passes, and that sends into a lost
  session do not succeed for ever (the peer resets it).  The server owes nothing:
  the property speaks of servers that stay up.
* The other parts of `Peripherals`, and `VideoPath`, are specified without fairness and
  have safety properties only.  In `VideoPath` the bound of a hang's detection is a
  safety property because the clock is a variable and threads are prompt.

## 4. Properties

The properties are listed with each run in `PROJECT.json`, with the hazards they
answer and a mutant of the model each of them detects.  The ones a reader should
know of:

* `QueueInv` contains that, whatever was overtaken, overwritten or refused, a queue
  holds the newest accepted items without a gap, a lossless policy delivers without a
  gap, and every item offered is counted.
* `NoStrandedWaiter`, of consumers and of producers: the number of sleeping
  threads is always matched by notifications still owed.  Both exclude queues with a
  cancelled thread of the same side: a consumer that is notified and cancelled at
  once takes its wakeup with it.  In the gateway every queue has one consumer, so
  nothing is lost by it.
* `DrainIsComplete`, `LosslessDelivery`: what each sink has received when `Stop`
  returns.  `RouterInv` contains that an error is stored before its flag is raised
  and that no sink is used after its close, `BreakIsRaised` says that the flag comes;
  that the first error is never replaced is proved (`FirstErrorKept`).
* `NoPacketMissesRouter`, `DevicesOutliveUsers`, `DrainDelivers`,
  `StoppedIsQuiet`, `ImplementsLifecycle`, `StopCompletes`,
  `FatalEndsRun`: the phases of the application.  `OutcomeIsHonest` relates the state
  `Wait` leaves, the error it returns, and what happened to the threads and the router,
  in both directions: no error of theirs is lost, however late in a stop it comes, and no
  stop alone is taken for a failure.  It leaves out `MockVideoCapture`, which does that,
  and it says that a failed `Start`, whose error is not kept, ends stopped (section 6).
* `PublishedIsWhole`, `RecordingIsKept`: what the disk holds after any sequence of
  failures, aborts, kills and restarts.  `SessionsAreReleased`: no session is freed
  without a trailer having been tried, none that was ended is given another one, and only
  a `Flush` whose trailer failed tries twice.  `ReconnectsAreSpaced`, `Reconnects`: the reconnection protocol.
* `EncodedPtsIsCapturePts`, `AudioIsWhole`, `ContinuityErrorHasCause`: that the encoder
  counts a time line of its own and yet never drifts from the capture's, because it
  refuses every block that does not continue the last; that nothing is lost between
  the queue and the last packet of a drain; and that overruns, partial reads and
  time-outs never cause such a refusal, but a half-failed recovery does.
* `BuffersAreConserved`, `FramesAreInOrder`: buffers of the camera on each path out
  of `Read`.  `PacketsCarryTheirFrame`, `DrainDeliversFrames`: the codec's delay against
  the two ways to keep the table.  `ResourcesAreReleased`: 192 configurations, a failure at
  any step of any `Open`; what is left behind is a buffer the MPP encoder has lost its
  pointer to, and nothing else.
* `EveryResultIsDrawn`: if the overlay waits long enough for a full inference queue, no
  result is computed in vain, whatever the two queues drop.  It asks that inference takes
  time: with a latency of nothing, a camera that catches up after failed reads has two
  results at one moment, and the second takes the place of the first before the encoder
  looks (TLC finds this execution when the condition is dropped).  `HealthyIsNotReported` and
  `HangIsBlamed`: the stall detector has no false alarm, no miss, and does not accuse
  the worker that starves behind the one that hangs; a blocking queue passes the hang
  on to its producer, which the property says.  For which time-outs the two hold is the
  subject of `SumCoversTheStages` and `BlameIsRight` (section 5).

## 5. Proofs

| Module | Assumes | Inductive invariant | Establishes |
|---|---|---|---|
| `BoundedQueueProofs` | `QueueAssumption` | `QueueInv` | capacity, counters, newest kept, lossless delivery, closing, `ImplementsChannel` |
| `BoundedQueueProofs` | `QueueAssumption` | `WakeupInv` | `NoStrandedWaiter` |
| `PacketRouterProofs` | `RouterAssumption` | `RouterInv` | flag implies error, first error kept, sinks closed once |
| `PacketRouterProofs` | `RouterAssumption` | `DeliveryInv` | `LosslessDelivery`, `DrainIsComplete`, `RecoveredIsRunning`, `QueuesAreChannels` |
| `ApplicationProofs` | `ApplicationAssumption` | `AppInv`; with `ErrorsHaveCauses` for `OutcomeIsHonest` | all safety properties of `app_failing`, `ImplementsLifecycle` |
| `VideoEncoderProofs` | `EncoderAssumption` | `EncoderInv`, `DrainInv` | `PacketsCarryTheirFrame`, `DrainDeliversFrames` |
| `V4l2CaptureProofs` | `V4l2Assumption` | `V4l2Inv`, with `Ordered` | `BuffersAreConserved`, `FramesAreInOrder` |
| `AudioPathProofs` | `AudioAssumption` | `LineInv`; `DeviceInv` and `SampleInv`; `TakenInv` and `WholeInv` | `ContinuityErrorHasCause`; `EncodedPtsIsCapturePts`, `TypeOK`; `AudioIsWhole` |
| `VideoPathProofs` | `VideoAssumption` | `TypesInv`; `DrawInv`; `HealthInv`; `BlameInv` | `TypeOK`; `EveryResultIsDrawn`; a hang is found; `HealthyIsNotReported` and `HangIsBlamed` for a time-out that covers the stages |
| `PeripheralsProofs` | `SinksAssumption` | `SinksInv` | `PublishedIsWhole`, `RecordingIsKept`, `SessionsAreReleased`, `ReconnectsAreSpaced` |
| `PeripheralsProofs` | nothing | `BackInv` | `ResourcesAreReleased` |
| `PeripheralsProofs` | the four assumptions of the parts | those of the parts | the properties above for `AnySpec`, `PartsTypeOK` |

None of them bounds the number of threads, sinks, buffers or items.  The
assumptions say that capacities are positive, settings have the right shape and the
threads of a queue are finitely many; the bounds on the environment (`MaxFrames`, `MaxTime`) stay in the guards but may be any
number.  The assumptions of the modules that `Peripherals` instantiates are a hypothesis of
their theorems; `PeripheralsAssumption` states them, `PartsAssume` discharges them from
it, and TLC evaluates it in the run.

**Queue.** Neither the accounting nor the absence of gaps is inductive alone: an
Abort clears the deque, so the invariant adds that an aborted queue is closed and
stays empty, and that a lossless queue that was not aborted has dropped only what it
refused on arrival; that the newest items are kept rests on two lemmas about
intervals (`TailNewest`, `AppendNewest`).  `QueueImplementsChannel` maps the initial
state to an initial state and each step to `Accept`, `Deliver`, `Drain`, `Abort` or
a stutter of `MediaChannel`.

**Wakeups.** `NoStrandedWaiter` counts: the items in the queue are at most the consumers
that are awake plus the notifications producers still owe, as long as some consumer
sleeps, and likewise for the free places.  Both halves are one formula, `Served`, with
the sides exchanged.  It is not inductive alone.  It needs that nobody goes to sleep
without cause (`BlocksForCause`: a thread about to sleep still finds the queue empty, or
full) and that only blocking calls sleep (`OnlyBlockingWaits`).  Each step moves one
thread, so `GotoCounts` says once for all steps what a move does to the two counts; then
an item pushed is paid for by the notification owed, and a notification by the thread it
wakes, or by the fact that nobody sleeps.

**Router.** Besides the type invariant and the properties it contains, `RouterInv`
says that only required sinks are on their way to raise the flag and that an
error is stored before, that nothing runs before `Start`, and that the threads
`Stop` has already joined are done.  `DeliveryInv` adds what each queue and each
sink's thread have in common: a queue keeps at most its capacity, an emptied queue has
delivered the newest it accepted, what a lossless sink has written is what its
queue delivered but for the packet in its hand, an intact sink leaves its loop only
when its queue is drained and flushes before it closes, and the mode of a stop is
chosen once, by a `Stop` that finds all threads started.  Each step of a sink or an
encoder touches one sink's part, so the lemma `DeliveryFrame` disposes of the others.

**Application.** `AppInv` follows the owner: what `state`, `mode`, `token`, the
backends and the router can be at each of its places (`StateFollows`,
`StartFollows`), and that every active thread has its backend and every active
encoder a running router (`UsersAreServed`).  Its heart is `PlanFollows`: each
operation of `StopWorkers` is either still in the plan or has had its effect, and the
plan is ordered (a thread is joined before its backend is released, the encoders
before the router is stopped, the router before its error is adopted); so when the
plan is empty all effects hold together, which is `StoppedIsQuiet`, and while it is not
no effect can hurt a user, which is `DevicesOutliveUsers` and `NoPacketMissesRouter`.
`NothingIsLost` is the account of a graceful stop without an error: what a queue keeps,
what an encoder holds and what was submitted add up, and no thread leaves a
queue before it is drained.  Every step is shown to keep each conjunct in one lemma
for the six threads, one for the thread outside and one for each kind of operation of
the plan.  The refinement needs of the invariant that a cause is stored before
the stop is asked for.  `OutcomeIsHonest` needs `ErrorsHaveCauses` besides: an error a
thread came upon is stored or about to be, a stored one is some thread's or the
router's, and where nothing is at fault there is none but an audio overrun.  What a step
of a thread can do to the errors is one lemma for both (`WorkerIsOneOf`): it fails for a
cause that is there, it stores, or it touches none.

**Encoders.** The times in the codec increase and each has its entry, so the entry
that leaves with a packet is never one another frame still needs.  `DrainInv` is the
account behind `DrainDeliversFrames`: until a call fails, the times of the packets made,
followed by those in the codec, are exactly the times that were sent, and a loop that
ends well leaves the codec empty.

**Camera.** Queued, filled, held and lost buffers are four disjoint sets without
repetition, so their sizes add up; the contents of the filled ones grow from the last
frame delivered on.

**Audio.** The blocks in the queue continue each other, from the one the encoder
expects to the one the capture is about to queue.  The claim is void once a restart
has moved the time line (`jumped`), which is exactly what the theorem allows.  That packets say when they were
captured rests on `SampleInv`, about the samples themselves: the FIFO holds consecutive
samples from the one the next frame will be named after to the one before the next
block expected, all frames made are exact, and only the frame that empties the FIFO at
the end is padded.  Continuity is needed where a block is appended (`SamplesContinue`) and
its cut where a frame is taken off (`Remainder`); after a failed call the loop goes on to
the flush only, so no later block is appended to what the failure left behind.

`AudioIsWhole` needs two more accounts.  `WholeInv` is that of the samples: while there is
no error, what was pushed is what the packets carry, the FIFO holds and the queue holds
together; a frame takes from the FIFO exactly what it carries (`FrameTakes`) and starts where
the last one ended (`NextInOrder`), and the encoder ends only after a queue that is closed,
which needs that the capture has stopped before.  `TakenInv` is that of their order:
samples are told apart by their times, and a capture that takes a new time line from the
clock (`Start`) goes on with later ones only because the old line, with what the device
still holds, is never ahead of the clock.

**Timing.** `EveryResultIsDrawn` looks back at frames that are encoded; `Settled` looks
ahead: a frame that was encoded bare is not in inference, nor in its queue, nor will it be.
Four facts make this inductive.  Frames go through both branches in the order of their
numbers (`InferenceOrder`, `EncodeOrder`), so a later result means that an earlier frame's
will not come.  A frame that is not marked as submitted is one inference has never seen
(`Unsubmitted`).  A result that a frame on its way is still waiting for was computed at
this very moment and is the latest (`ResultIsNew`), which holds because time does not pass
while the encoder can use it.  And inference is through with the frame the encoder holds before
the encoder gives up (`InTime`), whatever the place of that frame in the queue: each step of
inference moves the queue up by one place and takes one latency.  No policy of the
queues matters, but that what they keep is in order (`PushedQueue`).  `SilenceIsNoticed`
follows the check: after each, every worker was heard of within the time-out.

**Stalls.** Whether the detector is right about whom it reports depends on the time-out, and
the proof says on what.  `FramesApart` is the longest time between two frames.  The
overlay waits for a result before it encodes, so the encoder may be silent for
`FramesApart` and the wait; a thinned frame goes through inference one after the other, so
inference may be silent for `FramesApart`, the interval of `max_fps` and the latency.
`TimeoutCovers` asks for these sums, where `Validate` asks for the maximum of the stages:
`SumCoversTheStages` is the bound the finding of `throttled_inference` calls for, and that
run shows that less is not enough.  `BlameInv` bounds, for each worker that does not
hang, how long ago it last reported, whether it is idle or busy and whether the worker
before it hangs.  A hung worker is silent from then on, and the ones it starves fall
silent no earlier, because each has reported at or after the last report before it
(`EncodeOnTime`, `InferenceOnTime`); the detector looks at the workers in the order of the
pipeline, so it finds the cause first (`DetectionIsFirst`).  The other conditions
of the two theorems are not for the proof's sake: for each one TLC finds an execution
against the property when it is dropped (a variant of `Plain` in `MCVideoPath` and a `MaxTime`
of 26 are enough).  With frames thinned by `max_fps`, inference last
reported when it got its last frame, and may be overdue before the camera that hangs.
Thinning goes by the PTS, so a camera slower than its pace lets a frame through less often
than `max_fps` says.  Reads that fail keep the workers behind the camera waiting for
the retries.  A blocking queue passes the hang on to its producer, which the
property itself allows.

**Backends.** `BackInv` follows the owner.  While devices are opened, the ones before the
current one hold all that their `Open` acquires, and the current one what its steps so far
have; when all are open, all hold everything; and from the failure or the stop on, what is
still held belongs to a device that is still in the plan.  The last holds for each of the
seven ways to fail because every plan ends with `StopOrder`, which names every device.
That nothing outlives what it is used through needs that an `Open` acquires a thing after
what it is used through, and that `CloseOrder` gives it back before.  The buffers the MPP
encoder forgot are outside all this, and the invariant says that only that encoder has any.
No assumption on the
configuration is used: the theorem covers all of `Setups`.

**Composition.** `Peripherals` is checked as one specification, `AnySpec`, in which one
part moves and the others rest.  Its theorems are carried over: each part's theorems are
taken by an instance of their module, and one lemma for each part (`OutputsAreSinks`,
`BackendsAreBackends`, `AudioIsAudioPath`, `CameraIsV4l2Capture`, `VideoIsVideoEncoder`)
shows that a behaviour of `AnySpec` is one of the part's specification.

**Outputs.** A whole file at the final name is not inductive alone.  The invariant adds
that until a run publishes, what has the final name is an earlier run's and the `.part`
file its own, and that inside Flush the `.part` file is whole before it is renamed.  For
RTSP, `connected` says exactly whether there is a session between two calls, so every
path that releases it tries a trailer, and a second one is tried only where `Flush` calls
`ReleaseFormat` with `connected` still set after its own trailer failed; and what is left of the wait plus what has passed since the last
failure makes at least the interval while the sink is served.

Only model-checked:

* all liveness properties (`queue_waits`, `router_stops`, `app_stops`, `Reconnects`), which
  the prover cannot treat with fairness.

`HangIsBlamed` and `HealthyIsNotReported` are proved for the configurations in `BlameIsClear`
and `TimeoutCovers`; for the others of the run TLC alone speaks.

## 6. Divergences without a run of their own

* `stop_callback` of `Push` and `Pop` (`include/rkav/queue/bounded_queue.h:64`,
  `:125`): a request between the predicate test and the sleep is lost for an
  untimed call.  `app_stuck_producer` shows the consequence; a timed call returns by its
  time-out anyway.  `ManualClock::WaitUntil` (`src/common/clock.cpp:62`), which only tests use, has the
  same gap.
* Isolation during a drain (`src/output/packet_router.cpp:116`): `Close(kAbort)` on
  a draining queue does not release the backlog, for the reason
  `queue_abort_upgrade` shows.
* The health report of a retryable error is throttled to one per second
  (`src/output/packet_router.cpp:87`), so an error soon after a recovery leaves the
  sink marked as running.  `RecoveredIsRunning` states what does hold.
* In an Abort the queues are closed before the encoder threads are told to stop
  (`src/app/application.cpp:431`), so an encoder that wakes in between flushes, and so
  does one whose `Encode` has just failed; the comment at
  `src/app/application.cpp:847` says that the Abort path does not flush.
* `MockVideoCapture::Read` tests `open_` before it waits with the stop token
  (`src/capture/mock/mock_video_capture.cpp:124`).  `StopWorkers` requests the thread to
  stop and then closes the capture, so a thread that is just entering `Read` fails with
  "capture is not open" and reports that as fatal: a stop without any fault may end with
  `kFailed` and an error, which the test at `tests/integration/application_test.cpp:45`
  rules out ("正常停止进入 Stopped 且错误计数为 0").  The other captures test the token first.
  `ReadFindsClosed` is that step; `OutcomeIsHonest` excludes the capture that has it.
* A `Start` that fails stores `kFailed` (`src/app/application.cpp:84`, `:90`, `:96`) and
  calls `StopWorkers`, which stores `kStopping` (`:402`) and in the end `kStopped` (`:495`),
  because the error was returned and not kept in `fatal_error_`.  So `state()` never shows
  that `Start` failed, and the destructor finds nothing left to stop.  `main` goes by the
  error that `Start` returns.
* When the trailer of an RTSP session fails, `Flush` calls `ReleaseFormat` with `connected`
  still set, which writes a second trailer on the same context
  (`src/output/ffmpeg/ffmpeg_rtsp_sink.cpp:433`-`437`; the comment there says it means to).
  Whether libavformat can take that is not assumed; the model only tells it apart.
* The MPP encoder gets a buffer for the frame and overwrites its pointer with null when the
  buffer has no mapping (`src/media/mpp/mpp_rga_video_encoder.cpp:388`-`390`), without
  putting the buffer back: each such `Encode` loses one, and the group is put while it is
  still out.
* The comment at `src/app/application.cpp:218` promises a rollback in strictly reverse
  order; the two JPEG decoders are closed in the order they were opened.  Nothing
  depends on it (`ResourcesAreReleased`).
* A failed `PREPARE` in `AlsaAudioCapture::Recover` leaves the device in its overrun
  with `started_` cleared.  The next `Read` tries to start a stream that is not
  prepared, its error is no overrun, and nobody calls `Recover` again: the loop
  retries until the stall detector ends the run.  A failed `START` is
  followed by a start that takes a new time line, which the AAC encoder
  refuses.  A `Recover` that succeeds goes on with the old time line, so the audio
  lags behind the clock by what the overrun lost.
* A failure in the receive loop of either encoder drops the packets the same call
  had already received, and `sequences_by_pts` of the MPP encoder is never pruned
  (`src/media/mpp/mpp_rga_video_encoder.cpp:447`).  An error of
  `encode_get_packet` that comes without a packet is taken for an empty codec
  (`:452`).
* A kill or an abort leaves the `.part` file of an H.264 output, and the next `Open`
  refuses the path until somebody removes it (`src/output/sinks.cpp:247`); the MP4
  output truncates the left-over and later replaces the old recording.

## 7. Not modelled

* Pixels, samples as sound, payloads, tensors and detections: a frame, a block, a packet
  or a result is its number or its time.  With them go colour conversion, the copy
  into hardware buffers and their strides, the overlay's drawing, and the
  letterbox, its inverse and non-maximum suppression in `src/vision`: floating point
  arithmetic on one frame, without state, which TLC does not have.
* `RescaleTimestamp` (`src/common/clock.cpp`): 80-bit floating point.  The conversion
  between samples and microseconds is the identity in `AudioPath`, because `Validate` asks
  for whole samples in a block (`src/config/config.cpp:523`).  The
  deadlines of the pacer are modelled and proved exact; their overflow branches start after hundreds of
  thousands of years.
* Parsing of the configuration and the checks of single fields; of `Validate` only the
  relations between times are behaviour of the running system.
* The checksum encoders answer each call at once and keep nothing; the null and
  the JSON lines sink publish nothing; the logger, the texts of errors and the
  counters of the metrics are output.
* The objects that live inside one call of `Encode` or `Flush` of the MPP encoder (its
  `MppFrame`, `MppPacket` and RGA handles): `Backends` has what lives longer than a call.
* The vendor libraries behind the NPU, the JPEG decoder, MPP and the RGA, and the kernel:
  modelled from how the code uses them, as far as the code depends on them.  A driver
  that returns a buffer index out of range is left out.
* `main` polls a signal flag and calls `RequestStop`, which `Application` has; the RKNN
  smoke tool is a program of its own.

Data races do not occur in the modelled code: every shared field is
atomic or under a mutex, so no step has an undefined outcome.
