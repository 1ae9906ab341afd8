----------------------------- MODULE AudioPath ------------------------------
(***************************************************************************)
(* The audio path: AlsaAudioCapture or MockAudioCapture, AudioCaptureLoop, *)
(* the bounded audio queue, AudioEncodeLoop and FfmpegAudioEncoder.        *)
(*                                                                         *)
(* Time advances by one sample period.  A sample is the presentation time  *)
(* its block gave it, so a packet shows which samples it really carries.   *)
(* The kernel's PCM device and libavcodec are modelled from how they are   *)
(* used: the device stops with an overrun when its ring is full, the AAC   *)
(* encoder holds back some frames until it is drained.                     *)
(***************************************************************************)
EXTENDS Integers, Sequences

CONSTANTS
  Block,        \* samples_per_frame: samples in a block of Read
  Ring,         \* buffer_frames: samples the device can hold
  Timeout,      \* capture_timeout_ms, in samples
  Capacity,     \* blocks in the audio queue
  Frame,        \* samples in an AAC frame
  Delay,        \* frames libavcodec may hold back
  XrunEvery,    \* failure.xrun_every_blocks of the mock
  LastBlock,    \* failure.disconnect_after_blocks of the mock
  MaxTime       \* bound: samples in an execution

AudioAssumption ==
  /\ Block \in Nat \ {0} /\ Ring \in Nat \ {0} /\ Frame \in Nat \ {0}
  /\ Ring >= Block
  /\ Timeout \in Nat /\ Capacity \in Nat \ {0} /\ Delay \in Nat
  /\ XrunEvery \in Nat \ {0} /\ LastBlock \in Nat /\ MaxTime \in Nat

VARIABLES
  now,          \* the clock, in sample periods
  \* capture
  source,       \* the capture: "alsa" or "mock"
  pcm,          \* the device: "prepared", "running", "xrun" or "gone"
  ring,         \* samples in the device
  started,      \* started_
  nextPts,      \* next_pts_us_, or start_us_ + block_sequence_ * duration
  blocks,       \* sequence_ / block_sequence_
  injected,     \* last_injected_xrun_sequence_
  got,          \* completed_frames of the Read in progress
  deadline,     \* deadline of the Read in progress
  at,           \* where AudioCaptureLoop is
  block,        \* PTS of the block it is pushing
  jumped,       \* history: a restart after an overrun prepared the device only
  \* queue and stop
  queue,        \* audio_encode_queue_: PTS of each block
  closed,       \* the queue was closed
  phase,        \* "running", "drain" or "abort"
  taken,        \* history: the samples of the blocks pushed
  \* encoder
  enc,          \* where AudioEncodeLoop is
  smallLast,    \* AV_CODEC_CAP_SMALL_LAST_FRAME
  expected,     \* expected_next_pts_us, or None
  origin,       \* next_encoded_pts, or None while !have_pts
  fifo,         \* the samples in the FIFO
  codec,        \* the frames libavcodec holds
  output,       \* packets the call in progress has collected
  submitted,    \* history: packets given to the router
  error         \* the fatal error, or "none"

deviceVars == <<source, pcm, ring>>
captureVars == <<started, nextPts, blocks, injected, got, deadline, at, block, jumped>>
queueVars == <<queue, closed, phase, taken>>
encoderVars == <<enc, smallLast, expected, origin, fifo, codec, output, submitted>>
audioVars == <<now, deviceVars, captureVars, queueVars, encoderVars, error>>

None == -1
Silence == -2

Least(a, b) == IF a < b THEN a ELSE b

(* The n samples whose presentation starts at p. *)
Samples(p, n) == [i \in 1 .. n |-> p + i - 1]

Init ==
  /\ now = 0
  /\ source \in {"alsa", "mock"}
  /\ pcm = "prepared" /\ ring = 0
  /\ started = FALSE /\ nextPts = 0 /\ blocks = 0 /\ injected = 0
  /\ got = 0 /\ deadline = 0 /\ at = "fetching" /\ block = 0 /\ jumped = FALSE
  /\ queue = <<>> /\ closed = FALSE /\ phase = "running" /\ taken = <<>>
  /\ enc = "popping" /\ smallLast \in BOOLEAN
  /\ expected = None /\ origin = None /\ fifo = <<>> /\ codec = <<>>
  /\ output = <<>> /\ submitted = <<>>
  /\ error = "none"

-----------------------------------------------------------------------------
(* The device and time *)

(* stop_threshold is the whole ring: a ring that fills up stops the stream. *)
Tick ==
  /\ now < MaxTime
  /\ now' = now + 1
  /\ IF pcm = "running"
     THEN /\ ring' = ring + 1
          /\ pcm' = IF ring + 1 >= Ring THEN "xrun" ELSE pcm
     ELSE UNCHANGED <<ring, pcm>>
  /\ UNCHANGED <<source, captureVars, queueVars, encoderVars, error>>

Unplug ==
  /\ source = "alsa" /\ pcm # "gone"
  /\ pcm' = "gone"
  /\ UNCHANGED <<now, source, ring, captureVars, queueVars, encoderVars, error>>

-----------------------------------------------------------------------------
(* AlsaAudioCapture *)

Stopping == phase # "running"
OnlyCapture == UNCHANGED <<now, source, queueVars, encoderVars, error>>
Go(place) == at' = place

(* The first Read after Open, and after a Recover that failed, starts the
   stream; from then on the time of a block is the count of samples read. *)
Start ==
  /\ pcm = "prepared"
  /\ pcm' = "running" /\ ring' = 0
  /\ started' = TRUE
  /\ nextPts' = now

ReadBegins ==
  /\ source = "alsa" /\ at = "fetching" /\ ~Stopping
  /\ IF started THEN UNCHANGED <<pcm, ring, started, nextPts>> ELSE Start
  /\ got' = 0 /\ deadline' = now + Timeout
  /\ Go("reading")
  /\ UNCHANGED <<blocks, injected, block, jumped>>
  /\ OnlyCapture

(* START fails, as it must on a device that is not prepared: the error is
   retryable but not an XRUN, and nobody calls Recover for it. *)
StartFails ==
  /\ source = "alsa" /\ at = "fetching" /\ ~Stopping
  /\ ~started
  /\ Go("retrying")
  /\ UNCHANGED <<pcm, ring, started, nextPts, blocks, injected, got, deadline, block, jumped>>
  /\ OnlyCapture

ReadPart ==
  /\ at = "reading" /\ ~Stopping
  /\ now < deadline
  /\ pcm = "running" /\ ring \in 1 .. Block - got - 1
  /\ got' = got + ring /\ ring' = 0
  /\ UNCHANGED <<pcm, started, nextPts, blocks, injected, deadline, at, block, jumped>>
  /\ OnlyCapture

ReadSucceeds ==
  /\ at = "reading" /\ ~Stopping
  /\ now < deadline
  /\ pcm = "running" /\ ring >= Block - got
  /\ ring' = ring - (Block - got) /\ got' = 0
  /\ block' = nextPts /\ nextPts' = nextPts + Block /\ blocks' = blocks + 1
  /\ Go("pushing")
  /\ UNCHANGED <<pcm, started, injected, deadline, jumped>>
  /\ OnlyCapture

(* A time-out, a dead device or an overrun: the samples read so far are
   dropped and the block is not counted. *)
FailedRead ==
  /\ got' = 0
  /\ UNCHANGED <<pcm, ring, started, nextPts, blocks, injected, deadline, block, jumped>>
  /\ OnlyCapture

ReadError == IF pcm = "xrun" THEN "recovering" ELSE "retrying"

ReadFails ==
  /\ at = "reading" /\ ~Stopping
  /\ \/ now >= deadline /\ Go("retrying")
     \/ now < deadline /\ pcm \in {"xrun", "gone"} /\ Go(ReadError)
  /\ FailedRead

(* The block is too large, memory is short, or the driver's answer makes no sense:
   nobody retries these, AudioCaptureLoop reports them and ends. *)
ReadGivesUp ==
  /\ source = "alsa" /\ at = "reading" /\ ~Stopping
  /\ error' = IF error = "none" THEN "unreadable" ELSE error
  /\ Go("stopped")
  /\ UNCHANGED <<now, deviceVars, started, nextPts, blocks, injected, got, deadline, block,
                 jumped, queueVars, encoderVars>>

(* Recover prepares and starts the device; the time line goes on where it was,
   whatever was lost. *)
RestartAt(pts) ==
  /\ source = "alsa" /\ at = "recovering"
  /\ pcm = "xrun"
  /\ pcm' = "running" /\ ring' = 0
  /\ started' = TRUE
  /\ nextPts' = pts
  /\ Go("fetching")
  /\ UNCHANGED <<blocks, injected, got, deadline, block, jumped>>
  /\ OnlyCapture

AlsaRecoversAtNow == RestartAt(now)
AlsaRecovers == RestartAt(nextPts)

RecoverFails ==
  /\ source = "alsa" /\ at = "recovering"
  /\ started' = FALSE
  /\ \/ UNCHANGED <<pcm, jumped>>                              \* PREPARE fails
     \/ pcm = "xrun" /\ pcm' = "prepared" /\ jumped' = TRUE    \* START fails
  /\ Go("retrying")
  /\ UNCHANGED <<ring, nextPts, blocks, injected, got, deadline, block>>
  /\ OnlyCapture

-----------------------------------------------------------------------------
(* MockAudioCapture *)

XrunIsDue == blocks > 0 /\ blocks % XrunEvery = 0 /\ injected # blocks

MockFails ==
  /\ source = "mock" /\ at = "fetching" /\ ~Stopping
  /\ \/ blocks >= LastBlock /\ Go("retrying") /\ UNCHANGED injected
     \/ blocks < LastBlock /\ XrunIsDue /\ Go("recovering") /\ injected' = blocks
  /\ UNCHANGED <<pcm, ring, started, nextPts, blocks, got, deadline, block, jumped>>
  /\ OnlyCapture

MockReads ==
  /\ source = "mock" /\ at = "fetching" /\ ~Stopping
  /\ blocks < LastBlock /\ ~XrunIsDue
  /\ now >= nextPts
  /\ block' = nextPts /\ nextPts' = nextPts + Block /\ blocks' = blocks + 1
  /\ Go("pushing")
  /\ UNCHANGED <<pcm, ring, started, injected, got, deadline, jumped>>
  /\ OnlyCapture

MockRecovers ==
  /\ source = "mock" /\ at = "recovering"
  /\ Go("fetching")
  /\ UNCHANGED <<pcm, ring, started, nextPts, blocks, injected, got, deadline, block, jumped>>
  /\ OnlyCapture

-----------------------------------------------------------------------------
(* The rest of AudioCaptureLoop *)

Retry ==
  /\ at = "retrying" /\ ~Stopping
  /\ Go("fetching")
  /\ UNCHANGED <<pcm, ring, started, nextPts, blocks, injected, got, deadline, block, jumped>>
  /\ OnlyCapture

Push ==
  /\ at = "pushing" /\ ~Stopping
  /\ Len(queue) < Capacity
  /\ queue' = Append(queue, block)
  /\ taken' = taken \o Samples(block, Block)
  /\ Go("fetching")
  /\ UNCHANGED <<now, deviceVars, started, nextPts, blocks, injected, got, deadline, block,
                 jumped, closed, phase, encoderVars, error>>

(* The queue stayed full for 250 ms. *)
PushTimesOut ==
  /\ at = "pushing" /\ ~Stopping
  /\ Len(queue) = Capacity
  /\ error' = IF error = "none" THEN "overloaded" ELSE error
  /\ Go("stopped")
  /\ UNCHANGED <<now, deviceVars, started, nextPts, blocks, injected, got, deadline, block,
                 jumped, queueVars, encoderVars>>

(* Read, the retry wait and Push all return kCancelled when a stop comes. *)
CaptureStops ==
  /\ at # "stopped" /\ at # "recovering" /\ Stopping
  /\ Go("stopped")
  /\ UNCHANGED <<now, deviceVars, started, nextPts, blocks, injected, got, deadline, block,
                 jumped, queueVars, encoderVars, error>>

-----------------------------------------------------------------------------
(* The stop: the captures first, then the queue, then in an Abort the encoder *)

RequestStop ==
  /\ phase = "running"
  /\ phase' = IF error = "none" THEN "drain" ELSE "abort"
  /\ UNCHANGED <<now, deviceVars, captureVars, queue, closed, taken, encoderVars, error>>

CloseQueue ==
  /\ Stopping /\ at = "stopped" /\ ~closed
  /\ closed' = TRUE
  /\ queue' = IF phase = "abort" THEN <<>> ELSE queue
  /\ UNCHANGED <<now, deviceVars, captureVars, phase, taken, encoderVars, error>>

EncoderCancelled == phase = "abort" /\ closed

-----------------------------------------------------------------------------
(* AudioEncodeLoop and FfmpegAudioEncoder *)

EncoderStep == UNCHANGED <<now, deviceVars, captureVars, closed, phase, taken, smallLast>>

(* A failed Encode drops the packets it had collected and ends the loop; the
   encoder is flushed all the same unless it is already cancelled. *)
GoOnAfterFailure == enc' = "popping"
AfterFailure == enc' = IF EncoderCancelled THEN "done" ELSE "flushing"

Fail(what) ==
  /\ error' = IF error = "none" THEN what ELSE error
  /\ output' = <<>>
  /\ AfterFailure

(* The resampler keeps the number of samples, it converts their format only. *)
QueueConverted == fifo' = fifo \o Samples(Head(queue), Block)

Continuous == expected \in {None, Head(queue)}

(* Encode, up to the FIFO: the time line is set by the first block and checked
   at every other; the next block is expected before this one is queued. *)
Accept ==
  /\ enc = "popping" /\ ~EncoderCancelled
  /\ queue # <<>> /\ Continuous
  /\ queue' = Tail(queue)
  /\ expected' = Head(queue) + Block
  /\ origin' = IF origin = None THEN Head(queue) ELSE origin
  /\ \/ /\ QueueConverted
        /\ enc' = "encoding"
        /\ UNCHANGED <<output, error>>
     \/ UNCHANGED fifo /\ Fail("queueing")
  /\ UNCHANGED <<codec, submitted>>
  /\ EncoderStep

Reject ==
  /\ enc = "popping" /\ ~EncoderCancelled
  /\ queue # <<>> /\ ~Continuous
  /\ queue' = Tail(queue)
  /\ Fail("discontinuous")
  /\ UNCHANGED <<expected, origin, fifo, codec, submitted>>
  /\ EncoderStep

(* The frame sent carries n of the FIFO's samples and is size samples long;
   its presentation time is the count of samples sent, not theirs. *)
SendFrame(n, size) ==
  LET frame == [pts |-> origin,
                samples |-> SubSeq(fifo, 1, n) \o [i \in 1 .. (size - n) |-> Silence]]
      held  == Append(codec, frame)
      keep  == Least(Delay, Len(held))
  IN /\ fifo' = SubSeq(fifo, n + 1, Len(fifo))
     /\ origin' = origin + size
     /\ codec' = SubSeq(held, Len(held) - keep + 1, Len(held))
     /\ output' = output \o SubSeq(held, 1, Len(held) - keep)

EncodeFrame ==
  /\ enc = "encoding" /\ Len(fifo) >= Frame
  /\ SendFrame(Frame, Frame)
  /\ UNCHANGED <<enc, expected, queue, submitted, error>>
  /\ EncoderStep

(* No frame could be made of the samples, or the frame made was refused, or
   one that came out of the codec could not be copied. *)
EncodeFails(n, size) ==
  /\ \/ UNCHANGED <<fifo, origin, codec>>
     \/ /\ fifo' = SubSeq(fifo, n + 1, Len(fifo)) /\ origin' = origin + size
        /\ UNCHANGED codec
  /\ UNCHANGED <<expected, queue, submitted>>
  /\ EncoderStep

EncodeFrameFails ==
  /\ enc = "encoding" /\ Len(fifo) >= Frame
  /\ Fail("encoding")
  /\ EncodeFails(Frame, Frame)

EncodeReturns ==
  /\ enc = "encoding" /\ Len(fifo) < Frame
  /\ submitted' = submitted \o output /\ output' = <<>>
  /\ enc' = "popping"
  /\ UNCHANGED <<expected, origin, fifo, codec, queue, error>>
  /\ EncoderStep

QueueEnds ==
  /\ enc = "popping"
  /\ EncoderCancelled \/ (closed /\ queue = <<>>)
  /\ enc' = IF EncoderCancelled THEN "done" ELSE "flushing"
  /\ UNCHANGED <<expected, origin, fifo, codec, output, submitted, queue, error>>
  /\ EncoderStep

(* Flush: the rest of the FIFO goes out as a short last frame, or padded. *)
RestOfFifo == Least(Len(fifo), Frame)
LastSize == IF smallLast THEN RestOfFifo ELSE Frame

FlushFrame ==
  /\ enc = "flushing" /\ fifo # <<>>
  /\ SendFrame(RestOfFifo, LastSize)
  /\ UNCHANGED <<enc, expected, queue, submitted, error>>
  /\ EncoderStep

FlushWith(tail) ==
  /\ enc = "flushing" /\ fifo = <<>>
  /\ submitted' = submitted \o output \o tail
  /\ output' = <<>> /\ codec' = <<>>
  /\ enc' = "done"
  /\ UNCHANGED <<expected, origin, fifo, queue, error>>
  /\ EncoderStep

FlushWithoutDrain == FlushWith(<<>>)
FlushReturns == FlushWith(codec)

FlushFails ==
  /\ enc = "flushing"
  /\ error' = IF error = "none" THEN "flushing" ELSE error
  /\ output' = <<>>
  /\ enc' = "done"
  /\ EncodeFails(RestOfFifo, LastSize)

-----------------------------------------------------------------------------

Rest == at = "stopped" /\ enc = "done" /\ UNCHANGED audioVars

CaptureStep ==
  \/ ReadBegins \/ StartFails \/ ReadPart \/ ReadSucceeds \/ ReadFails
  \/ AlsaRecovers \/ RecoverFails \/ MockFails \/ MockReads \/ MockRecovers
  \/ ReadGivesUp \/ Retry \/ Push \/ PushTimesOut \/ CaptureStops

EncodeStep ==
  \/ Accept \/ Reject \/ EncodeFrame \/ EncodeFrameFails \/ EncodeReturns
  \/ QueueEnds \/ FlushFrame \/ FlushReturns \/ FlushFails

Next == Tick \/ Unplug \/ CaptureStep \/ RequestStop \/ CloseQueue \/ EncodeStep \/ Rest

Spec == Init /\ [][Next]_audioVars

-----------------------------------------------------------------------------
(* Properties *)

Packet(p, last) ==
  /\ p.pts \in Nat
  /\ \A i \in DOMAIN p.samples :
       p.samples[i] = p.pts + i - 1 \/ (last /\ p.samples[i] = Silence)

Made == submitted \o output \o codec

(* The type invariant. *)
TypeOK ==
  /\ now \in 0 .. MaxTime /\ ring \in 0 .. Ring /\ got \in 0 .. Block - 1
  /\ pcm \in {"prepared", "running", "xrun", "gone"}
  /\ at \in {"fetching", "reading", "recovering", "retrying", "pushing", "stopped"}
  /\ enc \in {"popping", "encoding", "flushing", "done"}
  /\ Len(queue) <= Capacity /\ Len(codec) <= Delay
  /\ nextPts \in Nat /\ blocks \in Nat
  /\ phase \in {"running", "drain", "abort"}

(* Every packet says when its samples were captured, through the re-blocking of
   the FIFO, the delay of the codec and every failure: the encoder counts its
   own time line from the first block and never looks at a later PTS again. *)
EncodedPtsIsCapturePts ==
  \A k \in DOMAIN Made : Packet(Made[k], k = Len(Made) /\ enc \in {"flushing", "done"})

(* The encoder meets a block that does not continue the last one only after a
   restart that prepared the device and could not start it; overruns, time-outs,
   short reads and a mock's faults leave the time line whole. *)
ContinuityErrorHasCause == error = "discontinuous" => jumped

(* The samples that packets carry, without what pads the last one. *)
Values(s) == {s[i] : i \in DOMAIN s}
Sound(packet) == Values(packet.samples) \ {Silence}
Carried(packets) == UNION {Sound(packets[k]) : k \in DOMAIN packets}

Increasing(s) == \A i, j \in DOMAIN s : i < j => s[i] < s[j]

(* A drain without an error has delivered every sample that entered the queue,
   once and in order, through the re-blocking and the delay of the encoder; only
   padding is added, at the end of a packet. *)
AudioIsWhole ==
  enc = "done" /\ phase = "drain" /\ error = "none" =>
    /\ Carried(submitted) = Values(taken) /\ Increasing(taken)
    /\ \A k, l \in DOMAIN submitted : k < l =>
         \A x \in Sound(submitted[k]), y \in Sound(submitted[l]) : x < y
    /\ \A k \in DOMAIN submitted : \A i, j \in DOMAIN submitted[k].samples : i < j =>
         \/ submitted[k].samples[j] = Silence
         \/ Silence # submitted[k].samples[i] /\ submitted[k].samples[i] < submitted[k].samples[j]

=============================================================================
