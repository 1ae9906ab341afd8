--------------------------- MODULE MCApplication ----------------------------
(* Instances of Application for TLC: the policies of the shipped configurations
   and the one the configuration also admits, with queues of one frame. *)
EXTENDS Application

DefaultPolicies ==
  [q \in Queues |-> CASE q = "inference" -> "keep_latest"
                      [] q = "video_encode" -> "drop_oldest"
                      [] q = "audio_encode" -> "block_producer"]

BlockingInference ==
  [q \in Queues |-> IF q = "video_encode" THEN "drop_newest" ELSE "block_producer"]

Setup(policy, delay, frames, faults, mock) ==
  [policy |-> policy, delay |-> delay, frames |-> frames, faults |-> faults,
   mockVideo |-> mock]

Frames(video, audio) == [c \in Captures |-> IF c = "video_capture" THEN video ELSE audio]

SmallQueues == [q \in Queues |-> 1]

(* Nothing fails: overflowing video queues, and encoders with a delay. *)
Overflow == Setup(DefaultPolicies, 1, Frames(2, 0), {}, FALSE)
BothStreams == Setup(DefaultPolicies, 1, Frames(1, 1), {}, FALSE)
Backpressure == Setup(BlockingInference, 0, Frames(2, 0), {}, FALSE)

(* The encoder and the router, the captures, or Start itself may fail. *)
BreakingOutput == Setup(DefaultPolicies, 1, Frames(1, 0), {"video_encode", "router"}, FALSE)
BreakingCapture == Setup(DefaultPolicies, 0, Frames(0, 2), {"audio_capture", "stall"}, TRUE)
BreakingStart == Setup(DefaultPolicies, 0, Frames(1, 0), {"start"}, FALSE)
DyingInference == Setup(DefaultPolicies, 0, Frames(1, 0), {"inference"}, FALSE)
DyingConsumer == Setup(BlockingInference, 0, Frames(3, 0), {"inference"}, FALSE)

AllSetups ==
  {Overflow, BothStreams, Backpressure, BreakingOutput, BreakingCapture, BreakingStart}
LiveSetups == {Backpressure, DyingInference}
StuckSetup == {DyingConsumer}

=============================================================================
