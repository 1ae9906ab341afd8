----------------------------- MODULE Peripherals -----------------------------
(***************************************************************************)
(* What surrounds the queues and the router: the capture devices, the      *)
(* codecs, the outputs, and what all backends hold.  Each is driven by a   *)
(* thread of its own and shares no state with the others, so a behaviour   *)
(* is one of one of them; the others rest in a first state.                *)
(***************************************************************************)
EXTENDS Sinks, Integers

CONSTANTS
  Block, Ring, Timeout, Capacity, Frame, Delay, XrunEvery, LastBlock, MaxTime,
  Requested, VideoDelay, MaxFrames

VARIABLES
  subject,      \* the part of the system this behaviour is about
  now, source, pcm, ring, started, nextPts, blocks, injected, got, deadline, at, block, jumped,
  queue, closed, phase, taken, enc, smallLast, expected, origin, fifo, codec, output, submitted,
  error,                                                          \* AudioPath
  call, fd, mapped, streaming, granted, incoming, outgoing, content, produced, held, copy,
  delivered, lost,                                                \* V4l2Capture
  backend, loop, cancelled, last, table, frames, received, packets, sent, failed, \* VideoEncoder
  setup, progress, device, opening, resources, plan               \* Backends

Audio == INSTANCE AudioPath
V4l2 == INSTANCE V4l2Capture
Video == INSTANCE VideoEncoder
  WITH Delay <- VideoDelay, codec <- frames, output <- received, submitted <- packets
Back == INSTANCE Backends
  WITH phase <- progress, step <- opening, held <- resources

ASSUME PeripheralsAssumption ==
  Audio!AudioAssumption /\ V4l2!V4l2Assumption /\ Video!EncoderAssumption

audioVars ==
  <<now, source, pcm, ring, started, nextPts, blocks, injected, got, deadline, at, block, jumped,
    queue, closed, phase, taken, enc, smallLast, expected, origin, fifo, codec, output, submitted,
    error>>
v4l2Vars ==
  <<call, fd, mapped, streaming, granted, incoming, outgoing, content, produced, held, copy,
    delivered, lost>>
encoderVars ==
  <<backend, loop, cancelled, last, table, frames, received, packets, sent, failed>>
backendVars == <<setup, progress, device, opening, resources, plan>>
everything == <<subject, vars, audioVars, v4l2Vars, encoderVars, backendVars>>

-----------------------------------------------------------------------------
(* Who takes part: the others have one first state. *)

NoOutput == File!Init /\ kind = "h264" /\ NoSession
NoAudio == Audio!Init /\ source = "mock" /\ ~smallLast
NoVideo == Video!Init /\ backend = "ffmpeg"
NoBackends ==
  /\ Back!Init
  /\ setup = [video_capture |-> "mock", audio_capture |-> "mock", inference |-> "mock",
              video_encoder |-> "checksum", audio_encoder |-> "checksum",
              mjpeg |-> FALSE, overlay |-> FALSE]

AnyInit ==
  /\ V4l2!Init
  /\ \/ subject = "output" /\ CreatePacketSink /\ NoAudio /\ NoVideo /\ NoBackends
     \/ subject = "audio" /\ Audio!Init /\ NoOutput /\ NoVideo /\ NoBackends
     \/ subject = "v4l2" /\ NoOutput /\ NoAudio /\ NoVideo /\ NoBackends
     \/ subject = "video" /\ Video!Init /\ NoOutput /\ NoAudio /\ NoBackends
     \/ subject = "backends" /\ Back!Init /\ NoOutput /\ NoAudio /\ NoVideo

OutputStep ==
  subject = "output" /\ Next /\ UNCHANGED <<audioVars, v4l2Vars, encoderVars, backendVars>>
AudioStep ==
  subject = "audio" /\ Audio!Next /\ UNCHANGED <<vars, v4l2Vars, encoderVars, backendVars>>
V4l2Step ==
  subject = "v4l2" /\ V4l2!Next /\ UNCHANGED <<vars, audioVars, encoderVars, backendVars>>
VideoStep ==
  subject = "video" /\ Video!Next /\ UNCHANGED <<vars, audioVars, v4l2Vars, backendVars>>
BackendStep ==
  subject = "backends" /\ Back!Next /\ UNCHANGED <<vars, audioVars, v4l2Vars, encoderVars>>

AnyNext ==
  /\ OutputStep \/ AudioStep \/ V4l2Step \/ VideoStep \/ BackendStep
  /\ UNCHANGED subject

AnySpec == AnyInit /\ [][AnyNext]_everything /\ (subject = "output" => Rtsp!Fairness)

-----------------------------------------------------------------------------
(* Properties *)

(* The type invariants. *)
PartsTypeOK ==
  /\ TypeOK /\ Audio!TypeOK /\ V4l2!TypeOK /\ Video!TypeOK /\ Back!TypeOK

(* Every audio packet says when its samples were captured. *)
EncodedPtsIsCapturePts == Audio!EncodedPtsIsCapturePts

(* The audio time line breaks only after a restart that could not start the device. *)
ContinuityErrorHasCause == Audio!ContinuityErrorHasCause

(* A drain without an error has delivered every sample that entered the queue,
   once and in order, through the re-blocking and the delay of the encoder; only
   padding is added, at the end of a packet. *)
AudioIsWhole == Audio!AudioIsWhole

(* No path through Read loses a buffer of the driver, but a requeue that fails. *)
BuffersAreConserved == V4l2!BuffersAreConserved

(* Camera frames come in order, once each, and unspoilt by the driver. *)
FramesAreInOrder == V4l2!FramesAreInOrder

(* Every video packet names the frame it was made of. *)
PacketsCarryTheirFrame == Video!PacketsCarryTheirFrame

(* A drain without an error has a packet for each frame the codec took. *)
DrainDeliversFrames == Video!DrainDeliversFrames

(* No backend leaves a resource behind, but buffers the MPP encoder forgot, and none
   is given back before what is used through it. *)
ResourcesAreReleased == Back!ResourcesAreReleased

=============================================================================
