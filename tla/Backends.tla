------------------------------ MODULE Backends ------------------------------
(***************************************************************************)
(* What the backends acquire and release: CreateAndOpenBackends opens the  *)
(* configured devices one after the other, each Open acquires its          *)
(* resources one after the other, any step may fail, and StopWorkers       *)
(* closes what there is.  A resource is something the operating system or  *)
(* a vendor library must be given back; steps that only configure or check *)
(* are steps of Open too, because they fail too.                           *)
(***************************************************************************)
EXTENDS Naturals, Sequences

VARIABLES
  setup,        \* the configuration: the backend of each device, and what it needs
  phase,        \* "opening", "running", "stopping" or "stopped"
  device,       \* index in the order of opening
  step,         \* steps of the current Open that succeeded
  held,         \* the resources held, as <<device, resource>>
  plan          \* the devices still to be closed, in this order

backendVars == <<setup, phase, device, step, held, plan>>

-----------------------------------------------------------------------------
(* The backends: the steps of their Open, and the order in which Close gives
   resources back.  The mock devices and the checksum encoders hold none. *)

V4l2Open == <<"fd", "format", "mappings", "queue", "stream">>
V4l2Close == <<"stream", "mappings", "fd">>

(* The stream of an ALSA device is started by the first Read. *)
AlsaOpen == <<"fd", "parameters">>
AlsaClose == <<"stream", "fd">>

JpegOpen == <<"handle", "limit">>
JpegClose == <<"handle">>

(* The model is part of the engine's state, destroyed after the context. *)
RknnOpen == <<"model", "network", "tensors">>
RknnClose == <<"network", "model">>

FfmpegVideoOpen == <<"context", "frame", "codec", "pixels", "scaler">>
FfmpegVideoClose == <<"scaler", "frame", "context">>

FfmpegAudioOpen == <<"context", "codec", "resampler", "fifo">>
FfmpegAudioClose == <<"fifo", "resampler", "context">>

MppLibraries == <<"mpp_library", "rga_library", "symbols">>
MppOpen ==
  MppLibraries \o
    <<"group", "nv12", "pointer", "encoder", "api", "timeout", "config", "settings">>
MppCloseGroupFirst ==
  <<"encoder", "config", "group", "nv12", "rgb", "rga_library", "mpp_library">>
MppClose ==
  <<"encoder", "config", "nv12", "rgb", "group", "rga_library", "mpp_library">>

OpenSteps(kind) ==
  CASE kind = "v4l2" -> V4l2Open [] kind = "alsa" -> AlsaOpen [] kind = "jpeg" -> JpegOpen
    [] kind = "rknn" -> RknnOpen [] kind = "ffmpeg_video" -> FfmpegVideoOpen
    [] kind = "ffmpeg_audio" -> FfmpegAudioOpen [] kind = "mpp" -> MppOpen
    [] OTHER -> <<>>

CloseOrder(kind) ==
  CASE kind = "v4l2" -> V4l2Close [] kind = "alsa" -> AlsaClose [] kind = "jpeg" -> JpegClose
    [] kind = "rknn" -> RknnClose [] kind = "ffmpeg_video" -> FfmpegVideoClose
    [] kind = "ffmpeg_audio" -> FfmpegAudioClose [] kind = "mpp" -> MppClose
    [] OTHER -> <<>>

Elements(s) == {s[i] : i \in DOMAIN s}

(* What a resource is used and given back through. *)
Through(r) ==
  CASE r = "stream" -> {"fd"}
    [] r = "network" -> {"model"}
    [] r = "outputs" -> {"network"}
    [] r = "nv12" \/ r = "rgb" -> {"group", "mpp_library"}
    [] r \in {"group", "config", "encoder"} -> {"mpp_library"}
    [] OTHER -> {}

-----------------------------------------------------------------------------
(* The configuration *)

Setups ==
  [video_capture : {"mock", "v4l2"}, audio_capture : {"mock", "alsa"},
   inference : {"mock", "rknn"}, video_encoder : {"checksum", "ffmpeg_video", "mpp"},
   audio_encoder : {"checksum", "ffmpeg_audio"},
   mjpeg : BOOLEAN, overlay : BOOLEAN]

NeedsDecoder == setup.mjpeg /\ setup.inference = "rknn"
NeedsEncodeDecoder ==
  setup.mjpeg /\ (setup.video_encoder # "checksum" \/ setup.overlay)

Kind(d) == IF d \in {"video_decoder", "video_encode_decoder"} THEN "jpeg" ELSE setup[d]

Wanted(d) ==
  CASE d = "video_decoder" -> NeedsDecoder
    [] d = "video_encode_decoder" -> NeedsEncodeDecoder
    [] OTHER -> TRUE

OpenOrder ==
  <<"video_capture", "video_decoder", "video_encode_decoder", "audio_capture",
    "inference", "video_encoder", "audio_encoder">>

(* Every device that fails to open has its own list of those to undo: the two
   decoders in the order they were opened, the rest backwards. *)
Rollback ==
  << <<>>,
     <<"video_capture">>,
     <<"video_decoder", "video_capture">>,
     <<"video_decoder", "video_encode_decoder", "video_capture">>,
     <<"audio_capture", "video_decoder", "video_encode_decoder", "video_capture">>,
     <<"inference", "audio_capture", "video_decoder", "video_encode_decoder", "video_capture">>,
     <<"video_encoder", "inference", "audio_capture", "video_decoder", "video_encode_decoder",
       "video_capture">> >>

StopOrderWithoutDecoders ==
  <<"video_capture", "audio_capture", "inference", "video_encoder", "audio_encoder">>
StopOrder ==
  <<"video_capture", "audio_capture", "inference", "video_decoder",
    "video_encode_decoder", "video_encoder", "audio_encoder">>

Init ==
  /\ setup \in Setups
  /\ phase = "opening" /\ device = 1 /\ step = 0
  /\ held = {} /\ plan = <<>>

-----------------------------------------------------------------------------
(* Opening *)

Current == OpenOrder[device]
Steps == IF Wanted(Current) THEN OpenSteps(Kind(Current)) ELSE <<>>

Acquire ==
  /\ phase = "opening" /\ step < Len(Steps)
  /\ LET r == Steps[step + 1]
     IN held' = IF r \in Elements(CloseOrder(Kind(Current)))
                THEN held \cup {<<Current, r>>} ELSE held
  /\ step' = step + 1
  /\ UNCHANGED <<setup, phase, device, plan>>

OpenNext ==
  /\ phase = "opening" /\ step = Len(Steps)
  /\ step' = 0
  /\ IF device < Len(OpenOrder) THEN device' = device + 1 /\ UNCHANGED phase
     ELSE phase' = "running" /\ UNCHANGED device
  /\ UNCHANGED <<setup, held, plan>>

(* The failed Open cleans up after itself, CreateAndOpenBackends closes what it
   had opened, and Start stops all workers, which closes everything again. *)
OpenFails ==
  /\ phase = "opening" /\ step < Len(Steps)
  /\ phase' = "stopping"
  /\ plan' = <<Current>> \o Rollback[device] \o StopOrder
  /\ UNCHANGED <<setup, device, step, held>>

-----------------------------------------------------------------------------
(* Running: what is acquired after Open *)

Open(d, kind) == phase = "running" /\ Kind(d) = kind

AlsaStarts ==
  /\ Open("audio_capture", "alsa")
  /\ held' = held \cup {<<"audio_capture", "stream">>}
  /\ UNCHANGED <<setup, phase, device, step, plan>>

RgbBuffer == <<"video_encoder", "rgb">>

(* Buffers that the encoder got and no longer points to: no Close knows of them. *)
Forgotten == <<"video_encoder", "forgotten">>

(* Encode gets a buffer for the frame, and puts it for a larger one when the stride
   grows. *)
MppGetsBuffer ==
  /\ Open("video_encoder", "mpp")
  /\ held' = held \cup {RgbBuffer}
  /\ UNCHANGED <<setup, phase, device, step, plan>>

(* It has put the old one when there is no other. *)
MppFindsNoBuffer ==
  /\ Open("video_encoder", "mpp")
  /\ held' = held \ {RgbBuffer}
  /\ UNCHANGED <<setup, phase, device, step, plan>>

(* It gets one that has no mapping, and overwrites its only pointer to it. *)
MppForgetsBuffer ==
  /\ Open("video_encoder", "mpp")
  /\ held' = (held \ {RgbBuffer}) \cup {Forgotten}
  /\ UNCHANGED <<setup, phase, device, step, plan>>

Outputs == <<"inference", "outputs">>

InferBegins ==
  /\ Open("inference", "rknn")
  /\ held' = held \cup {Outputs}
  /\ UNCHANGED <<setup, phase, device, step, plan>>

(* The lease gives the outputs back on every path out of Infer. *)
InferEnds ==
  /\ Outputs \in held
  /\ held' = held \ {Outputs}
  /\ UNCHANGED <<setup, phase, device, step, plan>>

-----------------------------------------------------------------------------
(* Closing *)

StopWorkers ==
  /\ phase = "running"
  /\ phase' = "stopping" /\ plan' = StopOrder
  /\ UNCHANGED <<setup, device, step, held>>

(* Close gives back what is left, the first in its order first.  The inference
   thread is joined before its engine is closed. *)
Release ==
  /\ phase = "stopping" /\ plan # <<>>
  /\ LET d     == Head(plan)
         order == CloseOrder(Kind(d))
     IN /\ d = "inference" => Outputs \notin held
        /\ \E i \in DOMAIN order :
             /\ <<d, order[i]>> \in held
             /\ \A j \in 1 .. i - 1 : <<d, order[j]>> \notin held
             /\ held' = held \ {<<d, order[i]>>}
  /\ UNCHANGED <<setup, phase, device, step, plan>>

Closed ==
  /\ phase = "stopping" /\ plan # <<>>
  /\ \A r \in Elements(CloseOrder(Kind(Head(plan)))) : <<Head(plan), r>> \notin held
  /\ plan' = Tail(plan)
  /\ UNCHANGED <<setup, phase, device, step, held>>

StopEnds ==
  /\ phase = "stopping" /\ plan = <<>>
  /\ Outputs \notin held
  /\ phase' = "stopped"
  /\ UNCHANGED <<setup, device, step, held, plan>>

Rest == phase = "stopped" /\ UNCHANGED backendVars

Next ==
  \/ Acquire \/ OpenNext \/ OpenFails
  \/ AlsaStarts \/ MppGetsBuffer \/ MppFindsNoBuffer \/ MppForgetsBuffer
  \/ InferBegins \/ InferEnds
  \/ StopWorkers \/ Release \/ Closed \/ StopEnds \/ Rest

Spec == Init /\ [][Next]_backendVars

-----------------------------------------------------------------------------
(* Properties *)

(* The type invariant. *)
TypeOK ==
  /\ setup \in Setups
  /\ phase \in {"opening", "running", "stopping", "stopped"}
  /\ device \in DOMAIN OpenOrder /\ step \in 0 .. Len(MppOpen)
  /\ \A h \in held : h[1] \in Elements(OpenOrder)

(* Whichever step of whichever Open failed, no resource is left behind but the
   buffers that the MPP encoder forgot when they had no mapping.  None that is known
   outlives what it is used and given back through: a mapping of a closed device, a
   buffer of a released group, a call into an unloaded library. *)
ResourcesAreReleased ==
  /\ phase = "stopped" => held \subseteq {Forgotten}
  /\ Forgotten \in held => setup.video_encoder = "mpp"
  /\ \A h \in held \ {Forgotten} : \A r \in Through(h[2]) : <<h[1], r>> \in held

=============================================================================
