---------------------------- MODULE VideoEncoder ----------------------------
(***************************************************************************)
(* FfmpegVideoEncoder and MppRgaVideoEncoder behind VideoEncodeLoop.       *)
(*                                                                         *)
(* A codec answers a frame with a packet that knows its presentation time  *)
(* only, after a delay of its own; both classes find the frame it came     *)
(* from in a table, sequences_by_pts.  FFmpeg writes the entry before the  *)
(* frame is sent and takes it out with the packet; MPP writes it after and *)
(* keeps it for as long as the encoder is open.                            *)
(*                                                                         *)
(* Frames are numbered as they are captured; those that the queue, the     *)
(* decoder or the overlay dropped never come.  A frame's time is modelled  *)
(* by its number: distinct frames have distinct times.                     *)
(***************************************************************************)
EXTENDS Integers, Sequences

CONSTANTS
  Delay,        \* frames the codec may hold back
  MaxFrames     \* bound: frames captured

EncoderAssumption == Delay \in Nat /\ MaxFrames \in Nat

VARIABLES
  backend,      \* "ffmpeg" or "mpp"
  loop,         \* where VideoEncodeLoop is
  cancelled,    \* its stop token was requested
  last,         \* the last frame taken; last_sequence in FFmpeg
  table,        \* sequences_by_pts: the frame of each time, or None
  codec,        \* times of the frames in the codec
  output,       \* packets the call in progress has received
  submitted,    \* history: packets given to the router
  sent,         \* history: times of the frames the codec took
  failed        \* a fatal error was reported

encoderVars == <<backend, loop, cancelled, last, table, codec, output, submitted, sent, failed>>

Times == 1 .. MaxFrames
None == -1

Init ==
  /\ backend \in {"ffmpeg", "mpp"}
  /\ loop = "popping" /\ cancelled = FALSE
  /\ last = 0
  /\ table = [t \in Times |-> None]
  /\ codec = <<>> /\ output = <<>> /\ submitted = <<>> /\ sent = <<>>
  /\ failed = FALSE

FrameOf(t) == t

-----------------------------------------------------------------------------
(* Encode *)

Fail ==
  /\ failed' = TRUE
  /\ output' = <<>>
  /\ loop' = IF cancelled THEN "done" ELSE "flushing"

Send(t) ==
  /\ loop = "popping" /\ ~cancelled
  /\ last < t
  /\ last' = t
  /\ table' = [table EXCEPT ![t] = FrameOf(t)]
  /\ codec' = Append(codec, t) /\ sent' = Append(sent, t)
  /\ loop' = "encoding"
  /\ UNCHANGED <<backend, cancelled, output, submitted, failed>>

(* The frame is invalid, cannot be converted or is refused: no entry is left. *)
SendFails(t) ==
  /\ loop = "popping" /\ ~cancelled
  /\ last < t
  /\ last' \in IF backend = "ffmpeg" THEN {last, t} ELSE {last}
  /\ Fail
  /\ UNCHANGED <<backend, cancelled, table, codec, submitted, sent>>

(* The frame of a packet: FFmpeg falls back to the last frame sent, MPP to it
   in Encode and to 0 in Flush. *)
SequenceForPts(t) ==
  IF table[t] # None THEN table[t]
  ELSE IF backend = "mpp" /\ loop = "flushing" THEN 0 ELSE FrameOf(last)

ForgetAll(t) == [s \in Times |-> None]
Forget(t) == [table EXCEPT ![t] = None]

Receive ==
  /\ loop \in {"encoding", "draining"} /\ codec # <<>>
  /\ LET t == Head(codec)
     IN /\ output' = Append(output, [pts |-> t, sequence |-> SequenceForPts(t)])
        /\ table' = IF backend = "ffmpeg" THEN Forget(t) ELSE table
  /\ codec' = Tail(codec)
  /\ UNCHANGED <<backend, loop, cancelled, last, submitted, sent, failed>>

(* The codec reports an error, or an empty packet: what this call had received
   goes with it. *)
ReceiveFails ==
  /\ loop = "encoding"
  /\ codec' \in {codec} \cup (IF codec = <<>> THEN {} ELSE {Tail(codec)})
  /\ Fail
  /\ UNCHANGED <<backend, cancelled, last, table, submitted, sent>>

EncodeReturns ==
  /\ loop = "encoding" /\ Len(codec) <= Delay
  /\ submitted' = submitted \o output /\ output' = <<>>
  /\ loop' = "popping"
  /\ UNCHANGED <<backend, cancelled, last, table, codec, sent, failed>>

-----------------------------------------------------------------------------
(* The end of the stream *)

(* The queue was closed and is empty, or an Abort cancelled the thread. *)
QueueEnds ==
  /\ loop = "popping"
  /\ loop' = IF cancelled THEN "done" ELSE "flushing"
  /\ UNCHANGED <<backend, cancelled, last, table, codec, output, submitted, sent, failed>>

Cancel ==
  /\ ~cancelled /\ loop # "done"
  /\ cancelled' = TRUE
  /\ UNCHANGED <<backend, loop, last, table, codec, output, submitted, sent, failed>>

SendEndOfStream ==
  /\ loop = "flushing"
  /\ loop' = "draining"
  /\ UNCHANGED <<backend, cancelled, last, table, codec, output, submitted, sent, failed>>

(* FFmpeg drains until the codec is empty, MPP until the packet that carries
   the end-of-stream mark. *)
FlushReturnsWhen(ended) ==
  /\ loop = "draining" /\ ended
  /\ submitted' = submitted \o output /\ output' = <<>>
  /\ loop' = "done"
  /\ UNCHANGED <<backend, cancelled, last, table, codec, sent, failed>>

FlushReturnsEarly == FlushReturnsWhen(Len(codec) <= Delay)
FlushReturns == FlushReturnsWhen(codec = <<>>)

(* The end-of-stream frame is refused, the codec fails, or MPP sends no end
   within two seconds: none of the packets received is kept. *)
FlushFails ==
  /\ loop \in {"flushing", "draining"}
  /\ failed' = TRUE
  /\ output' = <<>>
  /\ loop' = "done"
  /\ UNCHANGED <<backend, cancelled, last, table, codec, submitted, sent>>

Rest == loop = "done" /\ UNCHANGED encoderVars

Next ==
  \/ \E t \in Times : Send(t) \/ SendFails(t)
  \/ Receive \/ ReceiveFails \/ EncodeReturns
  \/ QueueEnds \/ Cancel \/ SendEndOfStream \/ FlushReturns \/ FlushFails \/ Rest

Spec == Init /\ [][Next]_encoderVars

-----------------------------------------------------------------------------
(* Properties *)

Packets == [pts : Times, sequence : Times \cup {0}]
Made == submitted \o output

(* The type invariant. *)
TypeOK ==
  /\ backend \in {"ffmpeg", "mpp"}
  /\ loop \in {"popping", "encoding", "flushing", "draining", "done"}
  /\ cancelled \in BOOLEAN /\ failed \in BOOLEAN
  /\ last \in 0 .. MaxFrames
  /\ table \in [Times -> Times \cup {None}]
  /\ codec \in Seq(Times) /\ sent \in Seq(Times)
  /\ output \in Seq(Packets) /\ submitted \in Seq(Packets)

(* A packet names the frame it was made of, however long the codec kept it and
   whichever call failed in between: every frame in the codec is in the table. *)
PacketsCarryTheirFrame ==
  /\ \A k \in DOMAIN Made : Made[k].sequence = FrameOf(Made[k].pts)
  /\ \A k \in DOMAIN codec : table[codec[k]] = FrameOf(codec[k])

(* A drain that reports no error has submitted one packet for each frame the
   codec took, in that order. *)
DrainDeliversFrames ==
  loop = "done" /\ ~cancelled /\ ~failed => [k \in DOMAIN submitted |-> submitted[k].pts] = sent

=============================================================================
