------------------------------ MODULE FileSink ------------------------------
(***************************************************************************)
(* The outputs that record to a file: H264ElementarySink and FfmpegMp4Sink *)
(* write to <path>.part and give it its final name only in Flush.          *)
(*                                                                         *)
(* The sink is driven as SinkWorker and AddSink drive it: Open, Writes     *)
(* until one fails or a stop comes, then Flush or not, then Close.  The    *)
(* process may be killed between any two steps; what reached the disk      *)
(* stays, and the next run of the process opens the same path.  A packet   *)
(* is counted; what the C++ stream or libavformat still buffers reaches    *)
(* the file at any moment, and at the latest in Flush or Close.            *)
(***************************************************************************)
EXTENDS Naturals

CONSTANTS
  MaxRuns,      \* bound: runs of the process
  MaxPackets    \* bound: packets written in a run

VARIABLES
  kind,         \* the sink CreatePacketSink made: "h264" or "mp4"
  owner,        \* what the thread that owns the sink does with it
  step,         \* where Flush is
  open,         \* open_ / open
  flushed,      \* flushed_ / finalized
  run,          \* number of this run of the process
  stream,       \* output_ / format->pb: "none", "good" or, for good, "bad"
  accepted,     \* history: packets Write has accepted, of each run
  part,         \* the file <path>.part
  final         \* the file <path>

fileVars == <<run, stream, accepted, part, final>>
vars == <<kind, owner, step, open, flushed, fileVars>>

Runs == 1 .. MaxRuns

(* A file is what it holds on disk: the run that wrote it, how many of its
   packets, and whether its end (trailer, last buffer) was written. *)
File(r, n, whole) == [run |-> r, packets |-> n, whole |-> whole]
Absent == File(0, 0, FALSE)

Init ==
  /\ kind \in {"h264", "mp4"}
  /\ owner = "new"
  /\ step = "idle"
  /\ open = FALSE
  /\ flushed = FALSE
  /\ run = 1
  /\ stream = "none"
  /\ accepted = [r \in Runs |-> 0]
  /\ part = Absent
  /\ final = Absent

-----------------------------------------------------------------------------
(* Open *)

(* The H.264 sink refuses a path that has evidence on it, whole or partial; the
   MP4 sink truncates a .part that is left over and replaces a final file. *)
PathIsFreeOfParts == kind = "h264" => part = Absent
PathIsFree == kind = "h264" => part = Absent /\ final = Absent

Open ==
  /\ owner = "new"
  /\ PathIsFree
  /\ part' = File(run, 0, FALSE)
  /\ stream' = "good"
  /\ open' = TRUE
  /\ flushed' = FALSE
  /\ owner' = "serving"
  /\ UNCHANGED <<kind, step, run, accepted, final>>

OpenRefused ==
  /\ owner = "new"
  /\ ~PathIsFree
  /\ owner' = "gone"
  /\ UNCHANGED <<kind, step, open, flushed, fileVars>>

(* No directory, no file; or, for MP4, no header in a file already truncated. *)
OpenFails ==
  /\ owner = "new"
  /\ PathIsFree
  /\ part' \in {part} \cup (IF kind = "mp4" THEN {File(run, 0, FALSE)} ELSE {})
  /\ owner' = "gone"
  /\ UNCHANGED <<kind, step, open, flushed, run, stream, accepted, final>>

-----------------------------------------------------------------------------
(* Write *)

Writable == owner = "serving" /\ open /\ ~flushed

(* How much of n packets may be on disk. *)
OnDisk(n) == {File(part.run, k, part.whole) : k \in part.packets .. n}

WriteSucceeds ==
  /\ Writable
  /\ stream = "good"
  /\ accepted[run] < MaxPackets
  /\ accepted' = [accepted EXCEPT ![run] = @ + 1]
  /\ part' \in OnDisk(accepted[run] + 1)
  /\ UNCHANGED <<kind, owner, step, open, flushed, run, stream, final>>

(* An injected fault, an invalid packet, a DTS that moved backwards: nothing is
   written, and the sink thread leaves its loop. *)
WriteRejected ==
  /\ Writable
  /\ owner' = "failed"
  /\ UNCHANGED <<kind, step, open, flushed, fileVars>>

(* The stream failed; it stays failed, in C++ (badbit) as in libavformat
   (pb->error), also for packets that were accepted and still buffered. *)
WriteFails ==
  /\ Writable
  /\ stream' = "bad"
  /\ part' \in OnDisk(accepted[run])
  /\ owner' = "failed"
  /\ UNCHANGED <<kind, step, open, flushed, run, accepted, final>>

(* The sink thread leaves its loop; whether it calls Flush is the router's. *)
StopWriting ==
  /\ owner \in {"serving", "failed"}
  /\ owner' \in {"flushing", "closing"}
  /\ UNCHANGED <<kind, step, open, flushed, fileVars>>

-----------------------------------------------------------------------------
(* Flush *)

MayFinalize == open /\ (kind = "mp4" => ~flushed)

FinishDespiteFailure ==
  /\ owner = "flushing" /\ step = "idle"
  /\ MayFinalize
  /\ part' \in IF stream = "good" THEN {File(part.run, accepted[run], TRUE)}
               ELSE {File(part.run, part.packets, TRUE)}
  /\ step' = "closing"
  /\ UNCHANGED <<kind, owner, open, flushed, run, stream, accepted, final>>

(* output_.flush(), or av_write_trailer, succeeds. *)
FinishFile ==
  /\ owner = "flushing" /\ step = "idle"
  /\ MayFinalize
  /\ stream = "good"
  /\ part' = File(part.run, accepted[run], TRUE)
  /\ step' = "closing"
  /\ UNCHANGED <<kind, owner, open, flushed, run, stream, accepted, final>>

(* It fails, as it must on a failed stream: Flush returns and nothing is
   published. *)
FinishFails ==
  /\ owner = "flushing" /\ step = "idle"
  /\ MayFinalize
  /\ stream' = "bad"
  /\ part' \in OnDisk(accepted[run])
  /\ owner' = "closing"
  /\ UNCHANGED <<kind, step, open, flushed, run, accepted, final>>

CloseStream ==
  /\ step = "closing"
  /\ stream' = "none"
  /\ step' = "renaming"
  /\ UNCHANGED <<kind, owner, open, flushed, run, accepted, part, final>>

(* Only the MP4 sink looks at the result of the close. *)
CloseStreamFails ==
  /\ step = "closing" /\ kind = "mp4"
  /\ stream' = "none"
  /\ step' = "idle"
  /\ owner' = "closing"
  /\ UNCHANGED <<kind, open, flushed, run, accepted, part, final>>

Publish ==
  /\ step = "renaming"
  /\ final' = part
  /\ part' = Absent
  /\ flushed' = TRUE
  /\ step' = "idle"
  /\ owner' = "closing"
  /\ UNCHANGED <<kind, open, run, stream, accepted>>

PublishFails ==
  /\ step = "renaming"
  /\ step' = "idle"
  /\ owner' = "closing"
  /\ UNCHANGED <<kind, open, flushed, fileVars>>

-----------------------------------------------------------------------------
(* Close, and the end of the process *)

(* Closing a stream that is still good writes what it buffers. *)
Close ==
  /\ owner = "closing"
  /\ part' \in IF stream = "good" THEN {File(part.run, accepted[run], part.whole)} ELSE {part}
  /\ stream' = "none"
  /\ open' = FALSE
  /\ owner' = "gone"
  /\ UNCHANGED <<kind, step, flushed, run, accepted, final>>

(* The process is killed: its memory goes, the two files stay. *)
Crash ==
  /\ owner # "gone"
  /\ owner' = "gone"
  /\ step' = "idle"
  /\ open' = FALSE
  /\ stream' = "none"
  /\ UNCHANGED <<kind, flushed, run, accepted, part, final>>

Restart ==
  /\ owner = "gone" /\ run < MaxRuns
  /\ run' = run + 1
  /\ owner' = "new"
  /\ flushed' = FALSE
  /\ UNCHANGED <<kind, step, open, stream, accepted, part, final>>

(* Between two runs somebody removes a left-over or takes the recording away. *)
Tidy ==
  /\ owner = "gone"
  /\ \/ part # Absent /\ part' = Absent /\ UNCHANGED final
     \/ final # Absent /\ final' = Absent /\ UNCHANGED part
  /\ UNCHANGED <<kind, owner, step, open, flushed, run, stream, accepted>>

Rest == owner = "gone" /\ UNCHANGED vars

-----------------------------------------------------------------------------

WriteStep == WriteSucceeds \/ WriteRejected \/ WriteFails
FlushStep ==
  FinishFile \/ FinishFails \/ CloseStream \/ CloseStreamFails \/ Publish \/ PublishFails

Next ==
  \/ Open \/ OpenRefused \/ OpenFails
  \/ WriteStep
  \/ StopWriting
  \/ FlushStep
  \/ Close
  \/ Crash \/ Restart \/ Tidy \/ Rest

Spec == Init /\ [][Next]_vars

-----------------------------------------------------------------------------
(* Properties *)

Files == [run : Nat, packets : Nat, whole : BOOLEAN]

(* The type invariant. *)
TypeOK ==
  /\ kind \in {"h264", "mp4"}
  /\ owner \in {"new", "serving", "failed", "flushing", "closing", "gone"}
  /\ step \in {"idle", "closing", "renaming"}
  /\ open \in BOOLEAN
  /\ flushed \in BOOLEAN
  /\ run \in Runs
  /\ stream \in {"none", "good", "bad"}
  /\ accepted \in [Runs -> Nat]
  /\ part \in Files
  /\ final \in Files

(* What has the final name is whole: it ends as it must and holds every packet
   that Write accepted in the run that published it, whatever failed or was
   killed in that run or in a later one. *)
PublishedIsWhole ==
  final # Absent => final.whole /\ final.packets = accepted[final.run]

(* The program never destroys a recording: the H.264 sink leaves a final file
   alone, and the MP4 sink replaces one only by the whole recording of a later
   run.  (Tidy is not the program.) *)
RecordingIsKept ==
  [][final # Absent /\ owner # "gone" =>
       final' = final \/ (kind = "mp4" /\ final'.whole /\ final'.run > final.run)]_final

=============================================================================
