------------------------------- MODULE Sinks --------------------------------
(***************************************************************************)
(* The outputs behind IPacketSink: CreatePacketSink picks the kind, and    *)
(* the same thread drives any of them through Open, Write, Flush and Close.*)
(***************************************************************************)
EXTENDS Naturals

CONSTANTS
  Interval,     \* ticks in reconnect_interval_ms
  MaxRuns,      \* bound: runs of the process
  MaxPackets    \* bound: packets written to a file in a run

ASSUME SinksAssumption ==
  Interval \in Nat \ {0} /\ MaxRuns \in Nat \ {0} /\ MaxPackets \in Nat

VARIABLES
  kind, owner, step, open, flushed,                               \* of every sink
  run, stream, accepted, part, final,                             \* FileSink
  required, reconnect, connected, session, linked, server, wait,  \* RtspSink
  since, verdict, misuse

File == INSTANCE FileSink
Rtsp == INSTANCE RtspSink

fileVars == <<run, stream, accepted, part, final>>
rtspVars ==
  <<required, reconnect, connected, session, linked, server, wait, since, verdict, misuse>>
vars == <<kind, owner, step, open, flushed, fileVars, rtspVars>>

IsFile == kind \in {"h264", "mp4"}

(* The state of the kind that was not made keeps its first value. *)
NoFile ==
  /\ run = 1 /\ stream = "none" /\ accepted = [r \in 1 .. MaxRuns |-> 0]
  /\ part = File!Absent /\ final = File!Absent

NoSession ==
  /\ required = FALSE /\ reconnect = FALSE /\ connected = FALSE /\ session = "none"
  /\ linked = FALSE /\ server = "up" /\ wait = 0 /\ since = Interval
  /\ verdict = "none" /\ misuse = "none"

CreatePacketSink == (File!Init /\ NoSession) \/ (Rtsp!Init /\ NoFile)

Next ==
  \/ IsFile /\ File!Next /\ UNCHANGED rtspVars
  \/ ~IsFile /\ Rtsp!Next /\ UNCHANGED fileVars

Spec == CreatePacketSink /\ [][Next]_vars

-----------------------------------------------------------------------------
(* Properties *)

(* The type invariant. *)
TypeOK == IF IsFile THEN File!TypeOK ELSE Rtsp!TypeOK

(* What has the final name is whole, whatever failed or was killed. *)
PublishedIsWhole == File!PublishedIsWhole

(* The program never destroys a recording. *)
RecordingIsKept == File!RecordingIsKept

(* An RTSP session is freed only after a trailer was tried, and a second one is tried
   only by a Flush whose first one failed. *)
SessionsAreReleased == Rtsp!SessionsAreReleased

(* A reconnecting output waits a full interval after every network failure. *)
ReconnectsAreSpaced == Rtsp!ReconnectsAreSpaced

(* Once the server stays up, the output is in a session that it knows, and stays. *)
Reconnects == Rtsp!Reconnects

=============================================================================
